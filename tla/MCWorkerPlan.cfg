SPECIFICATION Spec
CONSTANTS
    Executions = {e1}
    Agents <- PlanAgents
    DependsOn <- PlanDependsOn
    Projects = {p1}
    ProjectOf <- OneProject
    Contents <- Summaries
    Backend = "postgres"
    Workers = {w1, w2}
    None = None
    MaxHandoffs = 3
    MaxSteps = 25
    MaxToolCalls = 50
    MaxDurationMs = 120000
    Elapsed <- AtTheLimit
    UnpackedNames = 9
    RepositoryCount = 9
    Faults = {"crash", "raise"}
    MaxDeliveries = 2
SYMMETRY Symmetry
INVARIANTS
    TypeOK
    NeverReached
    StrandedOnlyByCrash
PROPERTIES
    DependenciesFirst
    FinalStatusHolds
    KeepsPromise
