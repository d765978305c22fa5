SPECIFICATION FairSpec
CONSTANTS
    Executions = {e1}
    Agents <- ChainAgents
    DependsOn <- ChainDependsOn
    Projects = {p1}
    ProjectOf <- OneProject
    Contents <- Summaries
    Backend = "postgres"
    Workers = {w1, w2}
    None = None
    MaxHandoffs = 2
    MaxSteps = 1
    MaxToolCalls = 2
    MaxDurationMs = 120000
    Elapsed <- WithinTheLimit
    UnpackedNames = 9
    RepositoryCount = 9
    Faults = {"crash", "raise", "expire"}
    MaxDeliveries = 2
INVARIANTS
    MutualExclusion
    NoLockLeak
    DecisionsTellBudget
PROPERTIES
    LocksAreReleased
