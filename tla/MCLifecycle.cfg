SPECIFICATION LifeFairSpec
CONSTANTS
    Executions = {r1, r2}
    Agents <- PairAgents
    DependsOn <- PairDependsOn
    Projects = {p1}
    ProjectOf <- OneProject
    Contents <- Summaries
    Backend = "postgres"
    Keys = {"kaiso_whatsapp_incident"}
    ScenarioOf <- Scenario
    GivenInputs <- CompleteOrNot
    Window = 1
    Limit = 200
    MaxClock = 0
    RequestFaults = TRUE
    Workers = {w1, w2}
    None = None
    MaxHandoffs = 1
    MaxSteps = 25
    MaxToolCalls = 50
    MaxDurationMs = 120000
    Elapsed <- AtTheLimit
    UnpackedNames = 9
    RepositoryCount = 9
    Faults = {}
    MaxDeliveries = 1
INVARIANTS
    QueuedForeverOnlyByFault
    TimelineMatchesStatus
    DecisionsMatchCompletions
PROPERTIES
    FulfilsPromise
    EveryAnswerSettles
