SPECIFICATION FairSpec
CONSTANTS
    Executions = {e1}
    Agents <- ChainAgents
    DependsOn <- ChainDependsOn
    Projects = {p1}
    ProjectOf <- OneProject
    Contents <- Summaries
    Backend = "postgres"
    Workers = {w1, w2}
    None = None
    MaxHandoffs = 2
    MaxSteps = 25
    MaxToolCalls = 50
    MaxDurationMs = 120000
    Elapsed <- AtTheLimit
    UnpackedNames = 8
    RepositoryCount = 9
    Faults = {}
    MaxDeliveries = 1
PROPERTY EventuallySettled
