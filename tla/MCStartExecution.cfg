SPECIFICATION SpecAfterEarlier
CONSTANTS
    Executions = {r0, r1, r2, r3}
    Earlier = {r0}
    Agents <- PlanAgents
    DependsOn <- PlanDependsOn
    Projects = {p1}
    ProjectOf <- OneProject
    Contents = {c1}
    Backend = "postgres"
    Keys = {"plain", "kaiso_whatsapp_incident", "health_check"}
    ScenarioOf <- Scenario
    GivenInputs <- CompleteOrNot
    Window = 1
    Limit = 2
    MaxClock = 2
    RequestFaults = TRUE
SYMMETRY Symmetry
INVARIANTS
    TypeOK
    QueueBacked
    DuplicateOnlyByRaceOrLimit
    ReuseIsFresh
    ReusedFlagOnlyMissesRaces
