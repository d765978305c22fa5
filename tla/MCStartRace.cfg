SPECIFICATION Spec
CONSTANTS
    Executions = {r1, r2}
    Earlier = {}
    Agents <- PlanAgents
    DependsOn <- PlanDependsOn
    Projects = {p1}
    ProjectOf <- OneProject
    Contents = {c1}
    Backend = "postgres"
    Keys = {"plain"}
    ScenarioOf <- Scenario
    GivenInputs <- CompleteOrNot
    Window = 1
    Limit = 200
    MaxClock = 0
    RequestFaults = FALSE
SYMMETRY Symmetry
INVARIANT IdempotentWithinWindow
