SPECIFICATION PortalFairSpec
CONSTANTS
    e1 = e1
    e2 = e2
    u1 = u1
    u2 = u2
    Sessions = {s1, s2}
    Executions = {e1, e2}
    Handlers = {h1, h2}
    None = None
    MayFail = TRUE
    MayReload = TRUE
    Visited = {"landing", "workspace"}
    StoredUsers = {u1}
    SeedUsers = {u2}
    RoleOf <- Roles
    ScenarioOf <- Started
    Worlds = {"any", "api", "api_lossy", "api_keyless"}
INVARIANTS
    PortalTypeOK
    ScreenBelongsToSession
    TimelineOfSelection
    ScreenWasServed
PROPERTIES
    EndsByItsLogout
    EveryErrorHasCause
    LoadingEnds
