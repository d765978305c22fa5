SPECIFICATION FairSpec
CONSTANTS
    Callers = {c1, c2}
    Projects = {p1}
    Tools <- MCTools
    AllowedTools <- MCAllowedTools
    Registered <- MCRegistered
    NoRequest = NoRequest
    Attempts <- MCAttempts
    ProjectLimit = 1
    ToolLimit = 1
    MayBreakOff = TRUE
    MaxCalls = 1
INVARIANTS
    WithinLimits
    Expiring
PROPERTIES
    WindowsEnd
