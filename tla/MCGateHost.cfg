SPECIFICATION Spec
CONSTANTS
    Requests = {r1, r2}
    Earlier = {}
    Processes = {p1, p2}
    Tenants = {t1}
    Keys = {k1}
    TenantOf <- OneTenant
    Users = {u1}
    RoleOf <- Viewers
    Addresses = {a1}
    None = None
    TenantLimit = 1
    LoginLimit = 2
    Window = 2
    MaxClock = 2
    MayRaise = FALSE
INVARIANTS
    HostBeforeProcessing
