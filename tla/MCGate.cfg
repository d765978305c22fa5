SPECIFICATION SpecAtTheLimit
CONSTANTS
    Requests = {r1, r2, r3, e1, e2}
    Earlier = {e1, e2}
    Processes = {p1, p2}
    Tenants = {t1}
    Keys = {k1}
    TenantOf <- OneTenant
    Users = {u1}
    RoleOf <- Viewers
    Addresses = {a1}
    None = None
    TenantLimit = 1
    LoginLimit = 2
    Window = 2
    MaxClock = 2
    MayRaise = TRUE
SYMMETRY Symmetry
INVARIANTS
    TypeOK
    TenantWithinLimit
    CounterEnds
    LoginWithinWindow
    RefusedOnlyIfBusy
    NoUseAfterLogout
