CONSTANTS
    Tenants = {t1, t2}
    Keys = {k1}
    MaxId = 2
    Requests = {r1, r2}
    Admins = {a1, a2}
    TTL = 1
    MaxTime = 3
    MaxRestarts = 1
    MaxCalls = 4
    NoTenant = NoTenant
    NoEntry = NoEntry
SPECIFICATION Spec
SYMMETRY Symmetries
INVARIANTS TypeOK UsageOwned RouteFresh DefaultKept
CHECK_DEADLOCK FALSE
