CONSTANTS
    Tenants = {t1, t2}
    Keys = {k1}
    MaxId = 2
    Requests = {r1}
    Admins = {a1}
    TTL = 1
    MaxTime = 1
    MaxRestarts = 0
    MaxCalls = 4
    NoTenant = NoTenant
    NoEntry = NoEntry
SPECIFICATION Spec
SYMMETRY Symmetries
INVARIANT ConfiguredPerTenant
CHECK_DEADLOCK FALSE
