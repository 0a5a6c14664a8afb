SPECIFICATION FairSpec
CONSTANTS
    c1 = c1
    c2 = c2
    c3 = c3
    u1 = u1
    u2 = u2
    t1 = t1
    api = api
    worker = worker
    Clients = {c1, c2}
    Users = {u1, u2}
    Tenants = {t1}
    TenantOf <- MCTenantOf
    UserOf <- MCUserOf
    Producers = {api, worker}
    Workers = {worker}
    Cap = 1
    Typists = {c1}
    NoTenant = NoTenant
    NoClient = NoClient
INVARIANTS TypeOK PresenceExact ConnectionLifecycle
PROPERTIES PresencePromised PumpsEndTogether
