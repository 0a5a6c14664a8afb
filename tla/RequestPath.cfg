SPECIFICATION FairSpec
CONSTANTS
  u1 = u1
  a1 = a1
  t1 = t1
  t2 = t2
  Users = {u1}
  Addresses = {a1}
  Keys = {u1, a1}
  NoKey = NoKey
  Limit = 2
  Window = 1
  MaxTime = 4
  MaxAdmits = 5
  Conns = {k1}
  Tenants = {t1, t2}
  Calls = {r1, r2}
  NoConn = NoConn
  NoTenant = NoTenant
  TenantOf <- MCTenantOf
  RoleOf <- MCRoleOf
INVARIANTS TypeOK TwiceLimit DenyJustified Isolation  DocumentedServed
PROPERTIES Advances Answered
CHECK_DEADLOCK FALSE
