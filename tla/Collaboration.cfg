SPECIFICATION Spec
CONSTANTS
  Registrants = {e1}
  Phones = {p1}
  Requests = {r1, r2}
  GivenRoles = {"admin"}
  MaxCalls = 3
  MaxFaults = 1
  NoAccount = NoAccount
SYMMETRY Symmetries
INVARIANTS RolesAgree RoleDuringRequest AdminsNeedAFounder RolesTraceable AssigneeNotified
PROPERTY PromotionsGranted
CHECK_DEADLOCK FALSE
