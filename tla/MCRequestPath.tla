--------------------------- MODULE MCRequestPath ---------------------------
(* The constants that relate users with tenants and roles. *)
EXTENDS RequestPath

CONSTANTS u1, a1, t1, t2

MCTenantOf == [u \in Users |-> t1]
MCRoleOf == [u \in Users |-> "member"]
============================================================================
