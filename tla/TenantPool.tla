----------------------------- MODULE TenantPool -----------------------------
(***************************************************************************)
(* WithTenantConn of backend/internal/db/db.go, through which every        *)
(* statement of the server runs.  Row-level security compares tenant_id    *)
(* with the setting app.tenant_id of the database session, so the setting  *)
(* of a pooled connection decides whose rows a statement sees.  The error  *)
(* of RESET is ignored: a connection may go back to the pool with the      *)
(* setting of its last user.                                               *)
(***************************************************************************)
CONSTANTS Conns, Tenants,
          Calls,   \* goroutines that call WithTenantConn
          NoConn, NoTenant

ASSUME PoolAssumption == NoConn \notin Conns /\ NoTenant \notin Tenants

VARIABLES setting,  \* app.tenant_id of each connection's session
          call      \* the WithTenantConn each goroutine is in

poolVars == <<setting, call>>

Outside == [pc |-> "idle", tenant |-> NoTenant, conn |-> NoConn]

PoolInit ==
    /\ setting = [c \in Conns |-> NoTenant]
    /\ call = [r \in Calls |-> Outside]

\* The pool lends a connection to one goroutine at a time.
Free(c) == \A r \in Calls : call[r].conn # c
----------------------------------------------------------------------------
\* Acquire waits for a connection; when the context ends first nothing happens.
Acquire(r, t, c) ==
    /\ call[r].pc = "idle"
    /\ Free(c)
    /\ call' = [call EXCEPT ![r] = [pc |-> "set", tenant |-> t, conn |-> c]]
    /\ UNCHANGED setting

\* Mutant: SET is skipped on a connection that has a tenant.
SetTenantOnce(r) ==
    /\ call[r].pc = "set"
    /\ setting' = [setting EXCEPT ![call[r].conn] = IF @ = NoTenant THEN call[r].tenant ELSE @]
    /\ call' = [call EXCEPT ![r].pc = "run"]

\* SET app.tenant_id; fn runs next.
SetTenant(r) ==
    /\ call[r].pc = "set"
    /\ setting' = [setting EXCEPT ![call[r].conn] = call[r].tenant]
    /\ call' = [call EXCEPT ![r].pc = "run"]

\* SET fails, carried out or not, or the connection broke and a new one takes
\* its place; fn does not run.
SetFails(r) ==
    /\ call[r].pc = "set"
    /\ \E s \in {setting[call[r].conn], call[r].tenant, NoTenant} :
          setting' = [setting EXCEPT ![call[r].conn] = s]
    /\ call' = [call EXCEPT ![r].pc = "release"]

\* Mutant: a failed RESET leaves the connection in the hands of the goroutine.
ResetLeaks(r) ==
    /\ call[r].pc = "run"
    /\ \/ /\ setting' = [setting EXCEPT ![call[r].conn] = NoTenant]
          /\ call' = [call EXCEPT ![r].pc = "release"]
       \/ /\ call' = [call EXCEPT ![r].pc = "leaked"]
          /\ UNCHANGED setting

\* fn returned or panicked: the deferred RESET, whose failure is ignored.
Reset(r) ==
    /\ call[r].pc = "run"
    /\ \E s \in {setting[call[r].conn], NoTenant} :
          setting' = [setting EXCEPT ![call[r].conn] = s]
    /\ call' = [call EXCEPT ![r].pc = "release"]

\* The deferred Release, after the RESET.
Release(r) ==
    /\ call[r].pc = "release"
    /\ call' = [call EXCEPT ![r] = Outside]
    /\ UNCHANGED setting

PoolNext ==
    \/ \E r \in Calls, t \in Tenants, c \in Conns : Acquire(r, t, c)
    \/ \E r \in Calls : SetTenant(r) \/ SetFails(r) \/ Reset(r) \/ Release(r)

PoolSpec == PoolInit /\ [][PoolNext]_poolVars

----------------------------------------------------------------------------
PoolTypeOK ==
    /\ setting \in [Conns -> Tenants \cup {NoTenant}]
    /\ call \in [Calls -> [pc : {"idle", "set", "run", "release"}, tenant : Tenants \cup {NoTenant},
                           conn : Conns \cup {NoConn}]]

\* While fn runs, the session of its connection has the caller's tenant: no
\* statement sees another tenant's rows, whichever SETs and RESETs failed before
\* on that connection and whoever used it.
Isolation ==
    \A r \in Calls : call[r].pc = "run" => setting[call[r].conn] = call[r].tenant
============================================================================
