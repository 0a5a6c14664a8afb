---------------------------- MODULE RequestPath ----------------------------
(***************************************************************************)
(* What a request goes through: ServeHTTP of                               *)
(* backend/internal/router/router.go with the middleware in its order      *)
(* (token, rate limit, CSRF token, role), and the database connection that *)
(* the role check, its audit row and the handler each take and give back   *)
(* (WithTenantConn).  It composes RateLimiter, TenantPool and Routes.      *)
(*                                                                         *)
(* The token, the limiter and the CSRF token are one step: of them only    *)
(* Allow touches shared state, under its mutex.  A handler is one          *)
(* WithTenantConn here; its other ones are alike.  HandleCORS answers      *)
(* OPTIONS before anything else.  Roles do not change in this module       *)
(* (TeamRoles changes them).                                               *)
(***************************************************************************)
EXTENDS RateLimiter, TenantPool, Routes, FiniteSetsExt

CONSTANTS Users,     \* signed-in users; the limiter's key is the user
          Addresses, \* clients without a token; the key is the address
          TenantOf,  \* the tenant in a user's token
          RoleOf,    \* a user's row in users_extended
          MaxAdmits  \* bound: requests that the limiter lets through

ASSUME RequestAssumption ==
    /\ Keys = Users \cup Addresses
    /\ Users \cap Addresses = {}
    /\ TenantOf \in [Users -> Tenants]
    /\ RoleOf \in [Users -> {"owner", "admin", "manager", "member", "viewer"}]
    /\ MaxAdmits \in Nat

VARIABLE gate  \* how far each request is, and what is known of it

vars == <<limiterVars, poolVars, gate>>

\* The routes that README.md lists under "API Endpoints".
Documented ==
    {<< <<"dashboard">>, "GET">>, << <<"conversations">>, "GET">>,
     << <<"conversations", "id", "messages">>, "GET">>, << <<"messages", "reply">>, "POST">>,
     << <<"messages", "forward">>, "POST">>, << <<"important-messages">>, "GET">>,
     << <<"daily-summary">>, "GET">>, << <<"auth", "login">>, "POST">>,
     << <<"auth", "register">>, "POST">>, << <<"auth", "me">>, "GET">>,
     << <<"llm", "providers", "comparison">>, "GET">>, << <<"llm", "providers", "id", "history">>, "GET">>,
     << <<"llm", "providers", "id", "test">>, "POST">>, << <<"messages", "analyze">>, "POST">>,
     << <<"messages", "batch-analyze">>, "POST">>, << <<"conversations", "summarize">>, "POST">>,
     << <<"llm", "usage">>, "GET">>, << <<"llm", "costs">>, "GET">>, << <<"llm", "health">>, "GET">>,
     << <<"llm", "features">>, "GET">>, << <<"llm", "features", "other", "assign-provider">>, "POST">>,
     << <<"llm", "features", "other", "providers">>, "GET">>,
     << <<"llm", "features", "other", "providers", "id">>, "DELETE">>,
     << <<"llm", "analytics", "cost-breakdown">>, "GET">>,
     << <<"llm", "analytics", "usage-by-feature">>, "GET">>, << <<"llm", "bulk-test">>, "POST">>,
     << <<"llm", "recommendations">>, "GET">>, << <<"team", "users", "id", "role">>, "PATCH">>,
     << <<"team", "users", "id">>, "DELETE">>, << <<"team", "invitations">>, "POST">>,
     << <<"team", "activity">>, "GET">>, << <<"workflows", "id", "test">>, "POST">>,
     << <<"workflows", "id", "executions">>, "GET">>, << <<"integrations", "other">>, "POST">>,
     << <<"integrations">>, "GET">>, << <<"integrations", "id", "config">>, "GET">>,
     << <<"integrations", "id">>, "DELETE">>, << <<"webhooks", "incoming">>, "POST">>,
     << <<"audit-logs">>, "POST">>, << <<"notifications">>, "POST">>,
     << <<"notifications", "id">>, "PATCH">>, << <<"labels">>, "POST">>,
     << <<"messages", "id", "labels">>, "POST">>, << <<"comments", "id">>, "DELETE">>}
    \cup {<<"action-items">>, <<"llm", "providers">>, <<"team", "users">>, <<"workflows">>} \X {"GET", "POST"}
    \cup {<<"action-items", "id">>, <<"llm", "providers", "id">>, <<"workflows", "id">>} \X {"PATCH", "DELETE"}
    \cup {<< <<"llm", "providers", "id">>, "GET">>}
    \cup {<<"action-items", "id", "comments">>} \X {"GET", "POST"}

\* The requests that arrive: those, and one that nothing answers.
Requested == Documented \cup {<< <<"conversations", "id">>, "GET">>}

\* All that the steps below ask of a request's path and method.
KindOf(path, method) ==
    [token |-> requiresAuth(path), csrf |-> requiresAuth(path) /\ method \in csrfMethods,
     role |-> RequiredRole(path, method), served |-> Dispatch(path, method) # "none",
     documented |-> <<path, method>> \in Documented]
Kinds == {KindOf(route[1], route[2]) : route \in Requested}

NoRequest == [pc |-> "idle", served |-> TRUE, documented |-> FALSE, key |-> NoKey, tenant |-> NoTenant,
              entitled |-> TRUE, allowed |-> TRUE]

Init ==
    /\ LimiterInit
    /\ PoolInit
    /\ gate = [r \in Calls |-> NoRequest]

Answer(r) == gate' = [gate EXCEPT ![r] = NoRequest]
----------------------------------------------------------------------------
Admits == MapThenSumSet(LAMBDA k : cum[k][MaxTime], Keys)

\* A user with a token, counted as the user, or anyone where no token is asked
\* for, counted as the address and with any X-Tenant-ID.
Callers(kind) ==
    IF kind.token THEN {<<u, TenantOf[u]>> : u \in Users} ELSE Addresses \X Tenants

\* Let through, and refused all the same when the CSRF token is not the user's.
\* Without a required role the handler is next.  What Authorize answers depends
\* on the role: entitled with the user's row, allowed as a viewer so far.
Pass(r, kind, caller, csrf) ==
    /\ Admits < MaxAdmits
    /\ AllowFirst(caller[1]) \/ AllowCounted(caller[1])
    /\ IF kind.csrf /\ ~csrf THEN UNCHANGED gate
       ELSE gate' = [gate EXCEPT ![r] =
                        [pc |-> IF kind.role = "" THEN "handle" ELSE "role",
                         served |-> kind.served, documented |-> kind.documented,
                         key |-> caller[1], tenant |-> caller[2],
                         entitled |-> kind.role = "" \/ MayUse(RoleOf[caller[1]], kind.role),
                         allowed |-> MayUse("viewer", kind.role)]]

\* A request arrives: no token or an invalid one is a 401 that changes nothing,
\* Deny is a 429.
Arrive(r, kind, csrf) ==
    /\ gate[r].pc = "idle"
    /\ \E caller \in Callers(kind) :
          Pass(r, kind, caller, csrf) \/ (Deny(caller[1]) /\ UNCHANGED gate)
    /\ UNCHANGED poolVars

\* Mutant: getUserRole is tried again while the role falls short.
AdvanceRetries(r) ==
    LET g == gate[r] IN
    IF g.pc = "role" THEN gate' = [gate EXCEPT ![r].pc = "audit"]
    ELSE IF g.pc = "audit" /\ ~g.allowed THEN gate' = [gate EXCEPT ![r].pc = "role"]
    ELSE IF g.pc = "audit" /\ g.served
    THEN gate' = [gate EXCEPT ![r].pc = "handle"]
    ELSE Answer(r)

\* Behind WithTenantConn: getUserRole is followed by the audit row of the check,
\* whether that was written or not, then comes the answer 403 or 404, or the
\* handler, which answers.
Advance(r) ==
    LET g == gate[r] IN
    IF g.pc = "role" THEN gate' = [gate EXCEPT ![r].pc = "audit"]
    ELSE IF g.pc = "audit" /\ g.allowed /\ g.served
    THEN gate' = [gate EXCEPT ![r].pc = "handle"]
    ELSE Answer(r)

Connect(r) ==
    /\ gate[r].pc # "idle"
    /\ \E c \in Conns : Acquire(r, gate[r].tenant, c)
    /\ UNCHANGED <<limiterVars, gate>>

\* The context ends before a connection is free.
ConnectFails(r) ==
    /\ gate[r].pc # "idle" /\ call[r].pc = "idle"
    /\ \A c \in Conns : ~Free(c)
    /\ Advance(r)
    /\ UNCHANGED <<limiterVars, poolVars>>

SetUp(r) == (SetTenant(r) \/ SetFails(r)) /\ UNCHANGED <<limiterVars, gate>>

\* Mutant: a role that cannot be read counts as the one that is asked for.
RunOpen(r) ==
    /\ Reset(r)
    /\ gate' = IF gate[r].pc = "role" THEN [gate EXCEPT ![r].allowed = TRUE] ELSE gate
    /\ UNCHANGED limiterVars

\* The statements, then the RESET.  A role that cannot be read counts as viewer.
Run(r) ==
    /\ Reset(r)
    /\ \/ gate[r].pc = "role" /\ gate' = [gate EXCEPT ![r].allowed = gate[r].entitled]
       \/ UNCHANGED gate
    /\ UNCHANGED limiterVars

Return(r) == Release(r) /\ Advance(r) /\ UNCHANGED limiterVars

Serve(r) == SetUp(r) \/ Run(r) \/ Return(r)

Next ==
    \/ Tick /\ UNCHANGED <<poolVars, gate>>
    \/ \E r \in Calls :
          \/ \E kind \in Kinds, csrf \in BOOLEAN : Arrive(r, kind, csrf)
          \/ Connect(r) \/ ConnectFails(r) \/ Serve(r)

Spec == Init /\ [][Next]_vars

\* The pool serves those who wait in their order, and statements end: they carry
\* the deadline of the request.
FairSpec == Spec /\ \A r \in Calls : WF_vars(Serve(r)) /\ SF_vars(Connect(r))
----------------------------------------------------------------------------
\* Every variable of the limiter, the pool and the requests has its type.
TypeOK ==
    /\ LimiterTypeOK
    /\ PoolTypeOK
    /\ gate \in [Calls -> [pc : {"idle", "role", "audit", "handle"}, served : BOOLEAN, documented : BOOLEAN,
                           key : Keys \cup {NoKey}, tenant : Tenants \cup {NoTenant},
                           entitled : BOOLEAN, allowed : BOOLEAN]]

\* A handler runs only for a caller whose row in users_extended ranks high enough
\* and works on that user's own tenant, whatever failed on the way: a role that
\* cannot be read never lets a request through.
HandledForRole ==
    \A r \in Calls :
        gate[r].pc = "handle" =>
            /\ gate[r].entitled
            /\ gate[r].key \in Users => gate[r].tenant = TenantOf[gate[r].key]

\* README.md, API Endpoints: a request to a route listed there reaches a handler.
\* The switch of ServeHTTP takes the first case whose prefix fits, and a case that
\* fits and does not handle the request ends in a 404 instead of trying the next.
DocumentedServed ==
    \A r \in Calls : gate[r].documented => gate[r].served

\* The steps a request still has before its answer: three connections at most,
\* for the role, the audit row and the handler, four steps with each.
GatesLeft(r) ==
    CASE gate[r].pc = "role" -> 3 [] gate[r].pc = "audit" -> 2
      [] gate[r].pc = "handle" -> 1 [] gate[r].pc = "idle" -> 0
StepsLeft(r) ==
    CASE call[r].pc = "idle" -> 3 [] call[r].pc = "set" -> 2
      [] call[r].pc = "run" -> 1 [] call[r].pc = "release" -> 0
Remaining(r) == 4 * GatesLeft(r) + StepsLeft(r)

\* Whatever touches a request that was let through is a step of its own that
\* brings the answer nearer, also when a SET, a RESET or a connection fails: no
\* gate is asked twice, and nobody else's step moves the request or its call.
Advances ==
    [][\A r \in Calls : gate[r].pc # "idle" =>
          UNCHANGED <<gate[r], call[r]>> \/ Remaining(r)' < Remaining(r)]_vars

\* Every request that was let through is answered, with one connection for all
\* of them and whichever SETs and RESETs fail.
Answered ==
    \A r \in Calls : gate[r].pc # "idle" ~> gate[r].pc = "idle"
============================================================================
