----------------------------- MODULE TeamRoles -----------------------------
(***************************************************************************)
(* The accounts of one tenant and their roles: Authorize                   *)
(* (backend/internal/handlers/rbac.go), the team handlers (team.go),       *)
(* Register (auth.go) and the account a WhatsApp login creates             *)
(* (whatsapp_auth.go).                                                     *)
(*                                                                         *)
(* A role is kept in three tables.  setUserRole writes them one after the  *)
(* other and RemoveTeamUser deletes from two of them, each statement on    *)
(* its own: WithTenantConn opens no transaction.  An account stands for    *)
(* its row in users.  Left out: the activity rows, which only              *)
(* GetTeamActivity reads, and the audit row of the role check itself.      *)
(***************************************************************************)
EXTENDS Routes

CONSTANTS Registrants,  \* accounts that Register creates
          Phones,       \* WhatsApp identities; each has one account
          Requests,     \* concurrent requests: the goroutines of one server
          GivenRoles,   \* the role names that requests carry
          MaxCalls,     \* bound: requests that may start
          MaxFaults,    \* bound: statements that fail
          NoAccount

ASSUME AccountAssumption ==
    /\ Registrants \cap Phones = {}
    /\ NoAccount \notin Registrants \cup Phones
ASSUME RoleAssumption == "none" \notin GivenRoles
ASSUME TeamBounds == MaxCalls \in Nat /\ MaxFaults \in Nat

VARIABLES users,           \* accounts that exist
          users_extended,  \* the role of an account, or "none"
          team_members,    \* the role of a member, or "none"
          user_roles,      \* the newest row of an account in this log, or "none"
          invitations,     \* the role of the pending invitation, or "none"
          req,             \* the handler each request is in
          calls, faults,
          founded,         \* history: a login found the tenant without users
          torn,            \* history: accounts whose latest role change was
                           \* cut short or overlapped with another one
          audited,         \* history: accounts whose role an audit row tells
          unlogged         \* history: accounts whose role no audit row will tell

tables == <<users, users_extended, team_members, user_roles, invitations>>
trail == <<audited, unlogged>>
teamVars == <<tables, req, calls, faults, founded, torn, trail>>

Accounts == Registrants \cup Phones
RolesOrNone == GivenRoles \cup {"owner", "member", "none"}

\* getUserRole: an account without a row counts as a viewer.
getUserRole(table, a) == IF table[a] = "none" THEN "viewer" ELSE table[a]

\* What the role check says of account a for a handler that needs a role.
Holds(table, a, needs) == MayUse(getUserRole(table, a), needs)
Admin(a) == Holds(users_extended, a, "admin")

TeamOps == {"AddTeamUser", "UpdateTeamUserRole", "RemoveTeamUser", "SendInvitation"}

TeamEndpoint(op) ==
    CASE op = "AddTeamUser"        -> [path |-> <<"team", "users">>, method |-> "POST"]
      [] op = "UpdateTeamUserRole" -> [path |-> <<"team", "users", "id", "role">>, method |-> "PATCH"]
      [] op = "RemoveTeamUser"     -> [path |-> <<"team", "users", "id">>, method |-> "DELETE"]
      [] op = "SendInvitation"     -> [path |-> <<"team", "invitations">>, method |-> "POST"]

\* The role that the role check asks for before each of them.
Needs(endpoint) == RequiredRole(endpoint.path, endpoint.method)
TeamNeeds == [op \in TeamOps |-> Needs(TeamEndpoint(op))]

\* Only an administrator reaches the team handlers.
ASSUME TeamNeedsAdmin == \A op \in TeamOps : TeamNeeds[op] = "admin"

Idle == [pc |-> "idle", op |-> "none", actor |-> NoAccount, target |-> NoAccount,
         role |-> "none", needs |-> "", held |-> FALSE, alone |-> FALSE]

\* A tenant whose first login was long ago, or that nobody has founded yet, with
\* accounts that have no role (they come from Register, or were removed).
TeamInit ==
    /\ users \in SUBSET Accounts
    /\ \E owner \in (users \cap Phones) \cup {NoAccount} :
          LET roles == [a \in Accounts |-> IF a = owner THEN "owner" ELSE "none"] IN
          /\ users_extended = roles /\ team_members = roles /\ user_roles = roles
          /\ founded = (owner # NoAccount)
    /\ invitations = [a \in Accounts |-> "none"]
    /\ req = [r \in Requests |-> Idle]
    /\ calls = 0 /\ faults = 0
    /\ torn = {}
    /\ audited = {} /\ unlogged = {a \in Accounts : users_extended[a] # "none"}

Goto(r, pc) == req' = [req EXCEPT ![r].pc = pc]
Finish(r) == req' = [req EXCEPT ![r] = Idle]

\* Between the first and the last statement of a role change.
Changing(r) == req[r].pc \in {"member", "log", "deleteMember"}
Others(r) == {q \in Requests \ {r} : Changing(q) /\ req[q].target = req[r].target}
----------------------------------------------------------------------------
\* A request reaches the server; its handler has the role check before it.
Arrive(r, op, needs, actor, target, role) ==
    /\ req[r].pc = "idle"
    /\ calls < MaxCalls
    /\ actor \in users
    /\ calls' = calls + 1
    /\ req' = [req EXCEPT ![r] =
                  [pc |-> "authorize", op |-> op, actor |-> actor, target |-> target,
                   role |-> role, needs |-> needs,
                   held |-> Holds(users_extended, actor, needs), alone |-> FALSE]]
    /\ UNCHANGED <<tables, faults, founded, torn, trail>>

\* The first statement of each handler.
First(op) ==
    CASE op = "AddTeamUser" -> "lookup" [] op = "UpdateTeamUserRole" -> "extended"
      [] op = "RemoveTeamUser" -> "deleteExtended" [] op = "SendInvitation" -> "invitation"
      [] OTHER -> op

\* Mutant: the role is read from team_members, which setUserRole writes later.
AuthorizeMember(r) ==
    /\ req[r].pc = "authorize"
    /\ IF Holds(team_members, req[r].actor, req[r].needs) THEN Goto(r, First(req[r].op)) ELSE Finish(r)
    /\ UNCHANGED <<tables, calls, faults, founded, torn, trail>>

Authorize(r) ==
    /\ req[r].pc = "authorize"
    /\ IF Holds(users_extended, req[r].actor, req[r].needs) THEN Goto(r, First(req[r].op)) ELSE Finish(r)
    /\ UNCHANGED <<tables, calls, faults, founded, torn, trail>>

\* AddTeamUser: an unknown address is invited.
AddTeamUser(r) ==
    /\ req[r].pc = "lookup"
    /\ Goto(r, IF req[r].target \in users THEN "extended" ELSE "invitation")
    /\ UNCHANGED <<tables, calls, faults, founded, torn, trail>>

\* An invitation is audited by SendInvitation and not by AddTeamUser.
createInvitation(r) ==
    /\ req[r].pc = "invitation"
    /\ invitations' = [invitations EXCEPT ![req[r].target] = req[r].role]
    /\ IF req[r].op = "SendInvitation" THEN Goto(r, "audit") ELSE Finish(r)
    /\ UNCHANGED <<users, users_extended, team_members, user_roles, calls, faults, founded, torn, trail>>

\* users_extended becomes table; r goes to pc, and whether its role change and
\* those it meets are alone is recorded.  Only a login leaves no audit row.
WriteExtended(r, table, pc) ==
    /\ users_extended' = table
    /\ req' = [q \in Requests |->
                  IF q = r THEN [req[r] EXCEPT !.pc = pc, !.alone = Others(r) = {}]
                  ELSE [req[q] EXCEPT !.alone = @ /\ q \notin Others(r),
                           !.held = @ \/ (req[q].pc = "authorize" /\ Holds(table, req[q].actor, req[q].needs))]]
    /\ torn' = IF Others(r) = {} THEN torn ELSE torn \cup {req[r].target}
    /\ audited' = audited \ {req[r].target}
    /\ unlogged' = IF req[r].op = "login" THEN unlogged \cup {req[r].target} ELSE unlogged \ {req[r].target}

\* setUserRole, first statement; the foreign key refuses an account without a row.
upsertExtended(r) ==
    /\ req[r].pc = "extended"
    /\ \/ /\ req[r].target \in users
          /\ WriteExtended(r, [users_extended EXCEPT ![req[r].target] = req[r].role], "member")
       \/ /\ req[r].target \notin users
          /\ Finish(r)
          /\ UNCHANGED <<users_extended, torn, trail>>
    /\ UNCHANGED <<users, team_members, user_roles, invitations, calls, faults, founded>>

\* Mutant: ON CONFLICT DO NOTHING, the member's old role stays.
upsertMemberOnce(r) ==
    /\ req[r].pc = "member"
    /\ team_members' = [team_members EXCEPT ![req[r].target] = IF @ = "none" THEN req[r].role ELSE @]
    /\ Goto(r, "log")
    /\ UNCHANGED <<users, users_extended, user_roles, invitations, calls, faults, founded, torn, trail>>

upsertMember(r) ==
    /\ req[r].pc = "member"
    /\ team_members' = [team_members EXCEPT ![req[r].target] = req[r].role]
    /\ Goto(r, "log")
    /\ UNCHANGED <<users, users_extended, user_roles, invitations, calls, faults, founded, torn, trail>>

\* Mutant: AddTeamUser answers as soon as the role is set.
SettleAdded(r) ==
    /\ torn' = IF req[r].alone THEN torn \ {req[r].target} ELSE torn
    /\ IF req[r].op \in {"login", "AddTeamUser"} THEN Finish(r) ELSE Goto(r, "audit")

\* The change of r is complete; one that met no other left the tables in step.
\* A login is not audited.
Settle(r) ==
    /\ torn' = IF req[r].alone THEN torn \ {req[r].target} ELSE torn
    /\ IF req[r].op = "login" THEN Finish(r) ELSE Goto(r, "audit")

insertUserRole(r) ==
    /\ req[r].pc = "log"
    /\ user_roles' = [user_roles EXCEPT ![req[r].target] = req[r].role]
    /\ Settle(r)
    /\ UNCHANGED <<users, users_extended, team_members, invitations, calls, faults, founded, trail>>

\* RemoveTeamUser: the two DELETEs; the log keeps its rows.
deleteExtended(r) ==
    /\ req[r].pc = "deleteExtended"
    /\ WriteExtended(r, [users_extended EXCEPT ![req[r].target] = "none"], "deleteMember")
    /\ UNCHANGED <<users, team_members, user_roles, invitations, calls, faults, founded>>

deleteMember(r) ==
    /\ req[r].pc = "deleteMember"
    /\ team_members' = [team_members EXCEPT ![req[r].target] = "none"]
    /\ Settle(r)
    /\ UNCHANGED <<users, users_extended, user_roles, invitations, calls, faults, founded, trail>>
----------------------------------------------------------------------------
\* Mutant: the new account takes the role of its pending invitation.
RegisterInvited(a) ==
    /\ calls < MaxCalls
    /\ calls' = calls + 1
    /\ a \notin users
    /\ users' = users \cup {a}
    /\ users_extended' = [users_extended EXCEPT ![a] = IF @ = "none" THEN invitations[a] ELSE @]
    /\ UNCHANGED <<team_members, user_roles, invitations, req, faults, founded, torn, trail>>

\* Register: one INSERT, refused by the unique index when the account exists.
Register(a) ==
    /\ calls < MaxCalls
    /\ calls' = calls + 1
    /\ a \notin users
    /\ users' = users \cup {a}
    /\ UNCHANGED <<users_extended, team_members, user_roles, invitations, req, faults, founded, torn, trail>>

\* ensureWhatsAppUser, which WhatsAppAuthStatus calls whenever it finds the
\* session connected (WhatsAppSessions): one call for every poll of the login page.
WhatsAppLogin(r, p) ==
    /\ req[r].pc = "idle"
    /\ calls < MaxCalls
    /\ calls' = calls + 1
    /\ req' = [req EXCEPT ![r] = [Idle EXCEPT !.pc = "count", !.op = "login", !.target = p]]
    /\ UNCHANGED <<tables, faults, founded, torn, trail>>

\* Mutant: the caller's own account is taken to be counted already.
countUsersLate(r) ==
    /\ req[r].pc = "count"
    /\ req' = [req EXCEPT ![r].pc = "select",
                          ![r].role = IF \A a, b \in users : a = b THEN "owner" ELSE "member"]
    /\ founded' = (founded \/ users = {})
    /\ UNCHANGED <<tables, calls, faults, torn, trail>>

\* SELECT COUNT(*): the first account of a tenant is its owner.
countUsers(r) ==
    /\ req[r].pc = "count"
    /\ req' = [req EXCEPT ![r].pc = "select",
                          ![r].role = IF users = {} THEN "owner" ELSE "member"]
    /\ founded' = (founded \/ users = {})
    /\ UNCHANGED <<tables, calls, faults, torn, trail>>

selectUser(r) ==
    /\ req[r].pc = "select"
    /\ Goto(r, IF req[r].target \in users THEN "extended" ELSE "insert")
    /\ UNCHANGED <<tables, calls, faults, founded, torn, trail>>

insertUser(r) ==
    /\ req[r].pc = "insert"
    /\ \/ /\ req[r].target \notin users
          /\ users' = users \cup {req[r].target}
          /\ Goto(r, "extended")
       \/ /\ req[r].target \in users
          /\ Finish(r)
          /\ UNCHANGED users
    /\ UNCHANGED <<users_extended, team_members, user_roles, invitations, calls, faults, founded, torn, trail>>
----------------------------------------------------------------------------
\* r has set the role that its target has, and the audit row about it is to come.
Granting(r) ==
    /\ req[r].pc \in {"member", "log", "audit"}
    /\ req[r].op \in {"AddTeamUser", "UpdateTeamUserRole"}
    /\ req[r].role = users_extended[req[r].target]

Given(R) == {req[r].target : r \in {q \in R : Granting(q)}}

\* The end of a team handler: logAudit, whose failure nobody sees.
AuditTeam(r) ==
    /\ req[r].pc = "audit"
    /\ req[r].op \in TeamOps
    /\ \/ /\ audited' = audited \cup Given({r})
          /\ UNCHANGED <<faults, unlogged>>
       \/ /\ faults < MaxFaults /\ faults' = faults + 1
          /\ unlogged' = unlogged \cup Given({r})
          /\ UNCHANGED audited
    /\ Finish(r)
    /\ UNCHANGED <<tables, calls, founded, torn>>

\* A statement fails and the handler gives up; only the SELECT of the login is
\* not looked at: it goes on to the INSERT.
StatementFails(r) ==
    /\ req[r].pc \notin {"idle", "audit", "notify"}
    /\ faults < MaxFaults
    /\ faults' = faults + 1
    /\ IF req[r].pc = "select" THEN Goto(r, "insert") ELSE Finish(r)
    /\ torn' = IF Changing(r) THEN torn \cup {req[r].target} ELSE torn
    /\ unlogged' = unlogged \cup Given({r})
    /\ UNCHANGED <<tables, calls, founded, audited>>

\* The server ends: what its requests had not written yet is not written.
TeamCrash ==
    /\ req' = [r \in Requests |-> Idle]
    /\ torn' = torn \cup {req[r].target : r \in {q \in Requests : Changing(q)}}
    /\ unlogged' = unlogged \cup Given(Requests)
    /\ UNCHANGED <<tables, calls, faults, founded, audited>>

\* The steps that write users_extended and their kin, and those that do not.
TeamStep(r) ==
    \/ Authorize(r) \/ AddTeamUser(r) \/ createInvitation(r)
    \/ upsertExtended(r) \/ upsertMember(r) \/ insertUserRole(r)
    \/ deleteExtended(r) \/ deleteMember(r)
    \/ countUsers(r) \/ selectUser(r) \/ insertUser(r)
    \/ AuditTeam(r) \/ StatementFails(r)

TeamRequest(r) ==
    /\ req[r].pc = "idle"
    /\ \/ \E p \in Phones : WhatsAppLogin(r, p)
       \/ \E op \in TeamOps, a, b \in Accounts, role \in GivenRoles :
             Arrive(r, op, TeamNeeds[op], a, b, role)
----------------------------------------------------------------------------
\* The three tables tell one story: outside a role change the role of an account
\* in users_extended and in team_members is the same, and it is the newest row
\* of user_roles, unless the latest change was cut short by a failure or a
\* restart or ran beside another one.  A change that runs alone repairs them.
RolesAgree ==
    \A a \in Accounts \ torn :
        (\A r \in Requests : Changing(r) => req[r].target # a) =>
            /\ users_extended[a] = team_members[a]
            /\ users_extended[a] # "none" => user_roles[a] = users_extended[a]

\* Whatever a handler behind the role check writes is written for a user who had
\* the role it needs at some moment since the request arrived; a role withdrawn
\* before a request arrives does not count, however the tables are being written
\* meanwhile.
RoleDuringRequest ==
    \A r \in Requests :
        (req[r].op \notin {"none", "login"} /\ req[r].pc # "authorize") => req[r].held

\* Only an administrator makes another one, so all of them go back to a WhatsApp
\* login that found the tenant without users: a tenant whose first account came
\* from Register never has an administrator.
AdminsNeedAFounder ==
    (\E a \in Accounts : Admin(a)) => founded

\* An account comes to be an administrator in two ways: by the login that found
\* its tenant without users, or by a request about this account of someone who was
\* an administrator since it arrived.  No removal, no later login, no failure and
\* no overlap of two changes makes one of somebody else.
PromotionsGranted ==
    [][\A a \in Accounts : Admin(a)' /\ ~Admin(a) =>
          \E r \in Requests :
              /\ req[r].target = a
              /\ \/ req[r].op = "login" /\ req[r].role = "owner"
                 \/ req[r].op \in {"AddTeamUser", "UpdateTeamUserRole"} /\ req[r].held /\ req[r].needs = "admin"
      ]_teamVars

\* A role can be traced: the audit log has a row, written since the role was set,
\* that tells it, or the request that set it is about to write that row, unless it
\* came from a login or the request was cut short by a failure or a restart.  Of
\* changes that run side by side it is the one whose role stands that tells it, in
\* whatever order their audit rows are written.
RolesTraceable ==
    \A a \in Accounts :
        users_extended[a] # "none" => a \in audited \cup unlogged \cup Given(Requests)
============================================================================
