------------------------- MODULE CollaborationProofs -------------------------
(***************************************************************************)
(* Proofs about the team's roles and what the members of a tenant work on, *)
(* for every set of accounts, of requests and of role names and every      *)
(* number of calls and failures.                                           *)
(***************************************************************************)
EXTENDS Collaboration, WellFoundedInduction, TLAPS

RoleNames == {"", "viewer", "member", "manager", "admin"}
Places == {"idle", "authorize", "lookup", "invitation", "extended", "member", "log", "deleteExtended",
           "deleteMember", "count", "select", "insert", "audit", "notify"} \cup WorkOps
ItemOps == {"CreateActionItem", "UpdateActionItem"}

\* Where a request may be, given what it was sent for.
Placed(q) ==
    /\ q.pc = "idle" => q.op = "none"
    /\ q.pc = "authorize" => q.op \in TeamOps \cup WorkOps /\ q.actor \in Accounts
    /\ q.op = "login" => /\ q.pc \in {"count", "select", "insert", "extended", "member", "log"}
                         /\ q.pc # "count" => q.role \in {"owner", "member"}
    /\ q.op \in TeamOps => q.role \in GivenRoles /\ q.needs = "admin"
    /\ q.op \in TeamOps \cup {"login"} => q.target \in Accounts
    /\ q.pc \in {"lookup", "invitation", "deleteExtended", "deleteMember"} => q.op \in TeamOps
    /\ q.pc \in {"extended", "member", "log"} => q.op \in TeamOps \cup {"login"}
    /\ q.pc = "lookup" => q.op = "AddTeamUser"
    /\ q.pc = "extended" => q.op \in {"AddTeamUser", "UpdateTeamUserRole", "login"}
    /\ q.pc \in {"count", "select", "insert"} => q.op = "login"
    /\ q.pc = "audit" => q.op \in TeamOps \cup WorkOps \cup {"ReceiveWebhook"}
    /\ q.pc \in WorkOps => q.op = q.pc
    /\ q.pc = "notify" => q.op \in ItemOps /\ q.target \in Accounts

InPlace == req \in [Requests -> RequestRecord] /\ \A r \in Requests : Placed(req[r])

\* TypeOK, but for the requests.
Stored ==
    /\ users \subseteq Accounts
    /\ users_extended \in [Accounts -> RolesOrNone] /\ team_members \in [Accounts -> RolesOrNone]
    /\ user_roles \in [Accounts -> RolesOrNone] /\ invitations \in [Accounts -> RolesOrNone]
    /\ calls \in 0 .. MaxCalls /\ faults \in 0 .. MaxFaults
    /\ founded \in BOOLEAN
    /\ torn \subseteq Accounts
    /\ audited \subseteq Accounts /\ unlogged \subseteq Accounts
    /\ kind \in RowKinds
    /\ row \in BOOLEAN /\ child \in BOOLEAN
    /\ assignee \in Accounts \cup {NoAccount}
    /\ unread \subseteq Accounts /\ notified \subseteq Accounts /\ missed \subseteq Accounts

\* A request that waits for the role check counts as held when it would pass, and
\* who acts for the team, or logs in as owner, does so in a founded tenant.
Rights ==
    \A r \in Requests :
        /\ req[r].pc = "authorize" /\ Holds(users_extended, req[r].actor, req[r].needs) => req[r].held
        /\ req[r].op \in TeamOps /\ req[r].held => founded
        /\ req[r].op = "login" /\ req[r].role = "owner" => founded

\* How far a role change that meets no other has come.
Alone ==
    \A r \in Requests :
        Changing(r) =>
            /\ req[r].target \notin torn => req[r].alone
            /\ req[r].alone =>
                  /\ Others(r) = {}
                  /\ req[r].pc \in {"member", "log"} => users_extended[req[r].target] = req[r].role
                  /\ req[r].pc = "log" => team_members[req[r].target] = req[r].role
                  /\ req[r].pc = "deleteMember" => users_extended[req[r].target] = "none"

IInv ==
    /\ Stored /\ InPlace /\ RolesTraceable
    /\ Rights /\ RoleDuringRequest /\ AdminsNeedAFounder
    /\ Alone /\ RolesAgree
    /\ AssigneeNotified
----------------------------------------------------------------------------
\* The least number of a set.
LEMMA Least == ASSUME NEW S \in SUBSET Nat, S # {} PROVE \E i \in S : \A j \in S : i <= j
<1>1. PICK i \in S : \A j \in S : ~ (<<j, i>> \in OpToRel(<, Nat))
  BY WFMin, NatLessThanWellFounded
<1>2. \A j \in S : ~ (j < i)
  BY <1>1 DEF OpToRel
<1> QED BY <1>2

RowTyped(i) == RoleTable[i][2] \in RoleNames /\ RoleTable[i][3] \in RoleNames

\* RequiredRole returns one of the five names.
LEMMA RequiredRoleTyped == ASSUME NEW path, NEW method PROVE RequiredRole(path, method) \in RoleNames
<1>1. DOMAIN RoleTable = 1 .. 44
  BY DEF RoleTable
<1>2. ASSUME NEW i \in 1 .. 44 PROVE RowTyped(i)
  <2>1. \/ i \in {1, 2, 3, 4, 5, 6, 7, 8, 9, 10, 11}
        \/ i \in {12, 13, 14, 15, 16, 17, 18, 19, 20, 21, 22}
        \/ i \in {23, 24, 25, 26, 27, 28, 29, 30, 31, 32, 33}
        \/ i \in {34, 35, 36, 37, 38, 39, 40, 41, 42, 43, 44}
    OBVIOUS
  <2>2. /\ RowTyped(1) /\ RowTyped(2) /\ RowTyped(3) /\ RowTyped(4) /\ RowTyped(5) /\ RowTyped(6)
        /\ RowTyped(7) /\ RowTyped(8) /\ RowTyped(9) /\ RowTyped(10) /\ RowTyped(11)
    BY ZenonT(40) DEF RoleTable, RoleNames, RowTyped
  <2>3. /\ RowTyped(12) /\ RowTyped(13) /\ RowTyped(14) /\ RowTyped(15) /\ RowTyped(16) /\ RowTyped(17)
        /\ RowTyped(18) /\ RowTyped(19) /\ RowTyped(20) /\ RowTyped(21) /\ RowTyped(22)
    BY ZenonT(40) DEF RoleTable, RoleNames, RowTyped
  <2>4. /\ RowTyped(23) /\ RowTyped(24) /\ RowTyped(25) /\ RowTyped(26) /\ RowTyped(27) /\ RowTyped(28)
        /\ RowTyped(29) /\ RowTyped(30) /\ RowTyped(31) /\ RowTyped(32) /\ RowTyped(33)
    BY ZenonT(40) DEF RoleTable, RoleNames, RowTyped
  <2>5. /\ RowTyped(34) /\ RowTyped(35) /\ RowTyped(36) /\ RowTyped(37) /\ RowTyped(38) /\ RowTyped(39)
        /\ RowTyped(40) /\ RowTyped(41) /\ RowTyped(42) /\ RowTyped(43) /\ RowTyped(44)
    BY ZenonT(40) DEF RoleTable, RoleNames, RowTyped
  <2> QED BY <2>1, <2>2, <2>3, <2>4, <2>5
<1>3. CASE FirstRow(RoleTable, path) = 0
  BY <1>3 DEF RequiredRole, RoleNames
<1>4. CASE FirstRow(RoleTable, path) # 0
  <2> DEFINE rows == {i \in DOMAIN RoleTable : Fits(RoleTable[i][1], path)}
  <2>1. rows # {} /\ rows \in SUBSET Nat
    BY <1>1, <1>4 DEF FirstRow
  <2>2. \E i \in rows : \A j \in rows : i <= j
    BY <2>1, Least
  <2>3. FirstRow(RoleTable, path) = CHOOSE i \in rows : \A j \in rows : i <= j
    BY <2>1 DEF FirstRow
  <2> HIDE DEF rows
  <2>4. FirstRow(RoleTable, path) \in rows
    BY <2>2, <2>3
  <2>5. RowTyped(FirstRow(RoleTable, path))
    BY <1>1, <1>2, <2>4 DEF rows
  <2> QED BY <1>4, <2>5 DEF RequiredRole, RowTyped
<1> QED BY <1>3, <1>4
----------------------------------------------------------------------------
\* The names of the handlers and of the places are apart.
LEMMA Apart ==
    /\ TeamOps \cap WorkOps = {} /\ ItemOps \subseteq WorkOps
    /\ \A x \in {"none", "login", "ReceiveWebhook"} : x \notin TeamOps \cup WorkOps
    /\ \A x \in {"idle", "authorize", "lookup", "invitation", "extended", "member", "log", "deleteExtended",
                 "deleteMember", "count", "select", "insert", "audit", "notify"} : x \notin WorkOps
  BY DEF TeamOps, WorkOps, ItemOps

\* The fields of a request.
LEMMA Fields ==
    ASSUME NEW q \in RequestRecord
    PROVE  /\ q.pc \in Places /\ q.op \in {"none", "login", "ReceiveWebhook"} \cup TeamOps \cup WorkOps
           /\ q.actor \in Accounts \cup {NoAccount} /\ q.target \in Accounts \cup {NoAccount}
           /\ q.role \in RolesOrNone /\ q.needs \in RoleNames
           /\ q.held \in BOOLEAN /\ q.alone \in BOOLEAN
  BY DEF RequestRecord, Places, RoleNames

LEMMA Made ==
    ASSUME NEW pc \in Places, NEW op \in {"none", "login", "ReceiveWebhook"} \cup TeamOps \cup WorkOps,
           NEW actor \in Accounts \cup {NoAccount}, NEW target \in Accounts \cup {NoAccount},
           NEW role \in RolesOrNone, NEW needs \in RoleNames, NEW held \in BOOLEAN, NEW alone \in BOOLEAN
    PROVE  [pc |-> pc, op |-> op, actor |-> actor, target |-> target, role |-> role, needs |-> needs,
            held |-> held, alone |-> alone] \in RequestRecord
<1>1. CASE held = TRUE /\ alone = TRUE
  BY <1>1, ZenonT(40) DEF RequestRecord, Places, RoleNames
<1>2. CASE held = TRUE /\ alone = FALSE
  BY <1>2, ZenonT(40) DEF RequestRecord, Places, RoleNames
<1>3. CASE held = FALSE /\ alone = TRUE
  BY <1>3, ZenonT(40) DEF RequestRecord, Places, RoleNames
<1>4. CASE held = FALSE /\ alone = FALSE
  BY <1>4, ZenonT(40) DEF RequestRecord, Places, RoleNames
<1> QED BY <1>1, <1>2, <1>3, <1>4

\* A request that goes to another place.
At(q, pc) == [q EXCEPT !.pc = pc]

LEMMA AtIs ==
    ASSUME NEW q \in RequestRecord, NEW pc \in Places
    PROVE  /\ At(q, pc) \in RequestRecord
           /\ At(q, pc).pc = pc /\ At(q, pc).op = q.op /\ At(q, pc).actor = q.actor
           /\ At(q, pc).target = q.target /\ At(q, pc).role = q.role /\ At(q, pc).needs = q.needs
           /\ At(q, pc).held = q.held /\ At(q, pc).alone = q.alone
<1>1. At(q, pc) \in RequestRecord
  BY DEF At, RequestRecord, Places
<1>2. /\ At(q, pc).pc = pc /\ At(q, pc).op = q.op /\ At(q, pc).actor = q.actor
      /\ At(q, pc).target = q.target /\ At(q, pc).role = q.role /\ At(q, pc).needs = q.needs
      /\ At(q, pc).held = q.held /\ At(q, pc).alone = q.alone
  BY DEF At, RequestRecord
<1> QED BY <1>1, <1>2

LEMMA IdleIs ==
    /\ Idle \in RequestRecord /\ Placed(Idle)
    /\ Idle.pc = "idle" /\ Idle.op = "none" /\ Idle.held = FALSE /\ Idle.alone = FALSE
    /\ Idle.target = NoAccount /\ Idle.role = "none"
<1>1. /\ Idle.pc = "idle" /\ Idle.op = "none" /\ Idle.held = FALSE /\ Idle.alone = FALSE
      /\ Idle.target = NoAccount /\ Idle.role = "none"
  BY DEF Idle
<1>2. Idle \in RequestRecord
  BY DEF Idle, RequestRecord, RolesOrNone
<1>3. Placed(Idle)
  BY <1>1, Apart DEF Placed
<1> QED BY <1>1, <1>2, <1>3

\* r becomes x, and the others stay.
Moved(r, x) ==
    /\ x \in RequestRecord /\ Placed(x)
    /\ req' = [req EXCEPT ![r] = x]

LEMMA MovedIs ==
    ASSUME InPlace, NEW r \in Requests, NEW x, Moved(r, x)
    PROVE  /\ InPlace'
           /\ req'[r] = x
           /\ \A q \in Requests \ {r} : req'[q] = req[q]
<1>1. req \in [Requests -> RequestRecord] /\ req' = [req EXCEPT ![r] = x] /\ x \in RequestRecord /\ Placed(x)
  BY DEF InPlace, Moved
<1>2. req' \in [Requests -> RequestRecord] /\ req'[r] = x /\ \A q \in Requests \ {r} : req'[q] = req[q]
  BY <1>1
<1>3. \A q \in Requests : Placed(req'[q])
  BY <1>1, <1>2 DEF InPlace
<1> QED BY <1>2, <1>3 DEF InPlace, Placed

----------------------------------------------------------------------------
LEMMA FinishMoves ==
    ASSUME NEW r \in Requests, Finish(r)
    PROVE  Moved(r, Idle)
  BY IdleIs DEF Finish, Moved

LEMMA GotoMoves ==
    ASSUME InPlace, NEW r \in Requests, NEW pc \in Places, Goto(r, pc), Placed(At(req[r], pc))
    PROVE  Moved(r, At(req[r], pc))
<1>1. req \in [Requests -> RequestRecord] /\ req' = [req EXCEPT ![r] = At(req[r], pc)]
  BY DEF InPlace, Goto, At
<1>2. At(req[r], pc) \in RequestRecord
  BY <1>1, AtIs
<1> QED BY <1>1, <1>2 DEF Moved

\* Where a handler goes on from the role check, and that it may be there.
LEMMA FirstIs ==
    ASSUME NEW op \in TeamOps \cup WorkOps
    PROVE  /\ op = "AddTeamUser" => First(op) = "lookup"
           /\ op = "UpdateTeamUserRole" => First(op) = "extended"
           /\ op = "RemoveTeamUser" => First(op) = "deleteExtended"
           /\ op = "SendInvitation" => First(op) = "invitation"
           /\ op \in WorkOps => First(op) = op
  BY DEF First, TeamOps, WorkOps

LEMMA FirstPlaced ==
    ASSUME NEW q \in RequestRecord, Placed(q), q.pc = "authorize"
    PROVE  First(q.op) \in Places \ {"idle", "authorize", "member", "log", "deleteMember", "audit", "notify"}
           /\ Placed(At(q, First(q.op)))
<1>1. q.op \in TeamOps \cup WorkOps
  BY DEF Placed
<1>2. CASE q.op \in WorkOps
  <2>1. First(q.op) = q.op
    BY <1>1, <1>2, FirstIs
  <2>2. q.op \in Places \ {"idle", "authorize", "member", "log", "deleteMember", "audit", "notify"}
    BY <1>2, Apart DEF Places
  <2> QED BY <1>2, <2>1, <2>2, AtIs, Apart DEF Placed
<1>3. CASE q.op \in TeamOps
  <2>1. First(q.op) \in {"lookup", "extended", "deleteExtended", "invitation"}
    BY <1>3, FirstIs DEF TeamOps
  <2>2. First(q.op) \in Places \ {"idle", "authorize", "member", "log", "deleteMember", "audit", "notify"}
    BY <2>1 DEF Places
  <2>3. /\ First(q.op) = "lookup" => q.op = "AddTeamUser"
        /\ First(q.op) = "extended" => q.op = "UpdateTeamUserRole"
    BY <1>3, FirstIs DEF TeamOps
  <2> QED BY <1>3, <2>1, <2>2, <2>3, AtIs, Apart DEF Placed
<1> QED BY <1>1, <1>2, <1>3

\* Where a handler may go on to.
LEMMA AtPlaced ==
    ASSUME NEW q \in RequestRecord, Placed(q), NEW pc \in {"extended", "invitation", "log", "insert", "audit"},
           pc \in {"extended", "log"} => q.op \in TeamOps \cup {"login"},
           pc = "extended" => q.op \in {"AddTeamUser", "UpdateTeamUserRole", "login"},
           pc = "invitation" => q.op \in TeamOps,
           pc = "insert" => q.op = "login",
           pc = "audit" => q.op \in TeamOps \cup WorkOps \cup {"ReceiveWebhook"},
           q.op = "login" => q.role \in {"owner", "member"}
    PROVE  pc \in Places /\ Placed(At(q, pc))
<1>1. pc \in Places
  BY DEF Places
<1>2. /\ At(q, pc).pc = pc /\ At(q, pc).op = q.op /\ At(q, pc).role = q.role
      /\ At(q, pc).target = q.target /\ At(q, pc).needs = q.needs
  BY <1>1, AtIs
<1> QED BY <1>1, <1>2, Apart DEF Placed

\* A request goes on or is answered; past the role check only with the role.
Goes(r) ==
    \/ Moved(r, Idle)
    \/ \E pc \in Places \ {"idle", "authorize"} :
          /\ Moved(r, At(req[r], pc))
          /\ req[r].pc = "authorize" => Holds(users_extended, req[r].actor, req[r].needs)

LEMMA AuthorizeGoes ==
    ASSUME InPlace, NEW r \in Requests, Authorize(r)
    PROVE  \/ Moved(r, Idle)
           \/ /\ First(req[r].op) \in Places \ {"idle", "authorize", "member", "log", "deleteMember", "audit", "notify"}
              /\ Moved(r, At(req[r], First(req[r].op)))
              /\ Holds(users_extended, req[r].actor, req[r].needs)
<1>1. req[r] \in RequestRecord /\ Placed(req[r]) /\ req[r].pc = "authorize"
  BY DEF InPlace, Authorize
<1>2. First(req[r].op) \in Places \ {"idle", "authorize", "member", "log", "deleteMember", "audit", "notify"}
      /\ Placed(At(req[r], First(req[r].op)))
  BY <1>1, FirstPlaced
<1>3. CASE Holds(users_extended, req[r].actor, req[r].needs)
  <2>1. Goto(r, First(req[r].op))
    BY <1>3 DEF Authorize
  <2> QED BY <1>2, <1>3, <2>1, GotoMoves
<1>4. CASE ~ Holds(users_extended, req[r].actor, req[r].needs)
  <2>1. Finish(r)
    BY <1>4 DEF Authorize
  <2> QED BY <2>1, FinishMoves
<1> QED BY <1>3, <1>4

\* The other steps of the team handlers and of a login that go on or answer.
LEMMA TeamGoes ==
    ASSUME InPlace, NEW r \in Requests,
           \/ AddTeamUser(r) \/ createInvitation(r) \/ upsertMember(r) \/ insertUserRole(r) \/ deleteMember(r)
           \/ selectUser(r) \/ insertUser(r) \/ AuditTeam(r) \/ StatementFails(r)
           \/ upsertExtended(r) /\ req[r].target \notin users
    PROVE  Goes(r)
<1>0. req[r] \in RequestRecord /\ Placed(req[r])
  BY DEF InPlace
<1> DEFINE GoesTo(pc) == /\ Goto(r, pc) /\ req[r].pc # "authorize" /\ Placed(At(req[r], pc))
           On == {"extended", "invitation", "log", "insert", "audit"}
<1>1. Finish(r) => Goes(r)
  BY FinishMoves DEF Goes
<1>2. ASSUME NEW pc \in On, GoesTo(pc) PROVE Goes(r)
  <2>1. pc \in Places \ {"idle", "authorize"}
    BY DEF Places
  <2> QED BY <1>2, <2>1, GotoMoves DEF Goes
<1>3. ASSUME AddTeamUser(r) PROVE \E pc \in On : GoesTo(pc)
  <2>1. req[r].pc = "lookup"
        /\ (Goto(r, "extended") \/ Goto(r, "invitation"))
    BY <1>3 DEF AddTeamUser
  <2>2. req[r].op = "AddTeamUser" /\ req[r].op \in TeamOps
    BY <1>0, <2>1 DEF Placed
  <2>3. Placed(At(req[r], "extended")) /\ Placed(At(req[r], "invitation"))
    BY <1>0, <2>2, AtPlaced, Apart
  <2> QED BY <2>1, <2>3
<1>4. ASSUME createInvitation(r) PROVE Finish(r) \/ \E pc \in On : GoesTo(pc)
  <2>1. req[r].pc = "invitation"
        /\ \/ Goto(r, "audit")
           \/ Finish(r)
    BY <1>4 DEF createInvitation
  <2>2. req[r].op \in TeamOps
    BY <1>0, <2>1 DEF Placed
  <2>3. Placed(At(req[r], "audit"))
    BY <1>0, <2>2, AtPlaced, Apart
  <2> QED BY <2>1, <2>3
<1>5. ASSUME upsertMember(r) PROVE \E pc \in On : GoesTo(pc)
  <2>1. req[r].pc = "member" /\ Goto(r, "log")
    BY <1>5 DEF upsertMember
  <2>2. req[r].op \in TeamOps \cup {"login"} /\ (req[r].op = "login" => req[r].role \in {"owner", "member"})
    BY <1>0, <2>1 DEF Placed
  <2>3. Placed(At(req[r], "log"))
    BY <1>0, <2>2, AtPlaced
  <2> QED BY <2>1, <2>3
<1>6. ASSUME insertUserRole(r) \/ deleteMember(r) PROVE Finish(r) \/ \E pc \in On : GoesTo(pc)
  <2>1. req[r].pc \in {"log", "deleteMember"}
        /\ \/ req[r].op # "login" /\ Goto(r, "audit")
           \/ Finish(r)
    BY <1>6 DEF insertUserRole, deleteMember, Settle
  <2>2. req[r].op \in TeamOps \cup {"login"}
    BY <1>0, <2>1 DEF Placed
  <2>3. req[r].op # "login" => Placed(At(req[r], "audit"))
    BY <1>0, <2>2, AtPlaced
  <2> QED BY <2>1, <2>3
<1>7. ASSUME selectUser(r) PROVE \E pc \in On : GoesTo(pc)
  <2>1. req[r].pc = "select"
        /\ (Goto(r, "extended") \/ Goto(r, "insert"))
    BY <1>7 DEF selectUser
  <2>2. req[r].op = "login" /\ req[r].role \in {"owner", "member"}
    BY <1>0, <2>1 DEF Placed
  <2>3. Placed(At(req[r], "extended")) /\ Placed(At(req[r], "insert"))
    BY <1>0, <2>2, AtPlaced
  <2> QED BY <2>1, <2>3
<1>8. ASSUME insertUser(r) PROVE Finish(r) \/ \E pc \in On : GoesTo(pc)
  <2>1. req[r].pc = "insert" /\ (Goto(r, "extended") \/ Finish(r))
    BY <1>8 DEF insertUser
  <2>2. req[r].op = "login" /\ req[r].role \in {"owner", "member"}
    BY <1>0, <2>1 DEF Placed
  <2>3. Placed(At(req[r], "extended"))
    BY <1>0, <2>2, AtPlaced
  <2> QED BY <2>1, <2>3
<1>9. ASSUME AuditTeam(r) PROVE Finish(r)
  BY <1>9 DEF AuditTeam
<1>10. ASSUME StatementFails(r) PROVE Finish(r) \/ \E pc \in On : GoesTo(pc)
  <2>1. req[r].pc # "audit"
    BY <1>10 DEF StatementFails
  <2>2. CASE req[r].pc = "select"
    <3>1. Goto(r, "insert")
      BY <1>10, <2>2 DEF StatementFails
    <3>2. req[r].op = "login" /\ req[r].role \in {"owner", "member"}
      BY <1>0, <2>2 DEF Placed
    <3>3. Placed(At(req[r], "insert"))
      BY <1>0, <3>2, AtPlaced
    <3> QED BY <2>1, <2>2, <3>1, <3>3
  <2>3. CASE req[r].pc # "select"
    <3>1. Finish(r)
      BY <1>10, <2>3 DEF StatementFails
    <3> QED BY <2>1, <3>1
  <2> QED BY <2>2, <2>3
<1>11. ASSUME upsertExtended(r), req[r].target \notin users PROVE Finish(r)
  BY <1>11 DEF upsertExtended
<1> HIDE DEF GoesTo, On
<1> QED BY <1>1, <1>2, <1>3, <1>4, <1>5, <1>6, <1>7, <1>8, <1>9, <1>10, <1>11
----------------------------------------------------------------------------
LEMMA HoldsBoolean == ASSUME NEW table, NEW a, NEW needs PROVE Holds(table, a, needs) \in BOOLEAN
  BY DEF Holds, MayUse

\* A request has arrived: it waits for the role check.
Arrived(r, x, op, target) ==
    /\ Moved(r, x)
    /\ req[r].pc = "idle"
    /\ x.pc = "authorize" /\ x.op = op /\ x.actor \in Accounts /\ x.target = target
    /\ x.held = Holds(users_extended, x.actor, x.needs)

LEMMA ArriveMoves ==
    ASSUME Stored, InPlace, NEW r \in Requests,
           NEW op \in TeamOps \cup WorkOps, NEW needs \in RoleNames, NEW actor \in Accounts,
           NEW target \in Accounts \cup {NoAccount}, NEW role \in RolesOrNone,
           op \in TeamOps => role \in GivenRoles /\ needs = "admin" /\ target \in Accounts,
           Arrive(r, op, needs, actor, target, role)
    PROVE  \E x : Arrived(r, x, op, target)
<1>1. PICK h \in BOOLEAN : h = Holds(users_extended, actor, needs)
  BY HoldsBoolean
<1> DEFINE x == [pc |-> "authorize", op |-> op, actor |-> actor, target |-> target, role |-> role,
                 needs |-> needs, held |-> h, alone |-> FALSE]
<1>3. x \in RequestRecord
  <2>1. "authorize" \in Places /\ FALSE \in BOOLEAN
    BY DEF Places
  <2> QED BY <2>1, Made
<1>4. /\ x.pc = "authorize" /\ x.op = op /\ x.actor = actor /\ x.target = target /\ x.role = role
      /\ x.needs = needs /\ x.held = h
  OBVIOUS
<1>5. req' = [req EXCEPT ![r] = x] /\ req[r].pc = "idle"
  BY <1>1 DEF Arrive
<1> HIDE DEF x
<1>6. Placed(x)
  BY <1>4, Apart DEF Placed
<1>7. Moved(r, x)
  BY <1>3, <1>5, <1>6 DEF Moved
<1>8. x.held = Holds(users_extended, x.actor, x.needs)
  BY <1>1, <1>4
<1> QED BY <1>4, <1>5, <1>7, <1>8 DEF Arrived

LEMMA LoginMoves ==
    ASSUME InPlace, NEW r \in Requests, NEW p \in Phones, WhatsAppLogin(r, p)
    PROVE  \E x : /\ Moved(r, x) /\ req[r].pc = "idle"
                  /\ x.pc = "count" /\ x.op = "login" /\ x.role = "none"
<1> DEFINE x == [Idle EXCEPT !.pc = "count", !.op = "login", !.target = p]
<1>1. /\ x.pc = "count" /\ x.op = "login" /\ x.target = p /\ x.role = "none"
  BY DEF Idle
<1>2. x \in RequestRecord
  BY DEF Idle, RequestRecord, Accounts, RolesOrNone
<1>3. req' = [req EXCEPT ![r] = x] /\ req[r].pc = "idle"
  BY DEF WhatsAppLogin
<1> HIDE DEF x
<1>4. Placed(x)
  BY <1>1, Apart DEF Placed, Accounts
<1>5. Moved(r, x)
  BY <1>2, <1>3, <1>4 DEF Moved
<1> QED BY <1>1, <1>3, <1>5

LEMMA WebhookMoves ==
    ASSUME InPlace, NEW r \in Requests, ReceiveWebhook(r)
    PROVE  \E x : /\ Moved(r, x) /\ req[r].pc = "idle"
                  /\ x.pc = "audit" /\ x.op = "ReceiveWebhook" /\ x.held = TRUE
<1> DEFINE x == [Idle EXCEPT !.pc = "audit", !.op = "ReceiveWebhook", !.held = TRUE]
<1>1. /\ x.pc = "audit" /\ x.op = "ReceiveWebhook" /\ x.held = TRUE
  BY DEF Idle
<1>2. x \in RequestRecord
  BY DEF Idle, RequestRecord, Accounts, RolesOrNone
<1>3. req' = [req EXCEPT ![r] = x] /\ req[r].pc = "idle"
  BY DEF ReceiveWebhook
<1> HIDE DEF x
<1>4. Placed(x)
  BY <1>1, Apart DEF Placed
<1>5. Moved(r, x)
  BY <1>2, <1>3, <1>4 DEF Moved
<1> QED BY <1>1, <1>3, <1>5

LEMMA CountMoves ==
    ASSUME InPlace, NEW r \in Requests, countUsers(r)
    PROVE  \E x : /\ Moved(r, x) /\ req[r].pc = "count" /\ req[r].op = "login"
                  /\ x.pc = "select" /\ x.op = "login"
                  /\ x.role = IF users = {} THEN "owner" ELSE "member"
<1>1. PICK role \in {"owner", "member"} : role = IF users = {} THEN "owner" ELSE "member"
  OBVIOUS
<1> DEFINE x == [req[r] EXCEPT !.pc = "select", !.role = role]
<1>0. req[r] \in RequestRecord /\ Placed(req[r]) /\ req[r].pc = "count" /\ req[r].op = "login"
  BY Apart DEF InPlace, countUsers, Placed
<1>2. /\ x.pc = "select" /\ x.op = "login" /\ x.target = req[r].target /\ x.role = role
  BY <1>0 DEF RequestRecord
<1>3. x \in RequestRecord
  BY <1>0 DEF RequestRecord, RolesOrNone
<1>4. req' = [req EXCEPT ![r] = x]
  BY <1>1 DEF countUsers, InPlace
<1> HIDE DEF x
<1>5. Placed(x)
  BY <1>0, <1>2, Apart DEF Placed
<1>6. Moved(r, x)
  BY <1>3, <1>4, <1>5 DEF Moved
<1> QED BY <1>0, <1>1, <1>2, <1>6
----------------------------------------------------------------------------
\* The statement that writes users_extended, and what it records of the others.
LEMMA WrittenIs ==
    ASSUME InPlace, NEW r \in Requests, NEW table, NEW pc \in {"member", "deleteMember"},
           req[r].pc \in {"extended", "deleteExtended"},
           pc = "deleteMember" => req[r].op \in TeamOps,
           WriteExtended(r, table, pc)
    PROVE  /\ InPlace'
           /\ req'[r].pc = pc /\ req'[r].alone = (Others(r) = {}) /\ req'[r].held = req[r].held
           /\ \A q \in Requests :
                 /\ req'[q].op = req[q].op /\ req'[q].actor = req[q].actor /\ req'[q].target = req[q].target
                 /\ req'[q].role = req[q].role /\ req'[q].needs = req[q].needs
           /\ \A q \in Requests \ {r} :
                 /\ req'[q].pc = req[q].pc
                 /\ req'[q].alone = (req[q].alone /\ q \notin Others(r))
                 /\ req'[q].held = (req[q].held \/ (/\ req[q].pc = "authorize"
                                                    /\ Holds(table, req[q].actor, req[q].needs)))
<1>0. req \in [Requests -> RequestRecord] /\ \A q \in Requests : Placed(req[q])
  BY DEF InPlace
<1> DEFINE Nobody == Others(r) = {}
           Left(q) == req[q].alone /\ q \notin Others(r)
           Had(q) == req[q].held \/ (/\ req[q].pc = "authorize" /\ Holds(table, req[q].actor, req[q].needs))
           mine == [req[r] EXCEPT !.pc = pc, !.alone = Nobody]
           theirs(q) == [req[q] EXCEPT !.alone = Left(q), !.held = Had(q)]
<1>1. req' = [q \in Requests |-> IF q = r THEN mine ELSE theirs(q)]
  BY DEF WriteExtended
<1>2. pc \in Places
  BY DEF Places
<1>3. Nobody \in BOOLEAN /\ \A q \in Requests : Left(q) \in BOOLEAN /\ Had(q) \in BOOLEAN
  OBVIOUS
<1> HIDE DEF Nobody, Left, Had
<1>4. mine \in RequestRecord
  <2>1. PICK b \in BOOLEAN : b = Nobody
    BY <1>3
  <2>2. [req[r] EXCEPT !.pc = pc, !.alone = b] \in RequestRecord
    BY <1>0, <1>2, ZenonT(40) DEF RequestRecord, Places
  <2> QED BY <2>1, <2>2
<1>5. /\ mine.pc = pc /\ mine.alone = Nobody /\ mine.held = req[r].held /\ mine.op = req[r].op
      /\ mine.actor = req[r].actor /\ mine.target = req[r].target /\ mine.role = req[r].role
      /\ mine.needs = req[r].needs
  BY <1>0, ZenonT(40) DEF RequestRecord
<1>6. ASSUME NEW q \in Requests
      PROVE  theirs(q) \in RequestRecord
             /\ theirs(q).pc = req[q].pc /\ theirs(q).op = req[q].op /\ theirs(q).actor = req[q].actor
             /\ theirs(q).target = req[q].target /\ theirs(q).role = req[q].role
             /\ theirs(q).needs = req[q].needs
             /\ theirs(q).alone = Left(q) /\ theirs(q).held = Had(q)
  <2>0. req[q] \in RequestRecord
    BY <1>0
  <2>1. PICK a \in BOOLEAN, h \in BOOLEAN : a = Left(q) /\ h = Had(q)
    BY <1>3
  <2>2. [req[q] EXCEPT !.alone = a, !.held = h] \in RequestRecord
    BY <2>0 DEF RequestRecord
  <2>3. theirs(q) \in RequestRecord
    BY <2>1, <2>2
  <2>4. /\ theirs(q).pc = req[q].pc /\ theirs(q).op = req[q].op /\ theirs(q).actor = req[q].actor
        /\ theirs(q).target = req[q].target /\ theirs(q).role = req[q].role
        /\ theirs(q).needs = req[q].needs
        /\ theirs(q).alone = Left(q) /\ theirs(q).held = Had(q)
    BY <2>0 DEF RequestRecord
  <2> QED BY <2>3, <2>4
<1> HIDE DEF mine, theirs
<1>7. req' \in [Requests -> RequestRecord] /\ req'[r] = mine /\ \A q \in Requests \ {r} : req'[q] = theirs(q)
  BY <1>1, <1>4, <1>6
<1>8. Placed(mine)
  BY <1>0, <1>5, Apart DEF Placed
<1>9. \A q \in Requests \ {r} : Placed(theirs(q))
  BY <1>0, <1>6 DEF Placed
<1>10. InPlace'
  <2>1. \A q \in Requests : Placed(req'[q])
    BY <1>7, <1>8, <1>9
  <2> QED BY <1>7, <2>1 DEF InPlace, Placed
<1> QED BY <1>5, <1>6, <1>7, <1>10 DEF Nobody, Left, Had

\* The steps that do: a role is set for an account that exists, or deleted.
Writes(r, x, pc) ==
    /\ \/ x = req[r].role /\ pc = "member" /\ req[r].pc = "extended"
       \/ x = "none" /\ pc = "deleteMember" /\ req[r].pc = "deleteExtended"
    /\ WriteExtended(r, [users_extended EXCEPT ![req[r].target] = x], pc)
    /\ UNCHANGED <<users, team_members, user_roles, invitations, calls, faults, founded>>

LEMMA Writers ==
    ASSUME NEW r \in Requests, (upsertExtended(r) /\ req[r].target \in users) \/ deleteExtended(r)
    PROVE  \E x, pc : Writes(r, x, pc)
<1>1. CASE upsertExtended(r) /\ req[r].target \in users
  <2>1. Writes(r, req[r].role, "member")
    BY <1>1 DEF upsertExtended, Writes
  <2> QED BY <2>1
<1>2. CASE deleteExtended(r)
  <2>1. Writes(r, "none", "deleteMember")
    BY <1>2 DEF deleteExtended, Writes
  <2> QED BY <2>1
<1> QED BY <1>1, <1>2

LEMMA WritesIs ==
    ASSUME Stored, InPlace, NEW r \in Requests, NEW x, NEW pc, Writes(r, x, pc)
    PROVE  /\ InPlace'
           /\ pc \in {"member", "deleteMember"} /\ x \in RolesOrNone
           /\ req[r].op \in TeamOps \cup {"login"} /\ req[r].target \in Accounts
           /\ users_extended' = [users_extended EXCEPT ![req[r].target] = x]
           /\ req'[r].pc = pc /\ req'[r].alone = (Others(r) = {}) /\ req'[r].held = req[r].held
           /\ \A q \in Requests :
                 /\ req'[q].op = req[q].op /\ req'[q].actor = req[q].actor /\ req'[q].target = req[q].target
                 /\ req'[q].role = req[q].role /\ req'[q].needs = req[q].needs
           /\ \A q \in Requests \ {r} :
                 /\ req'[q].pc = req[q].pc
                 /\ req'[q].alone = (req[q].alone /\ q \notin Others(r))
                 /\ req'[q].held = (req[q].held \/ (/\ req[q].pc = "authorize"
                                                    /\ Holds(users_extended', req[q].actor, req[q].needs)))
<1>0. req[r] \in RequestRecord /\ Placed(req[r])
  BY DEF InPlace
<1>1. /\ pc \in {"member", "deleteMember"} /\ req[r].pc \in {"extended", "deleteExtended"}
      /\ pc = "deleteMember" => req[r].op \in TeamOps
      /\ req[r].op \in TeamOps \cup {"login"} /\ req[r].target \in Accounts
  BY <1>0 DEF Writes, Placed
<1>2. x \in RolesOrNone
  BY <1>0, Fields DEF Writes, RolesOrNone
<1>3. users_extended' = [users_extended EXCEPT ![req[r].target] = x]
  BY DEF Writes, WriteExtended
<1>4. WriteExtended(r, users_extended', pc)
  BY <1>3 DEF Writes
<1> QED BY <1>1, <1>2, <1>3, <1>4, WrittenIs
----------------------------------------------------------------------------
\* The steps of the handlers that change a row.
AtWork(r) == req[r].pc \in WorkOps

LEMMA AtWorkIs ==
    ASSUME InPlace, NEW r \in Requests, AtWork(r)
    PROVE  req[r].op = req[r].pc /\ req[r].op \in WorkOps
  BY Apart DEF InPlace, Placed, AtWork

LEMMA ChangedMoves ==
    ASSUME InPlace, NEW r \in Requests, AtWork(r), Changed(r)
    PROVE  Moved(r, At(req[r], "audit"))
<1>1. req[r] \in RequestRecord /\ Placed(req[r]) /\ req[r].op \in WorkOps
  BY AtWorkIs DEF InPlace
<1>2. "audit" \in Places /\ Placed(At(req[r], "audit"))
  BY <1>1, AtPlaced, Apart
<1> QED BY <1>1, <1>2, GotoMoves DEF Changed

LEMMA UpdateMoves ==
    ASSUME Stored, InPlace, NEW r \in Requests, UpdateActionItem(r), row
    PROVE  \E x : /\ Moved(r, x) /\ x.pc = "audit" /\ x.op = "UpdateActionItem" /\ x.held = req[r].held
                  /\ assignee' = x.target
<1>0. req[r] \in RequestRecord /\ Placed(req[r])
  BY DEF InPlace
<1>1. PICK a : a = IF req[r].target = NoAccount THEN assignee ELSE req[r].target
  OBVIOUS
<1>2. a \in Accounts \cup {NoAccount}
  BY <1>0, <1>1, Fields DEF Stored
<1> DEFINE x == [req[r] EXCEPT !.pc = "audit", !.target = a]
<1>3. /\ req' = [req EXCEPT ![r].pc = "audit", ![r].target = a]
      /\ assignee' = a /\ req[r].pc = "UpdateActionItem"
  BY <1>1 DEF UpdateActionItem, Assign
<1>4. req' = [req EXCEPT ![r] = x]
  BY <1>3 DEF InPlace
<1>5. AtWork(r) /\ req[r].op = "UpdateActionItem"
  BY <1>0, <1>3 DEF AtWork, WorkOps, Placed
<1>6. /\ x.pc = "audit" /\ x.target = a /\ x.op = "UpdateActionItem" /\ x.held = req[r].held
  BY <1>0, <1>5 DEF RequestRecord
<1>7. x \in RequestRecord
  BY <1>0, <1>2 DEF RequestRecord
<1> HIDE DEF x
<1>8. Placed(x)
  BY <1>5, <1>6, Apart DEF Placed, WorkOps
<1>9. Moved(r, x)
  BY <1>4, <1>7, <1>8 DEF Moved
<1> QED BY <1>3, <1>6, <1>9

LEMMA AuditWorkMoves ==
    ASSUME InPlace, NEW r \in Requests, AuditWork(r)
    PROVE  /\ Assigns(r) => Moved(r, At(req[r], "notify"))
           /\ ~ Assigns(r) => Moved(r, Idle)
<1>0. req[r] \in RequestRecord /\ Placed(req[r]) /\ req[r].pc = "audit"
  BY DEF InPlace, AuditWork
<1>1. CASE Assigns(r)
  <2>1. req[r].op \in ItemOps /\ req[r].target \in Accounts
    BY <1>0, <1>1, Fields DEF Assigns, ItemOps
  <2>2. "notify" \in Places
    BY DEF Places
  <2>3. /\ At(req[r], "notify").pc = "notify" /\ At(req[r], "notify").op = req[r].op
        /\ At(req[r], "notify").target = req[r].target
    BY <1>0, <2>2, AtIs
  <2>4. Placed(At(req[r], "notify"))
    BY <2>1, <2>3, Apart DEF Placed
  <2>5. Goto(r, "notify")
    BY <1>1 DEF AuditWork
  <2>6. Moved(r, At(req[r], "notify"))
    BY <1>0, <2>2, <2>4, <2>5, GotoMoves
  <2> QED BY <1>1, <2>6
<1>2. CASE ~ Assigns(r)
  <2>1. Finish(r)
    BY <1>2 DEF AuditWork
  <2> QED BY <1>2, <2>1, FinishMoves
<1> QED BY <1>1, <1>2

LEMMA NotifyMoves ==
    ASSUME NEW r \in Requests, createNotification(r)
    PROVE  Moved(r, Idle)
  BY FinishMoves DEF createNotification

\* The steps that change a row by one INSERT, UPDATE or DELETE, or do not find it.
LEMMA RowMoves ==
    ASSUME Stored, InPlace, NEW r \in Requests,
           \/ CreateRow(r) \/ CreateActionItem(r) \/ UpdateWorkflow(r) \/ DeleteRow(r) \/ CreateChild(r)
           \/ DeleteComment(r) \/ MarkNotificationRead(r) \/ (UpdateActionItem(r) /\ ~row)
    PROVE  /\ AtWork(r)
           /\ \/ Moved(r, Idle)
              \/ Changed(r) /\ Moved(r, At(req[r], "audit"))
<1>1. AtWork(r)
  BY DEF AtWork, WorkOps, CreateRow, CreateActionItem, UpdateActionItem, UpdateWorkflow, DeleteRow,
         CreateChild, DeleteComment, MarkNotificationRead
<1>2. Changed(r) \/ Finish(r)
  BY DEF CreateRow, CreateActionItem, UpdateActionItem, UpdateWorkflow, DeleteRow,
         CreateChild, DeleteComment, MarkNotificationRead, NotFound
<1> QED BY <1>1, <1>2, ChangedMoves, FinishMoves

\* All of them, as far as roles are concerned.
Works(r, x) ==
    /\ Moved(r, x)
    /\ req[r].pc \in WorkOps \cup {"audit", "notify"}
    /\ req[r].op \in WorkOps \cup {"ReceiveWebhook"}
    /\ \/ x = Idle
       \/ x.pc \in {"audit", "notify"} /\ x.op = req[r].op /\ x.held = req[r].held

LEMMA WorkMoves ==
    ASSUME Stored, InPlace, NEW r \in Requests, WorkStep(r)
    PROVE  \E x : Works(r, x)
<1>0. req[r] \in RequestRecord /\ Placed(req[r])
  BY DEF InPlace
<1>1. CASE \/ CreateRow(r) \/ CreateActionItem(r) \/ UpdateWorkflow(r) \/ DeleteRow(r) \/ CreateChild(r)
           \/ DeleteComment(r) \/ MarkNotificationRead(r) \/ (UpdateActionItem(r) /\ ~row)
  <2>1. AtWork(r) /\ (Moved(r, Idle) \/ Moved(r, At(req[r], "audit")))
    BY <1>1, RowMoves
  <2>2. "audit" \in Places
    BY DEF Places
  <2>3. /\ At(req[r], "audit").pc = "audit" /\ At(req[r], "audit").op = req[r].op
        /\ At(req[r], "audit").held = req[r].held
    BY <1>0, <2>2, AtIs
  <2> QED BY <2>1, <2>3, AtWorkIs DEF Works, AtWork
<1>2. CASE UpdateActionItem(r) /\ row
  <2>1. req[r].pc = "UpdateActionItem" /\ req[r].op = "UpdateActionItem" /\ req[r].op \in WorkOps
    BY <1>0, <1>2 DEF UpdateActionItem, Placed, WorkOps
  <2> QED BY <1>2, <2>1, UpdateMoves DEF Works
<1>3. CASE AuditWork(r)
  <2>1. req[r].pc = "audit" /\ req[r].op \in WorkOps \cup {"ReceiveWebhook"}
    BY <1>3 DEF AuditWork
  <2>2. "notify" \in Places
    BY DEF Places
  <2>3. /\ At(req[r], "notify").pc = "notify" /\ At(req[r], "notify").op = req[r].op
        /\ At(req[r], "notify").held = req[r].held
    BY <1>0, <2>2, AtIs
  <2> QED BY <1>3, <2>1, <2>3, AuditWorkMoves DEF Works
<1>4. CASE createNotification(r)
  <2>1. req[r].pc = "notify" /\ req[r].op \in WorkOps
    BY <1>0, <1>4, Apart DEF createNotification, Placed
  <2> QED BY <1>4, <2>1, NotifyMoves DEF Works
<1> QED BY <1>1, <1>2, <1>3, <1>4 DEF WorkStep

\* They change nothing about the accounts.
LEMMA WorkKeepsRoles ==
    ASSUME NEW r \in Requests, WorkStep(r)
    PROVE  UNCHANGED <<tables, founded, torn, trail>>
  BY DEF WorkStep, CreateRow, CreateActionItem, UpdateActionItem, UpdateWorkflow, DeleteRow, CreateChild,
         DeleteComment, MarkNotificationRead, AuditWork, createNotification, Unlisted
----------------------------------------------------------------------------
\* Team steps in which a request goes on or is answered.
TeamOn(r) ==
    \/ Authorize(r) \/ AddTeamUser(r) \/ createInvitation(r) \/ upsertMember(r) \/ insertUserRole(r)
    \/ deleteMember(r) \/ selectUser(r) \/ insertUser(r) \/ AuditTeam(r) \/ StatementFails(r)
    \/ (upsertExtended(r) /\ req[r].target \notin users)

\* A request of a member about the team or about a row.
Asked(r, op, target) ==
    \E needs, actor, role :
        /\ op \in TeamOps \cup WorkOps /\ needs \in RoleNames /\ actor \in Accounts
        /\ target \in Accounts \cup {NoAccount} /\ role \in RolesOrNone
        /\ op \in TeamOps => role \in GivenRoles /\ needs = "admin" /\ target \in Accounts
        /\ Arrive(r, op, needs, actor, target, role)

\* Nothing changes but the accounts and the bound on calls.
Quiet == UNCHANGED <<users_extended, team_members, user_roles, invitations, req, faults, founded, torn,
                     trail, rowVars>>

\* The kinds of steps that the proofs below tell apart.
LEMMA StepKinds ==
    ASSUME Stored, [Next]_vars
    PROVE  \/ Quiet \/ Crash
           \/ \E r \in Requests :
                 \/ (TeamOn(r) \/ countUsers(r) \/ \E x, pc : Writes(r, x, pc)) /\ UNCHANGED rowVars
                 \/ ((\E p \in Phones : WhatsAppLogin(r, p)) \/ \E op, b : Asked(r, op, b)) /\ UNCHANGED rowVars
                 \/ WorkStep(r) \/ ReceiveWebhook(r)
<1>1. CASE UNCHANGED vars \/ \E a \in Registrants : Register(a) /\ UNCHANGED rowVars
  BY <1>1 DEF vars, teamVars, tables, Register, Quiet
<1>2. ASSUME NEW r \in Requests, TeamStep(r) PROVE TeamOn(r) \/ countUsers(r) \/ \E x, pc : Writes(r, x, pc)
  BY <1>2, Writers DEF TeamStep, TeamOn
<1>3. ASSUME NEW r \in Requests, TeamRequest(r)
      PROVE  (\E p \in Phones : WhatsAppLogin(r, p)) \/ \E op, b : Asked(r, op, b)
  <2>1. ASSUME NEW op \in TeamOps, NEW a \in Accounts, NEW b \in Accounts, NEW role \in GivenRoles,
               Arrive(r, op, TeamNeeds[op], a, b, role)
        PROVE  Asked(r, op, b)
    <3>1. TeamNeeds[op] \in RoleNames
      BY TeamNeedsAdmin DEF RoleNames
    <3> QED BY <2>1, <3>1, TeamNeedsAdmin DEF Asked, RolesOrNone
  <2> QED BY <1>3, <2>1 DEF TeamRequest
<1>4. ASSUME NEW r \in Requests, WorkRequest(r) PROVE UNCHANGED rowVars /\ \E op, b : Asked(r, op, b)
  <2>1. OpsOf(kind) \subseteq WorkOps
    BY DEF Stored, RowKinds, OpsOf, WorkOps
  <2>2. PICK op \in OpsOf(kind), a \in Accounts, b \in Accounts \cup {NoAccount} :
           Arrive(r, op, WorkNeeds[op], a, b, "none")
    BY <1>4 DEF WorkRequest
  <2>3. op \in WorkOps /\ op \notin TeamOps
    BY <2>1, Apart
  <2>4. Asked(r, op, b)
    <3>1. WorkNeeds[op] \in RoleNames
      BY <2>3, RequiredRoleTyped DEF WorkNeeds, Needs
    <3> QED BY <2>2, <2>3, <3>1 DEF Asked, RolesOrNone
  <2> QED BY <1>4, <2>4 DEF WorkRequest
<1> QED BY <1>1, <1>2, <1>3, <1>4 DEF Next

LEMMA AskedArrives ==
    ASSUME Stored, InPlace, NEW r \in Requests, NEW op, NEW b, Asked(r, op, b)
    PROVE  /\ \E x : Arrived(r, x, op, b)
           /\ UNCHANGED <<tables, faults, founded, torn, trail>>
<1>1. \E x : Arrived(r, x, op, b)
  BY ArriveMoves DEF Asked
<1>2. UNCHANGED <<tables, faults, founded, torn, trail>>
  BY DEF Asked, Arrive
<1> QED BY <1>1, <1>2

LEMMA OnGoes ==
    ASSUME InPlace, NEW r \in Requests, TeamOn(r)
    PROVE  Goes(r)
<1>1. CASE Authorize(r)
  <2>1. First(req[r].op) \in Places \ {"idle", "authorize", "member", "log", "deleteMember", "audit", "notify"}
        => First(req[r].op) \in Places \ {"idle", "authorize"}
    OBVIOUS
  <2> QED BY <1>1, <2>1, AuthorizeGoes DEF Goes
<1> QED BY <1>1, TeamGoes DEF TeamOn

\* Requests stay where they may be.
LEMMA PlaceStep ==
    ASSUME Stored, InPlace, [Next]_vars
    PROVE  InPlace'
<1>1. ASSUME NEW r \in Requests, NEW x, Moved(r, x) PROVE InPlace'
  BY <1>1, MovedIs
<1>2. CASE Quiet
  BY <1>2 DEF Quiet, InPlace, Placed
<1>3. CASE Crash
  <2>1. req' \in [Requests -> RequestRecord] /\ \A r \in Requests : req'[r] = Idle
    BY <1>3, IdleIs DEF Crash, TeamCrash
  <2> QED BY <2>1, IdleIs DEF InPlace, Placed
<1>4. ASSUME NEW r \in Requests, TeamOn(r) PROVE \E x : Moved(r, x)
  BY <1>4, OnGoes DEF Goes
<1>5. ASSUME NEW r \in Requests, countUsers(r) \/ \E p \in Phones : WhatsAppLogin(r, p) PROVE \E x : Moved(r, x)
  BY <1>5, CountMoves, LoginMoves
<1>6. ASSUME NEW r \in Requests, NEW x, NEW pc, Writes(r, x, pc) PROVE InPlace'
  BY <1>6, WritesIs
<1>7. ASSUME NEW r \in Requests, NEW op, NEW b, Asked(r, op, b) PROVE \E x : Moved(r, x)
  BY <1>7, AskedArrives DEF Arrived
<1>8. ASSUME NEW r \in Requests, WorkStep(r) \/ ReceiveWebhook(r) PROVE \E x : Moved(r, x)
  BY <1>8, WorkMoves, WebhookMoves DEF Works
<1> QED BY StepKinds, <1>1, <1>2, <1>3, <1>4, <1>5, <1>6, <1>7, <1>8
----------------------------------------------------------------------------
\* Neither a member nor an account without a role is an administrator.
LEMMA NotAdmin ==
    ASSUME NEW table, NEW a, table[a] \in {"none", "member"}
    PROVE  ~ Holds(table, a, "admin")
  BY DEF Holds, getUserRole, MayUse, roleRank

\* What the invariants about rights ask of one request.
Entitled(q, table, f) ==
    /\ q.pc = "authorize" /\ Holds(table, q.actor, q.needs) => q.held
    /\ q.op \in TeamOps /\ q.held => f
    /\ q.op = "login" /\ q.role = "owner" => f
    /\ q.op \notin {"none", "login"} /\ q.pc # "authorize" => q.held

LEMMA EntitledIs ==
    (Rights /\ RoleDuringRequest) <=> \A r \in Requests : Entitled(req[r], users_extended, founded)
  BY DEF Rights, RoleDuringRequest, Entitled

LEMMA EntitledIsNext ==
    (Rights' /\ RoleDuringRequest') <=> \A r \in Requests : Entitled(req'[r], users_extended', founded')
  BY DEF Rights, RoleDuringRequest, Entitled

LEMMA RightsMoved ==
    ASSUME InPlace, Rights, RoleDuringRequest, AdminsNeedAFounder, NEW r \in Requests, NEW x, Moved(r, x),
           users_extended' = users_extended, founded => founded',
           Entitled(x, users_extended, founded')
    PROVE  Rights' /\ RoleDuringRequest' /\ AdminsNeedAFounder'
<1>1. req'[r] = x /\ \A q \in Requests \ {r} : req'[q] = req[q]
  BY MovedIs
<1>2. \A q \in Requests : Entitled(req[q], users_extended, founded)
  BY EntitledIs
<1>3. \A q \in Requests \ {r} : Entitled(req'[q], users_extended', founded')
  BY <1>1, <1>2 DEF Entitled
<1>4. \A q \in Requests : Entitled(req'[q], users_extended', founded')
  BY <1>1, <1>3
<1>5. AdminsNeedAFounder'
  BY DEF AdminsNeedAFounder, Admin
<1> QED BY <1>4, <1>5, EntitledIsNext

LEMMA IdleEntitled == ASSUME NEW table, NEW f PROVE Entitled(Idle, table, f)
  BY IdleIs, Apart DEF Entitled

\* Roles are used and given only by those who have them.
LEMMA RightsStep ==
    ASSUME Stored, InPlace, Rights, RoleDuringRequest, AdminsNeedAFounder, [Next]_vars
    PROVE  Rights' /\ RoleDuringRequest' /\ AdminsNeedAFounder'
<1> DEFINE Goal == Rights' /\ RoleDuringRequest' /\ AdminsNeedAFounder'
<1>0. \A q \in Requests : Entitled(req[q], users_extended, founded) /\ req[q] \in RequestRecord /\ Placed(req[q])
  BY EntitledIs DEF InPlace
<1>1. CASE Quiet
  BY <1>1 DEF Quiet, Rights, RoleDuringRequest, AdminsNeedAFounder, Admin
<1>2. CASE Crash
  <2>1. users_extended' = users_extended /\ founded' = founded /\ \A q \in Requests : req'[q] = Idle
    BY <1>2 DEF Crash, TeamCrash, tables
  <2>2. \A q \in Requests : Entitled(req'[q], users_extended', founded')
    BY <2>1, IdleEntitled
  <2>3. AdminsNeedAFounder'
    BY <2>1 DEF AdminsNeedAFounder, Admin
  <2> QED BY <2>2, <2>3, EntitledIsNext
<1>3. ASSUME NEW r \in Requests, TeamOn(r) PROVE Goal
  <2>1. users_extended' = users_extended /\ founded' = founded
    BY <1>3 DEF TeamOn, Authorize, AddTeamUser, createInvitation, upsertMember, insertUserRole, deleteMember,
                selectUser, insertUser, AuditTeam, StatementFails, upsertExtended, tables
  <2>2. CASE Moved(r, Idle)
    BY <2>1, <2>2, IdleEntitled, RightsMoved
  <2>3. ASSUME NEW pc \in Places \ {"idle", "authorize"}, Moved(r, At(req[r], pc)),
               req[r].pc = "authorize" => Holds(users_extended, req[r].actor, req[r].needs)
        PROVE  Goal
    <3>1. /\ At(req[r], pc).pc = pc /\ At(req[r], pc).op = req[r].op /\ At(req[r], pc).role = req[r].role
          /\ At(req[r], pc).held = req[r].held
      BY <1>0, AtIs
    <3>2. Entitled(At(req[r], pc), users_extended, founded')
      BY <1>0, <2>1, <2>3, <3>1 DEF Entitled
    <3> QED BY <2>1, <2>3, <3>2, RightsMoved
  <2> QED BY <1>3, <2>2, <2>3, OnGoes DEF Goes
<1>4. ASSUME NEW r \in Requests, countUsers(r) PROVE Goal
  <2>1. users_extended' = users_extended /\ founded' = (founded \/ users = {})
    BY <1>4 DEF countUsers, tables
  <2>2. PICK x : /\ Moved(r, x) /\ x.pc = "select" /\ x.op = "login"
                 /\ x.role = IF users = {} THEN "owner" ELSE "member"
    BY <1>4, CountMoves
  <2>3. Entitled(x, users_extended, founded')
    BY <2>1, <2>2, Apart DEF Entitled
  <2> QED BY <2>1, <2>2, <2>3, RightsMoved
<1>5. ASSUME NEW r \in Requests, NEW p \in Phones, WhatsAppLogin(r, p) PROVE Goal
  <2>1. users_extended' = users_extended /\ founded' = founded
    BY <1>5 DEF WhatsAppLogin, tables
  <2>2. PICK x : Moved(r, x) /\ x.pc = "count" /\ x.op = "login" /\ x.role = "none"
    BY <1>5, LoginMoves
  <2>3. Entitled(x, users_extended, founded')
    BY <2>2, Apart DEF Entitled
  <2> QED BY <2>1, <2>2, <2>3, RightsMoved
<1>6. ASSUME NEW r \in Requests, NEW op, NEW b, Asked(r, op, b) PROVE Goal
  <2>1. users_extended' = users_extended /\ founded' = founded
    BY <1>6, AskedArrives DEF tables
  <2>2. PICK x : Arrived(r, x, op, b)
    BY <1>6, AskedArrives
  <2>3. /\ Moved(r, x) /\ Placed(x) /\ x.pc = "authorize" /\ x.actor \in Accounts
        /\ x.held = Holds(users_extended, x.actor, x.needs)
    BY <2>2 DEF Arrived, Moved
  <2>4. x.op \in TeamOps /\ x.held => founded
    BY <2>3 DEF Placed, AdminsNeedAFounder, Admin
  <2>5. x.op # "login"
    BY <2>3, Apart DEF Placed
  <2>6. Entitled(x, users_extended, founded')
    BY <2>1, <2>3, <2>4, <2>5 DEF Entitled
  <2> QED BY <2>1, <2>3, <2>6, RightsMoved
<1>7. ASSUME NEW r \in Requests, ReceiveWebhook(r) PROVE Goal
  <2>1. users_extended' = users_extended /\ founded' = founded
    BY <1>7 DEF ReceiveWebhook, tables
  <2>2. PICK x : Moved(r, x) /\ x.pc = "audit" /\ x.op = "ReceiveWebhook" /\ x.held = TRUE
    BY <1>7, WebhookMoves
  <2>3. Entitled(x, users_extended, founded')
    BY <2>2, Apart DEF Entitled
  <2> QED BY <2>1, <2>2, <2>3, RightsMoved
<1>8. ASSUME NEW r \in Requests, WorkStep(r) PROVE Goal
  <2>1. users_extended' = users_extended /\ founded' = founded
    BY <1>8 DEF WorkStep, CreateRow, CreateActionItem, UpdateActionItem, UpdateWorkflow, DeleteRow, CreateChild,
                DeleteComment, MarkNotificationRead, AuditWork, createNotification, Unlisted, tables
  <2>2. PICK x : Works(r, x)
    BY <1>8, WorkMoves
  <2>3. CASE x = Idle
    BY <2>1, <2>2, <2>3, IdleEntitled, RightsMoved DEF Works
  <2>4. CASE x # Idle
    <3>1. Entitled(x, users_extended, founded')
      BY <1>0, <2>1, <2>2, <2>4, Apart DEF Works, Entitled
    <3> QED BY <2>1, <2>2, <3>1, RightsMoved DEF Works
  <2> QED BY <2>3, <2>4
<1>9. ASSUME NEW r \in Requests, NEW x, NEW pc, Writes(r, x, pc) PROVE Goal
  <2>1. /\ pc \in {"member", "deleteMember"}
        /\ req[r].op \in TeamOps \cup {"login"} /\ req[r].target \in Accounts
        /\ users_extended' = [users_extended EXCEPT ![req[r].target] = x]
        /\ req'[r].pc = pc /\ req'[r].held = req[r].held
        /\ \A q \in Requests :
              /\ req'[q].op = req[q].op /\ req'[q].actor = req[q].actor
              /\ req'[q].role = req[q].role /\ req'[q].needs = req[q].needs
        /\ \A q \in Requests \ {r} :
              /\ req'[q].pc = req[q].pc
              /\ req'[q].held = (req[q].held \/ (/\ req[q].pc = "authorize"
                                                 /\ Holds(users_extended', req[q].actor, req[q].needs)))
    BY <1>9, WritesIs
  <2>2. founded' = founded /\ req[r].pc \in {"extended", "deleteExtended"}
    BY <1>9 DEF Writes
  <2>3. x \in {"none", "member"} \/ founded
    <3>1. CASE req[r].op \in TeamOps
      <4>1. req[r].op \notin {"none", "login"} /\ req[r].pc # "authorize"
        BY <2>2, <3>1, Apart
      <4> QED BY <1>0, <3>1, <4>1 DEF Entitled
    <3>2. CASE req[r].op = "login"
      <4>1. req[r].role \in {"owner", "member"}
        BY <1>0, <2>2, <3>2 DEF Placed
      <4>2. req[r].role = "owner" => founded
        BY <1>0, <3>2 DEF Entitled
      <4>3. x \in {req[r].role, "none"}
        BY <1>9 DEF Writes
      <4> QED BY <4>1, <4>2, <4>3
    <3> QED BY <2>1, <3>1, <3>2
  <2>4. AdminsNeedAFounder'
    <3> SUFFICES ASSUME NEW a \in Accounts, Holds(users_extended', a, "admin") PROVE founded'
      BY DEF AdminsNeedAFounder, Admin
    <3>1. CASE a = req[r].target
      <4>1. users_extended'[a] = x
        BY <2>1, <3>1 DEF Stored
      <4> QED BY <2>2, <2>3, <4>1, NotAdmin
    <3>2. CASE a # req[r].target
      <4>1. users_extended'[a] = users_extended[a]
        BY <2>1, <3>2 DEF Stored
      <4>2. Holds(users_extended, a, "admin")
        BY <4>1 DEF Holds, getUserRole
      <4> QED BY <2>2, <4>2 DEF AdminsNeedAFounder, Admin
    <3> QED BY <3>1, <3>2
  <2>5. ASSUME NEW q \in Requests, q # r PROVE Entitled(req'[q], users_extended', founded')
    <3>1. req[q].op \in TeamOps /\ req'[q].held => founded
      <4>1. CASE req[q].held
        BY <1>0, <4>1 DEF Entitled
      <4>2. CASE ~ req[q].held
        <5> SUFFICES ASSUME req[q].op \in TeamOps, req'[q].held PROVE founded
          OBVIOUS
        <5>1. req[q].pc = "authorize" /\ Holds(users_extended', req[q].actor, req[q].needs)
          BY <2>1, <2>5, <4>2
        <5>2. req[q].actor \in Accounts /\ req[q].needs = "admin"
          BY <1>0, <5>1 DEF Placed
        <5> QED BY <2>2, <2>4, <5>1, <5>2 DEF AdminsNeedAFounder, Admin
      <4> QED BY <4>1, <4>2
    <3>2. req[q].op \notin {"none", "login"} /\ req[q].pc # "authorize" => req[q].held
      BY <1>0 DEF Entitled
    <3>3. req[q].op = "login" /\ req[q].role = "owner" => founded
      BY <1>0 DEF Entitled
    <3>4. req'[q].held <=> (req[q].held \/ (/\ req[q].pc = "authorize"
                                            /\ Holds(users_extended', req[q].actor, req[q].needs)))
      BY <2>1, <2>5
    <3>5. /\ req'[q].op = req[q].op /\ req'[q].actor = req[q].actor /\ req'[q].pc = req[q].pc
          /\ req'[q].role = req[q].role /\ req'[q].needs = req[q].needs
      BY <2>1, <2>5
    <3> QED BY <2>2, <3>1, <3>2, <3>3, <3>4, <3>5 DEF Entitled
  <2>6. Entitled(req'[r], users_extended', founded')
    BY <1>0, <2>1, <2>2 DEF Entitled
  <2>7. \A q \in Requests : Entitled(req'[q], users_extended', founded')
    BY <2>5, <2>6
  <2> QED BY <2>4, <2>7, EntitledIsNext
<1> QED BY StepKinds, <1>1, <1>2, <1>3, <1>4, <1>5, <1>6, <1>7, <1>8, <1>9
----------------------------------------------------------------------------
Calm(r) ==
    Changing(r) =>
        /\ req[r].target \notin torn => req[r].alone
        /\ req[r].alone =>
              /\ \A q \in Requests \ {r} : Changing(q) => req[q].target # req[r].target
              /\ req[r].pc \in {"member", "log"} => users_extended[req[r].target] = req[r].role
              /\ req[r].pc = "log" => team_members[req[r].target] = req[r].role
              /\ req[r].pc = "deleteMember" => users_extended[req[r].target] = "none"

LEMMA AloneIs == Alone <=> \A r \in Requests : Calm(r)
  BY DEF Alone, Calm, Others

LEMMA AloneIsNext == Alone' <=> \A r \in Requests : Calm(r)'
  BY DEF Alone, Calm, Others, Changing

\* The three tables agree about account a.
Agree(a) ==
    /\ users_extended[a] = team_members[a]
    /\ users_extended[a] # "none" => user_roles[a] = users_extended[a]

\* A step that changes no role and leaves every change in progress as it was.
LEMMA Undisturbed ==
    ASSUME Alone, RolesAgree, UNCHANGED <<users_extended, team_members, user_roles, torn>>,
           \A q \in Requests : Changing(q)' <=> Changing(q),
           \A q \in Requests : Changing(q) => /\ req'[q].pc = req[q].pc /\ req'[q].target = req[q].target
                                              /\ req'[q].role = req[q].role /\ req'[q].alone = req[q].alone
    PROVE  Alone' /\ RolesAgree'
<1>1. \A q \in Requests : Calm(q)
  BY AloneIs
<1>2. \A q \in Requests : Calm(q)'
  BY <1>1 DEF Calm
<1>3. RolesAgree'
  BY DEF RolesAgree
<1> QED BY <1>2, <1>3, AloneIsNext

LEMMA MovedUndisturbed ==
    ASSUME InPlace, Alone, RolesAgree, UNCHANGED <<users_extended, team_members, user_roles, torn>>,
           NEW r \in Requests, NEW x, Moved(r, x), ~ Changing(r),
           x.pc \notin {"member", "log", "deleteMember"}
    PROVE  Alone' /\ RolesAgree'
<1>1. req'[r] = x /\ \A q \in Requests \ {r} : req'[q] = req[q]
  BY MovedIs
<1> QED BY <1>1, Undisturbed DEF Changing

\* The statements of a role change.
LEMMA MemberWritten ==
    ASSUME Stored, InPlace, Alone, RolesAgree, NEW r \in Requests, upsertMember(r)
    PROVE  Alone' /\ RolesAgree'
<1> DEFINE a == req[r].target
<1>0. req[r] \in RequestRecord /\ Placed(req[r]) /\ req[r].pc = "member" /\ a \in Accounts
  BY DEF InPlace, upsertMember, Placed
<1>1. /\ req'[r].pc = "log" /\ req'[r].target = a /\ req'[r].role = req[r].role
      /\ req'[r].alone = req[r].alone /\ \A q \in Requests \ {r} : req'[q] = req[q]
  BY <1>0 DEF InPlace, upsertMember, Goto, RequestRecord
<1>2. /\ users_extended' = users_extended /\ user_roles' = user_roles /\ torn' = torn
      /\ team_members'[a] = req[r].role /\ \A b \in Accounts \ {a} : team_members'[b] = team_members[b]
  BY <1>0 DEF upsertMember, Stored
<1>3. \A q \in Requests : Calm(q) /\ (Changing(q)' <=> Changing(q)) /\ req'[q].target = req[q].target
  BY <1>0, <1>1, AloneIs DEF Changing
<1>4. Calm(r)'
  BY <1>0, <1>1, <1>2, <1>3 DEF Calm, Changing
<1>5. ASSUME NEW q \in Requests, q # r PROVE Calm(q)'
  <2>1. Changing(q) => req[q].target \in Accounts
    BY Apart DEF InPlace, Placed, Changing
  <2>2. req'[q] = req[q] /\ Changing(r)
    BY <1>0, <1>1, <1>5 DEF Changing
  <2> QED BY <1>2, <1>3, <1>5, <2>1, <2>2 DEF Calm
<1>6. RolesAgree'
  <2> SUFFICES ASSUME NEW b \in Accounts \ torn', \A q \in Requests : Changing(q)' => req'[q].target # b
               PROVE  Agree(b)'
    BY DEF RolesAgree, Agree
  <2>1. b # a /\ b \in Accounts \ torn /\ \A q \in Requests : Changing(q) => req[q].target # b
    BY <1>0, <1>2, <1>3 DEF Changing
  <2> QED BY <1>2, <2>1 DEF RolesAgree, Agree
<1> QED BY <1>4, <1>5, <1>6, AloneIsNext

\* The last statement of a role change: the tables agree again if it was alone.
LEMMA Settled ==
    ASSUME Stored, InPlace, Alone, RolesAgree, NEW r \in Requests,
           insertUserRole(r) \/ deleteMember(r)
    PROVE  Alone' /\ RolesAgree'
<1>00. PICK a : a = req[r].target
  OBVIOUS
<1>0. req[r] \in RequestRecord /\ Placed(req[r]) /\ req[r].pc \in {"log", "deleteMember"} /\ a \in Accounts
  BY <1>00 DEF InPlace, insertUserRole, deleteMember, Placed
<1>1. req'[r].pc \in {"idle", "audit"} /\ \A q \in Requests \ {r} : req'[q] = req[q]
  <2>1. Goto(r, "audit") \/ Finish(r)
    BY DEF insertUserRole, deleteMember, Settle
  <2>2. CASE Goto(r, "audit")
    BY <1>0, <2>2 DEF InPlace, Goto, RequestRecord
  <2>3. CASE Finish(r)
    BY <2>3, IdleIs DEF InPlace, Finish
  <2> QED BY <2>1, <2>2, <2>3
<1>2. /\ users_extended' = users_extended
      /\ torn' = IF req[r].alone THEN torn \ {a} ELSE torn
      /\ \A b \in Accounts \ {a} : team_members'[b] = team_members[b] /\ user_roles'[b] = user_roles[b]
  BY <1>00, <1>0 DEF insertUserRole, deleteMember, Settle, Stored
<1>3. Changing(r) /\ ~ Changing(r)' /\ \A q \in Requests \ {r} : Changing(q)' <=> Changing(q)
  BY <1>0, <1>1 DEF Changing
<1>4. \A q \in Requests : Calm(q)
  BY AloneIs
<1>5. req[r].alone => Agree(a)'
  <2>1. CASE insertUserRole(r)
    <3>1. req[r].pc = "log" /\ team_members' = team_members /\ user_roles'[a] = req[r].role
      BY <1>00, <1>0, <2>1 DEF insertUserRole, Stored
    <3> QED BY <1>00, <1>2, <1>3, <1>4, <3>1 DEF Agree, Calm
  <2>2. CASE deleteMember(r)
    <3>1. req[r].pc = "deleteMember" /\ team_members'[a] = "none"
      BY <1>00, <1>0, <2>2 DEF deleteMember, Stored
    <3> QED BY <1>00, <1>2, <1>3, <1>4, <3>1 DEF Agree, Calm
  <2> QED BY <2>1, <2>2
<1>6. ASSUME NEW q \in Requests, q # r PROVE Calm(q)'
  <2>1. Changing(q) => req[q].target \in Accounts
    BY Apart DEF InPlace, Placed, Changing
  <2>2. req'[q] = req[q] /\ (Changing(q)' <=> Changing(q))
    BY <1>1, <1>3, <1>6
  <2>3. Changing(q) /\ req[q].alone => req[q].target # a
    BY <1>00, <1>3, <1>4, <1>6 DEF Calm
  <2>4. Changing(q) /\ req[q].target \notin torn' => req[q].alone
    BY <1>00, <1>2, <1>3, <1>4, <1>6 DEF Calm
  <2> QED BY <1>1, <1>2, <1>3, <1>4, <2>1, <2>2, <2>3, <2>4 DEF Calm
<1>7. Calm(r)'
  BY <1>3 DEF Calm
<1>8. RolesAgree'
  <2> SUFFICES ASSUME NEW b \in Accounts \ torn', \A q \in Requests : Changing(q)' => req'[q].target # b
               PROVE  Agree(b)'
    BY DEF RolesAgree, Agree
  <2>1. CASE b = a
    BY <1>00, <1>2, <1>3, <1>4, <1>5, <2>1 DEF Calm
  <2>2. CASE b # a
    <3>1. b \in Accounts \ torn /\ \A q \in Requests : Changing(q) => req[q].target # b
      BY <1>00, <1>1, <1>2, <1>3, <2>2
    <3> QED BY <1>2, <2>2, <3>1 DEF RolesAgree, Agree
  <2> QED BY <2>1, <2>2
<1> QED BY <1>6, <1>7, <1>8, AloneIsNext

\* A change that is cut short.
LEMMA CutShort ==
    ASSUME Stored, InPlace, Alone, RolesAgree, NEW r \in Requests, StatementFails(r), Changing(r)
    PROVE  Alone' /\ RolesAgree'
<1>0. req[r].pc \in {"member", "log", "deleteMember"}
  BY DEF Changing
<1>1. req'[r] = Idle /\ \A q \in Requests \ {r} : req'[q] = req[q]
  BY <1>0 DEF InPlace, StatementFails, Finish
<1>2. /\ UNCHANGED <<users_extended, team_members, user_roles>>
      /\ torn' = torn \cup {req[r].target}
  BY DEF StatementFails, tables
<1>3. ~ Changing(r)' /\ \A q \in Requests \ {r} : Changing(q)' <=> Changing(q)
  BY <1>1, IdleIs DEF Changing
<1>4. \A q \in Requests : Calm(q)
  BY AloneIs
<1>5. ASSUME NEW q \in Requests \ {r} PROVE Calm(q)'
  BY <1>1, <1>2, <1>3, <1>4 DEF Calm
<1>6. Calm(r)'
  BY <1>3 DEF Calm
<1>7. RolesAgree'
  BY <1>1, <1>2, <1>3 DEF RolesAgree
<1> QED BY <1>5, <1>6, <1>7, AloneIsNext

\* The first statement of a role change: it meets the changes in progress.
LEMMA ChangeBegins ==
    ASSUME Stored, InPlace, Alone, RolesAgree, NEW r \in Requests, NEW x, NEW pc,
           Writes(r, x, pc)
    PROVE  Alone' /\ RolesAgree'
<1>00. PICK a : a = req[r].target
  OBVIOUS
<1>0. /\ pc \in {"member", "deleteMember"} /\ a \in Accounts
      /\ users_extended' = [users_extended EXCEPT ![a] = x]
      /\ req'[r].pc = pc /\ req'[r].alone = (Others(r) = {})
      /\ \A q \in Requests : req'[q].target = req[q].target /\ req'[q].role = req[q].role
      /\ \A q \in Requests \ {r} :
            req'[q].pc = req[q].pc /\ req'[q].alone = (req[q].alone /\ q \notin Others(r))
  BY <1>00, WritesIs
<1>1. /\ team_members' = team_members /\ user_roles' = user_roles
      /\ torn' = IF Others(r) = {} THEN torn ELSE torn \cup {a}
      /\ req[r].pc \in {"extended", "deleteExtended"}
      /\ pc = "member" => x = req[r].role
      /\ pc = "deleteMember" => x = "none"
  BY <1>00 DEF Writes, WriteExtended
<1>2. /\ users_extended'[a] = x
      /\ \A b \in Accounts \ {a} : users_extended'[b] = users_extended[b]
  BY <1>0 DEF Stored
<1>3. Changing(r)' /\ ~ Changing(r) /\ \A q \in Requests \ {r} : Changing(q)' <=> Changing(q)
  BY <1>0, <1>1 DEF Changing
<1>4. \A q \in Requests : Calm(q)
  BY AloneIs
<1>5. \A q \in Requests : q \in Others(r) <=> (q # r /\ Changing(q) /\ req[q].target = a)
  BY <1>00 DEF Others
<1>6. Calm(r)'
  <2>1. req'[r].target = a /\ req'[r].role = req[r].role
    BY <1>00, <1>0
  <2>2. Others(r) = {} => \A q \in Requests \ {r} : Changing(q)' => req'[q].target # a
    BY <1>0, <1>3, <1>5
  <2> QED BY <1>0, <1>1, <1>2, <1>3, <2>1, <2>2 DEF Calm
<1>7. ASSUME NEW q \in Requests, q # r PROVE Calm(q)'
  <2> SUFFICES ASSUME Changing(q)
               PROVE  /\ req[q].target \notin torn' => req'[q].alone
                      /\ req'[q].alone =>
                            /\ \A u \in Requests \ {q} : Changing(u)' => req'[u].target # req[q].target
                            /\ req[q].pc \in {"member", "log"} => users_extended'[req[q].target] = req[q].role
                            /\ req[q].pc = "log" => team_members'[req[q].target] = req[q].role
                            /\ req[q].pc = "deleteMember" => users_extended'[req[q].target] = "none"
    BY <1>0, <1>3, <1>7 DEF Calm
  <2>0. req[q].target \in Accounts
    BY Apart DEF InPlace, Placed, Changing
  <2>1. req[q].target = a => q \in Others(r)
    BY <1>5, <1>7
  <2>2. ASSUME req[q].target \notin torn' PROVE req'[q].alone
    <3>1. req[q].target # a /\ req[q].target \notin torn
      BY <1>1, <2>1, <2>2
    <3>2. req[q].alone /\ q \notin Others(r)
      BY <1>4, <1>5, <3>1 DEF Calm
    <3> QED BY <1>0, <1>7, <3>2
  <2>3. ASSUME req'[q].alone
        PROVE  /\ \A u \in Requests \ {q} : Changing(u)' => req'[u].target # req[q].target
               /\ req[q].pc \in {"member", "log"} => users_extended'[req[q].target] = req[q].role
               /\ req[q].pc = "log" => team_members'[req[q].target] = req[q].role
               /\ req[q].pc = "deleteMember" => users_extended'[req[q].target] = "none"
    <3>1. req[q].alone /\ req[q].target # a
      BY <1>0, <1>7, <2>1, <2>3
    <3>2. \A u \in Requests \ {q} : Changing(u)' => req'[u].target # req[q].target
      BY <1>00, <1>0, <1>3, <1>4, <3>1 DEF Calm
    <3>3. users_extended'[req[q].target] = users_extended[req[q].target]
      BY <1>2, <2>0, <3>1
    <3> QED BY <1>1, <1>4, <3>1, <3>2, <3>3 DEF Calm
  <2> QED BY <2>2, <2>3
<1>8. RolesAgree'
  <2> SUFFICES ASSUME NEW b \in Accounts \ torn', \A q \in Requests : Changing(q)' => req'[q].target # b
               PROVE  Agree(b)'
    BY DEF RolesAgree, Agree
  <2>1. b # a /\ b \in Accounts \ torn /\ \A q \in Requests : Changing(q) => req[q].target # b
    BY <1>00, <1>0, <1>1, <1>3
  <2> QED BY <1>1, <1>2, <2>1 DEF RolesAgree, Agree
<1> QED BY <1>6, <1>7, <1>8, AloneIsNext

LEMMA AgreeStep ==
    ASSUME Stored, InPlace, Alone, RolesAgree, [Next]_vars
    PROVE  Alone' /\ RolesAgree'
<1>0. \A r \in Requests : req[r] \in RequestRecord /\ Placed(req[r])
  BY DEF InPlace
<1>1. CASE Quiet
  BY <1>1, Undisturbed DEF Quiet, Changing
<1>2. CASE Crash
  <2>1. /\ UNCHANGED <<users_extended, team_members, user_roles>>
        /\ torn' = torn \cup {req[r].target : r \in {q \in Requests : Changing(q)}}
        /\ \A r \in Requests : req'[r] = Idle
    BY <1>2 DEF Crash, TeamCrash, tables
  <2>2. \A r \in Requests : Calm(r)'
    BY <2>1, IdleIs DEF Calm, Changing
  <2>3. RolesAgree'
    BY <2>1 DEF RolesAgree
  <2> QED BY <2>2, <2>3, AloneIsNext
<1>3. ASSUME NEW r \in Requests, TeamOn(r) PROVE Alone' /\ RolesAgree'
  <2>1. CASE upsertMember(r)
    BY <2>1, MemberWritten
  <2>2. CASE insertUserRole(r) \/ deleteMember(r)
    BY <2>2, Settled
  <2>3. CASE StatementFails(r) /\ Changing(r)
    BY <2>3, CutShort
  <2>4. CASE Authorize(r)
    <3>1. UNCHANGED <<users_extended, team_members, user_roles, torn>> /\ ~ Changing(r)
      BY <2>4 DEF Authorize, tables, Changing
    <3>2. PICK x : Moved(r, x) /\ x.pc \notin {"member", "log", "deleteMember"}
      BY <1>0, <2>4, AuthorizeGoes, AtIs, IdleIs
    <3> QED BY <3>1, <3>2, MovedUndisturbed
  <2>5. CASE \/ AddTeamUser(r) \/ createInvitation(r) \/ selectUser(r) \/ insertUser(r) \/ AuditTeam(r)
             \/ (StatementFails(r) /\ ~ Changing(r))
             \/ (upsertExtended(r) /\ req[r].target \notin users)
    <3>1. UNCHANGED <<users_extended, team_members, user_roles, torn>> /\ ~ Changing(r)
      BY <2>5 DEF AddTeamUser, createInvitation, selectUser, insertUser, AuditTeam, StatementFails,
                  upsertExtended, tables, Changing
    <3>2. Finish(r) \/ \E pc \in {"extended", "invitation", "audit", "insert"} : Goto(r, pc)
      BY <2>5 DEF AddTeamUser, createInvitation, selectUser, insertUser, AuditTeam, StatementFails,
                  upsertExtended
    <3>3. req'[r].pc \notin {"member", "log", "deleteMember"} /\ \A q \in Requests \ {r} : req'[q] = req[q]
      <4>1. CASE Finish(r)
        BY <4>1, IdleIs DEF InPlace, Finish
      <4>2. ASSUME NEW pc \in {"extended", "invitation", "audit", "insert"}, Goto(r, pc)
            PROVE  req'[r].pc = pc /\ \A q \in Requests \ {r} : req'[q] = req[q]
        BY <1>0, <4>2 DEF InPlace, Goto, RequestRecord
      <4> QED BY <3>2, <4>1, <4>2
    <3> QED BY <3>1, <3>3, Undisturbed DEF Changing
  <2> QED BY <1>3, <2>1, <2>2, <2>3, <2>4, <2>5 DEF TeamOn
<1>4. ASSUME NEW r \in Requests, countUsers(r) PROVE Alone' /\ RolesAgree'
  <2>1. UNCHANGED <<users_extended, team_members, user_roles, torn>> /\ ~ Changing(r)
    BY <1>4 DEF countUsers, tables, Changing
  <2>2. PICK x : Moved(r, x) /\ x.pc = "select"
    BY <1>4, CountMoves
  <2> QED BY <2>1, <2>2, MovedUndisturbed
<1>5. ASSUME NEW r \in Requests, NEW p \in Phones, WhatsAppLogin(r, p) PROVE Alone' /\ RolesAgree'
  <2>1. UNCHANGED <<users_extended, team_members, user_roles, torn>> /\ ~ Changing(r)
    BY <1>5 DEF WhatsAppLogin, tables, Changing
  <2>2. PICK x : Moved(r, x) /\ x.pc = "count"
    BY <1>5, LoginMoves
  <2> QED BY <2>1, <2>2, MovedUndisturbed
<1>6. ASSUME NEW r \in Requests, NEW op, NEW b, Asked(r, op, b) PROVE Alone' /\ RolesAgree'
  <2>1. PICK x : Arrived(r, x, op, b)
    BY <1>6, AskedArrives
  <2>2. UNCHANGED <<users_extended, team_members, user_roles, torn>> /\ ~ Changing(r)
    BY <1>6, <2>1, AskedArrives DEF tables, Changing, Arrived
  <2> QED BY <2>1, <2>2, MovedUndisturbed DEF Arrived
<1>7. ASSUME NEW r \in Requests, ReceiveWebhook(r) PROVE Alone' /\ RolesAgree'
  <2>1. UNCHANGED <<users_extended, team_members, user_roles, torn>> /\ ~ Changing(r)
    BY <1>7 DEF ReceiveWebhook, tables, Changing
  <2>2. PICK x : Moved(r, x) /\ x.pc = "audit"
    BY <1>7, WebhookMoves
  <2> QED BY <2>1, <2>2, MovedUndisturbed
<1>8. ASSUME NEW r \in Requests, WorkStep(r) PROVE Alone' /\ RolesAgree'
  <2>1. UNCHANGED <<users_extended, team_members, user_roles, torn>>
    BY <1>8 DEF WorkStep, CreateRow, CreateActionItem, UpdateActionItem, UpdateWorkflow, DeleteRow, CreateChild,
                DeleteComment, MarkNotificationRead, AuditWork, createNotification, Unlisted, tables
  <2>2. PICK x : Works(r, x)
    BY <1>8, WorkMoves
  <2>3. ~ Changing(r) /\ x.pc \notin {"member", "log", "deleteMember"}
    BY <2>2, Apart, IdleIs DEF Works, Changing
  <2> QED BY <2>1, <2>2, <2>3, MovedUndisturbed DEF Works
<1>9. ASSUME NEW r \in Requests, NEW x, NEW pc, Writes(r, x, pc) PROVE Alone' /\ RolesAgree'
  BY <1>9, ChangeBegins
<1> QED BY StepKinds, <1>1, <1>2, <1>3, <1>4, <1>5, <1>6, <1>7, <1>8, <1>9
----------------------------------------------------------------------------
\* The accounts and the rows keep their types.
LEMMA Targets ==
    ASSUME InPlace, NEW r \in Requests
    PROVE  /\ req[r].role \in RolesOrNone /\ req[r].target \in Accounts \cup {NoAccount}
           /\ req[r].pc \in {"lookup", "invitation", "extended", "member", "log", "deleteExtended",
                             "deleteMember", "insert", "notify"} => req[r].target \in Accounts
           /\ Assigns(r) => req[r].target \in Accounts
<1>1. req[r] \in RequestRecord /\ Placed(req[r])
  BY DEF InPlace
<1>2. req[r].role \in RolesOrNone /\ req[r].target \in Accounts \cup {NoAccount}
  BY <1>1, Fields
<1>3. req[r].pc \in {"lookup", "invitation", "extended", "member", "log", "deleteExtended",
                     "deleteMember", "insert", "notify"} => req[r].target \in Accounts
  BY <1>1 DEF Placed
<1> QED BY <1>2, <1>3 DEF Assigns

TeamStored ==
    /\ users \subseteq Accounts
    /\ users_extended \in [Accounts -> RolesOrNone] /\ team_members \in [Accounts -> RolesOrNone]
    /\ user_roles \in [Accounts -> RolesOrNone] /\ invitations \in [Accounts -> RolesOrNone]
    /\ calls \in 0 .. MaxCalls /\ faults \in 0 .. MaxFaults
    /\ founded \in BOOLEAN
    /\ torn \subseteq Accounts

TrailStored == audited \subseteq Accounts /\ unlogged \subseteq Accounts

RowStored ==
    /\ kind \in RowKinds
    /\ row \in BOOLEAN /\ child \in BOOLEAN
    /\ assignee \in Accounts \cup {NoAccount}
    /\ unread \subseteq Accounts /\ notified \subseteq Accounts /\ missed \subseteq Accounts

LEMMA StoredParts ==
    /\ Stored <=> TeamStored /\ TrailStored /\ RowStored
    /\ Stored' <=> TeamStored' /\ TrailStored' /\ RowStored'
  BY DEF Stored, TeamStored, TrailStored, RowStored

LEMMA TeamStoredStep ==
    ASSUME TeamStored, InPlace, NEW r \in Requests, TeamStep(r)
    PROVE  TeamStored'
<1>0. /\ req[r].role \in RolesOrNone /\ req[r].target \in Accounts \cup {NoAccount}
      /\ req[r].pc \in {"lookup", "invitation", "extended", "member", "log", "deleteExtended",
                        "deleteMember", "insert", "notify"} => req[r].target \in Accounts
  BY Targets
<1>1. "none" \in RolesOrNone
  BY DEF RolesOrNone
<1>2. CASE Authorize(r) \/ AddTeamUser(r) \/ selectUser(r)
  BY <1>2 DEF TeamStored, Authorize, AddTeamUser, selectUser, tables
<1>3. CASE createInvitation(r)
  BY <1>0, <1>3 DEF TeamStored, createInvitation
<1>4. CASE upsertExtended(r)
  <2>0. req[r].target \in Accounts
    BY <1>0, <1>4 DEF upsertExtended
  <2>1. /\ users_extended' = [users_extended EXCEPT ![req[r].target] = req[r].role] \/ UNCHANGED users_extended
        /\ torn' = torn \/ torn' = torn \cup {req[r].target}
    BY <1>4 DEF upsertExtended, WriteExtended
  <2>2. users_extended' \in [Accounts -> RolesOrNone] /\ torn' \subseteq Accounts
    BY <1>0, <2>0, <2>1 DEF TeamStored
  <2> QED BY <1>4, <2>2 DEF TeamStored, upsertExtended
<1>5. CASE upsertMember(r)
  BY <1>0, <1>5 DEF TeamStored, upsertMember
<1>6. CASE insertUserRole(r)
  <2>1. torn' \subseteq torn
    BY <1>6 DEF insertUserRole, Settle
  <2>2. user_roles' \in [Accounts -> RolesOrNone]
    BY <1>0, <1>6 DEF TeamStored, insertUserRole
  <2> QED BY <1>6, <2>1, <2>2 DEF TeamStored, insertUserRole
<1>7. CASE deleteExtended(r)
  <2>0. req[r].target \in Accounts
    BY <1>0, <1>7 DEF deleteExtended
  <2>1. /\ users_extended' = [users_extended EXCEPT ![req[r].target] = "none"]
        /\ torn' = torn \/ torn' = torn \cup {req[r].target}
    BY <1>7 DEF deleteExtended, WriteExtended
  <2>2. users_extended' \in [Accounts -> RolesOrNone] /\ torn' \subseteq Accounts
    BY <1>1, <2>0, <2>1 DEF TeamStored
  <2> QED BY <1>7, <2>2 DEF TeamStored, deleteExtended
<1>8. CASE deleteMember(r)
  <2>1. torn' \subseteq torn
    BY <1>8 DEF deleteMember, Settle
  <2>2. team_members' \in [Accounts -> RolesOrNone]
    BY <1>1, <1>8 DEF TeamStored, deleteMember
  <2> QED BY <1>8, <2>1, <2>2 DEF TeamStored, deleteMember
<1>9. CASE countUsers(r)
  <2>1. founded' \in BOOLEAN
    BY <1>9 DEF countUsers
  <2> QED BY <1>9, <2>1 DEF TeamStored, countUsers, tables
<1>10. CASE insertUser(r)
  <2>1. users' \subseteq Accounts
    BY <1>0, <1>10 DEF TeamStored, insertUser
  <2> QED BY <1>10, <2>1 DEF TeamStored, insertUser
<1>11. CASE AuditTeam(r)
  <2>1. faults' \in 0 .. MaxFaults
    BY <1>11, TeamBounds DEF TeamStored, AuditTeam
  <2> QED BY <1>11, <2>1 DEF TeamStored, AuditTeam, tables
<1>12. CASE StatementFails(r)
  <2>1. faults' \in 0 .. MaxFaults
    BY <1>12, TeamBounds DEF TeamStored, StatementFails
  <2>2. torn' \subseteq Accounts
    BY <1>0, <1>12 DEF TeamStored, StatementFails, Changing
  <2> QED BY <1>12, <2>1, <2>2 DEF TeamStored, StatementFails, tables
<1> QED BY <1>2, <1>3, <1>4, <1>5, <1>6, <1>7, <1>8, <1>9, <1>10, <1>11, <1>12 DEF TeamStep

\* Requests arrive within the bound on calls.
LEMMA TeamStoredCalls ==
    ASSUME TeamStored, InPlace,
           \/ \E a \in Registrants : Register(a)
           \/ \E r \in Requests : TeamRequest(r) \/ WorkRequest(r) \/ ReceiveWebhook(r)
    PROVE  TeamStored'
<1>1. calls < MaxCalls /\ calls' = calls + 1
  BY ZenonT(40) DEF Register, TeamRequest, WhatsAppLogin, WorkRequest, Arrive, ReceiveWebhook
<1>2. calls' \in 0 .. MaxCalls
  BY <1>1, TeamBounds DEF TeamStored
<1>3. /\ \/ UNCHANGED users
         \/ \E a \in Registrants : users' = users \cup {a}
      /\ UNCHANGED <<users_extended, team_members, user_roles, invitations, faults, founded, torn>>
  <2>1. CASE \E a \in Registrants : Register(a)
    BY <2>1 DEF Register
  <2>2. CASE \E r \in Requests : TeamRequest(r)
    BY <2>2 DEF TeamRequest, WhatsAppLogin, Arrive, tables
  <2>3. CASE \E r \in Requests : WorkRequest(r)
    BY <2>3 DEF WorkRequest, Arrive, tables
  <2>4. CASE \E r \in Requests : ReceiveWebhook(r)
    BY <2>4 DEF ReceiveWebhook, tables
  <2> QED BY <2>1, <2>2, <2>3, <2>4
<1> QED BY <1>2, <1>3 DEF TeamStored, Accounts

LEMMA WorkStoredStep ==
    ASSUME TeamStored, RowStored, InPlace, NEW r \in Requests, WorkStep(r)
    PROVE  TeamStored' /\ RowStored'
<1>0. /\ req[r].target \in Accounts \cup {NoAccount}
      /\ req[r].pc = "notify" => req[r].target \in Accounts
  BY Targets
<1>1. CASE CreateRow(r) \/ DeleteRow(r) \/ CreateChild(r) \/ DeleteComment(r) \/ UpdateWorkflow(r)
           \/ MarkNotificationRead(r)
  <2>1. UNCHANGED Unlisted
    BY <1>1 DEF CreateRow, DeleteRow, CreateChild, DeleteComment, UpdateWorkflow, MarkNotificationRead
  <2>2. RowStored'
    BY <1>1 DEF RowStored, CreateRow, DeleteRow, CreateChild, DeleteComment, UpdateWorkflow,
                MarkNotificationRead, NotFound, rowVars
  <2> QED BY <2>1, <2>2 DEF TeamStored, Unlisted, tables
<1>2. CASE CreateActionItem(r) \/ UpdateActionItem(r)
  <2>1. UNCHANGED Unlisted
    BY <1>2 DEF CreateActionItem, UpdateActionItem
  <2>2. RowStored'
    BY <1>0, <1>2 DEF RowStored, CreateActionItem, UpdateActionItem, NotFound, Assign, rowVars
  <2> QED BY <2>1, <2>2 DEF TeamStored, Unlisted, tables
<1>3. CASE AuditWork(r)
  <2>1. faults' \in 0 .. MaxFaults
    BY <1>3, TeamBounds DEF TeamStored, AuditWork
  <2> QED BY <1>3, <2>1 DEF TeamStored, RowStored, AuditWork, tables, rowVars
<1>4. CASE createNotification(r)
  <2>1. faults' \in 0 .. MaxFaults
    BY <1>4, TeamBounds DEF TeamStored, createNotification
  <2>2. unread' \subseteq Accounts /\ notified' \subseteq Accounts /\ missed' \subseteq Accounts
    BY <1>0, <1>4 DEF RowStored, createNotification
  <2> QED BY <1>4, <2>1, <2>2 DEF TeamStored, RowStored, createNotification, tables
<1> QED BY <1>1, <1>2, <1>3, <1>4 DEF WorkStep

\* What is known of the audit rows is about accounts.
LEMMA GivenTyped == InPlace => \A R \in SUBSET Requests : Given(R) \subseteq Accounts
<1> SUFFICES ASSUME InPlace, NEW r \in Requests, Granting(r) PROVE req[r].target \in Accounts
  BY DEF Given
<1>1. req[r].op \in TeamOps
  BY DEF Granting, TeamOps
<1> QED BY <1>1 DEF InPlace, Placed

LEMMA TrailStoredStep ==
    ASSUME Stored, InPlace, [Next]_vars
    PROVE  TrailStored'
<1>0. audited \subseteq Accounts /\ unlogged \subseteq Accounts
  BY DEF Stored
<1>1. Given(Requests) \subseteq Accounts /\ \A r \in Requests : Given({r}) \subseteq Accounts
  BY GivenTyped
<1>2. UNCHANGED trail => TrailStored'
  BY <1>0 DEF trail, TrailStored
<1>3. CASE Quiet
  BY <1>2, <1>3 DEF Quiet
<1>4. CASE Crash
  BY <1>0, <1>1, <1>4 DEF Crash, TeamCrash, TrailStored
<1>5. ASSUME NEW r \in Requests, TeamOn(r) PROVE TrailStored'
  <2>1. CASE AuditTeam(r)
    BY <1>0, <1>1, <2>1 DEF AuditTeam, TrailStored
  <2>2. CASE StatementFails(r)
    BY <1>0, <1>1, <2>2 DEF StatementFails, TrailStored
  <2>3. CASE ~ AuditTeam(r) /\ ~ StatementFails(r)
    <3>1. UNCHANGED trail
      BY <1>5, <2>3 DEF TeamOn, Authorize, AddTeamUser, createInvitation, upsertMember, insertUserRole,
                        deleteMember, selectUser, insertUser, upsertExtended
    <3> QED BY <1>2, <3>1
  <2> QED BY <2>1, <2>2, <2>3
<1>6. ASSUME NEW r \in Requests, countUsers(r) \/ (\E p \in Phones : WhatsAppLogin(r, p)) \/ ReceiveWebhook(r)
      PROVE  TrailStored'
  BY <1>2, <1>6 DEF countUsers, WhatsAppLogin, ReceiveWebhook
<1>7. ASSUME NEW r \in Requests, NEW op, NEW b, Asked(r, op, b) PROVE TrailStored'
  BY <1>2, <1>7, AskedArrives
<1>8. ASSUME NEW r \in Requests, WorkStep(r) PROVE TrailStored'
  BY <1>2, <1>8, WorkKeepsRoles
<1>9. ASSUME NEW r \in Requests, NEW x, NEW pc, Writes(r, x, pc) PROVE TrailStored'
  <2>1. req[r].target \in Accounts
    BY <1>9, WritesIs
  <2> QED BY <1>0, <1>9, <2>1 DEF Writes, WriteExtended, TrailStored
<1> QED BY StepKinds, <1>3, <1>4, <1>5, <1>6, <1>7, <1>8, <1>9

LEMMA StoredStep ==
    ASSUME Stored, InPlace, [Next]_vars
    PROVE  Stored'
<1>0. TeamStored /\ RowStored
  BY StoredParts
<1>1. UNCHANGED rowVars => RowStored'
  BY <1>0 DEF RowStored, rowVars
<1> DEFINE Kept == TeamStored' /\ RowStored'
<1>2. ASSUME UNCHANGED vars PROVE Kept
  BY <1>0, <1>1, <1>2 DEF TeamStored, vars, teamVars, tables
<1>3. ASSUME NEW a \in Registrants, Register(a), UNCHANGED rowVars PROVE Kept
  BY <1>0, <1>1, <1>3, TeamStoredCalls
<1>4. ASSUME NEW r \in Requests, TeamStep(r), UNCHANGED rowVars PROVE Kept
  BY <1>0, <1>1, <1>4, TeamStoredStep
<1>5. ASSUME NEW r \in Requests, (TeamRequest(r) /\ UNCHANGED rowVars) \/ WorkRequest(r) \/ ReceiveWebhook(r)
      PROVE  Kept
  <2>1. UNCHANGED rowVars
    BY <1>5 DEF WorkRequest, ReceiveWebhook
  <2> QED BY <1>0, <1>1, <1>5, <2>1, TeamStoredCalls
<1>6. ASSUME NEW r \in Requests, WorkStep(r) PROVE Kept
  BY <1>0, <1>6, WorkStoredStep
<1>7. ASSUME Crash PROVE Kept
  <2>1. \A r \in Requests : (Changing(r) \/ Assigns(r)) => req[r].target \in Accounts
    BY Targets DEF Changing
  <2>2. torn' \subseteq Accounts
    BY <1>0, <1>7, <2>1 DEF Crash, TeamCrash, TeamStored
  <2>3. missed' \subseteq Accounts
    BY <1>0, <1>7, <2>1 DEF Crash, RowStored
  <2>4. TeamStored'
    BY <1>0, <1>7, <2>2 DEF Crash, TeamCrash, TeamStored, tables
  <2>5. RowStored'
    BY <1>0, <1>7, <2>3 DEF Crash, RowStored
  <2> QED BY <2>4, <2>5
<1>8. Kept
  BY <1>2, <1>3, <1>4, <1>5, <1>6, <1>7 DEF Next
<1> QED BY <1>8, TrailStoredStep, StoredParts
----------------------------------------------------------------------------
\* Request r is about to tell the assignee it put on the row.
Telling(r) == req[r].pc \in {"audit", "notify"} /\ Assigns(r)

\* Whoever was being told still is, or has been.
LEMMA StillTold ==
    ASSUME AssigneeNotified, assignee' \in {assignee, NoAccount},
           notified \subseteq notified', missed \subseteq missed',
           \A q \in Requests : Telling(q) => \/ Telling(q)' /\ req'[q].target = req[q].target
                                             \/ req[q].target \in notified' \cup missed'
    PROVE  AssigneeNotified'
<1> SUFFICES ASSUME assignee' # NoAccount
             PROVE  \/ assignee' \in notified' \cup missed'
                    \/ \E q \in Requests : Telling(q)' /\ req'[q].target = assignee'
  BY DEF AssigneeNotified, Telling
<1>1. assignee' = assignee /\ assignee # NoAccount
  OBVIOUS
<1>2. assignee \in notified \cup missed \/ \E q \in Requests : Telling(q) /\ req[q].target = assignee
  BY <1>1 DEF AssigneeNotified, Telling
<1> QED BY <1>1, <1>2

LEMMA MovedTold ==
    ASSUME InPlace, AssigneeNotified, UNCHANGED <<notified, missed>>, assignee' \in {assignee, NoAccount},
           NEW r \in Requests, NEW x, Moved(r, x), ~ Telling(r)
    PROVE  AssigneeNotified'
<1>1. \A q \in Requests \ {r} : req'[q] = req[q]
  BY MovedIs
<1>2. \A q \in Requests : Telling(q) => Telling(q)' /\ req'[q].target = req[q].target
  BY <1>1 DEF Telling, Assigns
<1> QED BY <1>2, StillTold

\* The handlers of action items assign, write the audit row and tell the assignee.
LEMMA WorkTold ==
    ASSUME Stored, InPlace, AssigneeNotified, NEW r \in Requests, WorkStep(r)
    PROVE  AssigneeNotified'
<1>0. req[r] \in RequestRecord /\ Placed(req[r])
  BY DEF InPlace
<1>1. CASE \/ CreateRow(r) \/ UpdateWorkflow(r) \/ DeleteRow(r) \/ CreateChild(r)
           \/ DeleteComment(r) \/ MarkNotificationRead(r) \/ (CreateActionItem(r) /\ row)
           \/ (UpdateActionItem(r) /\ ~row)
  <2>1. AtWork(r) /\ \E x : Moved(r, x)
    BY <1>1, RowMoves
  <2>2. ~ Telling(r)
    BY <2>1, Apart DEF AtWork, Telling
  <2>3. UNCHANGED <<notified, missed>> /\ assignee' \in {assignee, NoAccount}
    BY <1>1 DEF CreateRow, UpdateWorkflow, DeleteRow, CreateChild, DeleteComment, MarkNotificationRead,
                CreateActionItem, UpdateActionItem, NotFound, rowVars
  <2> QED BY <2>1, <2>2, <2>3, MovedTold
<1>2. CASE CreateActionItem(r) /\ ~row
  <2>1. /\ req[r].pc = "CreateActionItem" /\ req[r].op = "CreateActionItem"
        /\ assignee' = req[r].target /\ Changed(r) /\ AtWork(r)
    BY <1>0, <1>2 DEF CreateActionItem, Assign, Placed, WorkOps, AtWork
  <2>2. Moved(r, At(req[r], "audit"))
    BY <2>1, ChangedMoves
  <2>3. "audit" \in Places
    BY DEF Places
  <2>4. req'[r].pc = "audit" /\ req'[r].op = "CreateActionItem" /\ req'[r].target = assignee'
    BY <1>0, <2>1, <2>2, <2>3, AtIs, MovedIs
  <2> QED BY <2>4 DEF AssigneeNotified, Assigns
<1>3. CASE UpdateActionItem(r) /\ row
  <2>1. PICK x : Moved(r, x) /\ x.pc = "audit" /\ x.op = "UpdateActionItem" /\ assignee' = x.target
    BY <1>3, UpdateMoves
  <2>2. req'[r] = x
    BY <2>1, MovedIs
  <2> QED BY <2>1, <2>2 DEF AssigneeNotified, Assigns
<1>4. CASE AuditWork(r)
  <2>1. UNCHANGED <<assignee, notified, missed>> /\ req[r].pc = "audit"
    BY <1>4 DEF AuditWork, rowVars
  <2>2. CASE Assigns(r)
    <3>1. "notify" \in Places
      BY DEF Places
    <3>2. /\ req'[r].pc = "notify" /\ req'[r].op = req[r].op /\ req'[r].target = req[r].target
          /\ \A q \in Requests \ {r} : req'[q] = req[q]
      BY <1>0, <1>4, <2>2, <3>1, AuditWorkMoves, AtIs, MovedIs
    <3>3. \A q \in Requests : Telling(q) => Telling(q)' /\ req'[q].target = req[q].target
      BY <2>2, <3>2 DEF Telling, Assigns
    <3> QED BY <2>1, <3>3, StillTold
  <2>3. CASE ~ Assigns(r)
    BY <1>4, <2>1, <2>3, AuditWorkMoves, MovedTold DEF Telling
  <2> QED BY <2>2, <2>3
<1>5. CASE createNotification(r)
  <2>1. /\ assignee' = assignee /\ notified \subseteq notified' /\ missed \subseteq missed'
        /\ req[r].target \in notified' \cup missed'
    BY <1>5 DEF createNotification
  <2>2. \A q \in Requests \ {r} : req'[q] = req[q]
    BY <1>5, NotifyMoves, MovedIs
  <2>3. \A q \in Requests \ {r} : Telling(q) => Telling(q)' /\ req'[q].target = req[q].target
    BY <2>2 DEF Telling, Assigns
  <2> QED BY <2>1, <2>3, StillTold
<1> QED BY <1>1, <1>2, <1>3, <1>4, <1>5 DEF WorkStep

LEMMA NotifiedStep ==
    ASSUME Stored, InPlace, AssigneeNotified, [Next]_vars
    PROVE  AssigneeNotified'
<1>0. \A r \in Requests : req[r] \in RequestRecord /\ Placed(req[r])
  BY DEF InPlace
<1>1. UNCHANGED rowVars => UNCHANGED <<assignee, notified, missed>>
  BY DEF rowVars
<1>2. CASE Quiet
  <2>1. UNCHANGED <<assignee, notified, missed, req>>
    BY <1>2 DEF Quiet, rowVars
  <2> QED BY <2>1 DEF AssigneeNotified, Assigns
<1>3. CASE Crash
  <2>1. /\ assignee' = assignee /\ notified' = notified /\ missed \subseteq missed'
        /\ \A q \in Requests : Assigns(q) => req[q].target \in missed'
    BY <1>3 DEF Crash
  <2> QED BY <2>1, StillTold DEF Telling
<1>4. ASSUME NEW r \in Requests, TeamOn(r), UNCHANGED rowVars PROVE AssigneeNotified'
  <2>1. req[r].pc \in {"audit", "notify"} => req[r].op \in TeamOps
    BY <1>4 DEF TeamOn, Authorize, AddTeamUser, createInvitation, upsertMember, insertUserRole, deleteMember,
                selectUser, insertUser, AuditTeam, StatementFails, upsertExtended
  <2>2. ~ Telling(r)
    BY <2>1, Apart DEF Telling, Assigns, ItemOps
  <2>3. \E x : Moved(r, x)
    BY <1>4, OnGoes DEF Goes
  <2> QED BY <1>1, <1>4, <2>2, <2>3, MovedTold
<1>5. ASSUME NEW r \in Requests, countUsers(r), UNCHANGED rowVars PROVE AssigneeNotified'
  BY <1>1, <1>5, CountMoves, MovedTold DEF Telling
<1>6. ASSUME NEW r \in Requests, NEW p \in Phones, WhatsAppLogin(r, p), UNCHANGED rowVars PROVE AssigneeNotified'
  BY <1>1, <1>6, LoginMoves, MovedTold DEF Telling
<1>7. ASSUME NEW r \in Requests, NEW op, NEW b, Asked(r, op, b), UNCHANGED rowVars PROVE AssigneeNotified'
  <2>1. PICK x : Arrived(r, x, op, b)
    BY <1>7, AskedArrives
  <2> QED BY <1>1, <1>7, <2>1, MovedTold DEF Telling, Arrived
<1>8. ASSUME NEW r \in Requests, ReceiveWebhook(r) PROVE AssigneeNotified'
  <2>1. UNCHANGED rowVars
    BY <1>8 DEF ReceiveWebhook
  <2> QED BY <1>1, <1>8, <2>1, WebhookMoves, MovedTold DEF Telling
<1>9. ASSUME NEW r \in Requests, NEW x, NEW pc, Writes(r, x, pc), UNCHANGED rowVars PROVE AssigneeNotified'
  <2>1. /\ \A q \in Requests : req'[q].op = req[q].op /\ req'[q].target = req[q].target
        /\ \A q \in Requests \ {r} : req'[q].pc = req[q].pc
    BY <1>9, WritesIs
  <2>2. ~ Telling(r)
    BY <1>9 DEF Writes, Telling
  <2>3. \A q \in Requests : Telling(q) => Telling(q)' /\ req'[q].target = req[q].target
    BY <2>1, <2>2 DEF Telling, Assigns
  <2> QED BY <1>1, <1>9, <2>3, StillTold
<1>10. ASSUME NEW r \in Requests, WorkStep(r) PROVE AssigneeNotified'
  BY <1>10, WorkTold
<1> QED BY StepKinds, <1>2, <1>3, <1>4, <1>5, <1>6, <1>7, <1>8, <1>9, <1>10
----------------------------------------------------------------------------
\* The role of whoever could be traced still can, while no role changes.
LEMMA StillTraced ==
    ASSUME RolesTraceable, users_extended' = users_extended,
           audited \subseteq audited', unlogged \subseteq unlogged',
           \A q \in Requests : Granting(q) => \/ Granting(q)' /\ req'[q].target = req[q].target
                                              \/ req[q].target \in audited' \cup unlogged'
    PROVE  RolesTraceable'
<1> SUFFICES ASSUME NEW a \in Accounts, users_extended'[a] # "none"
             PROVE  \/ a \in audited' \cup unlogged'
                    \/ \E q \in Requests : Granting(q)' /\ req'[q].target = a
  BY DEF RolesTraceable, Given
<1>1. \/ a \in audited \cup unlogged
      \/ \E q \in Requests : Granting(q) /\ req[q].target = a
  BY DEF RolesTraceable, Given
<1> QED BY <1>1

LEMMA MovedTraced ==
    ASSUME InPlace, RolesTraceable, UNCHANGED <<users_extended, trail>>,
           NEW r \in Requests, NEW x, Moved(r, x), ~ Granting(r)
    PROVE  RolesTraceable'
<1>1. \A q \in Requests \ {r} : req'[q] = req[q]
  BY MovedIs
<1>2. \A q \in Requests : Granting(q) => Granting(q)' /\ req'[q].target = req[q].target
  BY <1>1 DEF Granting
<1> QED BY <1>2, StillTraced DEF trail

\* The request that sets a role carries it on to its audit row, or the role is
\* known to have none.
LEMMA TeamTraced ==
    ASSUME InPlace, RolesTraceable, NEW r \in Requests, TeamOn(r)
    PROVE  RolesTraceable'
<1>0. req[r] \in RequestRecord /\ users_extended' = users_extended
  BY DEF InPlace, TeamOn, Authorize, AddTeamUser, createInvitation, upsertMember, insertUserRole, deleteMember,
         selectUser, insertUser, AuditTeam, StatementFails, upsertExtended, tables
<1>1. Granting(r) => req[r].target \in Given({r})
  BY DEF Given
<1>2. ASSUME NEW pc \in {"log", "audit"}, Goto(r, pc), UNCHANGED trail PROVE RolesTraceable'
  <2>1. /\ req'[r].pc = pc /\ req'[r].op = req[r].op /\ req'[r].role = req[r].role
        /\ req'[r].target = req[r].target /\ \A q \in Requests \ {r} : req'[q] = req[q]
    BY <1>0, <1>2 DEF InPlace, Goto, RequestRecord
  <2>2. \A q \in Requests : Granting(q) => Granting(q)' /\ req'[q].target = req[q].target
    BY <1>0, <2>1 DEF Granting
  <2> QED BY <1>0, <1>2, <2>2, StillTraced DEF trail
<1>3. ASSUME UNCHANGED trail, ~ Granting(r) PROVE RolesTraceable'
  BY <1>0, <1>3, OnGoes, MovedTraced DEF Goes
<1>4. CASE upsertMember(r)
  BY <1>2, <1>4 DEF upsertMember
<1>5. CASE insertUserRole(r)
  BY <1>2, <1>3, <1>5 DEF insertUserRole, Settle, Granting
<1>6. CASE AuditTeam(r) \/ StatementFails(r)
  <2>1. /\ audited \subseteq audited' /\ unlogged \subseteq unlogged'
        /\ Given({r}) \subseteq audited' \cup unlogged'
    BY <1>6 DEF AuditTeam, StatementFails
  <2>2. \A q \in Requests \ {r} : req'[q] = req[q]
    BY <1>6, OnGoes, MovedIs DEF Goes, TeamOn
  <2>3. \A q \in Requests \ {r} : Granting(q) => Granting(q)' /\ req'[q].target = req[q].target
    BY <1>0, <2>2 DEF Granting
  <2> QED BY <1>0, <1>1, <2>1, <2>3, StillTraced
<1>7. CASE \/ Authorize(r) \/ AddTeamUser(r) \/ createInvitation(r) \/ deleteMember(r)
           \/ selectUser(r) \/ insertUser(r) \/ (upsertExtended(r) /\ req[r].target \notin users)
  <2>1. UNCHANGED trail /\ req[r].pc \notin {"member", "log", "audit"}
    BY <1>7 DEF Authorize, AddTeamUser, createInvitation, deleteMember, selectUser, insertUser, upsertExtended
  <2> QED BY <1>3, <2>1 DEF Granting
<1> QED BY <1>4, <1>5, <1>6, <1>7 DEF TeamOn

\* A new role is what its request goes on with; one that ends is not to be traced.
LEMMA WriteTraced ==
    ASSUME Stored, InPlace, RolesTraceable, NEW r \in Requests, NEW x, NEW pc, Writes(r, x, pc)
    PROVE  RolesTraceable'
<1>00. PICK a : a = req[r].target
  OBVIOUS
<1>0. req[r] \in RequestRecord /\ Placed(req[r])
  BY DEF InPlace
<1>1. /\ users_extended' = [users_extended EXCEPT ![a] = x] /\ a \in Accounts
      /\ req'[r].pc = pc
      /\ \A q \in Requests : /\ req'[q].op = req[q].op /\ req'[q].target = req[q].target
                              /\ req'[q].role = req[q].role
      /\ \A q \in Requests \ {r} : req'[q].pc = req[q].pc
  BY <1>00, WritesIs
<1>2. /\ users_extended'[a] = x
      /\ \A b \in Accounts \ {a} : users_extended'[b] = users_extended[b]
  BY <1>1 DEF Stored
<1>3. /\ audited' = audited \ {a}
      /\ unlogged' = IF req[r].op = "login" THEN unlogged \cup {a} ELSE unlogged \ {a}
  BY <1>00 DEF Writes, WriteExtended
<1> SUFFICES ASSUME NEW b \in Accounts, users_extended'[b] # "none"
             PROVE  \/ b \in audited' \cup unlogged'
                    \/ \E q \in Requests : Granting(q)' /\ req'[q].target = b
  BY DEF RolesTraceable, Given
<1>4. CASE b = a
  <2>1. x = req[r].role /\ pc = "member" /\ req[r].pc = "extended"
    BY <1>2, <1>4 DEF Writes
  <2>2. req[r].op \in {"AddTeamUser", "UpdateTeamUserRole", "login"}
    BY <1>0, <2>1 DEF Placed
  <2>3. req[r].op # "login" => Granting(r)'
    BY <1>00, <1>1, <1>2, <2>1, <2>2 DEF Granting
  <2> QED BY <1>00, <1>1, <1>3, <1>4, <2>3
<1>5. CASE b # a
  <2>1. \/ b \in audited \cup unlogged
        \/ \E q \in Requests : Granting(q) /\ req[q].target = b
    BY <1>2, <1>5 DEF RolesTraceable, Given
  <2>2. b \in audited \cup unlogged => b \in audited' \cup unlogged'
    BY <1>3, <1>5
  <2>3. ASSUME NEW q \in Requests, Granting(q), req[q].target = b PROVE Granting(q)' /\ req'[q].target = b
    BY <1>00, <1>1, <1>2, <1>5, <2>3 DEF Granting
  <2> QED BY <2>1, <2>2, <2>3
<1> QED BY <1>4, <1>5

LEMMA TraceStep ==
    ASSUME Stored, InPlace, RolesTraceable, [Next]_vars
    PROVE  RolesTraceable'
<1>1. CASE Quiet
  <2>1. UNCHANGED <<users_extended, req, audited, unlogged>>
    BY <1>1 DEF Quiet, trail
  <2> QED BY <2>1 DEF RolesTraceable, Given, Granting
<1>2. CASE Crash
  <2>1. users_extended' = users_extended /\ audited' = audited /\ unlogged' = unlogged \cup Given(Requests)
    BY <1>2 DEF Crash, TeamCrash, tables
  <2>2. \A q \in Requests : Granting(q) => req[q].target \in Given(Requests)
    BY DEF Given
  <2> QED BY <2>1, <2>2, StillTraced
<1>3. ASSUME NEW r \in Requests, countUsers(r) \/ \E p \in Phones : WhatsAppLogin(r, p) PROVE RolesTraceable'
  <2>1. UNCHANGED <<users_extended, trail>> /\ ~ Granting(r)
    BY <1>3 DEF countUsers, WhatsAppLogin, tables, Granting
  <2>2. \E x : Moved(r, x)
    BY <1>3, CountMoves, LoginMoves
  <2> QED BY <2>1, <2>2, MovedTraced
<1>4. ASSUME NEW r \in Requests, NEW op, NEW b, Asked(r, op, b) PROVE RolesTraceable'
  <2>1. PICK x : Arrived(r, x, op, b)
    BY <1>4, AskedArrives
  <2>2. UNCHANGED <<users_extended, trail>> /\ ~ Granting(r)
    BY <1>4, <2>1, AskedArrives DEF tables, Granting, Arrived
  <2> QED BY <2>1, <2>2, MovedTraced DEF Arrived
<1>5. ASSUME NEW r \in Requests, ReceiveWebhook(r) PROVE RolesTraceable'
  <2>1. UNCHANGED <<users_extended, trail>> /\ ~ Granting(r)
    BY <1>5 DEF ReceiveWebhook, tables, Granting
  <2> QED BY <1>5, <2>1, WebhookMoves, MovedTraced
<1>6. ASSUME NEW r \in Requests, WorkStep(r) PROVE RolesTraceable'
  <2>1. PICK x : Works(r, x)
    BY <1>6, WorkMoves
  <2>2. UNCHANGED <<users_extended, trail>>
    BY <1>6, WorkKeepsRoles DEF tables
  <2>3. ~ Granting(r)
    BY <2>1, Apart DEF Works, Granting, TeamOps
  <2> QED BY <2>1, <2>2, <2>3, MovedTraced DEF Works
<1> QED BY StepKinds, TeamTraced, WriteTraced, <1>1, <1>2, <1>3, <1>4, <1>5, <1>6
----------------------------------------------------------------------------
LEMMA IInvInit == Init => IInv
<1> SUFFICES ASSUME Init PROVE IInv
  OBVIOUS
<1>1. /\ req = [r \in Requests |-> Idle] /\ \A r \in Requests : req[r] = Idle
      /\ calls = 0 /\ faults = 0 /\ torn = {}
  BY DEF Init, TeamInit
<1>2. PICK owner \in (users \cap Phones) \cup {NoAccount} :
         /\ users_extended = [a \in Accounts |-> IF a = owner THEN "owner" ELSE "none"]
         /\ team_members = users_extended /\ user_roles = users_extended
         /\ founded = (owner # NoAccount)
  BY DEF Init, TeamInit
<1>3. Stored
  <2>1. TeamStored
    BY <1>1, <1>2, TeamBounds DEF TeamStored, Init, TeamInit, RolesOrNone
  <2>2. TrailStored /\ RowStored
    BY DEF TrailStored, RowStored, Init, TeamInit
  <2> QED BY <2>1, <2>2, StoredParts
<1>4. InPlace
  BY <1>1, IdleIs DEF InPlace
<1>5. RolesTraceable
  BY DEF RolesTraceable, Init, TeamInit
<1>6. Rights /\ RoleDuringRequest
  BY <1>1, IdleIs, Apart DEF Rights, RoleDuringRequest
<1>7. AdminsNeedAFounder
  <2> SUFFICES ASSUME NEW a \in Accounts, Admin(a) PROVE founded
    BY DEF AdminsNeedAFounder
  <2>1. users_extended[a] # "none"
    BY NotAdmin DEF Admin
  <2>2. a = owner
    BY <1>2, <2>1
  <2> QED BY <1>2, <2>2, AccountAssumption DEF Accounts
<1>8. Alone /\ RolesAgree
  <2>1. Alone
    BY <1>1, IdleIs DEF Alone, Changing
  <2>2. RolesAgree
    BY <1>2 DEF RolesAgree
  <2> QED BY <2>1, <2>2
<1>9. AssigneeNotified
  BY DEF AssigneeNotified, Init
<1> QED BY <1>3, <1>4, <1>5, <1>6, <1>7, <1>8, <1>9 DEF IInv

LEMMA IInvNext == IInv /\ [Next]_vars => IInv'
<1> SUFFICES ASSUME Stored, InPlace, RolesTraceable, Rights, RoleDuringRequest, AdminsNeedAFounder,
                    Alone, RolesAgree, AssigneeNotified, [Next]_vars
             PROVE  IInv'
  BY DEF IInv
<1>1. Stored'
  BY StoredStep
<1>2. InPlace' /\ RolesTraceable'
  BY PlaceStep, TraceStep
<1>3. Rights' /\ RoleDuringRequest' /\ AdminsNeedAFounder'
  BY RightsStep
<1>4. Alone' /\ RolesAgree'
  BY AgreeStep
<1>5. AssigneeNotified'
  BY NotifiedStep
<1> QED BY <1>1, <1>2, <1>3, <1>4, <1>5 DEF IInv

LEMMA IInvHolds == Spec => []IInv
  BY IInvInit, IInvNext, PTL DEF Spec

LEMMA IInvTyped == IInv => TypeOK
  BY DEF IInv, Stored, InPlace, TypeOK
----------------------------------------------------------------------------
\* The tables hold roles and accounts, whatever the handlers of team.go, rbac.go
\* and the collaboration handlers write, and every request is at one of its steps.
THEOREM TypeCorrect == Spec => []TypeOK
  BY IInvHolds, IInvTyped, PTL

\* setUserRole and RemoveTeamUser leave an account with one role in all three
\* tables, but for changes that failed half way or ran beside another one.
THEOREM RolesStayInAgreement == Spec => []RolesAgree
<1>1. IInv => RolesAgree
  BY DEF IInv
<1> QED BY <1>1, IInvHolds, PTL

\* Authorize lets a handler write only for a user who had the role it needs at
\* some moment since the request arrived, whatever role changes run meanwhile.
THEOREM RolesHeldDuringRequest == Spec => []RoleDuringRequest
<1>1. IInv => RoleDuringRequest
  BY DEF IInv
<1> QED BY <1>1, IInvHolds, PTL

\* Administrators come from an administrator or from ensureWhatsAppUser's count of
\* zero users, so there is none in a tenant that no login has founded.
THEOREM AdministratorsNeedAFounder == Spec => []AdminsNeedAFounder
<1>1. IInv => AdminsNeedAFounder
  BY DEF IInv
<1> QED BY <1>1, IInvHolds, PTL

\* A role that AddTeamUser or UpdateTeamUserRole set is told by an audit row, is
\* carried by a request that is about to write it, or its row is known to be lost.
THEOREM RolesAreTraceable == Spec => []RolesTraceable
<1>1. IInv => RolesTraceable
  BY DEF IInv
<1> QED BY <1>1, IInvHolds, PTL

\* CreateActionItem and UpdateActionItem tell the assignee that stands, however
\* many of them assign the item at the same time.
THEOREM AssigneesAreNotified == Spec => []AssigneeNotified
<1>1. IInv => AssigneeNotified
  BY DEF IInv
<1> QED BY <1>1, IInvHolds, PTL

\* Every other step leaves users_extended alone.
LEMMA OnlyWritesGrant ==
    ASSUME Stored, [Next]_vars
    PROVE  users_extended' = users_extended \/ \E r \in Requests : \E x, pc : Writes(r, x, pc)
<1>1. ASSUME NEW r \in Requests, TeamOn(r) \/ countUsers(r) PROVE users_extended' = users_extended
  BY <1>1 DEF TeamOn, Authorize, AddTeamUser, createInvitation, upsertMember, insertUserRole, deleteMember,
              selectUser, insertUser, AuditTeam, StatementFails, upsertExtended, countUsers, tables
<1>2. ASSUME NEW r \in Requests, (\E p \in Phones : WhatsAppLogin(r, p)) \/ \E op, b : Asked(r, op, b)
      PROVE  users_extended' = users_extended
  BY <1>2, ZenonT(40) DEF WhatsAppLogin, Asked, Arrive, tables
<1>3. ASSUME NEW r \in Requests, WorkStep(r) \/ ReceiveWebhook(r) PROVE users_extended' = users_extended
  BY <1>3 DEF WorkStep, CreateRow, CreateActionItem, UpdateActionItem, UpdateWorkflow, DeleteRow, CreateChild,
              DeleteComment, MarkNotificationRead, AuditWork, createNotification, ReceiveWebhook, Unlisted, tables
<1>4. CASE Quiet \/ Crash
  BY <1>4 DEF Quiet, Crash, TeamCrash, tables
<1> QED BY StepKinds, <1>1, <1>2, <1>3, <1>4

\* setUserRole makes an administrator for an administrator's request or for the
\* login that found the tenant without users, and nothing else in team.go, rbac.go,
\* auth.go and whatsapp_auth.go makes one at all.
THEOREM PromotionsAreGranted == Spec => PromotionsGranted
<1> DEFINE By(r, a) == /\ req[r].target = a
                       /\ \/ req[r].op = "login" /\ req[r].role = "owner"
                          \/ /\ req[r].op \in {"AddTeamUser", "UpdateTeamUserRole"}
                             /\ req[r].held /\ req[r].needs = "admin"
<1>1. IInv /\ [Next]_vars =>
        [\A a \in Accounts : Admin(a)' /\ ~Admin(a) =>
            \E r \in Requests :
                /\ req[r].target = a
                /\ \/ req[r].op = "login" /\ req[r].role = "owner"
                   \/ req[r].op \in {"AddTeamUser", "UpdateTeamUserRole"} /\ req[r].held /\ req[r].needs = "admin"
        ]_teamVars
  <2> SUFFICES ASSUME IInv, [Next]_vars, NEW a \in Accounts, Admin(a)', ~Admin(a)
               PROVE  \E r \in Requests : By(r, a)
    OBVIOUS
  <2>1. PICK r \in Requests : \E x, pc : Writes(r, x, pc)
    BY OnlyWritesGrant DEF IInv, Admin
  <2>2. PICK x, pc : Writes(r, x, pc)
    BY <2>1
  <2>3. users_extended' = [users_extended EXCEPT ![req[r].target] = x] /\ req[r].target \in Accounts
        /\ req[r].op \in TeamOps \cup {"login"}
    BY <2>2, WritesIs DEF IInv
  <2>4. a = req[r].target /\ users_extended'[a] = x
    <3>1. users_extended \in [Accounts -> RolesOrNone]
      BY DEF IInv, Stored
    <3>2. CASE a # req[r].target
      <4>1. users_extended'[a] = users_extended[a]
        BY <2>3, <3>1, <3>2
      <4> QED BY <4>1 DEF Admin, Holds, getUserRole
    <3> QED BY <2>3, <3>1, <3>2
  <2>5. x \notin {"none", "member"}
    BY <2>4, NotAdmin DEF Admin
  <2>6. x = req[r].role /\ req[r].pc = "extended"
    BY <2>2, <2>5 DEF Writes
  <2>7. Placed(req[r]) /\ Entitled(req[r], users_extended, founded)
    BY EntitledIs DEF IInv, InPlace
  <2>8. CASE req[r].op = "login"
    <3>1. req[r].role = "owner"
      BY <2>5, <2>6, <2>7, <2>8 DEF Placed
    <3> QED BY <2>4, <2>8, <3>1
  <2>9. CASE req[r].op \in TeamOps
    <3>1. req[r].op \in {"AddTeamUser", "UpdateTeamUserRole"} /\ req[r].needs = "admin"
      BY <2>6, <2>7, <2>9, Apart DEF Placed
    <3>2. req[r].held
      BY <2>6, <2>7, <3>1 DEF Entitled
    <3> QED BY <2>4, <3>1, <3>2
  <2> QED BY <2>3, <2>8, <2>9
<1> QED BY <1>1, IInvHolds, PTL DEF Spec, PromotionsGranted
=============================================================================
