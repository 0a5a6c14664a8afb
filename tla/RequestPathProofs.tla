-------------------------- MODULE RequestPathProofs --------------------------
(***************************************************************************)
(* What a request goes through, for every number of users, connections,    *)
(* tenants and requests.  The pool is proved correct by itself: a          *)
(* connection has one user at a time (Exclusive), otherwise another        *)
(* goroutine's SET or RESET could change the setting under fn.  Then the   *)
(* composition is shown to implement the limiter and the pool, so that it  *)
(* has their properties, and a request carries its own role and tenant     *)
(* through the gates (Carried).  That a documented route is served is      *)
(* proved row by row: the first row of the router whose prefix a path has, *)
(* then what the handler it names answers to the path and the method.      *)
(***************************************************************************)
EXTENDS RequestPath, RateLimiterProofs, WellFoundedInduction

\* A goroutine inside WithTenantConn holds a connection, and nobody else does.
Exclusive ==
    \A r \in Calls :
        /\ call[r].pc # "idle" => call[r].conn \in Conns /\ call[r].tenant \in Tenants
        /\ \A q \in Calls : call[r].conn \in Conns /\ call[q].conn = call[r].conn => q = r

PoolInv == PoolTypeOK /\ Exclusive /\ Isolation

USE PoolAssumption

LEMMA PoolStart == PoolInit => PoolInv
  BY DEF PoolInit, Outside, PoolInv, PoolTypeOK, Exclusive, Isolation

\* Whatever is written to the setting of r's own connection while r is not in fn
\* afterwards leaves the others' settings alone.
LEMMA OwnConnection ==
    ASSUME PoolInv, NEW r \in Calls, NEW s \in Tenants \cup {NoTenant}, NEW pc \in {"run", "release"},
           call[r].pc # "idle",
           pc = "run" => s = call[r].tenant,
           setting' = [setting EXCEPT ![call[r].conn] = s],
           call' = [call EXCEPT ![r].pc = pc]
    PROVE  PoolInv'
<1>1. /\ call[r].conn \in Conns
      /\ \A q \in Calls \ {r} : call'[q] = call[q] /\ call[q].conn # call[r].conn
      /\ call'[r].pc = pc /\ call'[r].tenant = call[r].tenant /\ call'[r].conn = call[r].conn
  BY DEF PoolInv, PoolTypeOK, Exclusive
<1>2. PoolTypeOK'
  BY DEF PoolInv, PoolTypeOK
<1>3. Exclusive'
  BY <1>1 DEF PoolInv, Exclusive
<1>4. ASSUME NEW q \in Calls, call'[q].pc = "run" PROVE setting'[call'[q].conn] = call'[q].tenant
  <2>1. CASE q = r
    BY <1>1, <1>4, <2>1 DEF PoolInv, PoolTypeOK
  <2>2. CASE q # r
    <3>1. call[q].conn \in Conns
      BY <1>1, <1>4, <2>2 DEF PoolInv, Exclusive
    <3> QED BY <1>1, <1>4, <2>2, <3>1 DEF PoolInv, PoolTypeOK, Isolation
  <2> QED BY <2>1, <2>2
<1> QED BY <1>2, <1>3, <1>4 DEF PoolInv, Isolation

LEMMA PoolStep == PoolInv /\ [PoolNext]_poolVars => PoolInv'
<1> SUFFICES ASSUME PoolInv, [PoolNext]_poolVars PROVE PoolInv'
  OBVIOUS
<1>1. ASSUME NEW r \in Calls, NEW t \in Tenants, NEW c \in Conns, Acquire(r, t, c) PROVE PoolInv'
  <2>1. /\ \A q \in Calls \ {r} : call'[q] = call[q] /\ call[q].conn # c
        /\ call'[r] = [pc |-> "set", tenant |-> t, conn |-> c]
        /\ setting' = setting
    BY <1>1 DEF Acquire, Free, PoolInv, PoolTypeOK
  <2>2. PoolTypeOK'
    BY <1>1 DEF Acquire, PoolInv, PoolTypeOK
  <2>3. Exclusive'
    BY <2>1 DEF PoolInv, Exclusive
  <2>4. Isolation'
    BY <2>1 DEF PoolInv, Isolation
  <2> QED BY <2>2, <2>3, <2>4 DEF PoolInv
<1>2. ASSUME NEW r \in Calls, SetTenant(r) PROVE PoolInv'
  <2>1. call[r].tenant \in Tenants
    BY <1>2 DEF SetTenant, PoolInv, Exclusive
  <2> QED BY <1>2, <2>1, OwnConnection DEF SetTenant
<1>3. ASSUME NEW r \in Calls, SetFails(r) PROVE PoolInv'
  <2>1. PICK s \in {setting[call[r].conn], call[r].tenant, NoTenant} :
            setting' = [setting EXCEPT ![call[r].conn] = s]
    BY <1>3 DEF SetFails
  <2>2. s \in Tenants \cup {NoTenant}
    BY <1>3 DEF SetFails, PoolInv, PoolTypeOK, Exclusive
  <2> QED BY <1>3, <2>1, <2>2, OwnConnection DEF SetFails
<1>4. ASSUME NEW r \in Calls, Reset(r) PROVE PoolInv'
  <2>1. PICK s \in {setting[call[r].conn], NoTenant} :
            setting' = [setting EXCEPT ![call[r].conn] = s]
    BY <1>4 DEF Reset
  <2>2. s \in Tenants \cup {NoTenant}
    BY <1>4 DEF Reset, PoolInv, PoolTypeOK, Exclusive
  <2> QED BY <1>4, <2>1, <2>2, OwnConnection DEF Reset
<1>5. ASSUME NEW r \in Calls, Release(r) PROVE PoolInv'
  <2>1. /\ \A q \in Calls \ {r} : call'[q] = call[q]
        /\ call'[r] = Outside
        /\ setting' = setting
    BY <1>5 DEF Release, PoolInv, PoolTypeOK
  <2>2. PoolTypeOK'
    BY <1>5 DEF Release, Outside, PoolInv, PoolTypeOK
  <2> QED BY <2>1, <2>2 DEF Outside, PoolInv, Exclusive, Isolation
<1>6. CASE UNCHANGED poolVars
  BY <1>6 DEF poolVars, PoolInv, PoolTypeOK, Exclusive, Isolation
<1> QED BY <1>1, <1>2, <1>3, <1>4, <1>5, <1>6 DEF PoolNext

\* No statement run through WithTenantConn sees the rows of another tenant,
\* whatever SET, RESET or connection failures came before.
THEOREM PoolIsolation == PoolSpec => []Isolation
<1>1. PoolInv => Isolation
  BY DEF PoolInv
<1> QED BY PoolStart, PoolStep, <1>1, PTL DEF PoolSpec
----------------------------------------------------------------------------
\* The tables of routes know nothing of the pool.
HIDE PoolAssumption

\* The least number of a set.
LEMMA Least == ASSUME NEW S \in SUBSET Nat, S # {} PROVE \E i \in S : \A j \in S : i <= j
<1>1. PICK i \in S : \A j \in S : ~ (<<j, i>> \in OpToRel(<, Nat))
  BY WFMin, NatLessThanWellFounded
<1>2. \A j \in S : ~ (j < i)
  BY <1>1 DEF OpToRel
<1> QED BY <1>2

\* A shape that begins with a name fits only paths that begin with it.
LEMMA FirstSegment ==
    ASSUME NEW shape, NEW path, DOMAIN shape \subseteq Nat \ {0}, 1 \in DOMAIN path,
           shape[1] \notin {"*", "..."}, Fits(shape, path)
    PROVE  shape[1] = path[1]
<1>1. CASE Dots(shape) = {}
  BY <1>1 DEF Fits, SegmentFits
<1>2. CASE Dots(shape) # {}
  <2>1. PICK k : k = CHOOSE i \in Dots(shape) : TRUE
    OBVIOUS
  <2>2. k \in Dots(shape)
    BY <1>2, <2>1
  <2>3. k \in Nat \ {0} /\ k # 1
    BY <2>2 DEF Dots
  <2>4. \A i \in 1 .. k - 1 : SegmentFits(shape[i], path[i])
    BY <1>2, <2>1 DEF Fits
  <2>5. 1 \in 1 .. k - 1
    BY <2>3
  <2> QED BY <2>4, <2>5 DEF SegmentFits
<1> QED BY <1>1, <1>2

\* The rows of RequiredRole begin with a name, and those of public paths ask for nothing.
OpenRow(i) ==
    /\ DOMAIN RoleTable[i][1] \subseteq Nat \ {0}
    /\ RoleTable[i][1][1] \notin {"*", "..."}
    /\ RoleTable[i][1][1] \in {"auth", "webhooks"} => RoleTable[i][2] = "" /\ RoleTable[i][3] = ""

LEMMA OpenRows == DOMAIN RoleTable = 1 .. 44 /\ \A i \in 1 .. 44 : OpenRow(i)
<1>1. DOMAIN RoleTable = 1 .. 44
  BY DEF RoleTable
<1>2. OpenRow(1) /\ OpenRow(2) /\ OpenRow(3) /\ OpenRow(4)
  BY DEF RoleTable, OpenRow
<1>3. OpenRow(5) /\ OpenRow(6) /\ OpenRow(7) /\ OpenRow(8)
  BY DEF RoleTable, OpenRow
<1>4. OpenRow(9) /\ OpenRow(10) /\ OpenRow(11) /\ OpenRow(12)
  BY DEF RoleTable, OpenRow
<1>5. OpenRow(13) /\ OpenRow(14) /\ OpenRow(15) /\ OpenRow(16)
  BY DEF RoleTable, OpenRow
<1>6. OpenRow(17) /\ OpenRow(18) /\ OpenRow(19) /\ OpenRow(20)
  BY DEF RoleTable, OpenRow
<1>7. OpenRow(21) /\ OpenRow(22) /\ OpenRow(23) /\ OpenRow(24)
  BY DEF RoleTable, OpenRow
<1>8. OpenRow(25) /\ OpenRow(26) /\ OpenRow(27) /\ OpenRow(28)
  BY DEF RoleTable, OpenRow
<1>9. OpenRow(29) /\ OpenRow(30) /\ OpenRow(31) /\ OpenRow(32)
  BY DEF RoleTable, OpenRow
<1>10. OpenRow(33) /\ OpenRow(34) /\ OpenRow(35) /\ OpenRow(36)
  BY DEF RoleTable, OpenRow
<1>11. OpenRow(37) /\ OpenRow(38) /\ OpenRow(39) /\ OpenRow(40)
  BY DEF RoleTable, OpenRow
<1>12. OpenRow(41) /\ OpenRow(42) /\ OpenRow(43) /\ OpenRow(44)
  BY DEF RoleTable, OpenRow
<1>13. ASSUME NEW i \in 1 .. 44 PROVE OpenRow(i)
  <2>1. \/ i \in {1, 2, 3, 4, 5, 6, 7, 8, 9, 10, 11, 12, 13, 14, 15, 16, 17, 18, 19, 20, 21, 22}
        \/ i \in {23, 24, 25, 26, 27, 28, 29, 30, 31, 32, 33, 34, 35, 36, 37, 38, 39, 40, 41, 42, 43, 44}
    OBVIOUS
  <2> QED BY <1>2, <1>3, <1>4, <1>5, <1>6, <1>7, <1>8, <1>9, <1>10, <1>11, <1>12, <2>1
<1> QED BY <1>1, <1>13

\* Each public path has a row.
LEMMA PublicFits ==
    ASSUME NEW path \in PublicPaths
    PROVE  /\ 1 \in DOMAIN path /\ path[1] \in {"auth", "webhooks"}
           /\ \E i \in 1 .. 44 : Fits(RoleTable[i][1], path)
<1>1. CASE path = <<"auth", "login">>
  <2>1. RoleTable[1][1] = path
    BY <1>1 DEF RoleTable
  <2>2. Fits(path, path)
    BY <1>1 DEF Fits, Dots, SegmentFits
  <2> QED BY <1>1, <2>1, <2>2
<1>2. CASE path = <<"auth", "register">>
  <2>1. RoleTable[2][1] = path
    BY <1>2 DEF RoleTable
  <2>2. Fits(path, path)
    BY <1>2 DEF Fits, Dots, SegmentFits
  <2> QED BY <1>2, <2>1, <2>2
<1>3. CASE path = <<"auth", "whatsapp", "qr">>
  <2>1. RoleTable[3][1] = path
    BY <1>3 DEF RoleTable
  <2>2. Fits(path, path)
    BY <1>3 DEF Fits, Dots, SegmentFits
  <2> QED BY <1>3, <2>1, <2>2
<1>4. CASE path = <<"auth", "whatsapp", "status">>
  <2>1. RoleTable[4][1] = path
    BY <1>4 DEF RoleTable
  <2>2. Fits(path, path)
    BY <1>4 DEF Fits, Dots, SegmentFits
  <2> QED BY <1>4, <2>1, <2>2
<1>5. CASE path = <<"webhooks", "incoming">>
  <2>1. RoleTable[39][1] = path
    BY <1>5 DEF RoleTable
  <2>2. Fits(path, path)
    BY <1>5 DEF Fits, Dots, SegmentFits
  <2> QED BY <1>5, <2>1, <2>2
<1> QED BY <1>1, <1>2, <1>3, <1>4, <1>5 DEF PublicPaths

\* What needs no token needs no role: the switches of requiresAuth and of
\* RequiredRole agree.
LEMMA PublicNeedsNoRole ==
    ASSUME NEW path, NEW method, ~ requiresAuth(path)
    PROVE  RequiredRole(path, method) = ""
<1> DEFINE rows == {i \in DOMAIN RoleTable : Fits(RoleTable[i][1], path)}
<1>1. /\ 1 \in DOMAIN path /\ path[1] \in {"auth", "webhooks"} /\ rows # {} /\ rows \in SUBSET Nat
  BY PublicFits, OpenRows DEF requiresAuth
<1>2. \A i \in rows : RoleTable[i][2] = "" /\ RoleTable[i][3] = "" /\ i # 0
  <2> SUFFICES ASSUME NEW i \in rows PROVE RoleTable[i][2] = "" /\ RoleTable[i][3] = "" /\ i # 0
    OBVIOUS
  <2>1. i \in 1 .. 44 /\ OpenRow(i) /\ Fits(RoleTable[i][1], path)
    BY OpenRows
  <2>2. RoleTable[i][1][1] = path[1]
    BY <1>1, <2>1, FirstSegment DEF OpenRow
  <2>3. RoleTable[i][1][1] \in {"auth", "webhooks"}
    BY <1>1, <2>2, Zenon
  <2>4. RoleTable[i][2] = "" /\ RoleTable[i][3] = ""
    BY <2>1, <2>3, Zenon DEF OpenRow
  <2>5. i # 0
    BY <2>1
  <2> QED BY <2>4, <2>5
<1>3. FirstRow(RoleTable, path) = CHOOSE i \in rows : \A j \in rows : i <= j
  BY <1>1 DEF FirstRow
<1>4. \E i \in rows : \A j \in rows : i <= j
  BY <1>1, Least
<1> HIDE DEF rows
<1>5. FirstRow(RoleTable, path) \in rows
  BY <1>3, <1>4
<1> QED BY <1>2, <1>5 DEF RequiredRole

LEMMA RankTyped == ASSUME NEW role PROVE roleRank(role) \in 0 .. 5
  BY DEF roleRank

\* Whatever a viewer may use, everybody with a row may.
LEMMA ViewerRanksLowest ==
    ASSUME NEW role \in {"owner", "admin", "manager", "member", "viewer"}, NEW required,
           MayUse("viewer", required)
    PROVE  MayUse(role, required)
<1>1. roleRank("viewer") = 1 /\ roleRank(role) >= 1 /\ roleRank(role) \in 0 .. 5
  BY RankTyped DEF roleRank
<1>2. roleRank(required) \in 0 .. 5
  BY RankTyped
<1>3. CASE required = ""
  BY <1>3, Zenon DEF MayUse
<1>4. CASE required # ""
  <2>1. roleRank("viewer") >= roleRank(required)
    BY <1>4, Zenon DEF MayUse
  <2>2. roleRank(role) >= roleRank(required)
    BY <1>1, <1>2, <2>1
  <2> QED BY <2>2, Zenon DEF MayUse
<1> QED BY <1>3, <1>4
----------------------------------------------------------------------------
(***************************************************************************)
(* The switch of ServeHTTP: every documented route reaches a handler.  A   *)
(* path can only fit the rows that begin like it (FitBeginAlike), the four *)
(* parts of the table say which those are (MessageWords and the like), and *)
(* of the rows that begin alike at most one without "..." fits             *)
(* (MessageReached and the like), so that a row with the method answers    *)
(* whatever stands before it.                                              *)
(***************************************************************************)

\* A shape or a path that is not empty and begins with a name.
Named(shape) ==
    /\ Len(shape) \in Nat \ {0} /\ DOMAIN shape = 1 .. Len(shape)
    /\ shape[1] \notin {"*", "..."}

\* The two begin alike, as far as their first two segments.
BeginAlike(shape, path) ==
    /\ shape[1] = path[1]
    /\ IF Len(path) = 1 THEN Len(shape) = 1
       ELSE Len(shape) >= 2 /\ shape[2] \in {"*", "...", path[2]}

LEMMA FitBeginAlike ==
    ASSUME NEW shape, NEW path, Named(shape), Named(path), Fits(shape, path)
    PROVE  BeginAlike(shape, path)
<1>1. CASE Dots(shape) = {}
  <2>1. Len(shape) = Len(path) /\ \A i \in DOMAIN path : SegmentFits(shape[i], path[i])
    BY <1>1 DEF Fits
  <2>2. 1 \in DOMAIN path /\ (Len(path) # 1 => 2 \in DOMAIN path)
    BY DEF Named
  <2> QED BY <2>1, <2>2 DEF SegmentFits, BeginAlike, Named
<1>2. CASE Dots(shape) # {}
  <2>1. PICK k : k = CHOOSE i \in Dots(shape) : TRUE
    OBVIOUS
  <2>2. k \in Dots(shape)
    BY <1>2, <2>1
  <2>3. k \in 2 .. Len(shape) /\ shape[k] = "..."
    BY <2>2 DEF Dots, Named
  <2>4. /\ Len(path) >= k - 1 + (IF Len(shape) - k = 0 THEN 1 ELSE Len(shape) - k)
        /\ \A i \in 1 .. k - 1 : SegmentFits(shape[i], path[i])
    BY <1>2, <2>1 DEF Fits
  <2>5. Len(path) >= 2 /\ Len(shape) >= 2
    <3>1. k \in Int /\ Len(shape) \in Int /\ Len(path) \in Int
      BY <2>3 DEF Named
    <3>2. CASE Len(shape) - k = 0
      BY <2>3, <2>4, <3>1, <3>2
    <3>3. CASE Len(shape) - k # 0
      BY <2>3, <2>4, <3>1, <3>3
    <3> QED BY <3>2, <3>3
  <2>6. shape[1] = path[1]
    <3>1. 1 \in 1 .. k - 1
      BY <2>3 DEF Named
    <3> QED BY <2>4, <3>1 DEF Named, SegmentFits
  <2>7. shape[2] \in {"*", "...", path[2]}
    <3>1. CASE k = 2
      BY <2>3, <3>1
    <3>2. CASE k # 2
      <4>1. 2 \in 1 .. k - 1
        BY <2>3, <3>2
      <4> QED BY <2>4, <4>1 DEF SegmentFits
    <3> QED BY <3>1, <3>2
  <2> QED BY <2>5, <2>6, <2>7 DEF BeginAlike, Named
<1> QED BY <1>1, <1>2

\* A tuple is a sequence, and two sequences one after the other are one.
Tuple(t, n) == t = [i \in 1 .. n |-> t[i]]

LEMMA TupleIsSeq == ASSUME NEW t, NEW n \in Nat, Tuple(t, n), NEW S, \A i \in 1 .. n : t[i] \in S
                    PROVE  t \in Seq(S) /\ Len(t) = n
<1>1. t \in [1 .. n -> S]
  BY Zenon DEF Tuple
<1> QED BY <1>1

LEMMA Joined ==
    ASSUME NEW S, NEW a \in Seq(S), NEW b \in Seq(S)
    PROVE  /\ a \o b \in Seq(S) /\ Len(a \o b) = Len(a) + Len(b)
           /\ \A i \in 1 .. Len(a) : (a \o b)[i] = a[i]
           /\ \A i \in 1 .. Len(b) : (a \o b)[Len(a) + i] = b[i]
  OBVIOUS

\* The rows of the switch, part by part.
LEMMA Parts ==
    /\ DOMAIN RouteTable = 1 .. 70
    /\ \A i \in 1 .. 17 : RouteTable[i] = MessageRoutes[i]
    /\ \A i \in 1 .. 19 : RouteTable[17 + i] = LLMRoutes[i]
    /\ \A i \in 1 .. 17 : RouteTable[36 + i] = TeamRoutes[i]
    /\ \A i \in 1 .. 17 : RouteTable[53 + i] = OtherRoutes[i]
<1> DEFINE S == {MessageRoutes[i] : i \in 1 .. 17} \cup {LLMRoutes[i] : i \in 1 .. 19}
                \cup {TeamRoutes[i] : i \in 1 .. 17} \cup {OtherRoutes[i] : i \in 1 .. 17}
           a == MessageRoutes \o LLMRoutes
           b == a \o TeamRoutes
<1>1. Tuple(MessageRoutes, 17) /\ Tuple(LLMRoutes, 19)
  BY DEF MessageRoutes, LLMRoutes, Tuple
<1>2. Tuple(TeamRoutes, 17) /\ Tuple(OtherRoutes, 17)
  BY DEF TeamRoutes, OtherRoutes, Tuple
<1>3. /\ \A i \in 1 .. 17 : MessageRoutes[i] \in S /\ TeamRoutes[i] \in S /\ OtherRoutes[i] \in S
      /\ \A i \in 1 .. 19 : LLMRoutes[i] \in S
  OBVIOUS
<1> HIDE DEF S
<1>4. MessageRoutes \in Seq(S) /\ LLMRoutes \in Seq(S) /\ TeamRoutes \in Seq(S) /\ OtherRoutes \in Seq(S)
  BY <1>1, <1>2, <1>3, TupleIsSeq
<1>5. Len(MessageRoutes) = 17 /\ Len(LLMRoutes) = 19 /\ Len(TeamRoutes) = 17 /\ Len(OtherRoutes) = 17
  BY <1>1, <1>2, <1>3, TupleIsSeq
<1>6. /\ a \in Seq(S) /\ Len(a) = Len(MessageRoutes) + Len(LLMRoutes)
      /\ \A i \in 1 .. Len(MessageRoutes) : a[i] = MessageRoutes[i]
      /\ \A i \in 1 .. Len(LLMRoutes) : a[Len(MessageRoutes) + i] = LLMRoutes[i]
  BY <1>4, Joined
<1> HIDE DEF a
<1>7. /\ b \in Seq(S) /\ Len(b) = Len(a) + Len(TeamRoutes)
      /\ \A i \in 1 .. Len(a) : b[i] = a[i]
      /\ \A i \in 1 .. Len(TeamRoutes) : b[Len(a) + i] = TeamRoutes[i]
  <2>1. a \in Seq(S)
    BY <1>6
  <2> QED BY <1>4, <2>1, Joined
<1> HIDE DEF b
<1>8. /\ RouteTable \in Seq(S) /\ Len(RouteTable) = Len(b) + Len(OtherRoutes)
      /\ \A i \in 1 .. Len(b) : RouteTable[i] = b[i]
      /\ \A i \in 1 .. Len(OtherRoutes) : RouteTable[Len(b) + i] = OtherRoutes[i]
  <2>1. b \in Seq(S) /\ RouteTable = b \o OtherRoutes
    BY <1>7 DEF a, b, RouteTable
  <2> QED BY <1>4, <2>1, Joined
<1>9. Len(a) = 36 /\ Len(b) = 53 /\ Len(RouteTable) = 70
  BY <1>5, <1>6, <1>7, <1>8
<1>10. DOMAIN RouteTable = 1 .. 70
  <2>1. DOMAIN RouteTable = 1 .. Len(RouteTable)
    BY <1>8
  <2> QED BY <1>9, <2>1
<1>11. /\ \A i \in 1 .. 17 : a[i] = MessageRoutes[i]
       /\ \A i \in 1 .. 19 : a[17 + i] = LLMRoutes[i]
  BY <1>5, <1>6
<1>12. /\ \A i \in 1 .. 36 : b[i] = a[i]
       /\ \A i \in 1 .. 17 : b[36 + i] = TeamRoutes[i]
  BY <1>5, <1>7, <1>9
<1>13. /\ \A i \in 1 .. 53 : RouteTable[i] = b[i]
       /\ \A i \in 1 .. 17 : RouteTable[53 + i] = OtherRoutes[i]
  BY <1>5, <1>8, <1>9
<1>14. ASSUME NEW i \in 1 .. 19 PROVE RouteTable[17 + i] = LLMRoutes[i]
  <2>1. 17 + i \in 1 .. 36 /\ 17 + i \in 1 .. 53
    OBVIOUS
  <2> QED BY <1>11, <1>12, <1>13, <2>1, Zenon
<1>15. ASSUME NEW i \in 1 .. 17 PROVE RouteTable[i] = MessageRoutes[i] /\ RouteTable[36 + i] = TeamRoutes[i]
  <2>1. i \in 1 .. 36 /\ i \in 1 .. 53 /\ 36 + i \in 1 .. 53
    OBVIOUS
  <2> QED BY <1>11, <1>12, <1>13, <2>1, Zenon
<1> QED BY <1>10, <1>13, <1>14, <1>15

\* The rows of the switch begin with a name, and no handler is called none.
LEMMA RowsNamed ==
    /\ \A i \in 1 .. 17 : Named(MessageRoutes[i][1]) /\ Named(TeamRoutes[i][1]) /\ Named(OtherRoutes[i][1])
    /\ \A i \in 1 .. 19 : Named(LLMRoutes[i][1])
<1>1. \A i \in 1 .. 17 : Named(MessageRoutes[i][1])
  BY SMTT(30) DEF MessageRoutes, Named
<1>2. ASSUME NEW i \in 1 .. 19 PROVE Named(LLMRoutes[i][1])
  <2>1. \A j \in {1, 2, 3} : Named(LLMRoutes[j][1])
    BY SMTT(30) DEF LLMRoutes, Named
  <2>2. \A j \in {4, 5, 6} : Named(LLMRoutes[j][1])
    BY SMTT(30) DEF LLMRoutes, Named
  <2>3. \A j \in {7, 8, 9} : Named(LLMRoutes[j][1])
    BY SMTT(30) DEF LLMRoutes, Named
  <2>4. \A j \in {10, 11, 12} : Named(LLMRoutes[j][1])
    BY SMTT(30) DEF LLMRoutes, Named
  <2>5. \A j \in {13, 14, 15} : Named(LLMRoutes[j][1])
    BY SMTT(30) DEF LLMRoutes, Named
  <2>6. \A j \in {16, 17} : Named(LLMRoutes[j][1])
    BY DEF LLMRoutes, Named
  <2>7. \A j \in {18, 19} : Named(LLMRoutes[j][1])
    BY DEF LLMRoutes, Named
  <2>8. i \in {1, 2, 3, 4, 5, 6, 7, 8, 9} \cup {10, 11, 12, 13, 14, 15, 16, 17, 18, 19}
    OBVIOUS
  <2> QED BY <2>1, <2>2, <2>3, <2>4, <2>5, <2>6, <2>7, <2>8
<1>3. \A i \in 1 .. 17 : Named(TeamRoutes[i][1])
  BY SMTT(30) DEF TeamRoutes, Named
<1>4. \A i \in 1 .. 17 : Named(OtherRoutes[i][1])
  BY SMTT(30) DEF OtherRoutes, Named
<1> QED BY <1>1, <1>2, <1>3, <1>4

LEMMA HandlersNamed ==
    /\ \A i \in 1 .. 17 : \A h \in MessageRoutes[i][2] \cup TeamRoutes[i][2] \cup OtherRoutes[i][2] : h[2] # "none"
    /\ \A i \in 1 .. 19 : \A h \in LLMRoutes[i][2] : h[2] # "none"
<1>1. \A i \in 1 .. 17 : \A h \in MessageRoutes[i][2] : h[2] # "none"
  BY DEF MessageRoutes
<1>2. \A i \in 1 .. 19 : \A h \in LLMRoutes[i][2] : h[2] # "none"
  BY DEF LLMRoutes
<1>3. \A i \in 1 .. 17 : \A h \in TeamRoutes[i][2] : h[2] # "none"
  BY DEF TeamRoutes
<1>4. \A i \in 1 .. 17 : \A h \in OtherRoutes[i][2] : h[2] # "none"
  BY DEF OtherRoutes
<1> QED BY <1>1, <1>2, <1>3, <1>4

\* What a path says of the rows that begin like it.
LEMMA MessageWords ==
    ASSUME NEW path, NEW i \in 1 .. 17, BeginAlike(MessageRoutes[i][1], path)
    PROVE  /\ Len(path) = 1 <=> i \in {1, 3, 4, 12, 13, 17}
           /\ i \in {1, 2} => path[1] = "dashboard"
           /\ i = 3 => path[1] = "ws"
           /\ i \in 4 .. 7 => path[1] = "conversations"
           /\ i \in 8 .. 11 => path[1] = "messages"
           /\ i = 12 => path[1] = "important-messages"
           /\ i \in 13 .. 16 => path[1] = "action-items"
           /\ i = 17 => path[1] = "daily-summary"
           /\ i = 2 => path[2] = "stream"
           /\ i = 5 => path[2] = "summarize"
           /\ i \in {6, 14, 15} => path[2] = "id"
           /\ i = 8 => path[2] = "reply"
           /\ i = 9 => path[2] = "forward"
           /\ i = 10 => path[2] = "analyze"
           /\ i = 11 => path[2] = "batch-analyze"
<1> DEFINE shape == MessageRoutes[i][1]
<1>1. Len(shape) = 1 => i \in {1, 3, 4, 12, 13, 17}
  BY DEF MessageRoutes
<1>2. i \in {1, 3, 4, 12, 13, 17} => Len(shape) = 1
  BY DEF MessageRoutes
<1>3. i \in {1, 2} => shape[1] = "dashboard"
  BY DEF MessageRoutes
<1>4. i = 3 => shape[1] = "ws"
  BY DEF MessageRoutes
<1>5. i \in 4 .. 7 => shape[1] = "conversations"
  BY DEF MessageRoutes
<1>6. i \in 8 .. 11 => shape[1] = "messages"
  BY DEF MessageRoutes
<1>7. i = 12 => shape[1] = "important-messages"
  BY DEF MessageRoutes
<1>8. i \in 13 .. 16 => shape[1] = "action-items"
  BY DEF MessageRoutes
<1>9. i = 17 => shape[1] = "daily-summary"
  BY DEF MessageRoutes
<1>10. i = 2 => shape[2] = "stream"
  BY DEF MessageRoutes
<1>11. i = 5 => shape[2] = "summarize"
  BY DEF MessageRoutes
<1>12. i \in {6, 14, 15} => shape[2] = "id"
  BY DEF MessageRoutes
<1>13. i = 8 => shape[2] = "reply"
  BY DEF MessageRoutes
<1>14. i = 9 => shape[2] = "forward"
  BY DEF MessageRoutes
<1>15. i = 10 => shape[2] = "analyze"
  BY DEF MessageRoutes
<1>16. i = 11 => shape[2] = "batch-analyze"
  BY DEF MessageRoutes
<1> HIDE DEF shape
<1>17. BeginAlike(shape, path)
  BY DEF shape
<1> QED BY <1>1, <1>2, <1>3, <1>4, <1>5, <1>6, <1>7, <1>8, <1>9, <1>10, <1>11, <1>12, <1>13, <1>14, <1>15, <1>16, <1>17 DEF BeginAlike

\* The same for the second part of the switch.
LEMMA LLMWords ==
    ASSUME NEW path, NEW i \in 1 .. 19, BeginAlike(LLMRoutes[i][1], path)
    PROVE  /\ Len(path) # 1
           /\ path[1] = "llm"
           /\ i \in 1 .. 7 => path[2] = "providers"
           /\ i = 8 => path[2] = "usage"
           /\ i = 9 => path[2] = "costs"
           /\ i \in {10, 11} => path[2] = "analytics"
           /\ i = 12 => path[2] = "health"
           /\ i \in 13 .. 17 => path[2] = "features"
           /\ i = 18 => path[2] = "bulk-test"
           /\ i = 19 => path[2] = "recommendations"
<1> DEFINE shape == LLMRoutes[i][1]
<1>1. Len(shape) # 1
  BY DEF LLMRoutes
<1>2. shape[1] = "llm"
  BY DEF LLMRoutes
<1>3. i \in 1 .. 7 => shape[2] = "providers"
  BY DEF LLMRoutes
<1>4. i = 8 => shape[2] = "usage"
  BY DEF LLMRoutes
<1>5. i = 9 => shape[2] = "costs"
  BY DEF LLMRoutes
<1>6. i \in {10, 11} => shape[2] = "analytics"
  BY DEF LLMRoutes
<1>7. i = 12 => shape[2] = "health"
  BY DEF LLMRoutes
<1>8. i \in 13 .. 17 => shape[2] = "features"
  BY DEF LLMRoutes
<1>9. i = 18 => shape[2] = "bulk-test"
  BY DEF LLMRoutes
<1>10. i = 19 => shape[2] = "recommendations"
  BY DEF LLMRoutes
<1> HIDE DEF shape
<1>11. BeginAlike(shape, path)
  BY DEF shape
<1> QED BY <1>1, <1>2, <1>3, <1>4, <1>5, <1>6, <1>7, <1>8, <1>9, <1>10, <1>11 DEF BeginAlike

\* And for the third.
LEMMA TeamWords ==
    ASSUME NEW path, NEW i \in 1 .. 17, BeginAlike(TeamRoutes[i][1], path)
    PROVE  /\ Len(path) = 1 <=> i \in {7, 17}
           /\ i \in 1 .. 6 => path[1] = "team"
           /\ i \in 7 .. 12 => path[1] = "workflows"
           /\ i \in 13 .. 17 => path[1] = "integrations"
           /\ i \in 1 .. 4 => path[2] = "users"
           /\ i = 5 => path[2] = "invitations"
           /\ i = 6 => path[2] = "activity"
           /\ i \in {8, 9, 10, 11, 13, 15} => path[2] = "id"
<1> DEFINE shape == TeamRoutes[i][1]
<1>1. Len(shape) = 1 => i \in {7, 17}
  BY DEF TeamRoutes
<1>2. i \in {7, 17} => Len(shape) = 1
  BY DEF TeamRoutes
<1>3. i \in 1 .. 6 => shape[1] = "team"
  BY DEF TeamRoutes
<1>4. i \in 7 .. 12 => shape[1] = "workflows"
  BY DEF TeamRoutes
<1>5. i \in 13 .. 17 => shape[1] = "integrations"
  BY DEF TeamRoutes
<1>6. i \in 1 .. 4 => shape[2] = "users"
  BY DEF TeamRoutes
<1>7. i = 5 => shape[2] = "invitations"
  BY DEF TeamRoutes
<1>8. i = 6 => shape[2] = "activity"
  BY DEF TeamRoutes
<1>9. i \in {8, 9, 10, 11, 13, 15} => shape[2] = "id"
  BY DEF TeamRoutes
<1> HIDE DEF shape
<1>10. BeginAlike(shape, path)
  BY DEF shape
<1> QED BY <1>1, <1>2, <1>3, <1>4, <1>5, <1>6, <1>7, <1>8, <1>9, <1>10 DEF BeginAlike

\* And for the last.
LEMMA OtherWords ==
    ASSUME NEW path, NEW i \in 1 .. 17, BeginAlike(OtherRoutes[i][1], path)
    PROVE  /\ Len(path) = 1 <=> i \in {2, 3, 6}
           /\ i = 1 => path[1] = "webhooks"
           /\ i = 2 => path[1] = "audit-logs"
           /\ i \in 3 .. 5 => path[1] = "notifications"
           /\ i = 6 => path[1] = "labels"
           /\ i \in {7, 8} => path[1] = "messages"
           /\ i \in {9, 10} => path[1] = "comments"
           /\ i \in 11 .. 17 => path[1] = "auth"
           /\ i = 1 => path[2] = "incoming"
           /\ i \in {4, 7, 9} => path[2] = "id"
           /\ i = 11 => path[2] = "login"
           /\ i = 12 => path[2] = "register"
           /\ i \in 13 .. 15 => path[2] = "whatsapp"
           /\ i = 16 => path[2] = "logout"
           /\ i = 17 => path[2] = "me"
<1> DEFINE shape == OtherRoutes[i][1]
<1>1. Len(shape) = 1 => i \in {2, 3, 6}
  BY DEF OtherRoutes
<1>2. i \in {2, 3, 6} => Len(shape) = 1
  BY DEF OtherRoutes
<1>3. i = 1 => shape[1] = "webhooks"
  BY DEF OtherRoutes
<1>4. i = 2 => shape[1] = "audit-logs"
  BY DEF OtherRoutes
<1>5. i \in 3 .. 5 => shape[1] = "notifications"
  BY DEF OtherRoutes
<1>6. i = 6 => shape[1] = "labels"
  BY DEF OtherRoutes
<1>7. i \in {7, 8} => shape[1] = "messages"
  BY DEF OtherRoutes
<1>8. i \in {9, 10} => shape[1] = "comments"
  BY DEF OtherRoutes
<1>9. i \in 11 .. 17 => shape[1] = "auth"
  BY DEF OtherRoutes
<1>10. i = 1 => shape[2] = "incoming"
  BY DEF OtherRoutes
<1>11. i \in {4, 7, 9} => shape[2] = "id"
  BY DEF OtherRoutes
<1>12. i = 11 => shape[2] = "login"
  BY DEF OtherRoutes
<1>13. i = 12 => shape[2] = "register"
  BY DEF OtherRoutes
<1>14. i \in 13 .. 15 => shape[2] = "whatsapp"
  BY DEF OtherRoutes
<1>15. i = 16 => shape[2] = "logout"
  BY DEF OtherRoutes
<1>16. i = 17 => shape[2] = "me"
  BY DEF OtherRoutes
<1> HIDE DEF shape
<1>17. BeginAlike(shape, path)
  BY DEF shape
<1> QED BY <1>1, <1>2, <1>3, <1>4, <1>5, <1>6, <1>7, <1>8, <1>9, <1>10, <1>11, <1>12, <1>13, <1>14, <1>15, <1>16, <1>17 DEF BeginAlike

\* The first row that fits decides.
LEMMA FirstIs ==
    ASSUME NEW path, NEW k \in 1 .. 70, Fits(RouteTable[k][1], path),
           \A i \in 1 .. k - 1 : ~ Fits(RouteTable[i][1], path)
    PROVE  FirstRow(RouteTable, path) = k
<1> DEFINE rows == {i \in DOMAIN RouteTable : Fits(RouteTable[i][1], path)}
<1>1. rows \in SUBSET (1 .. 70) /\ k \in rows /\ \A i \in rows : k <= i
  BY Parts
<1>2. FirstRow(RouteTable, path) = CHOOSE i \in rows : \A j \in rows : i <= j
  BY <1>1 DEF FirstRow
<1> HIDE DEF rows
<1>3. ASSUME NEW i \in rows, \A j \in rows : i <= j PROVE i = k
  <2>1. i \in 1 .. 70 /\ k <= i /\ i <= k
    BY <1>1, <1>3
  <2> QED BY <2>1
<1> QED BY <1>1, <1>2, <1>3

\* A row answers the methods of its handlers on the paths that reach it.
LEMMA RowAnswers ==
    ASSUME NEW path, NEW k \in 1 .. 70, FirstRow(RouteTable, path) = k,
           \A g \in RouteTable[k][2] : g[2] # "none", NEW h \in RouteTable[k][2]
    PROVE  Dispatch(path, h[1]) # "none"
<1> DEFINE found == {g \in RouteTable[k][2] : g[1] = h[1]}
<1>1. h \in found /\ \A g \in found : g[2] # "none"
  OBVIOUS
<1>2. Dispatch(path, h[1]) = (CHOOSE g \in found : TRUE)[2]
  <2>1. k # 0 /\ found # {}
    BY <1>1
  <2> QED BY <2>1, Zenon DEF Dispatch
<1> HIDE DEF found
<1>3. (CHOOSE g \in found : TRUE) \in found
  BY <1>1
<1> QED BY <1>1, <1>2, <1>3

\* A path fits row j of a part and none of that part's rows before it.
Reaches(part, j, path) ==
    /\ Named(path)
    /\ Fits(part[j][1], path)
    /\ \A i \in 1 .. j - 1 : BeginAlike(part[i][1], path) => ~ Fits(part[i][1], path)

LEMMA MessagesAnswer ==
    ASSUME NEW path, NEW j \in 1 .. 17, Reaches(MessageRoutes, j, path), NEW h \in MessageRoutes[j][2]
    PROVE  Dispatch(path, h[1]) # "none"
<1>1. ASSUME NEW i \in 1 .. j - 1 PROVE ~ Fits(RouteTable[i][1], path)
  BY RowsNamed, FitBeginAlike, Parts DEF Reaches
<1>2. j \in 1 .. 70 /\ RouteTable[j] = MessageRoutes[j]
  BY Parts
<1>3. FirstRow(RouteTable, path) = j
  BY <1>1, <1>2, FirstIs DEF Reaches
<1> QED BY <1>2, <1>3, HandlersNamed, RowAnswers

LEMMA LLMAnswers ==
    ASSUME NEW path, path[1] = "llm", NEW j \in 1 .. 19, Reaches(LLMRoutes, j, path), NEW h \in LLMRoutes[j][2]
    PROVE  Dispatch(path, h[1]) # "none"
<1>1. ASSUME NEW i \in 1 .. 17 PROVE ~ Fits(RouteTable[i][1], path)
  BY RowsNamed, FitBeginAlike, MessageWords, Parts, SMTT(30) DEF Reaches
<1>2. ASSUME NEW i \in 1 .. j - 1 PROVE ~ Fits(RouteTable[17 + i][1], path)
  <2>1. i \in 1 .. 19 /\ RouteTable[17 + i] = LLMRoutes[i] /\ Named(LLMRoutes[i][1])
    BY RowsNamed, Parts
  <2> QED BY <2>1, FitBeginAlike DEF Reaches
<1>3. 17 + j \in 1 .. 70 /\ RouteTable[17 + j] = LLMRoutes[j]
  BY Parts
<1>4. PICK k \in 1 .. 70 : k = 17 + j
  BY <1>3
<1>5. ASSUME NEW i \in 1 .. k - 1 PROVE ~ Fits(RouteTable[i][1], path)
  <2>1. i \in 1 .. 17 \/ (i - 17 \in 1 .. j - 1 /\ 17 + (i - 17) = i)
    BY <1>4
  <2> QED BY <1>1, <1>2, <2>1
<1>6. FirstRow(RouteTable, path) = k
  BY <1>3, <1>4, <1>5, FirstIs DEF Reaches
<1> QED BY <1>3, <1>4, <1>6, HandlersNamed, RowAnswers

LEMMA TeamAnswers ==
    ASSUME NEW path, path[1] \in {"team", "workflows", "integrations"},
           NEW j \in 1 .. 17, Reaches(TeamRoutes, j, path), NEW h \in TeamRoutes[j][2]
    PROVE  Dispatch(path, h[1]) # "none"
<1>1. ASSUME NEW i \in 1 .. 17 PROVE ~ Fits(RouteTable[i][1], path)
  BY RowsNamed, FitBeginAlike, MessageWords, Parts, SMTT(30) DEF Reaches
<1>2. ASSUME NEW i \in 1 .. 19 PROVE ~ Fits(RouteTable[17 + i][1], path)
  BY RowsNamed, FitBeginAlike, LLMWords, Parts DEF Reaches
<1>3. ASSUME NEW i \in 1 .. j - 1 PROVE ~ Fits(RouteTable[36 + i][1], path)
  <2>1. i \in 1 .. 17 /\ RouteTable[36 + i] = TeamRoutes[i] /\ Named(TeamRoutes[i][1])
    BY RowsNamed, Parts
  <2> QED BY <2>1, FitBeginAlike DEF Reaches
<1>4. 36 + j \in 1 .. 70 /\ RouteTable[36 + j] = TeamRoutes[j]
  BY Parts
<1>5. PICK k \in 1 .. 70 : k = 36 + j
  BY <1>4
<1>6. ASSUME NEW i \in 1 .. k - 1 PROVE ~ Fits(RouteTable[i][1], path)
  <2>1. \/ i \in 1 .. 17
        \/ i - 17 \in 1 .. 19 /\ 17 + (i - 17) = i
        \/ i - 36 \in 1 .. j - 1 /\ 36 + (i - 36) = i
    BY <1>5
  <2> QED BY <1>1, <1>2, <1>3, <2>1
<1>7. FirstRow(RouteTable, path) = k
  BY <1>4, <1>5, <1>6, FirstIs DEF Reaches
<1> QED BY <1>4, <1>5, <1>7, HandlersNamed, RowAnswers

LEMMA OthersAnswer ==
    ASSUME NEW path, path[1] \notin {"llm", "team", "workflows", "integrations"},
           \A i \in 1 .. 17 : ~ BeginAlike(MessageRoutes[i][1], path),
           NEW j \in 1 .. 17, Reaches(OtherRoutes, j, path), NEW h \in OtherRoutes[j][2]
    PROVE  Dispatch(path, h[1]) # "none"
<1>1. ASSUME NEW i \in 1 .. 17 PROVE ~ Fits(RouteTable[i][1], path)
  BY RowsNamed, FitBeginAlike, Parts DEF Reaches
<1>2. ASSUME NEW i \in 1 .. 19 PROVE ~ Fits(RouteTable[17 + i][1], path)
  BY RowsNamed, FitBeginAlike, LLMWords, Parts DEF Reaches
<1>3. ASSUME NEW i \in 1 .. 17 PROVE ~ Fits(RouteTable[36 + i][1], path)
  BY RowsNamed, FitBeginAlike, TeamWords, Parts, SMTT(30) DEF Reaches
<1>4. ASSUME NEW i \in 1 .. j - 1 PROVE ~ Fits(RouteTable[53 + i][1], path)
  <2>1. i \in 1 .. 17 /\ RouteTable[53 + i] = OtherRoutes[i] /\ Named(OtherRoutes[i][1])
    BY RowsNamed, Parts, SMTT(30)
  <2> QED BY <2>1, FitBeginAlike DEF Reaches
<1>5. 53 + j \in 1 .. 70 /\ RouteTable[53 + j] = OtherRoutes[j]
  BY Parts
<1>6. PICK k \in 1 .. 70 : k = 53 + j
  BY <1>5
<1>7. ASSUME NEW i \in 1 .. k - 1 PROVE ~ Fits(RouteTable[i][1], path)
  <2>1. \/ i \in 1 .. 17
        \/ i - 17 \in 1 .. 19 /\ 17 + (i - 17) = i
        \/ i - 36 \in 1 .. 17 /\ 36 + (i - 36) = i
        \/ i - 53 \in 1 .. j - 1 /\ 53 + (i - 53) = i
    BY <1>6
  <2> QED BY <1>1, <1>2, <1>3, <1>4, <2>1
<1>8. FirstRow(RouteTable, path) = k
  BY <1>5, <1>6, <1>7, FirstIs DEF Reaches
<1> QED BY <1>5, <1>6, <1>8, HandlersNamed, RowAnswers

\* A shape of n segments, one by one.
Plain(shape, n) == Dots(shape) = {} /\ Len(shape) = n /\ n \in Nat

LEMMA PlainLength ==
    ASSUME NEW shape, NEW path, NEW n, Plain(shape, n), Fits(shape, path)
    PROVE  Len(path) = n
  BY DEF Plain, Fits

LEMMA PlainSegment ==
    ASSUME NEW shape, NEW path, Named(path), NEW n, Plain(shape, n), Fits(shape, path),
           NEW k \in 1 .. n, shape[k] # "*"
    PROVE  path[k] = shape[k]
<1>1. Len(shape) = Len(path) /\ \A i \in DOMAIN path : SegmentFits(shape[i], path[i])
  BY DEF Plain, Fits
<1>2. Len(path) = n
  BY <1>1 DEF Plain
<1>3. k \in DOMAIN path
  BY <1>2 DEF Named
<1> QED BY <1>1, <1>3 DEF SegmentFits


LEMMA MessageSay ==
    ASSUME NEW path, Named(path)
    PROVE  /\ Fits(MessageRoutes[14][1], path) => Len(path) = 3
           /\ Fits(MessageRoutes[15][1], path) => Len(path) = 2
<1>1. ASSUME Fits(MessageRoutes[14][1], path) PROVE Len(path) = 3
  <2>1. Plain(MessageRoutes[14][1], 3)
    BY DEF MessageRoutes, Plain, Dots
  <2> QED BY <1>1, <2>1, PlainLength, Zenon
<1>2. ASSUME Fits(MessageRoutes[15][1], path) PROVE Len(path) = 2
  <2>1. Plain(MessageRoutes[15][1], 2)
    BY DEF MessageRoutes, Plain, Dots
  <2> QED BY <1>2, <2>1, PlainLength, Zenon
<1> QED BY <1>1, <1>2

LEMMA LLMSay ==
    ASSUME NEW path, Named(path)
    PROVE  /\ Fits(LLMRoutes[1][1], path) => Len(path) = 2
           /\ Fits(LLMRoutes[2][1], path) => Len(path) = 3 /\ path[3] = "comparison"
           /\ Fits(LLMRoutes[3][1], path) => Len(path) = 4 /\ path[4] = "test"
           /\ Fits(LLMRoutes[4][1], path) => Len(path) = 4 /\ path[4] = "history"
           /\ Fits(LLMRoutes[5][1], path) => Len(path) = 3 /\ path[3] = "id"
           /\ Fits(LLMRoutes[10][1], path) => Len(path) = 3 /\ path[3] = "cost-breakdown"
           /\ Fits(LLMRoutes[11][1], path) => Len(path) = 3 /\ path[3] = "usage-by-feature"
           /\ Fits(LLMRoutes[13][1], path) => Len(path) = 2
           /\ Fits(LLMRoutes[14][1], path) => Len(path) = 4 /\ path[4] = "assign-provider"
           /\ Fits(LLMRoutes[15][1], path) => Len(path) = 4 /\ path[4] = "providers"
           /\ Fits(LLMRoutes[16][1], path) => Len(path) = 5
<1>1. ASSUME Fits(LLMRoutes[1][1], path) PROVE Len(path) = 2
  <2>1. Plain(LLMRoutes[1][1], 2)
    BY DEF LLMRoutes, Plain, Dots
  <2> QED BY <1>1, <2>1, PlainLength, Zenon
<1>2. ASSUME Fits(LLMRoutes[2][1], path) PROVE Len(path) = 3 /\ path[3] = "comparison"
  <2>1. Plain(LLMRoutes[2][1], 3) /\ 3 \in 1 .. 3 /\ LLMRoutes[2][1][3] # "*"
    BY DEF LLMRoutes, Plain, Dots
  <2>2. path[3] = LLMRoutes[2][1][3]
    BY <1>2, <2>1, PlainSegment
  <2>3. Len(path) = 3
    BY <1>2, <2>1, PlainLength, Zenon
  <2>4. LLMRoutes[2][1][3] = "comparison"
    BY DEF LLMRoutes
  <2> QED BY <2>2, <2>3, <2>4
<1>3. ASSUME Fits(LLMRoutes[3][1], path) PROVE Len(path) = 4 /\ path[4] = "test"
  <2>1. Plain(LLMRoutes[3][1], 4) /\ 4 \in 1 .. 4 /\ LLMRoutes[3][1][4] # "*"
    BY DEF LLMRoutes, Plain, Dots
  <2>2. path[4] = LLMRoutes[3][1][4]
    BY <1>3, <2>1, PlainSegment
  <2>3. Len(path) = 4
    BY <1>3, <2>1, PlainLength, Zenon
  <2>4. LLMRoutes[3][1][4] = "test"
    BY DEF LLMRoutes
  <2> QED BY <2>2, <2>3, <2>4
<1>4. ASSUME Fits(LLMRoutes[4][1], path) PROVE Len(path) = 4 /\ path[4] = "history"
  <2>1. Plain(LLMRoutes[4][1], 4) /\ 4 \in 1 .. 4 /\ LLMRoutes[4][1][4] # "*"
    BY DEF LLMRoutes, Plain, Dots
  <2>2. path[4] = LLMRoutes[4][1][4]
    BY <1>4, <2>1, PlainSegment
  <2>3. Len(path) = 4
    BY <1>4, <2>1, PlainLength, Zenon
  <2>4. LLMRoutes[4][1][4] = "history"
    BY DEF LLMRoutes
  <2> QED BY <2>2, <2>3, <2>4
<1>5. ASSUME Fits(LLMRoutes[5][1], path) PROVE Len(path) = 3 /\ path[3] = "id"
  <2>1. Plain(LLMRoutes[5][1], 3) /\ 3 \in 1 .. 3 /\ LLMRoutes[5][1][3] # "*"
    BY DEF LLMRoutes, Plain, Dots
  <2>2. path[3] = LLMRoutes[5][1][3]
    BY <1>5, <2>1, PlainSegment
  <2>3. Len(path) = 3
    BY <1>5, <2>1, PlainLength, Zenon
  <2>4. LLMRoutes[5][1][3] = "id"
    BY DEF LLMRoutes
  <2> QED BY <2>2, <2>3, <2>4
<1>6. ASSUME Fits(LLMRoutes[10][1], path) PROVE Len(path) = 3 /\ path[3] = "cost-breakdown"
  <2>1. Plain(LLMRoutes[10][1], 3) /\ 3 \in 1 .. 3 /\ LLMRoutes[10][1][3] # "*"
    BY DEF LLMRoutes, Plain, Dots
  <2>2. path[3] = LLMRoutes[10][1][3]
    BY <1>6, <2>1, PlainSegment
  <2>3. Len(path) = 3
    BY <1>6, <2>1, PlainLength, Zenon
  <2>4. LLMRoutes[10][1][3] = "cost-breakdown"
    BY DEF LLMRoutes
  <2> QED BY <2>2, <2>3, <2>4
<1>7. ASSUME Fits(LLMRoutes[11][1], path) PROVE Len(path) = 3 /\ path[3] = "usage-by-feature"
  <2>1. Plain(LLMRoutes[11][1], 3) /\ 3 \in 1 .. 3 /\ LLMRoutes[11][1][3] # "*"
    BY DEF LLMRoutes, Plain, Dots
  <2>2. path[3] = LLMRoutes[11][1][3]
    BY <1>7, <2>1, PlainSegment
  <2>3. Len(path) = 3
    BY <1>7, <2>1, PlainLength, Zenon
  <2>4. LLMRoutes[11][1][3] = "usage-by-feature"
    BY DEF LLMRoutes
  <2> QED BY <2>2, <2>3, <2>4
<1>8. ASSUME Fits(LLMRoutes[13][1], path) PROVE Len(path) = 2
  <2>1. Plain(LLMRoutes[13][1], 2)
    BY DEF LLMRoutes, Plain, Dots
  <2> QED BY <1>8, <2>1, PlainLength, Zenon
<1>9. ASSUME Fits(LLMRoutes[14][1], path) PROVE Len(path) = 4 /\ path[4] = "assign-provider"
  <2>1. Plain(LLMRoutes[14][1], 4) /\ 4 \in 1 .. 4 /\ LLMRoutes[14][1][4] # "*"
    BY DEF LLMRoutes, Plain, Dots
  <2>2. path[4] = LLMRoutes[14][1][4]
    BY <1>9, <2>1, PlainSegment
  <2>3. Len(path) = 4
    BY <1>9, <2>1, PlainLength, Zenon
  <2>4. LLMRoutes[14][1][4] = "assign-provider"
    BY DEF LLMRoutes
  <2> QED BY <2>2, <2>3, <2>4
<1>10. ASSUME Fits(LLMRoutes[15][1], path) PROVE Len(path) = 4 /\ path[4] = "providers"
  <2>1. Plain(LLMRoutes[15][1], 4) /\ 4 \in 1 .. 4 /\ LLMRoutes[15][1][4] # "*"
    BY DEF LLMRoutes, Plain, Dots
  <2>2. path[4] = LLMRoutes[15][1][4]
    BY <1>10, <2>1, PlainSegment
  <2>3. Len(path) = 4
    BY <1>10, <2>1, PlainLength, Zenon
  <2>4. LLMRoutes[15][1][4] = "providers"
    BY DEF LLMRoutes
  <2> QED BY <2>2, <2>3, <2>4
<1>11. ASSUME Fits(LLMRoutes[16][1], path) PROVE Len(path) = 5
  <2>1. Plain(LLMRoutes[16][1], 5)
    BY DEF LLMRoutes, Plain, Dots
  <2> QED BY <1>11, <2>1, PlainLength, Zenon
<1> QED BY <1>1, <1>2, <1>3, <1>4, <1>5, <1>6, <1>7, <1>8, <1>9, <1>10, <1>11

LEMMA TeamSay ==
    ASSUME NEW path, Named(path)
    PROVE  /\ Fits(TeamRoutes[1][1], path) => Len(path) = 2
           /\ Fits(TeamRoutes[2][1], path) => Len(path) = 4
           /\ Fits(TeamRoutes[3][1], path) => Len(path) = 3
           /\ Fits(TeamRoutes[8][1], path) => Len(path) = 3 /\ path[3] = "test"
           /\ Fits(TeamRoutes[9][1], path) => Len(path) = 3 /\ path[3] = "executions"
           /\ Fits(TeamRoutes[10][1], path) => Len(path) = 2
           /\ Fits(TeamRoutes[13][1], path) => Len(path) = 2
           /\ Fits(TeamRoutes[14][1], path) => Len(path) = 2
           /\ Fits(TeamRoutes[15][1], path) => Len(path) = 3
<1>1. ASSUME Fits(TeamRoutes[1][1], path) PROVE Len(path) = 2
  <2>1. Plain(TeamRoutes[1][1], 2)
    BY DEF TeamRoutes, Plain, Dots
  <2> QED BY <1>1, <2>1, PlainLength, Zenon
<1>2. ASSUME Fits(TeamRoutes[2][1], path) PROVE Len(path) = 4
  <2>1. Plain(TeamRoutes[2][1], 4)
    BY DEF TeamRoutes, Plain, Dots
  <2> QED BY <1>2, <2>1, PlainLength, Zenon
<1>3. ASSUME Fits(TeamRoutes[3][1], path) PROVE Len(path) = 3
  <2>1. Plain(TeamRoutes[3][1], 3)
    BY DEF TeamRoutes, Plain, Dots
  <2> QED BY <1>3, <2>1, PlainLength, Zenon
<1>4. ASSUME Fits(TeamRoutes[8][1], path) PROVE Len(path) = 3 /\ path[3] = "test"
  <2>1. Plain(TeamRoutes[8][1], 3) /\ 3 \in 1 .. 3 /\ TeamRoutes[8][1][3] # "*"
    BY DEF TeamRoutes, Plain, Dots
  <2>2. path[3] = TeamRoutes[8][1][3]
    BY <1>4, <2>1, PlainSegment
  <2>3. Len(path) = 3
    BY <1>4, <2>1, PlainLength, Zenon
  <2>4. TeamRoutes[8][1][3] = "test"
    BY DEF TeamRoutes
  <2> QED BY <2>2, <2>3, <2>4
<1>5. ASSUME Fits(TeamRoutes[9][1], path) PROVE Len(path) = 3 /\ path[3] = "executions"
  <2>1. Plain(TeamRoutes[9][1], 3) /\ 3 \in 1 .. 3 /\ TeamRoutes[9][1][3] # "*"
    BY DEF TeamRoutes, Plain, Dots
  <2>2. path[3] = TeamRoutes[9][1][3]
    BY <1>5, <2>1, PlainSegment
  <2>3. Len(path) = 3
    BY <1>5, <2>1, PlainLength, Zenon
  <2>4. TeamRoutes[9][1][3] = "executions"
    BY DEF TeamRoutes
  <2> QED BY <2>2, <2>3, <2>4
<1>6. ASSUME Fits(TeamRoutes[10][1], path) PROVE Len(path) = 2
  <2>1. Plain(TeamRoutes[10][1], 2)
    BY DEF TeamRoutes, Plain, Dots
  <2> QED BY <1>6, <2>1, PlainLength, Zenon
<1>7. ASSUME Fits(TeamRoutes[13][1], path) PROVE Len(path) = 2
  <2>1. Plain(TeamRoutes[13][1], 2)
    BY DEF TeamRoutes, Plain, Dots
  <2> QED BY <1>7, <2>1, PlainLength, Zenon
<1>8. ASSUME Fits(TeamRoutes[14][1], path) PROVE Len(path) = 2
  <2>1. Plain(TeamRoutes[14][1], 2)
    BY DEF TeamRoutes, Plain, Dots
  <2> QED BY <1>8, <2>1, PlainLength, Zenon
<1>9. ASSUME Fits(TeamRoutes[15][1], path) PROVE Len(path) = 3
  <2>1. Plain(TeamRoutes[15][1], 3)
    BY DEF TeamRoutes, Plain, Dots
  <2> QED BY <1>9, <2>1, PlainLength, Zenon
<1> QED BY <1>1, <1>2, <1>3, <1>4, <1>5, <1>6, <1>7, <1>8, <1>9

LEMMA OtherSay ==
    ASSUME NEW path, Named(path)
    PROVE  /\ Fits(OtherRoutes[13][1], path) => Len(path) = 3 /\ path[3] = "qr"
           /\ Fits(OtherRoutes[14][1], path) => Len(path) = 3 /\ path[3] = "status"
           /\ Fits(OtherRoutes[15][1], path) => Len(path) = 3 /\ path[3] = "sync-contacts"
<1>1. ASSUME Fits(OtherRoutes[13][1], path) PROVE Len(path) = 3 /\ path[3] = "qr"
  <2>1. Plain(OtherRoutes[13][1], 3) /\ 3 \in 1 .. 3 /\ OtherRoutes[13][1][3] # "*"
    BY DEF OtherRoutes, Plain, Dots
  <2>2. path[3] = OtherRoutes[13][1][3]
    BY <1>1, <2>1, PlainSegment
  <2>3. Len(path) = 3
    BY <1>1, <2>1, PlainLength, Zenon
  <2>4. OtherRoutes[13][1][3] = "qr"
    BY DEF OtherRoutes
  <2> QED BY <2>2, <2>3, <2>4
<1>2. ASSUME Fits(OtherRoutes[14][1], path) PROVE Len(path) = 3 /\ path[3] = "status"
  <2>1. Plain(OtherRoutes[14][1], 3) /\ 3 \in 1 .. 3 /\ OtherRoutes[14][1][3] # "*"
    BY DEF OtherRoutes, Plain, Dots
  <2>2. path[3] = OtherRoutes[14][1][3]
    BY <1>2, <2>1, PlainSegment
  <2>3. Len(path) = 3
    BY <1>2, <2>1, PlainLength, Zenon
  <2>4. OtherRoutes[14][1][3] = "status"
    BY DEF OtherRoutes
  <2> QED BY <2>2, <2>3, <2>4
<1>3. ASSUME Fits(OtherRoutes[15][1], path) PROVE Len(path) = 3 /\ path[3] = "sync-contacts"
  <2>1. Plain(OtherRoutes[15][1], 3) /\ 3 \in 1 .. 3 /\ OtherRoutes[15][1][3] # "*"
    BY DEF OtherRoutes, Plain, Dots
  <2>2. path[3] = OtherRoutes[15][1][3]
    BY <1>3, <2>1, PlainSegment
  <2>3. Len(path) = 3
    BY <1>3, <2>1, PlainLength, Zenon
  <2>4. OtherRoutes[15][1][3] = "sync-contacts"
    BY DEF OtherRoutes
  <2> QED BY <2>2, <2>3, <2>4
<1> QED BY <1>1, <1>2, <1>3

\* Of the rows that begin alike, at most one fits a path: their lengths differ, or
\* one segment does.
LEMMA MessageReached ==
    ASSUME NEW path, Named(path), NEW j \in 1 .. 17, j \notin {7, 16}, Fits(MessageRoutes[j][1], path)
    PROVE  Reaches(MessageRoutes, j, path)
<1> SUFFICES ASSUME NEW i \in 1 .. j - 1, Fits(MessageRoutes[i][1], path) PROVE FALSE
  BY DEF Reaches
<1>1. BeginAlike(MessageRoutes[i][1], path) /\ BeginAlike(MessageRoutes[j][1], path)
  BY RowsNamed, FitBeginAlike
<1>2. i = 14 /\ j = 15
  BY <1>1, MessageWords
<1> QED BY <1>2, MessageSay

LEMMA LLMReached ==
    ASSUME NEW path, Named(path), NEW j \in 1 .. 19, j \notin {6, 7, 17}, Fits(LLMRoutes[j][1], path)
    PROVE  Reaches(LLMRoutes, j, path)
<1> SUFFICES ASSUME NEW i \in 1 .. j - 1, Fits(LLMRoutes[i][1], path) PROVE FALSE
  BY DEF Reaches
<1>1. BeginAlike(LLMRoutes[i][1], path) /\ BeginAlike(LLMRoutes[j][1], path)
  BY RowsNamed, FitBeginAlike, SMTT(30)
<1>2. \/ i \in 1 .. 4 /\ j \in 2 .. 5
      \/ i = 10 /\ j = 11
      \/ i \in 13 .. 15 /\ j \in 14 .. 16
  BY <1>1, LLMWords
<1>3. \/ i \in {1, 2, 3, 4} /\ j \in {2, 3, 4, 5} /\ i < j
      \/ i = 10 /\ j = 11
      \/ i \in {13, 14, 15} /\ j \in {14, 15, 16} /\ i < j
  BY <1>2
<1> QED BY <1>3, LLMSay

LEMMA TeamReached ==
    ASSUME NEW path, Named(path), NEW j \in 1 .. 17, j \notin {4, 11, 12, 16}, j = 14 => path[2] # "id",
           Fits(TeamRoutes[j][1], path)
    PROVE  Reaches(TeamRoutes, j, path)
<1> SUFFICES ASSUME NEW i \in 1 .. j - 1, Fits(TeamRoutes[i][1], path) PROVE FALSE
  BY DEF Reaches
<1>1. BeginAlike(TeamRoutes[i][1], path) /\ BeginAlike(TeamRoutes[j][1], path)
  BY RowsNamed, FitBeginAlike
<1>2. \/ i \in {1, 2} /\ j \in {2, 3} /\ i < j
      \/ i \in {8, 9} /\ j \in {9, 10} /\ i < j
      \/ i \in {13, 14} /\ j = 15
  BY <1>1, TeamWords
<1> QED BY <1>2, TeamSay

LEMMA OtherReached ==
    ASSUME NEW path, Named(path), NEW j \in 1 .. 17, j \notin {5, 8, 10}, Fits(OtherRoutes[j][1], path)
    PROVE  Reaches(OtherRoutes, j, path)
<1> SUFFICES ASSUME NEW i \in 1 .. j - 1, Fits(OtherRoutes[i][1], path) PROVE FALSE
  BY DEF Reaches
<1>1. BeginAlike(OtherRoutes[i][1], path) /\ BeginAlike(OtherRoutes[j][1], path)
  BY RowsNamed, FitBeginAlike
<1>2. i \in {13, 14} /\ j \in {14, 15} /\ i < j
  BY <1>1, OtherWords
<1> QED BY <1>2, OtherSay

\* The methods of a path that a handler answers, and the row that has handlers for them.
Served(path, methods) == \A m \in methods : Dispatch(path, m) # "none"

Handles(row, methods) == \A m \in methods : \E h \in row[2] : h[1] = m

Has(row, path, methods) == Named(path) /\ Fits(row[1], path) /\ Handles(row, methods)

LEMMA MessageServes ==
    ASSUME NEW path, NEW methods, NEW j \in 1 .. 17, j \notin {7, 16}, Has(MessageRoutes[j], path, methods)
    PROVE  Served(path, methods)
<1>1. Reaches(MessageRoutes, j, path)
  BY MessageReached DEF Has
<1> QED BY <1>1, MessagesAnswer DEF Has, Handles, Served

LEMMA LLMServes ==
    ASSUME NEW path, NEW methods, NEW j \in 1 .. 19, j \notin {6, 7, 17}, Has(LLMRoutes[j], path, methods)
    PROVE  Served(path, methods)
<1>1. Reaches(LLMRoutes, j, path)
  BY LLMReached DEF Has
<1>2. path[1] = "llm"
  BY RowsNamed, FitBeginAlike, LLMWords DEF Has
<1> QED BY <1>1, <1>2, LLMAnswers DEF Has, Handles, Served

LEMMA TeamServes ==
    ASSUME NEW path, NEW methods, NEW j \in 1 .. 17, j \notin {4, 11, 12, 16}, j = 14 => path[2] # "id",
           Has(TeamRoutes[j], path, methods)
    PROVE  Served(path, methods)
<1>1. Reaches(TeamRoutes, j, path)
  BY TeamReached DEF Has
<1>2. path[1] \in {"team", "workflows", "integrations"}
  BY RowsNamed, FitBeginAlike, TeamWords, SMTT(30) DEF Has
<1> QED BY <1>1, <1>2, TeamAnswers DEF Has, Handles, Served

\* Only the labels of a message begin like a row of another part.
LEMMA OtherServes ==
    ASSUME NEW path, NEW methods, NEW j \in 1 .. 17, j \notin {5, 8, 10}, path[1] = "messages" => path[2] = "id",
           Has(OtherRoutes[j], path, methods)
    PROVE  Served(path, methods)
<1>1. Reaches(OtherRoutes, j, path)
  BY OtherReached DEF Has
<1>2. BeginAlike(OtherRoutes[j][1], path)
  BY RowsNamed, FitBeginAlike DEF Has
<1>3. path[1] \notin {"llm", "team", "workflows", "integrations"}
  BY <1>2, OtherWords
<1>4. ASSUME NEW i \in 1 .. 17 PROVE ~ BeginAlike(MessageRoutes[i][1], path)
  BY <1>2, OtherWords, MessageWords
<1> QED BY <1>1, <1>3, <1>4, OthersAnswer DEF Has, Handles, Served

\* Messages, conversations, action items and the dashboard.
LEMMA MessagePaths ==
    /\ Served(<<"dashboard">>, {"GET"})
    /\ Served(<<"conversations">>, {"GET"})
    /\ Served(<<"conversations", "summarize">>, {"POST"})
    /\ Served(<<"conversations", "id", "messages">>, {"GET"})
    /\ Served(<<"messages", "reply">>, {"POST"})
    /\ Served(<<"messages", "forward">>, {"POST"})
    /\ Served(<<"messages", "analyze">>, {"POST"})
    /\ Served(<<"messages", "batch-analyze">>, {"POST"})
    /\ Served(<<"important-messages">>, {"GET"})
    /\ Served(<<"action-items">>, {"GET", "POST"})
    /\ Served(<<"action-items", "id", "comments">>, {"GET", "POST"})
    /\ Served(<<"action-items", "id">>, {"PATCH", "DELETE"})
    /\ Served(<<"daily-summary">>, {"GET"})
<1>1. /\ Named(<<"dashboard">>)
      /\ Named(<<"conversations">>)
      /\ Named(<<"conversations", "summarize">>)
      /\ Named(<<"conversations", "id", "messages">>)
      /\ Named(<<"messages", "reply">>)
      /\ Named(<<"messages", "forward">>)
      /\ Named(<<"messages", "analyze">>)
      /\ Named(<<"messages", "batch-analyze">>)
      /\ Named(<<"important-messages">>)
      /\ Named(<<"action-items">>)
      /\ Named(<<"action-items", "id", "comments">>)
      /\ Named(<<"action-items", "id">>)
      /\ Named(<<"daily-summary">>)
  BY DEF Named
<1>2. /\ Fits(MessageRoutes[1][1], <<"dashboard">>)
      /\ Fits(MessageRoutes[4][1], <<"conversations">>)
      /\ Fits(MessageRoutes[5][1], <<"conversations", "summarize">>)
      /\ Fits(MessageRoutes[6][1], <<"conversations", "id", "messages">>)
      /\ Fits(MessageRoutes[8][1], <<"messages", "reply">>)
  BY DEF MessageRoutes, Fits, Dots, SegmentFits
<1>3. /\ Fits(MessageRoutes[9][1], <<"messages", "forward">>)
      /\ Fits(MessageRoutes[10][1], <<"messages", "analyze">>)
      /\ Fits(MessageRoutes[11][1], <<"messages", "batch-analyze">>)
      /\ Fits(MessageRoutes[12][1], <<"important-messages">>)
      /\ Fits(MessageRoutes[13][1], <<"action-items">>)
  BY DEF MessageRoutes, Fits, Dots, SegmentFits
<1>4. /\ Fits(MessageRoutes[14][1], <<"action-items", "id", "comments">>)
      /\ Fits(MessageRoutes[15][1], <<"action-items", "id">>)
      /\ Fits(MessageRoutes[17][1], <<"daily-summary">>)
  BY DEF MessageRoutes, Fits, Dots, SegmentFits
<1>5. /\ Handles(MessageRoutes[1], {"GET"})
      /\ Handles(MessageRoutes[4], {"GET"})
      /\ Handles(MessageRoutes[5], {"POST"})
      /\ Handles(MessageRoutes[6], {"GET"})
      /\ Handles(MessageRoutes[8], {"POST"})
  BY DEF MessageRoutes, Handles
<1>6. /\ Handles(MessageRoutes[9], {"POST"})
      /\ Handles(MessageRoutes[10], {"POST"})
      /\ Handles(MessageRoutes[11], {"POST"})
      /\ Handles(MessageRoutes[12], {"GET"})
      /\ Handles(MessageRoutes[13], {"GET", "POST"})
  BY DEF MessageRoutes, Handles
<1>7. /\ Handles(MessageRoutes[14], {"GET", "POST"})
      /\ Handles(MessageRoutes[15], {"PATCH", "DELETE"})
      /\ Handles(MessageRoutes[17], {"GET"})
  BY DEF MessageRoutes, Handles
<1> QED BY <1>1, <1>2, <1>3, <1>4, <1>5, <1>6, <1>7, MessageServes DEF Has

\* Providers, their usage and the features they serve.
LEMMA LLMPaths ==
    /\ Served(<<"llm", "providers">>, {"GET", "POST"})
    /\ Served(<<"llm", "providers", "comparison">>, {"GET"})
    /\ Served(<<"llm", "providers", "id", "test">>, {"POST"})
    /\ Served(<<"llm", "providers", "id", "history">>, {"GET"})
    /\ Served(<<"llm", "providers", "id">>, {"GET", "PATCH", "DELETE"})
    /\ Served(<<"llm", "usage">>, {"GET"})
    /\ Served(<<"llm", "costs">>, {"GET"})
    /\ Served(<<"llm", "analytics", "cost-breakdown">>, {"GET"})
    /\ Served(<<"llm", "analytics", "usage-by-feature">>, {"GET"})
    /\ Served(<<"llm", "health">>, {"GET"})
    /\ Served(<<"llm", "features">>, {"GET"})
    /\ Served(<<"llm", "features", "other", "assign-provider">>, {"POST"})
    /\ Served(<<"llm", "features", "other", "providers">>, {"GET"})
    /\ Served(<<"llm", "features", "other", "providers", "id">>, {"DELETE"})
    /\ Served(<<"llm", "bulk-test">>, {"POST"})
    /\ Served(<<"llm", "recommendations">>, {"GET"})
<1>1. /\ Named(<<"llm", "providers">>)
      /\ Named(<<"llm", "providers", "comparison">>)
      /\ Named(<<"llm", "providers", "id", "test">>)
      /\ Named(<<"llm", "providers", "id", "history">>)
      /\ Named(<<"llm", "providers", "id">>)
      /\ Named(<<"llm", "usage">>)
      /\ Named(<<"llm", "costs">>)
      /\ Named(<<"llm", "analytics", "cost-breakdown">>)
      /\ Named(<<"llm", "analytics", "usage-by-feature">>)
      /\ Named(<<"llm", "health">>)
      /\ Named(<<"llm", "features">>)
      /\ Named(<<"llm", "features", "other", "assign-provider">>)
      /\ Named(<<"llm", "features", "other", "providers">>)
      /\ Named(<<"llm", "features", "other", "providers", "id">>)
      /\ Named(<<"llm", "bulk-test">>)
      /\ Named(<<"llm", "recommendations">>)
  BY DEF Named
<1>2. /\ Fits(LLMRoutes[1][1], <<"llm", "providers">>)
      /\ Fits(LLMRoutes[2][1], <<"llm", "providers", "comparison">>)
      /\ Fits(LLMRoutes[3][1], <<"llm", "providers", "id", "test">>)
      /\ Fits(LLMRoutes[4][1], <<"llm", "providers", "id", "history">>)
      /\ Fits(LLMRoutes[5][1], <<"llm", "providers", "id">>)
  BY SMTT(30) DEF LLMRoutes, Fits, Dots, SegmentFits
<1>3. /\ Fits(LLMRoutes[8][1], <<"llm", "usage">>)
      /\ Fits(LLMRoutes[9][1], <<"llm", "costs">>)
      /\ Fits(LLMRoutes[10][1], <<"llm", "analytics", "cost-breakdown">>)
      /\ Fits(LLMRoutes[11][1], <<"llm", "analytics", "usage-by-feature">>)
      /\ Fits(LLMRoutes[12][1], <<"llm", "health">>)
  BY SMTT(30) DEF LLMRoutes, Fits, Dots, SegmentFits
<1>4. /\ Fits(LLMRoutes[13][1], <<"llm", "features">>)
      /\ Fits(LLMRoutes[14][1], <<"llm", "features", "other", "assign-provider">>)
      /\ Fits(LLMRoutes[15][1], <<"llm", "features", "other", "providers">>)
      /\ Fits(LLMRoutes[16][1], <<"llm", "features", "other", "providers", "id">>)
      /\ Fits(LLMRoutes[18][1], <<"llm", "bulk-test">>)
  BY SMTT(30) DEF LLMRoutes, Fits, Dots, SegmentFits
<1>5. /\ Fits(LLMRoutes[19][1], <<"llm", "recommendations">>)
  BY DEF LLMRoutes, Fits, Dots, SegmentFits
<1>6. /\ Handles(LLMRoutes[1], {"GET", "POST"})
      /\ Handles(LLMRoutes[2], {"GET"})
      /\ Handles(LLMRoutes[3], {"POST"})
      /\ Handles(LLMRoutes[4], {"GET"})
      /\ Handles(LLMRoutes[5], {"GET", "PATCH", "DELETE"})
  BY DEF LLMRoutes, Handles
<1>7. /\ Handles(LLMRoutes[8], {"GET"})
      /\ Handles(LLMRoutes[9], {"GET"})
      /\ Handles(LLMRoutes[10], {"GET"})
      /\ Handles(LLMRoutes[11], {"GET"})
      /\ Handles(LLMRoutes[12], {"GET"})
  BY DEF LLMRoutes, Handles
<1>8. /\ Handles(LLMRoutes[13], {"GET"})
      /\ Handles(LLMRoutes[14], {"POST"})
      /\ Handles(LLMRoutes[15], {"GET"})
      /\ Handles(LLMRoutes[16], {"DELETE"})
      /\ Handles(LLMRoutes[18], {"POST"})
  BY DEF LLMRoutes, Handles
<1>9. /\ Handles(LLMRoutes[19], {"GET"})
  BY DEF LLMRoutes, Handles
<1> QED BY <1>1, <1>2, <1>3, <1>4, <1>5, <1>6, <1>7, <1>8, <1>9, LLMServes DEF Has

\* Team, workflows and integrations.
LEMMA TeamPaths ==
    /\ Served(<<"team", "users">>, {"GET", "POST"})
    /\ Served(<<"team", "users", "id", "role">>, {"PATCH"})
    /\ Served(<<"team", "users", "id">>, {"DELETE"})
    /\ Served(<<"team", "invitations">>, {"POST"})
    /\ Served(<<"team", "activity">>, {"GET"})
    /\ Served(<<"workflows">>, {"GET", "POST"})
    /\ Served(<<"workflows", "id", "test">>, {"POST"})
    /\ Served(<<"workflows", "id", "executions">>, {"GET"})
    /\ Served(<<"workflows", "id">>, {"PATCH", "DELETE"})
    /\ Served(<<"integrations", "id">>, {"DELETE"})
    /\ Served(<<"integrations", "other">>, {"POST"})
    /\ Served(<<"integrations", "id", "config">>, {"GET"})
    /\ Served(<<"integrations">>, {"GET"})
<1>1. /\ Named(<<"team", "users">>)
      /\ Named(<<"team", "users", "id", "role">>)
      /\ Named(<<"team", "users", "id">>)
      /\ Named(<<"team", "invitations">>)
      /\ Named(<<"team", "activity">>)
      /\ Named(<<"workflows">>)
      /\ Named(<<"workflows", "id", "test">>)
      /\ Named(<<"workflows", "id", "executions">>)
      /\ Named(<<"workflows", "id">>)
      /\ Named(<<"integrations", "id">>)
      /\ Named(<<"integrations", "other">>)
      /\ Named(<<"integrations", "id", "config">>)
      /\ Named(<<"integrations">>)
  BY DEF Named
<1>2. /\ Fits(TeamRoutes[1][1], <<"team", "users">>)
      /\ Fits(TeamRoutes[2][1], <<"team", "users", "id", "role">>)
      /\ Fits(TeamRoutes[3][1], <<"team", "users", "id">>)
      /\ Fits(TeamRoutes[5][1], <<"team", "invitations">>)
      /\ Fits(TeamRoutes[6][1], <<"team", "activity">>)
  BY SMTT(30) DEF TeamRoutes, Fits, Dots, SegmentFits
<1>3. /\ Fits(TeamRoutes[7][1], <<"workflows">>)
      /\ Fits(TeamRoutes[8][1], <<"workflows", "id", "test">>)
      /\ Fits(TeamRoutes[9][1], <<"workflows", "id", "executions">>)
      /\ Fits(TeamRoutes[10][1], <<"workflows", "id">>)
      /\ Fits(TeamRoutes[13][1], <<"integrations", "id">>)
  BY SMTT(30) DEF TeamRoutes, Fits, Dots, SegmentFits
<1>4. /\ Fits(TeamRoutes[14][1], <<"integrations", "other">>)
      /\ Fits(TeamRoutes[15][1], <<"integrations", "id", "config">>)
      /\ Fits(TeamRoutes[17][1], <<"integrations">>)
  BY DEF TeamRoutes, Fits, Dots, SegmentFits
<1>5. /\ Handles(TeamRoutes[1], {"GET", "POST"})
      /\ Handles(TeamRoutes[2], {"PATCH"})
      /\ Handles(TeamRoutes[3], {"DELETE"})
      /\ Handles(TeamRoutes[5], {"POST"})
      /\ Handles(TeamRoutes[6], {"GET"})
  BY DEF TeamRoutes, Handles
<1>6. /\ Handles(TeamRoutes[7], {"GET", "POST"})
      /\ Handles(TeamRoutes[8], {"POST"})
      /\ Handles(TeamRoutes[9], {"GET"})
      /\ Handles(TeamRoutes[10], {"PATCH", "DELETE"})
      /\ Handles(TeamRoutes[13], {"DELETE"})
  BY DEF TeamRoutes, Handles
<1>7. /\ Handles(TeamRoutes[14], {"POST"})
      /\ Handles(TeamRoutes[15], {"GET"})
      /\ Handles(TeamRoutes[17], {"GET"})
  BY DEF TeamRoutes, Handles
<1> QED BY <1>1, <1>2, <1>3, <1>4, <1>5, <1>6, <1>7, TeamServes DEF Has

\* Everything else.
LEMMA OtherPaths ==
    /\ Served(<<"webhooks", "incoming">>, {"POST"})
    /\ Served(<<"audit-logs">>, {"POST"})
    /\ Served(<<"notifications">>, {"POST"})
    /\ Served(<<"notifications", "id">>, {"PATCH"})
    /\ Served(<<"labels">>, {"POST"})
    /\ Served(<<"messages", "id", "labels">>, {"POST"})
    /\ Served(<<"comments", "id">>, {"DELETE"})
    /\ Served(<<"auth", "login">>, {"POST"})
    /\ Served(<<"auth", "register">>, {"POST"})
    /\ Served(<<"auth", "me">>, {"GET"})
<1>1. /\ Named(<<"webhooks", "incoming">>)
      /\ Named(<<"audit-logs">>)
      /\ Named(<<"notifications">>)
      /\ Named(<<"notifications", "id">>)
      /\ Named(<<"labels">>)
      /\ Named(<<"messages", "id", "labels">>)
      /\ Named(<<"comments", "id">>)
      /\ Named(<<"auth", "login">>)
      /\ Named(<<"auth", "register">>)
      /\ Named(<<"auth", "me">>)
  BY DEF Named
<1>2. /\ Fits(OtherRoutes[1][1], <<"webhooks", "incoming">>)
      /\ Fits(OtherRoutes[2][1], <<"audit-logs">>)
      /\ Fits(OtherRoutes[3][1], <<"notifications">>)
      /\ Fits(OtherRoutes[4][1], <<"notifications", "id">>)
      /\ Fits(OtherRoutes[6][1], <<"labels">>)
  BY DEF OtherRoutes, Fits, Dots, SegmentFits
<1>3. /\ Fits(OtherRoutes[7][1], <<"messages", "id", "labels">>)
      /\ Fits(OtherRoutes[9][1], <<"comments", "id">>)
      /\ Fits(OtherRoutes[11][1], <<"auth", "login">>)
      /\ Fits(OtherRoutes[12][1], <<"auth", "register">>)
      /\ Fits(OtherRoutes[17][1], <<"auth", "me">>)
  BY DEF OtherRoutes, Fits, Dots, SegmentFits
<1>4. /\ Handles(OtherRoutes[1], {"POST"})
      /\ Handles(OtherRoutes[2], {"POST"})
      /\ Handles(OtherRoutes[3], {"POST"})
      /\ Handles(OtherRoutes[4], {"PATCH"})
      /\ Handles(OtherRoutes[6], {"POST"})
  BY DEF OtherRoutes, Handles
<1>5. /\ Handles(OtherRoutes[7], {"POST"})
      /\ Handles(OtherRoutes[9], {"DELETE"})
      /\ Handles(OtherRoutes[11], {"POST"})
      /\ Handles(OtherRoutes[12], {"POST"})
      /\ Handles(OtherRoutes[17], {"GET"})
  BY DEF OtherRoutes, Handles
<1> QED BY <1>1, <1>2, <1>3, <1>4, <1>5, OtherServes DEF Has

\* A route that a handler answers.
RouteAnswered(route) == Dispatch(route[1], route[2]) # "none"

LEMMA MethodsAnswered ==
    ASSUME NEW path, NEW methods, Served(path, methods), NEW method \in methods
    PROVE  RouteAnswered(<<path, method>>)
  BY DEF Served, RouteAnswered

\* Every route that README.md lists reaches a handler.
LEMMA DocumentedAnswered == \A route \in Documented : RouteAnswered(route)
<1> DEFINE Alone ==
               {<< <<"dashboard">>, "GET">>, << <<"conversations">>, "GET">>,
               << <<"conversations", "id", "messages">>, "GET">>, << <<"messages", "reply">>, "POST">>,
               << <<"messages", "forward">>, "POST">>, << <<"important-messages">>, "GET">>,
               << <<"daily-summary">>, "GET">>, << <<"auth", "login">>, "POST">>,
               << <<"auth", "register">>, "POST">>, << <<"auth", "me">>, "GET">>,
               << <<"llm", "providers", "comparison">>, "GET">>, << <<"llm", "providers", "id", "history">>, "GET">>,
               << <<"llm", "providers", "id", "test">>, "POST">>, << <<"messages", "analyze">>, "POST">>,
               << <<"messages", "batch-analyze">>, "POST">>, << <<"conversations", "summarize">>, "POST">>,
               << <<"llm", "usage">>, "GET">>, << <<"llm", "costs">>, "GET">>, << <<"llm", "health">>, "GET">>,
               << <<"llm", "features">>, "GET">>, << <<"llm", "features", "other", "assign-provider">>, "POST">>,
               << <<"llm", "features", "other", "providers">>, "GET">>,
               << <<"llm", "features", "other", "providers", "id">>, "DELETE">>,
               << <<"llm", "analytics", "cost-breakdown">>, "GET">>,
               << <<"llm", "analytics", "usage-by-feature">>, "GET">>, << <<"llm", "bulk-test">>, "POST">>,
               << <<"llm", "recommendations">>, "GET">>, << <<"team", "users", "id", "role">>, "PATCH">>,
               << <<"team", "users", "id">>, "DELETE">>, << <<"team", "invitations">>, "POST">>,
               << <<"team", "activity">>, "GET">>, << <<"workflows", "id", "test">>, "POST">>,
               << <<"workflows", "id", "executions">>, "GET">>, << <<"integrations", "other">>, "POST">>,
               << <<"integrations">>, "GET">>, << <<"integrations", "id", "config">>, "GET">>,
               << <<"integrations", "id">>, "DELETE">>, << <<"webhooks", "incoming">>, "POST">>,
               << <<"audit-logs">>, "POST">>, << <<"notifications">>, "POST">>,
               << <<"notifications", "id">>, "PATCH">>, << <<"labels">>, "POST">>,
               << <<"messages", "id", "labels">>, "POST">>, << <<"comments", "id">>, "DELETE">>}
           GetPost == {<<"action-items">>, <<"llm", "providers">>, <<"team", "users">>, <<"workflows">>} \X {"GET", "POST"}
           PatchDelete == {<<"action-items", "id">>, <<"llm", "providers", "id">>, <<"workflows", "id">>} \X {"PATCH", "DELETE"}
           Provider == {<< <<"llm", "providers", "id">>, "GET">>}
           Comments == {<<"action-items", "id", "comments">>} \X {"GET", "POST"}
<1>1. ASSUME NEW route \in GetPost PROVE RouteAnswered(route)
  <2>1. \A path \in {<<"action-items">>, <<"llm", "providers">>, <<"team", "users">>, <<"workflows">>} :
            Served(path, {"GET", "POST"})
    BY MessagePaths, LLMPaths, TeamPaths, Zenon
  <2> QED BY <2>1 DEF Served, RouteAnswered
<1>2. ASSUME NEW route \in PatchDelete PROVE RouteAnswered(route)
  <2>1. \A path \in {<<"action-items", "id">>, <<"llm", "providers", "id">>, <<"workflows", "id">>} :
            \A method \in {"PATCH", "DELETE"} : Dispatch(path, method) # "none"
    BY MessagePaths, LLMPaths, TeamPaths, Zenon DEF Served
  <2> QED BY <2>1 DEF RouteAnswered
<1>3. ASSUME NEW route \in Comments PROVE RouteAnswered(route)
  BY MessagePaths DEF Served, RouteAnswered
<1>4. /\ RouteAnswered(<< <<"dashboard">>, "GET">>)
      /\ RouteAnswered(<< <<"conversations">>, "GET">>)
      /\ RouteAnswered(<< <<"conversations", "summarize">>, "POST">>)
      /\ RouteAnswered(<< <<"conversations", "id", "messages">>, "GET">>)
      /\ RouteAnswered(<< <<"messages", "reply">>, "POST">>)
      /\ RouteAnswered(<< <<"messages", "forward">>, "POST">>)
      /\ RouteAnswered(<< <<"messages", "analyze">>, "POST">>)
      /\ RouteAnswered(<< <<"messages", "batch-analyze">>, "POST">>)
      /\ RouteAnswered(<< <<"important-messages">>, "GET">>)
      /\ RouteAnswered(<< <<"daily-summary">>, "GET">>)
  BY MessagePaths, MethodsAnswered
<1>5. /\ RouteAnswered(<< <<"llm", "providers", "comparison">>, "GET">>)
      /\ RouteAnswered(<< <<"llm", "providers", "id", "test">>, "POST">>)
      /\ RouteAnswered(<< <<"llm", "providers", "id", "history">>, "GET">>)
      /\ RouteAnswered(<< <<"llm", "providers", "id">>, "GET">>)
      /\ RouteAnswered(<< <<"llm", "usage">>, "GET">>)
      /\ RouteAnswered(<< <<"llm", "costs">>, "GET">>)
      /\ RouteAnswered(<< <<"llm", "analytics", "cost-breakdown">>, "GET">>)
      /\ RouteAnswered(<< <<"llm", "analytics", "usage-by-feature">>, "GET">>)
      /\ RouteAnswered(<< <<"llm", "health">>, "GET">>)
      /\ RouteAnswered(<< <<"llm", "features">>, "GET">>)
      /\ RouteAnswered(<< <<"llm", "features", "other", "assign-provider">>, "POST">>)
      /\ RouteAnswered(<< <<"llm", "features", "other", "providers">>, "GET">>)
      /\ RouteAnswered(<< <<"llm", "features", "other", "providers", "id">>, "DELETE">>)
      /\ RouteAnswered(<< <<"llm", "bulk-test">>, "POST">>)
      /\ RouteAnswered(<< <<"llm", "recommendations">>, "GET">>)
  BY LLMPaths, MethodsAnswered
<1>6. /\ RouteAnswered(<< <<"team", "users", "id", "role">>, "PATCH">>)
      /\ RouteAnswered(<< <<"team", "users", "id">>, "DELETE">>)
      /\ RouteAnswered(<< <<"team", "invitations">>, "POST">>)
      /\ RouteAnswered(<< <<"team", "activity">>, "GET">>)
      /\ RouteAnswered(<< <<"workflows", "id", "test">>, "POST">>)
      /\ RouteAnswered(<< <<"workflows", "id", "executions">>, "GET">>)
      /\ RouteAnswered(<< <<"integrations", "id">>, "DELETE">>)
      /\ RouteAnswered(<< <<"integrations", "other">>, "POST">>)
      /\ RouteAnswered(<< <<"integrations", "id", "config">>, "GET">>)
      /\ RouteAnswered(<< <<"integrations">>, "GET">>)
  BY TeamPaths, MethodsAnswered
<1>7. /\ RouteAnswered(<< <<"webhooks", "incoming">>, "POST">>)
      /\ RouteAnswered(<< <<"audit-logs">>, "POST">>)
      /\ RouteAnswered(<< <<"notifications">>, "POST">>)
      /\ RouteAnswered(<< <<"notifications", "id">>, "PATCH">>)
      /\ RouteAnswered(<< <<"labels">>, "POST">>)
      /\ RouteAnswered(<< <<"messages", "id", "labels">>, "POST">>)
      /\ RouteAnswered(<< <<"comments", "id">>, "DELETE">>)
      /\ RouteAnswered(<< <<"auth", "login">>, "POST">>)
      /\ RouteAnswered(<< <<"auth", "register">>, "POST">>)
      /\ RouteAnswered(<< <<"auth", "me">>, "GET">>)
  BY OtherPaths, MethodsAnswered
<1>8. \A route \in Alone \cup Provider : RouteAnswered(route)
  BY <1>4, <1>5, <1>6, <1>7, ZenonT(40)
<1>9. Documented = Alone \cup GetPost \cup PatchDelete \cup Provider \cup Comments
  BY DEF Documented
<1> HIDE DEF Alone, GetPost, PatchDelete, Provider, Comments
<1> QED BY <1>1, <1>2, <1>3, <1>8, <1>9

LEMMA KindServed ==
    ASSUME NEW kind \in Kinds
    PROVE  kind.documented => kind.served
<1>1. PICK route \in Requested : kind = KindOf(route[1], route[2])
  BY DEF Kinds
<1>2. route = <<route[1], route[2]>>
  BY <1>1 DEF Requested, Documented
<1>3. <<route[1], route[2]>> \in Documented => Dispatch(route[1], route[2]) # "none"
  BY <1>2, DocumentedAnswered DEF RouteAnswered
<1> QED BY <1>1, <1>3 DEF KindOf
----------------------------------------------------------------------------
USE PoolAssumption

GateRecord ==
    [pc : {"idle", "role", "audit", "handle"}, served : BOOLEAN, documented : BOOLEAN,
     key : Keys \cup {NoKey}, tenant : Tenants \cup {NoTenant}, entitled : BOOLEAN, allowed : BOOLEAN]

\* What a request carries: its own tenant, a permission only with the role, and
\* a handler where its route is documented.
Carries(g) ==
    /\ g.documented => g.served
    /\ g.pc # "idle" => g.key \in Keys /\ g.tenant \in Tenants
    /\ g.key \in Users => g.tenant = TenantOf[g.key]
    /\ g.allowed => g.entitled
    /\ g.pc = "handle" => g.entitled

Carried == gate \in [Calls -> GateRecord] /\ \A r \in Calls : Carries(gate[r])

LEMMA NoRequestIs == NoRequest \in GateRecord /\ Carries(NoRequest)
<1>1. NoRequest \in GateRecord
  BY DEF NoRequest, GateRecord
<1>2. NoRequest.key \notin Users
  BY KeyAssumption, RequestAssumption DEF NoRequest
<1> QED BY <1>1, <1>2 DEF Carries, NoRequest

LEMMA GateMoves ==
    ASSUME Carried, NEW r \in Calls, NEW x \in GateRecord, Carries(x), gate' = [gate EXCEPT ![r] = x]
    PROVE  Carried'
<1>1. gate' \in [Calls -> GateRecord] /\ gate'[r] = x /\ \A q \in Calls \ {r} : gate'[q] = gate[q]
  BY DEF Carried
<1>2. \A q \in Calls : Carries(gate'[q])
  BY <1>1 DEF Carried
<1> QED BY <1>1, <1>2 DEF Carried, Carries

\* A record of a request, with its Boolean fields.
LEMMA GateMade ==
    ASSUME NEW pc \in {"idle", "role", "audit", "handle"}, NEW s \in BOOLEAN, NEW d \in BOOLEAN,
           NEW k \in Keys \cup {NoKey}, NEW t \in Tenants \cup {NoTenant}, NEW e \in BOOLEAN, NEW a \in BOOLEAN
    PROVE  [pc |-> pc, served |-> s, documented |-> d, key |-> k, tenant |-> t, entitled |-> e,
            allowed |-> a] \in GateRecord
  BY Zenon DEF GateRecord

\* A caller is a user with the tenant of his token, or an address with any tenant
\* where the handler needs no role.
LEMMA CallerIs ==
    ASSUME NEW kind \in Kinds, NEW caller \in Callers(kind)
    PROVE  /\ caller[1] \in Keys /\ caller[2] \in Tenants
           /\ caller[1] \in Users => caller[2] = TenantOf[caller[1]]
           /\ MayUse("viewer", kind.role) => kind.role = "" \/ MayUse(RoleOf[caller[1]], kind.role)
           /\ kind.served \in BOOLEAN /\ kind.documented \in BOOLEAN
           /\ kind.documented => kind.served
<1>1. PICK path, method : kind = KindOf(path, method)
  BY DEF Kinds
<1>2. /\ kind.token = requiresAuth(path) /\ kind.role = RequiredRole(path, method)
      /\ kind.served \in BOOLEAN /\ kind.documented \in BOOLEAN
  BY <1>1 DEF KindOf
<1> DEFINE Identity == /\ caller[1] \in Keys /\ caller[2] \in Tenants
                       /\ caller[1] \in Users => caller[2] = TenantOf[caller[1]]
                       /\ MayUse("viewer", kind.role)
                            => kind.role = "" \/ MayUse(RoleOf[caller[1]], kind.role)
<1>3. ASSUME kind.token PROVE Identity
  <2>1. PICK u \in Users : caller = <<u, TenantOf[u]>>
    BY <1>3 DEF Callers
  <2>2. u \in Keys /\ TenantOf[u] \in Tenants
        /\ RoleOf[u] \in {"owner", "admin", "manager", "member", "viewer"}
    BY RequestAssumption
  <2> QED BY <1>2, <2>1, <2>2, ViewerRanksLowest
<1>4. ASSUME ~ kind.token PROVE Identity
  <2>1. caller[1] \in Addresses /\ caller[2] \in Tenants
    BY <1>4 DEF Callers
  <2>2. caller[1] \in Keys /\ caller[1] \notin Users
    BY <2>1, RequestAssumption
  <2>3. kind.role = ""
    BY <1>2, <1>4, PublicNeedsNoRole
  <2> QED BY <1>2, <2>1, <2>2, <2>3
<1>5. kind.documented => kind.served
  BY KindServed, Zenon
<1> QED BY <1>2, <1>3, <1>4, <1>5
----------------------------------------------------------------------------
LEMMA PassCarries ==
    ASSUME Carried, NEW r \in Calls, NEW kind \in Kinds, NEW caller \in Callers(kind), NEW csrf,
           Pass(r, kind, caller, csrf)
    PROVE  Carried'
<1>1. /\ caller[1] \in Keys /\ caller[2] \in Tenants
      /\ caller[1] \in Users => caller[2] = TenantOf[caller[1]]
      /\ MayUse("viewer", kind.role) => kind.role = "" \/ MayUse(RoleOf[caller[1]], kind.role)
      /\ kind.served \in BOOLEAN /\ kind.documented \in BOOLEAN
      /\ kind.documented => kind.served
  BY CallerIs
<1>2. PICK e \in BOOLEAN : e = (kind.role = "" \/ MayUse(RoleOf[caller[1]], kind.role))
  OBVIOUS
<1>3. PICK a \in BOOLEAN : a = MayUse("viewer", kind.role)
  BY DEF MayUse
<1>4. PICK pc \in {"role", "handle"} : pc = IF kind.role = "" THEN "handle" ELSE "role"
  OBVIOUS
<1>5. pc = "handle" => e
  BY <1>2, <1>4
<1>6. a => e
  BY <1>1, <1>2, <1>3, Zenon
<1> DEFINE x == [pc |-> pc, served |-> kind.served, documented |-> kind.documented,
                 key |-> caller[1], tenant |-> caller[2], entitled |-> e, allowed |-> a]
<1>7. x \in GateRecord
  <2>1. /\ pc \in {"idle", "role", "audit", "handle"} /\ caller[1] \in Keys \cup {NoKey}
        /\ caller[2] \in Tenants \cup {NoTenant}
    BY <1>1
  <2>2. PICK s \in BOOLEAN, d \in BOOLEAN, k \in Keys \cup {NoKey}, t \in Tenants \cup {NoTenant} :
           s = kind.served /\ d = kind.documented /\ k = caller[1] /\ t = caller[2]
    BY <1>1, <2>1
  <2>3. [pc |-> pc, served |-> s, documented |-> d, key |-> k, tenant |-> t, entitled |-> e,
         allowed |-> a] \in GateRecord
    BY <2>1, GateMade
  <2> QED BY <2>2, <2>3
<1>8. /\ x.pc = pc /\ x.key = caller[1] /\ x.tenant = caller[2] /\ x.entitled = e /\ x.allowed = a
      /\ x.served = kind.served /\ x.documented = kind.documented
  OBVIOUS
<1>9. gate' = gate \/ gate' = [gate EXCEPT ![r] = x]
  BY <1>2, <1>3, <1>4, Zenon DEF Pass
<1> HIDE DEF x
<1>10. Carries(x)
  BY <1>1, <1>5, <1>6, <1>8 DEF Carries
<1>11. CASE gate' = gate
  BY <1>11 DEF Carried, Carries
<1> QED BY <1>7, <1>9, <1>10, <1>11, GateMoves

LEMMA AdvanceCarries ==
    ASSUME Carried, NEW r \in Calls, Advance(r)
    PROVE  Carried'
<1>0. gate[r] \in GateRecord /\ Carries(gate[r]) /\ gate \in [Calls -> GateRecord]
  BY DEF Carried
<1>1. ASSUME NEW pc \in {"audit", "handle"}, gate[r].pc # "idle", pc = "handle" => gate[r].entitled,
             gate' = [gate EXCEPT ![r].pc = pc]
      PROVE  Carried'
  <2> DEFINE x == [gate[r] EXCEPT !.pc = pc]
  <2>1. x \in GateRecord
    BY <1>0 DEF GateRecord
  <2>2. /\ x.pc = pc /\ x.key = gate[r].key /\ x.tenant = gate[r].tenant
        /\ x.entitled = gate[r].entitled /\ x.allowed = gate[r].allowed
        /\ x.served = gate[r].served /\ x.documented = gate[r].documented
    BY <1>0 DEF GateRecord
  <2>3. gate' = [gate EXCEPT ![r] = x]
    BY <1>0, <1>1
  <2> HIDE DEF x
  <2>4. Carries(x)
    BY <1>0, <1>1, <2>2 DEF Carries
  <2> QED BY <2>1, <2>3, <2>4, GateMoves
<1>2. CASE gate[r].pc = "role"
  BY <1>1, <1>2 DEF Advance
<1>3. CASE gate[r].pc = "audit" /\ gate[r].allowed /\ gate[r].served
  <2>1. gate' = [gate EXCEPT ![r].pc = "handle"]
    BY <1>3 DEF Advance
  <2>2. gate[r].entitled
    BY <1>0, <1>3 DEF Carries
  <2> QED BY <1>1, <1>3, <2>1, <2>2
<1>4. CASE gate[r].pc # "role" /\ ~ (gate[r].pc = "audit" /\ gate[r].allowed /\ gate[r].served)
  <2>1. gate' = [gate EXCEPT ![r] = NoRequest]
    BY <1>4 DEF Advance, Answer
  <2> QED BY <2>1, NoRequestIs, GateMoves
<1> QED BY <1>2, <1>3, <1>4

LEMMA RunCarries ==
    ASSUME Carried, NEW r \in Calls, Run(r)
    PROVE  Carried'
<1>0. gate[r] \in GateRecord /\ Carries(gate[r]) /\ gate \in [Calls -> GateRecord]
  BY DEF Carried
<1>1. CASE gate' = [gate EXCEPT ![r].allowed = gate[r].entitled]
  <2> DEFINE x == [gate[r] EXCEPT !.allowed = gate[r].entitled]
  <2>1. x \in GateRecord
    <3>1. PICK e \in BOOLEAN : e = gate[r].entitled
      BY <1>0 DEF GateRecord
    <3>2. [gate[r] EXCEPT !.allowed = e] \in GateRecord
      BY <1>0 DEF GateRecord
    <3> QED BY <3>1, <3>2
  <2>2. /\ x.pc = gate[r].pc /\ x.key = gate[r].key /\ x.tenant = gate[r].tenant
        /\ x.entitled = gate[r].entitled /\ x.allowed = gate[r].entitled
        /\ x.served = gate[r].served /\ x.documented = gate[r].documented
    BY <1>0 DEF GateRecord
  <2>3. gate' = [gate EXCEPT ![r] = x]
    BY <1>0, <1>1
  <2> HIDE DEF x
  <2>4. Carries(x)
    BY <1>0, <2>2 DEF Carries
  <2> QED BY <2>1, <2>3, <2>4, GateMoves
<1>2. CASE gate' = gate
  BY <1>2 DEF Carried, Carries
<1> QED BY <1>1, <1>2 DEF Run

LEMMA CarriedStep == Carried /\ [Next]_vars => Carried'
<1> SUFFICES ASSUME Carried, [Next]_vars PROVE Carried'
  OBVIOUS
<1>1. CASE gate' = gate
  BY <1>1 DEF Carried, Carries
<1>2. ASSUME NEW r \in Calls, NEW kind \in Kinds, NEW csrf \in BOOLEAN, Arrive(r, kind, csrf) PROVE Carried'
  BY <1>1, <1>2, PassCarries DEF Arrive
<1>3. ASSUME NEW r \in Calls, ConnectFails(r) \/ Return(r) PROVE Carried'
  BY <1>3, AdvanceCarries DEF ConnectFails, Return
<1>4. ASSUME NEW r \in Calls, Run(r) PROVE Carried'
  BY <1>4, RunCarries
<1> QED BY <1>1, <1>2, <1>3, <1>4 DEF Next, Connect, Serve, SetUp, vars

LEMMA CarriedHolds == Spec => []Carried
<1>1. Init => Carried
  BY NoRequestIs DEF Init, Carried
<1> QED BY <1>1, CarriedStep, PTL DEF Spec
----------------------------------------------------------------------------
\* The middleware uses the limiter as Allow lets it: every step of the composition
\* is a step of the limiter or leaves it alone.
THEOREM UsesLimiter == Spec => LimiterSpec
<1>1. Init => LimiterInit
  BY DEF Init
<1>2. ASSUME [Next]_vars PROVE [LimiterNext]_limiterVars
  <2>1. ASSUME NEW r \in Calls, NEW kind \in Kinds, NEW csrf \in BOOLEAN, Arrive(r, kind, csrf)
        PROVE  LimiterNext
    <3>1. PICK caller \in Callers(kind) : Pass(r, kind, caller, csrf) \/ Deny(caller[1])
      BY <2>1 DEF Arrive
    <3>2. caller[1] \in Keys
      BY CallerIs
    <3>3. AllowFirst(caller[1]) \/ AllowCounted(caller[1]) \/ Deny(caller[1])
      BY <3>1 DEF Pass
    <3> QED BY <3>2, <3>3 DEF LimiterNext
  <2>2. ASSUME NEW r \in Calls, Connect(r) \/ ConnectFails(r) \/ Serve(r) PROVE UNCHANGED limiterVars
    BY <2>2 DEF Connect, ConnectFails, Serve, SetUp, Run, Return
  <2>3. CASE Tick
    BY <2>3 DEF LimiterNext
  <2>4. CASE UNCHANGED vars
    BY <2>4 DEF vars
  <2> QED BY <1>2, <2>1, <2>2, <2>3, <2>4 DEF Next
<1> QED BY <1>1, <1>2, PTL DEF Spec, LimiterSpec

\* Whoever has been let through asks the pool for a connection for the tenant the
\* request carries: every step is a step of WithTenantConn or leaves it alone.
THEOREM UsesPool == Spec => PoolSpec
<1>1. Init => PoolInit
  BY DEF Init
<1>2. ASSUME Carried, [Next]_vars PROVE [PoolNext]_poolVars
  <2>1. ASSUME NEW r \in Calls, Connect(r) PROVE PoolNext
    <3>1. gate[r].tenant \in Tenants
      BY <1>2, <2>1 DEF Carried, Carries, Connect
    <3> QED BY <2>1, <3>1 DEF Connect, PoolNext
  <2>2. ASSUME NEW r \in Calls, Serve(r) PROVE PoolNext
    BY <2>2 DEF Serve, SetUp, Run, Return, PoolNext
  <2>3. ASSUME NEW r \in Calls, ConnectFails(r) \/ \E kind \in Kinds, csrf \in BOOLEAN : Arrive(r, kind, csrf)
        PROVE  UNCHANGED poolVars
    BY <2>3 DEF ConnectFails, Arrive
  <2>4. CASE UNCHANGED vars
    BY <2>4 DEF vars
  <2> QED BY <1>2, <2>1, <2>2, <2>3, <2>4 DEF Next
<1> QED BY <1>1, <1>2, CarriedHolds, PTL DEF Spec, PoolSpec
----------------------------------------------------------------------------
LEMMA PoolInvHolds == PoolSpec => []PoolInv
  BY PoolStart, PoolStep, PTL DEF PoolSpec

\* The types of the limiter, the pool and the requests.
THEOREM RequestsTyped == Spec => []TypeOK
<1>1. LimiterTypeOK /\ PoolInv /\ Carried => TypeOK
  BY DEF PoolInv, Carried, GateRecord, TypeOK
<1> QED BY <1>1, UsesLimiter, TypeCorrect, UsesPool, PoolInvHolds, CarriedHolds, PTL

\* Authorize and the token middleware: a handler runs only for a caller whose role
\* ranks high enough, on the tenant of that user's token, whichever connections,
\* SETs and RESETs fail on the way.
THEOREM HandlersRunForRole == Spec => []HandledForRole
<1>1. Carried => HandledForRole
  BY DEF Carried, Carries, HandledForRole
<1> QED BY <1>1, CarriedHolds, PTL

\* README.md's routes and the switch of ServeHTTP: whatever its tables of prefixes,
\* methods and handlers do with the other paths, a request to a documented route is
\* never one that the router answers with a 404.
THEOREM DocumentedAreServed == Spec => []DocumentedServed
<1>1. Carried => DocumentedServed
  BY DEF Carried, Carries, DocumentedServed
<1> QED BY <1>1, CarriedHolds, PTL

\* No statement of a request sees the rows of another tenant: what WithTenantConn
\* promises holds behind the middleware too.
THEOREM TenantIsolation == Spec => []Isolation
  BY UsesPool, PoolIsolation, PTL

\* The middleware admits at most twice Limit requests of a key within any Window + 1
\* consecutive instants, and refuses one only after Limit of its requests.
THEOREM RequestsLimited == Spec => [](TwiceLimit /\ DenyJustified)
  BY UsesLimiter, AtMostTwiceLimit, RefusalsJustified, PTL
-----------------------------------------------------------------------------
\* A step of r that takes a gate or a step of the call off, or that leaves the
\* request alone, and no one else's request or call is moved by it.
OwnStep(r) ==
    /\ \A q \in Calls \ {r} : gate'[q] = gate[q] /\ call'[q] = call[q]
    /\ \/ gate[r].pc = "idle"
       \/ GatesLeft(r)' = GatesLeft(r) /\ StepsLeft(r)' < StepsLeft(r)
       \/ GatesLeft(r)' < GatesLeft(r) /\ StepsLeft(r)' <= StepsLeft(r) + 3

LEMMA LeftTyped ==
    ASSUME Carried, PoolTypeOK, NEW r \in Calls
    PROVE  GatesLeft(r) \in 0 .. 3 /\ StepsLeft(r) \in 0 .. 3
<1>1. gate[r].pc \in {"idle", "role", "audit", "handle"} /\ call[r].pc \in {"idle", "set", "run", "release"}
  BY DEF Carried, GateRecord, PoolTypeOK
<1> QED BY <1>1 DEF GatesLeft, StepsLeft

\* Advance: the audit row after the role, the handler after the audit row, and the
\* answer after the handler or a refusal.
LEMMA AdvanceLeaves ==
    ASSUME Carried, NEW r \in Calls, Advance(r), gate[r].pc # "idle"
    PROVE  GatesLeft(r)' < GatesLeft(r)
<1>0. gate \in [Calls -> GateRecord] /\ gate[r].pc \in {"role", "audit", "handle"}
  BY DEF Carried, GateRecord
<1>1. CASE gate[r].pc = "role"
  <2>1. gate'[r].pc = "audit"
    BY <1>0, <1>1 DEF Advance, GateRecord
  <2> QED BY <1>1, <2>1 DEF GatesLeft
<1>2. CASE gate[r].pc = "audit" /\ gate[r].allowed /\ gate[r].served
  <2>1. gate'[r].pc = "handle"
    BY <1>0, <1>2 DEF Advance, GateRecord
  <2> QED BY <1>2, <2>1 DEF GatesLeft
<1>3. CASE gate[r].pc # "role" /\ ~ (gate[r].pc = "audit" /\ gate[r].allowed /\ gate[r].served)
  <2>1. gate'[r].pc = "idle"
    BY <1>0, <1>3 DEF Advance, Answer, NoRequest
  <2> QED BY <1>0, <1>3, <2>1 DEF GatesLeft
<1> QED BY <1>1, <1>2, <1>3

LEMMA AdvanceAlone ==
    ASSUME Carried, NEW r \in Calls, Advance(r)
    PROVE  \A q \in Calls \ {r} : gate'[q] = gate[q]
  BY DEF Carried, Advance, Answer

\* Each step of WithTenantConn is the last of its kind for this connection.
LEMMA CallSteps ==
    ASSUME PoolTypeOK, NEW r \in Calls
    PROVE  /\ (\E t \in Tenants, c \in Conns : Acquire(r, t, c)) \/ SetTenant(r) \/ SetFails(r) \/ Reset(r)
                => /\ StepsLeft(r)' < StepsLeft(r)
                   /\ \A q \in Calls \ {r} : call'[q] = call[q]
           /\ Release(r) => /\ StepsLeft(r)' = 3 /\ StepsLeft(r) = 0
                            /\ \A q \in Calls \ {r} : call'[q] = call[q]
<1>1. ASSUME NEW t \in Tenants, NEW c \in Conns, Acquire(r, t, c)
      PROVE  call[r].pc = "idle" /\ call'[r].pc = "set" /\ \A q \in Calls \ {r} : call'[q] = call[q]
  BY <1>1 DEF Acquire, PoolTypeOK
<1>2. ASSUME SetTenant(r) \/ SetFails(r)
      PROVE  /\ call[r].pc = "set" /\ call'[r].pc \in {"run", "release"}
             /\ \A q \in Calls \ {r} : call'[q] = call[q]
  BY <1>2 DEF SetTenant, SetFails, PoolTypeOK
<1>3. ASSUME Reset(r)
      PROVE  call[r].pc = "run" /\ call'[r].pc = "release" /\ \A q \in Calls \ {r} : call'[q] = call[q]
  BY <1>3 DEF Reset, PoolTypeOK
<1>4. ASSUME Release(r)
      PROVE  call[r].pc = "release" /\ call'[r].pc = "idle" /\ \A q \in Calls \ {r} : call'[q] = call[q]
  BY <1>4 DEF Release, Outside, PoolTypeOK
<1> QED BY <1>1, <1>2, <1>3, <1>4 DEF StepsLeft

\* Nothing but its gate and its call says what is left of a request.
LEMMA OwnStepAdvances ==
    ASSUME Carried, PoolTypeOK, Carried', PoolTypeOK', NEW r \in Calls, OwnStep(r), NEW q \in Calls,
           gate[q].pc # "idle"
    PROVE  UNCHANGED <<gate[q], call[q]>> \/ Remaining(q)' < Remaining(q)
<1>1. CASE q # r
  BY <1>1 DEF OwnStep
<1>2. CASE q = r
  <2>1. GatesLeft(r) \in 0 .. 3 /\ StepsLeft(r) \in 0 .. 3
    BY LeftTyped
  <2>2. (GatesLeft(r) \in 0 .. 3)' /\ (StepsLeft(r) \in 0 .. 3)'
    BY <1>2, LeftTyped, PTL
  <2> QED BY <1>2, <2>1, <2>2 DEF OwnStep, Remaining
<1> QED BY <1>1, <1>2

LEMMA StepsAreOwn ==
    ASSUME Carried, PoolTypeOK, [Next]_vars
    PROVE  \/ \A q \in Calls : gate[q].pc # "idle" => UNCHANGED <<gate[q], call[q]>>
           \/ \E r \in Calls : OwnStep(r)
<1>1. ASSUME NEW r \in Calls, NEW kind \in Kinds, NEW csrf \in BOOLEAN, Arrive(r, kind, csrf) PROVE OwnStep(r)
  <2>1. gate[r].pc = "idle" /\ UNCHANGED call
    BY <1>1 DEF Arrive, poolVars
  <2>2. \A q \in Calls \ {r} : gate'[q] = gate[q]
    <3>1. PICK caller \in Callers(kind) : Pass(r, kind, caller, csrf) \/ UNCHANGED gate
      BY <1>1 DEF Arrive
    <3>2. UNCHANGED gate \/ \E x : gate' = [gate EXCEPT ![r] = x]
      BY <3>1, Zenon DEF Pass
    <3> QED BY <3>2 DEF Carried
  <2> QED BY <2>1, <2>2 DEF OwnStep
<1>2. ASSUME NEW r \in Calls, Connect(r) \/ SetUp(r) PROVE OwnStep(r)
  <2>1. UNCHANGED gate
    BY <1>2 DEF Connect, SetUp
  <2>2. (\E t \in Tenants, c \in Conns : Acquire(r, t, c)) \/ SetTenant(r) \/ SetFails(r)
    <3>1. CASE Connect(r)
      <4>1. gate[r].tenant \in Tenants
        BY <3>1 DEF Carried, Carries, Connect
      <4> QED BY <3>1, <4>1 DEF Connect
    <3> QED BY <1>2, <3>1 DEF SetUp
  <2>3. StepsLeft(r)' < StepsLeft(r) /\ \A q \in Calls \ {r} : call'[q] = call[q]
    BY <2>2, CallSteps
  <2> QED BY <2>1, <2>3 DEF OwnStep, GatesLeft
<1>3. ASSUME NEW r \in Calls, Run(r) PROVE OwnStep(r)
  <2>1. StepsLeft(r)' < StepsLeft(r) /\ \A q \in Calls \ {r} : call'[q] = call[q]
    BY <1>3, CallSteps DEF Run
  <2>2. gate'[r].pc = gate[r].pc /\ \A q \in Calls \ {r} : gate'[q] = gate[q]
    BY <1>3 DEF Run, Carried, GateRecord
  <2> QED BY <2>1, <2>2 DEF OwnStep, GatesLeft
<1>4. ASSUME NEW r \in Calls, ConnectFails(r) PROVE OwnStep(r)
  <2>1. GatesLeft(r)' < GatesLeft(r) /\ \A q \in Calls \ {r} : gate'[q] = gate[q]
    BY <1>4, AdvanceLeaves, AdvanceAlone DEF ConnectFails
  <2>2. UNCHANGED call /\ StepsLeft(r)' = StepsLeft(r)
    BY <1>4 DEF ConnectFails, poolVars, StepsLeft
  <2>3. StepsLeft(r)' <= StepsLeft(r) + 3
    BY <2>2, LeftTyped
  <2> QED BY <2>1, <2>2, <2>3 DEF OwnStep
<1>5. ASSUME NEW r \in Calls, Return(r) PROVE OwnStep(r)
  <2>1. StepsLeft(r)' = 3 /\ StepsLeft(r) = 0 /\ \A q \in Calls \ {r} : call'[q] = call[q]
    BY <1>5, CallSteps DEF Return
  <2>2. gate[r].pc # "idle" => GatesLeft(r)' < GatesLeft(r)
    BY <1>5, AdvanceLeaves DEF Return
  <2>3. \A q \in Calls \ {r} : gate'[q] = gate[q]
    BY <1>5, AdvanceAlone DEF Return
  <2> QED BY <2>1, <2>2, <2>3 DEF OwnStep
<1>6. CASE UNCHANGED <<poolVars, gate>>
  BY <1>6 DEF poolVars
<1> QED BY <1>1, <1>2, <1>3, <1>4, <1>5, <1>6 DEF Next, Serve, vars

\* ServeHTTP and WithTenantConn: every step that touches a request that was let
\* through brings its answer nearer, whatever fails and however many others run;
\* after at most twelve steps of its own it is answered.
THEOREM RequestsAdvance == Spec => Advances
<1>1. (Carried /\ PoolTypeOK) /\ (Carried /\ PoolTypeOK)' /\ [Next]_vars
        => [\A r \in Calls : gate[r].pc # "idle" =>
               UNCHANGED <<gate[r], call[r]>> \/ Remaining(r)' < Remaining(r)]_vars
  <2> SUFFICES ASSUME Carried, PoolTypeOK, Carried', PoolTypeOK', [Next]_vars, NEW r \in Calls, gate[r].pc # "idle"
               PROVE  UNCHANGED <<gate[r], call[r]>> \/ Remaining(r)' < Remaining(r)
    OBVIOUS
  <2>1. CASE \E q \in Calls : OwnStep(q)
    BY <2>1, OwnStepAdvances
  <2> QED BY <2>1, StepsAreOwn
<1>2. Spec => [](Carried /\ PoolTypeOK)
  BY CarriedHolds, UsesPool, PoolInvHolds, PTL DEF PoolInv
<1> QED BY <1>1, <1>2, PTL DEF Spec, Advances
==============================================================================
