------------------------- MODULE RealtimeHubProofs -------------------------
(***************************************************************************)
(* The hub's state is consistent for every set of connections, tenants,    *)
(* users and broadcasting goroutines, and every channel capacity, and it   *)
(* implements PresencePromise.                                             *)
(***************************************************************************)
EXTENDS RealtimeHub, FiniteSetTheorems, TLAPS

Cast == [pc : {"idle", "range", "send"}, ref : Tenants \cup {NoTenant},
         todo : SUBSET Clients, target : Clients \cup {NoClient}]

USE ClientAssumption, TenantAssumption, ProducerAssumption, CapAssumption

LEMMA InitTypeOK == Init => TypeOK
  BY DEF Init, TypeOK, Idle

\* Announcing presence keeps the buffers and the histories well typed.
LEMMA AnnounceType ==
    ASSUME TypeOK, NEW to \in SUBSET Clients, NEW users \in SUBSET Users, NEW t \in Tenants,
           Announce(to, users, t)
    PROVE  /\ buffered' \in [Clients -> 0 .. Cap]
           /\ view' \in [Clients -> SUBSET Users]
           /\ missed' \subseteq Clients
<1> DEFINE fits == {c \in OfTenant(to, t) : buffered[c] < Cap}
<1>1. /\ buffered' = [c \in Clients |-> IF c \in fits THEN buffered[c] + 1 ELSE buffered[c]]
      /\ view' = [c \in Clients |-> IF c \in fits THEN users ELSE view[c]]
      /\ missed' = (missed \ fits) \cup (OfTenant(to, t) \ fits)
  BY DEF Announce
<1>2. \A c \in Clients : c \in fits => buffered[c] < Cap
  OBVIOUS
<1>3. OfTenant(to, t) \subseteq Clients
  BY DEF OfTenant
<1> HIDE DEF fits
<1>4. buffered' \in [Clients -> 0 .. Cap]
  BY <1>1, <1>2 DEF TypeOK
<1>5. view' \in [Clients -> SUBSET Users]
  BY <1>1 DEF TypeOK
<1> QED BY <1>1, <1>3, <1>4, <1>5 DEF TypeOK

LEMMA UnregisterType ==
    ASSUME TypeOK, NEW c \in Clients, Unregister(c)
    PROVE  /\ clients' \subseteq Clients /\ closed' \subseteq Clients
           /\ presence' \in [Tenants -> [Users -> Nat]]
           /\ bc' \in [Procs -> Cast]
           /\ buffered' \in [Clients -> 0 .. Cap]
           /\ view' \in [Clients -> SUBSET Users]
           /\ missed' \subseteq Clients
<1> DEFINE t == TenantOf[c]
           p == [presence EXCEPT ![t][UserOf[c]] = IF @ <= 1 THEN 0 ELSE @ - 1]
<1>1. CASE c \notin clients
  BY <1>1 DEF Unregister, stillRegistered, TypeOK, Cast
<1>2. CASE c \in clients
  <2>1. /\ deleteClient(c)
        /\ closed' = closed \cup {c}
        /\ presence' = p
        /\ Announce(clients \ {c}, Online(p, t), t)
    BY <1>2 DEF Unregister, stillRegistered, closeSend, broadcastPresenceLocked
  <2>2. t \in Tenants /\ p \in [Tenants -> [Users -> Nat]]
    BY DEF TypeOK
  <2> HIDE DEF p
  <2>3. Online(p, t) \in SUBSET Users
    BY DEF Online
  <2>4. /\ buffered' \in [Clients -> 0 .. Cap]
        /\ view' \in [Clients -> SUBSET Users]
        /\ missed' \subseteq Clients
    BY <2>1, <2>2, <2>3, AnnounceType DEF TypeOK
  <2>5. bc' \in [Procs -> Cast]
    <3> DEFINE r(b) == IF OfTenant(clients, t) \subseteq {c} THEN NoTenant ELSE bc[b].ref
               n(b) == [bc[b] EXCEPT !.todo = @ \ {c}, !.ref = r(b)]
    <3>1. bc' = [b \in Procs |-> IF bc[b].ref # t THEN bc[b] ELSE n(b)]
      BY <2>1 DEF deleteClient
    <3>2. ASSUME NEW b \in Procs PROVE bc[b] \in Cast /\ n(b) \in Cast
      <4>1. bc[b] \in Cast
        BY DEF TypeOK, Cast
      <4>2. r(b) \in Tenants \cup {NoTenant}
        BY <4>1 DEF Cast
      <4> HIDE DEF r
      <4> QED BY <4>1, <4>2 DEF Cast
    <3> HIDE DEF n
    <3> QED BY <3>1, <3>2
  <2> QED BY <2>1, <2>2, <2>4, <2>5 DEF TypeOK, deleteClient
<1> QED BY <1>1, <1>2

LEMMA NextTypeOK == TypeOK /\ [Next]_vars => TypeOK'
<1> SUFFICES ASSUME TypeOK, [Next]_vars PROVE TypeOK'
  OBVIOUS
<1>0. bc \in [Procs -> Cast]
  BY DEF TypeOK, Cast
<1>1. ASSUME NEW c \in Clients, Register(c) PROVE TypeOK'
  <2> DEFINE t == TenantOf[c]
             p == [presence EXCEPT ![t][UserOf[c]] = @ + 1]
  <2>1. /\ clients' = clients \cup {c} /\ presence' = p
        /\ Announce(clients \cup {c}, Online(p, t), t)
        /\ reader' = [reader EXCEPT ![c] = "read"]
        /\ writer' = [writer EXCEPT ![c] = "select"]
        /\ UNCHANGED <<closed, shut>>
    BY <1>1 DEF Register, startPumps, broadcastPresenceLocked
  <2>2. PICK B \in SUBSET {b \in Procs : bc[b].ref = t} :
           bc' = [b \in Procs |-> IF b \in B THEN [bc[b] EXCEPT !.todo = @ \cup {c}] ELSE bc[b]]
    BY <1>1 DEF Register, startPumps
  <2>3. t \in Tenants /\ p \in [Tenants -> [Users -> Nat]]
    BY DEF TypeOK
  <2> HIDE DEF p
  <2>4. /\ buffered' \in [Clients -> 0 .. Cap]
        /\ view' \in [Clients -> SUBSET Users]
        /\ missed' \subseteq Clients
    BY <2>1, <2>3, AnnounceType DEF TypeOK, Online
  <2>5. bc' \in [Procs -> Cast]
    <3>1. ASSUME NEW b \in Procs PROVE [bc[b] EXCEPT !.todo = @ \cup {c}] \in Cast
      BY <1>0 DEF Cast
    <3> QED BY <1>0, <2>2, <3>1
  <2>6. /\ reader' \in [Clients -> {"new", "read", "cast", "exit", "done"}]
        /\ writer' \in [Clients -> {"off", "select", "done"}]
    BY <2>1 DEF TypeOK
  <2> QED BY <2>1, <2>3, <2>4, <2>5, <2>6 DEF TypeOK, Cast
<1>2. ASSUME NEW b \in Procs, NEW t \in Tenants, BroadcastStart(b, t) PROVE bc' \in [Procs -> Cast]
  BY <1>0, <1>2 DEF BroadcastStart, OfTenant, TypeOK, Cast
<1>3. ASSUME NEW c \in Clients, ReaderTyping(c) PROVE TypeOK'
  BY <1>2, <1>3 DEF ReaderTyping, TypeOK, Cast, Procs
<1>4. ASSUME NEW c \in Clients, ReaderExit(c) PROVE TypeOK'
  BY <1>4, UnregisterType DEF ReaderExit, TypeOK, Cast
<1>5. ASSUME NEW c \in Clients, WriterDeliver(c) PROVE TypeOK'
  BY <1>5 DEF WriterDeliver, TypeOK
<1>6. ASSUME NEW c \in Clients, WriterExit(c) PROVE TypeOK'
  BY <1>6, UnregisterType DEF WriterExit, TypeOK, Cast
<1>7. ASSUME NEW b \in Producers, NEW t \in Tenants, Produce(b, t) PROVE TypeOK'
  BY <1>2, <1>7 DEF Produce, TypeOK, Cast, Procs
<1>8. ASSUME NEW b \in Procs, BroadcastPick(b) PROVE TypeOK'
  <2>1. PICK c \in bc[b].todo :
           bc' = [bc EXCEPT ![b].pc = "send", ![b].todo = @ \ {c}, ![b].target = c]
    BY <1>8 DEF BroadcastPick
  <2>2. c \in Clients /\ [bc[b] EXCEPT !.pc = "send", !.todo = @ \ {c}, !.target = c] \in Cast
    BY <1>0 DEF Cast
  <2>3. bc' \in [Procs -> Cast]
    BY <1>0, <2>1, <2>2
  <2> QED BY <1>8, <2>3 DEF BroadcastPick, TypeOK, Cast
<1>9. ASSUME NEW b \in Procs, BroadcastSend(b) PROVE TypeOK'
  <2>1. bc' = [bc EXCEPT ![b].pc = "range", ![b].target = NoClient]
    BY <1>9 DEF BroadcastSend
  <2>2. [bc[b] EXCEPT !.pc = "range", !.target = NoClient] \in Cast
    BY <1>0 DEF Cast
  <2>3. bc' \in [Procs -> Cast]
    BY <1>0, <2>1, <2>2
  <2>4. buffered' \in [Clients -> 0 .. Cap]
    <3> DEFINE c == bc[b].target
    <3>1. buffered' = [buffered EXCEPT ![c] = queueOrDrop(@)]
      BY <1>9 DEF BroadcastSend
    <3>2. CASE c \in Clients
      BY <3>1, <3>2 DEF queueOrDrop, TypeOK
    <3>3. CASE c \notin Clients
      BY <3>1, <3>3 DEF TypeOK
    <3> QED BY <3>2, <3>3
  <2> QED BY <1>9, <2>3, <2>4 DEF BroadcastSend, TypeOK, Cast
<1>10. ASSUME NEW b \in Procs, BroadcastEnd(b) PROVE TypeOK'
  <2>1. bc' \in [Procs -> Cast]
    BY <1>0, <1>10 DEF BroadcastEnd, Idle, Cast
  <2> QED BY <1>10, <2>1 DEF BroadcastEnd, TypeOK, Cast
<1>11. ASSUME NEW b \in Procs, BroadcastPanic(b) PROVE TypeOK'
  <2>1. bc' \in [Procs -> Cast]
    BY <1>0, <1>11 DEF BroadcastPanic, Idle, Cast
  <2> QED BY <1>11, <2>1 DEF BroadcastPanic, TypeOK, Cast
<1>12. CASE Crash
  BY <1>12 DEF Crash, TypeOK, Idle
<1>13. CASE UNCHANGED vars
  BY <1>13 DEF vars, TypeOK
<1> QED BY <1>1, <1>3, <1>4, <1>5, <1>6, <1>7, <1>8, <1>9, <1>10, <1>11, <1>12, <1>13 DEF Next

\* Every reachable state is well typed; in particular no Send channel is ever
\* filled beyond its capacity.
THEOREM TypeCorrect == Spec => []TypeOK
  BY InitTypeOK, NextTypeOK, PTL DEF Spec
----------------------------------------------------------------------------
\* A writer runs only after Register, and a reader that broadcasts is inside
\* its handling of a typing message.
PumpsStarted ==
    \A c \in Clients : /\ writer[c] # "off" => reader[c] # "new"
                       /\ bc[c].pc # "idle" => reader[c] = "cast"

LifecycleInv == TypeOK /\ ConnectionLifecycle /\ PumpsStarted

\* What Unregister does to the map, the channels and the broadcasts.
LEMMA UnregisterLifecycle ==
    ASSUME LifecycleInv, NEW c \in Clients, reader[c] # "new", Unregister(c)
    PROVE  /\ c \notin clients' /\ c \in closed'
           /\ \A d \in Clients \ {c} : /\ d \in clients' <=> d \in clients
                                       /\ d \in closed' <=> d \in closed
           /\ \A b \in Procs : bc'[b].pc = bc[b].pc
<1>1. \A b \in Procs : bc'[b].pc = bc[b].pc
  <2>1. CASE c \in clients
    <3> DEFINE r(b) == IF OfTenant(clients, TenantOf[c]) \subseteq {c} THEN NoTenant ELSE bc[b].ref
               n(b) == [bc[b] EXCEPT !.todo = @ \ {c}, !.ref = r(b)]
    <3>1. bc' = [b \in Procs |-> IF bc[b].ref # TenantOf[c] THEN bc[b] ELSE n(b)]
      BY <2>1 DEF Unregister, stillRegistered, deleteClient
    <3>2. ASSUME NEW b \in Procs PROVE n(b).pc = bc[b].pc
      <4>1. bc[b] \in Cast
        BY DEF LifecycleInv, TypeOK, Cast
      <4> HIDE DEF r
      <4> QED BY <4>1 DEF Cast
    <3> HIDE DEF n
    <3> QED BY <3>1, <3>2
  <2>2. CASE c \notin clients
    BY <2>2 DEF Unregister, stillRegistered
  <2> QED BY <2>1, <2>2
<1>2. /\ c \notin clients' /\ c \in closed'
      /\ \A d \in Clients \ {c} : /\ d \in clients' <=> d \in clients
                                  /\ d \in closed' <=> d \in closed
  BY DEF Unregister, stillRegistered, deleteClient, closeSend, LifecycleInv, ConnectionLifecycle
<1> QED BY <1>1, <1>2

LEMMA NextLifecycle == LifecycleInv /\ [Next]_vars => LifecycleInv'
<1> SUFFICES ASSUME LifecycleInv, [Next]_vars PROVE LifecycleInv'
  OBVIOUS
<1>0. TypeOK' /\ TypeOK /\ ConnectionLifecycle /\ PumpsStarted /\ Clients \subseteq Procs
  BY NextTypeOK DEF LifecycleInv, Procs
<1> SUFFICES ConnectionLifecycle' /\ PumpsStarted'
  BY <1>0 DEF LifecycleInv
<1> DEFINE Goal == ConnectionLifecycle' /\ PumpsStarted'
<1>1. ASSUME NEW c \in Clients, Register(c) PROVE Goal
  <2>1. /\ reader[c] = "new" /\ clients' = clients \cup {c} /\ closed' = closed
        /\ reader' = [reader EXCEPT ![c] = "read"]
        /\ writer' = [writer EXCEPT ![c] = "select"]
    BY <1>1 DEF Register, startPumps
  <2>2. \A b \in Procs : bc'[b].pc = bc[b].pc
    BY <1>0, <1>1 DEF Register, startPumps, TypeOK
  <2>3. ConnectionLifecycle'
    BY <1>0, <2>1 DEF TypeOK, ConnectionLifecycle
  <2>4. PumpsStarted'
    BY <1>0, <2>1, <2>2 DEF TypeOK, PumpsStarted
  <2> QED BY <2>3, <2>4
<1>2. ASSUME NEW c \in Clients, ReaderTyping(c) PROVE Goal
  <2>1. \A b \in Procs : b # c => bc'[b] = bc[b]
    BY <1>0, <1>2 DEF ReaderTyping, BroadcastStart, TypeOK
  <2>2. ConnectionLifecycle'
    BY <1>0, <1>2 DEF ReaderTyping, TypeOK, ConnectionLifecycle
  <2>3. PumpsStarted'
    BY <1>0, <1>2, <2>1 DEF ReaderTyping, TypeOK, PumpsStarted
  <2> QED BY <2>2, <2>3
<1>3. ASSUME NEW c \in Clients, ReaderExit(c) PROVE Goal
  <2>1. /\ reader[c] # "new" /\ reader[c] # "cast" /\ Unregister(c)
        /\ reader' = [reader EXCEPT ![c] = "done"] /\ writer' = writer
    BY <1>3 DEF ReaderExit
  <2>2. /\ c \notin clients' /\ c \in closed'
        /\ \A d \in Clients \ {c} : /\ d \in clients' <=> d \in clients
                                    /\ d \in closed' <=> d \in closed
        /\ \A b \in Procs : bc'[b].pc = bc[b].pc
    BY <2>1, UnregisterLifecycle
  <2> QED BY <1>0, <2>1, <2>2 DEF TypeOK, ConnectionLifecycle, PumpsStarted
<1>4. ASSUME NEW c \in Clients, WriterExit(c) PROVE Goal
  <2>1. /\ reader[c] # "new" /\ Unregister(c)
        /\ writer' = [writer EXCEPT ![c] = "done"] /\ reader' = reader
    BY <1>0, <1>4 DEF WriterExit, PumpsStarted
  <2>2. /\ c \notin clients' /\ c \in closed'
        /\ \A d \in Clients \ {c} : /\ d \in clients' <=> d \in clients
                                    /\ d \in closed' <=> d \in closed
        /\ \A b \in Procs : bc'[b].pc = bc[b].pc
    BY <2>1, UnregisterLifecycle
  <2> QED BY <1>0, <2>1, <2>2 DEF TypeOK, ConnectionLifecycle, PumpsStarted
<1>5. ASSUME NEW c \in Clients, WriterDeliver(c) PROVE Goal
  BY <1>0, <1>5 DEF WriterDeliver, ConnectionLifecycle, PumpsStarted
<1>6. ASSUME NEW b \in Producers, NEW t \in Tenants, Produce(b, t) PROVE Goal
  <2>1. \A d \in Clients : bc'[d] = bc[d]
    BY <1>0, <1>6 DEF Produce, BroadcastStart, TypeOK
  <2> QED BY <1>0, <1>6, <2>1 DEF Produce, ConnectionLifecycle, PumpsStarted
<1>7. ASSUME NEW b \in Procs, BroadcastPick(b) PROVE Goal
  <2>1. \A d \in Clients : bc'[d].pc # "idle" => bc[d].pc # "idle"
    BY <1>0, <1>7 DEF BroadcastPick, TypeOK
  <2> QED BY <1>0, <1>7, <2>1 DEF BroadcastPick, ConnectionLifecycle, PumpsStarted
<1>8. ASSUME NEW b \in Procs, BroadcastSend(b) PROVE Goal
  <2>1. \A d \in Clients : bc'[d].pc # "idle" => bc[d].pc # "idle"
    BY <1>0, <1>8 DEF BroadcastSend, TypeOK
  <2> QED BY <1>0, <1>8, <2>1 DEF BroadcastSend, ConnectionLifecycle, PumpsStarted
<1>9. ASSUME NEW b \in Procs, BroadcastEnd(b) \/ BroadcastPanic(b) PROVE Goal
  <2>1. /\ bc[b].pc # "idle" /\ bc' = [bc EXCEPT ![b] = Idle]
        /\ UNCHANGED <<clients, closed, writer>>
    BY <1>9 DEF BroadcastEnd, BroadcastPanic
  <2>2. CASE b \in Clients
    <3>1. reader[b] = "cast"
      BY <1>0, <2>1, <2>2 DEF PumpsStarted
    <3>2. PICK s \in {"read", "exit"} : reader' = [reader EXCEPT ![b] = s]
      BY <1>9, <2>2 DEF BroadcastEnd, BroadcastPanic
    <3> QED BY <1>0, <2>1, <3>1, <3>2 DEF TypeOK, ConnectionLifecycle, PumpsStarted, Idle
  <2>3. CASE b \notin Clients
    <3>1. reader' = reader
      BY <1>9, <2>3 DEF BroadcastEnd, BroadcastPanic
    <3> QED BY <1>0, <2>1, <2>3, <3>1 DEF TypeOK, ConnectionLifecycle, PumpsStarted
  <2> QED BY <2>2, <2>3
<1>10. CASE Crash
  BY <1>0, <1>10 DEF Crash, ConnectionLifecycle, PumpsStarted, Idle
<1>11. CASE UNCHANGED vars
  BY <1>0, <1>11 DEF vars, ConnectionLifecycle, PumpsStarted
<1> QED BY <1>1, <1>2, <1>3, <1>4, <1>5, <1>6, <1>7, <1>8, <1>9, <1>10, <1>11 DEF Next

\* A connection is registered with an open channel or unregistered with a closed
\* one, and unregistered once one of its pumps has ended.
THEOREM LifecycleSafe == Spec => []ConnectionLifecycle
<1>1. Init => LifecycleInv
  BY InitTypeOK DEF Init, LifecycleInv, ConnectionLifecycle, PumpsStarted, Idle, Procs
<1>2. LifecycleInv => ConnectionLifecycle
  BY DEF LifecycleInv
<1> QED BY <1>1, <1>2, NextLifecycle, PTL DEF Spec
----------------------------------------------------------------------------
\* Presence counts.
HubInv == LifecycleInv /\ PresenceExact /\ PresenceViewFresh

\* A count that is positive is a user online, so the users announced by
\* Register and Unregister are those of the new counts.
LEMMA AnnounceFresh ==
    ASSUME TypeOK, PresenceViewFresh, NEW t \in Tenants, NEW to \in SUBSET Clients,
           NEW p \in [Tenants -> [Users -> Nat]],
           \A s \in Tenants \ {t} : p[s] = presence[s],
           \A d \in to : TenantOf[d] # t => d \in clients,
           clients' = to, presence' = p, broadcastPresenceLocked(t, to, p)
    PROVE  PresenceViewFresh'
<1> DEFINE fits == {d \in OfTenant(to, t) : buffered[d] < Cap}
<1>1. /\ view' = [d \in Clients |-> IF d \in fits THEN Online(p, t) ELSE view[d]]
      /\ missed' = (missed \ fits) \cup (OfTenant(to, t) \ fits)
  BY DEF broadcastPresenceLocked, Announce
<1> SUFFICES ASSUME NEW d \in to, d \notin missed'
             PROVE  view'[d] = Online(p, TenantOf[d])
  BY DEF PresenceViewFresh
<1>2. CASE TenantOf[d] = t
  <2>1. d \in fits
    BY <1>1, <1>2 DEF OfTenant
  <2> QED BY <1>1, <1>2, <2>1
<1>3. CASE TenantOf[d] # t
  <2>1. d \notin fits /\ d \notin missed /\ d \in clients
    BY <1>1, <1>3 DEF OfTenant
  <2>2. view'[d] = Online(presence, TenantOf[d])
    BY <1>1, <2>1 DEF PresenceViewFresh
  <2>3. p[TenantOf[d]] = presence[TenantOf[d]]
    BY <1>3
  <2> QED BY <2>2, <2>3 DEF Online
<1> QED BY <1>2, <1>3

LEMMA RegisterPresence ==
    ASSUME HubInv, NEW c \in Clients, Register(c)
    PROVE  PresenceExact' /\ PresenceViewFresh'
<1> DEFINE t == TenantOf[c]
           u == UserOf[c]
           p == [presence EXCEPT ![t][u] = @ + 1]
<1>1. /\ clients' = clients \cup {c} /\ presence' = p /\ c \notin clients
      /\ broadcastPresenceLocked(t, clients \cup {c}, p)
      /\ t \in Tenants /\ u \in Users
  BY DEF Register, startPumps, HubInv, LifecycleInv, ConnectionLifecycle
<1>2. /\ p \in [Tenants -> [Users -> Nat]]
      /\ \A s \in Tenants \ {t} : p[s] = presence[s]
      /\ p[t][u] = presence[t][u] + 1
      /\ \A v \in Users \ {u} : p[t][v] = presence[t][v]
  BY <1>1 DEF HubInv, LifecycleInv, TypeOK
<1> HIDE DEF p
<1>3. PresenceViewFresh'
  <2>1. /\ TypeOK /\ PresenceViewFresh /\ clients \cup {c} \in SUBSET Clients
        /\ \A d \in clients \cup {c} : TenantOf[d] # t => d \in clients
    BY DEF HubInv, LifecycleInv, TypeOK
  <2> HIDE DEF t
  <2> QED BY <1>1, <1>2, <2>1, AnnounceFresh
<1>4. ASSUME NEW s \in Tenants, NEW v \in Users
      PROVE  p[s][v] = Cardinality(Connections(s, v)')
  <2>1. IsFiniteSet(Connections(s, v))
    BY FS_Subset DEF Connections, HubInv, LifecycleInv, TypeOK
  <2>2. presence[s][v] = Cardinality(Connections(s, v))
    BY DEF HubInv, PresenceExact
  <2>3. CASE s = t /\ v = u
    <3>1. Connections(s, v)' = Connections(s, v) \cup {c} /\ c \notin Connections(s, v)
      BY <1>1, <2>3 DEF Connections
    <3>2. Cardinality(Connections(s, v) \cup {c}) = Cardinality(Connections(s, v)) + 1
      BY <2>1, <3>1, FS_AddElement
    <3> QED BY <1>2, <2>2, <2>3, <3>1, <3>2
  <2>4. CASE ~(s = t /\ v = u)
    <3>1. Connections(s, v)' = Connections(s, v)
      BY <1>1, <2>4 DEF Connections
    <3>2. p[s][v] = presence[s][v]
      BY <1>2, <2>4
    <3> QED BY <2>2, <3>1, <3>2
  <2> QED BY <2>3, <2>4
<1>5. PresenceExact'
  BY <1>1, <1>4 DEF PresenceExact
<1> QED BY <1>3, <1>5

LEMMA UnregisterPresence ==
    ASSUME HubInv, NEW c \in Clients, Unregister(c)
    PROVE  PresenceExact' /\ PresenceViewFresh'
<1> DEFINE t == TenantOf[c]
           u == UserOf[c]
           n == presence[t][u]
           p == [presence EXCEPT ![t][u] = IF @ <= 1 THEN 0 ELSE @ - 1]
<1>1. CASE c \notin clients
  BY <1>1 DEF Unregister, stillRegistered, HubInv, PresenceExact, PresenceViewFresh, Connections,
     Online
<1>2. CASE c \in clients
  <2>1. /\ clients' = clients \ {c} /\ presence' = p
        /\ broadcastPresenceLocked(t, clients \ {c}, p)
        /\ t \in Tenants /\ u \in Users
    BY <1>2 DEF Unregister, stillRegistered, deleteClient
  <2>2. /\ p \in [Tenants -> [Users -> Nat]] /\ n \in Nat
        /\ \A s \in Tenants \ {t} : p[s] = presence[s]
        /\ p[t][u] = IF n <= 1 THEN 0 ELSE n - 1
        /\ \A v \in Users \ {u} : p[t][v] = presence[t][v]
    BY <2>1 DEF HubInv, LifecycleInv, TypeOK
  <2> HIDE DEF p
  <2>3. PresenceViewFresh'
    <3>1. /\ TypeOK /\ PresenceViewFresh /\ clients \ {c} \in SUBSET Clients
          /\ \A d \in clients \ {c} : TenantOf[d] # t => d \in clients
      BY DEF HubInv, LifecycleInv, TypeOK
    <3> HIDE DEF t
    <3> QED BY <2>1, <2>2, <3>1, AnnounceFresh
  <2>4. ASSUME NEW s \in Tenants, NEW v \in Users
        PROVE  p[s][v] = Cardinality(Connections(s, v)')
    <3>1. IsFiniteSet(Connections(s, v))
      BY FS_Subset DEF Connections, HubInv, LifecycleInv, TypeOK
    <3>2. presence[s][v] = Cardinality(Connections(s, v))
      BY DEF HubInv, PresenceExact
    <3>3. CASE s = t /\ v = u
      <4>1. Connections(s, v)' = Connections(s, v) \ {c} /\ c \in Connections(s, v)
        BY <1>2, <2>1, <3>3 DEF Connections
      <4>2. Cardinality(Connections(s, v) \ {c}) = Cardinality(Connections(s, v)) - 1
        BY <3>1, <4>1, FS_RemoveElement
      <4>3. Cardinality(Connections(s, v) \ {c}) \in Nat
        BY <3>1, FS_RemoveElement, FS_CardinalityType
      <4> HIDE DEF n
      <4>4. n = Cardinality(Connections(s, v))
        BY <3>2, <3>3 DEF n
      <4> QED BY <2>2, <3>3, <4>1, <4>2, <4>3, <4>4
    <3>4. CASE ~(s = t /\ v = u)
      <4>1. Connections(s, v)' = Connections(s, v)
        BY <2>1, <3>4 DEF Connections
      <4>2. p[s][v] = presence[s][v]
        BY <2>2, <3>4
      <4> QED BY <3>2, <4>1, <4>2
    <3> QED BY <3>3, <3>4
  <2>5. PresenceExact'
    BY <2>1, <2>4 DEF PresenceExact
  <2> QED BY <2>3, <2>5
<1> QED BY <1>1, <1>2

LEMMA NextHubInv == HubInv /\ [Next]_vars => HubInv'
<1> SUFFICES ASSUME HubInv, [Next]_vars PROVE HubInv'
  OBVIOUS
<1>0. LifecycleInv'
  BY NextLifecycle DEF HubInv
<1> SUFFICES PresenceExact' /\ PresenceViewFresh'
  BY <1>0 DEF HubInv
<1>1. ASSUME UNCHANGED <<clients, presence, view, missed>>
      PROVE  PresenceExact' /\ PresenceViewFresh'
  BY <1>1 DEF HubInv, PresenceExact, PresenceViewFresh, Connections, Online
<1>2. ASSUME NEW c \in Clients, Register(c) PROVE PresenceExact' /\ PresenceViewFresh'
  BY <1>2, RegisterPresence
<1>3. ASSUME NEW c \in Clients, ReaderExit(c) \/ WriterExit(c)
      PROVE  PresenceExact' /\ PresenceViewFresh'
  BY <1>3, UnregisterPresence DEF ReaderExit, WriterExit
<1>4. ASSUME NEW c \in Clients, ReaderTyping(c) \/ WriterDeliver(c)
      PROVE  PresenceExact' /\ PresenceViewFresh'
  BY <1>1, <1>4 DEF ReaderTyping, WriterDeliver
<1>5. ASSUME NEW b \in Producers, NEW t \in Tenants, Produce(b, t)
      PROVE  PresenceExact' /\ PresenceViewFresh'
  BY <1>1, <1>5 DEF Produce
<1>6. ASSUME NEW b \in Procs, \/ BroadcastPick(b) \/ BroadcastSend(b)
                              \/ BroadcastEnd(b) \/ BroadcastPanic(b)
      PROVE  PresenceExact' /\ PresenceViewFresh'
  BY <1>1, <1>6 DEF BroadcastPick, BroadcastSend, BroadcastEnd, BroadcastPanic
<1>7. CASE Crash
  <2>1. clients' = {} /\ \A t \in Tenants, u \in Users : presence'[t][u] = 0
    BY <1>7 DEF Crash
  <2>2. \A t \in Tenants, u \in Users : Connections(t, u)' = {}
    BY <2>1 DEF Connections
  <2> QED BY <2>1, <2>2, FS_EmptySet DEF PresenceExact, PresenceViewFresh
<1>8. CASE UNCHANGED vars
  BY <1>1, <1>8 DEF vars
<1> QED BY <1>2, <1>3, <1>4, <1>5, <1>6, <1>7, <1>8 DEF Next

LEMMA InitHubInv == Init => HubInv
<1> SUFFICES ASSUME Init PROVE HubInv
  OBVIOUS
<1>1. LifecycleInv
  BY InitTypeOK DEF Init, LifecycleInv, ConnectionLifecycle, PumpsStarted, Idle, Procs
<1>2. \A t \in Tenants, u \in Users : Connections(t, u) = {} /\ presence[t][u] = 0
  BY DEF Init, Connections
<1> QED BY <1>1, <1>2, FS_EmptySet DEF Init, HubInv, PresenceExact, PresenceViewFresh

\* The presence count of every user is the number of their registered
\* connections in every reachable state.
THEOREM PresenceCounts == Spec => []PresenceExact
<1>1. HubInv => PresenceExact
  BY DEF HubInv
<1> QED BY InitHubInv, NextHubInv, <1>1, PTL DEF Spec

\* A registered client was last told who is online now, or its last update was
\* dropped on a full channel.
THEOREM PresenceViews == Spec => []PresenceViewFresh
<1>1. HubInv => PresenceViewFresh
  BY DEF HubInv
<1> QED BY InitHubInv, NextHubInv, <1>1, PTL DEF Spec
----------------------------------------------------------------------------
\* The users of a tenant with a positive count are those of its connections.
LEMMA OnlineAre ==
    ASSUME NEW S \in SUBSET Clients, NEW p \in [Tenants -> [Users -> Nat]], NEW t \in Tenants,
           \A u \in Users : p[t][u] = Cardinality({d \in S : TenantOf[d] = t /\ UserOf[d] = u})
    PROVE  Online(p, t) = {UserOf[d] : d \in OfTenant(S, t)}
<1>1. ASSUME NEW u \in Users PROVE p[t][u] > 0 <=> \E d \in OfTenant(S, t) : UserOf[d] = u
  <2> DEFINE C == {d \in S : TenantOf[d] = t /\ UserOf[d] = u}
  <2>1. IsFiniteSet(C)
    BY FS_Subset
  <2>2. Cardinality(C) = 0 <=> C = {}
    BY <2>1, FS_EmptySet
  <2>3. p[t][u] = Cardinality(C) /\ p[t][u] \in Nat
    OBVIOUS
  <2>4. p[t][u] > 0 <=> C # {}
    BY <2>2, <2>3
  <2> QED BY <2>4 DEF OfTenant
<1> QED BY <1>1 DEF Online, OfTenant

\* What broadcastPresenceLocked puts into the channels is what Tell asks for: the
\* clients with a full channel are those that miss it.
LEMMA AnnounceTells ==
    ASSUME NEW c \in Clients, NEW to \in SUBSET Clients, NEW users, Announce(to, users, TenantOf[c]),
           users = {UserOf[d] : d \in OfTenant(to, TenantOf[c])}
    PROVE  Promise!Tell(to, c)
<1> DEFINE t == TenantOf[c]
           fits == {d \in OfTenant(to, t) : buffered[d] < Cap}
           lost == OfTenant(to, t) \ fits
<1>1. /\ view' = [d \in Clients |-> IF d \in fits THEN users ELSE view[d]]
      /\ missed' = (missed \ fits) \cup lost
  BY DEF Announce
<1>2. Promise!Fellows(to, c) = OfTenant(to, t)
  BY DEF Promise!Fellows, OfTenant
<1>3. fits = OfTenant(to, t) \ lost /\ lost \in SUBSET OfTenant(to, t)
  OBVIOUS
<1> HIDE DEF fits, lost
<1> QED BY <1>1, <1>2, <1>3 DEF Promise!Tell

LEMMA RegisterJoins ==
    ASSUME HubInv, HubInv', NEW c \in Clients, Register(c)
    PROVE  Promise!Join(c)
<1>1. /\ c \notin clients \cup closed
      /\ clients' = clients \cup {c} /\ closed' = closed
      /\ Announce(clients', Online(presence', TenantOf[c]), TenantOf[c])
  BY DEF Register, broadcastPresenceLocked, HubInv, LifecycleInv, ConnectionLifecycle
<1>2. Online(presence', TenantOf[c]) = {UserOf[d] : d \in OfTenant(clients', TenantOf[c])}
  <2>1. /\ clients' \in SUBSET Clients /\ presence' \in [Tenants -> [Users -> Nat]]
        /\ TenantOf[c] \in Tenants
    BY DEF HubInv, LifecycleInv, TypeOK
  <2>2. \A u \in Users :
           presence'[TenantOf[c]][u] = Cardinality({d \in clients' : TenantOf[d] = TenantOf[c] /\ UserOf[d] = u})
    BY <2>1 DEF HubInv, PresenceExact, Connections
  <2> QED BY <2>1, <2>2, OnlineAre, Zenon
<1>3. clients' \in SUBSET Clients
  BY DEF HubInv, LifecycleInv, TypeOK
<1>4. Promise!Tell(clients', c)
  BY <1>1, <1>2, <1>3, AnnounceTells
<1> QED BY <1>1, <1>4 DEF Promise!Join

\* The second Unregister of a connection is no step of the promise.
LEMMA UnregisterLeaves ==
    ASSUME HubInv, HubInv', NEW c \in Clients, Unregister(c)
    PROVE  Promise!Leave(c) \/ UNCHANGED <<clients, closed, view, missed>>
<1>1. CASE c \notin clients
  BY <1>1 DEF Unregister, stillRegistered
<1>2. CASE c \in clients
  <2>1. /\ clients' = clients \ {c} /\ closed' = closed \cup {c}
        /\ Announce(clients', Online(presence', TenantOf[c]), TenantOf[c])
    BY <1>2 DEF Unregister, stillRegistered, deleteClient, closeSend, broadcastPresenceLocked
  <2>2. Online(presence', TenantOf[c]) = {UserOf[d] : d \in OfTenant(clients', TenantOf[c])}
    <3>1. /\ clients' \in SUBSET Clients /\ presence' \in [Tenants -> [Users -> Nat]]
          /\ TenantOf[c] \in Tenants
      BY DEF HubInv, LifecycleInv, TypeOK
    <3>2. \A u \in Users :
             presence'[TenantOf[c]][u] = Cardinality({d \in clients' : TenantOf[d] = TenantOf[c] /\ UserOf[d] = u})
      BY <3>1 DEF HubInv, PresenceExact, Connections
    <3> QED BY <3>1, <3>2, OnlineAre, Zenon
  <2>3. clients' \in SUBSET Clients
    BY DEF HubInv, LifecycleInv, TypeOK
  <2>4. Promise!Tell(clients', c)
    BY <2>1, <2>2, <2>3, AnnounceTells
  <2> QED BY <1>2, <2>1, <2>4 DEF Promise!Leave
<1> QED BY <1>1, <1>2

\* Refinement: Register joins, the first Unregister of a connection leaves, and
\* no broadcast, typing message, delivery or panic is seen.
THEOREM KeepsPromise == Spec => PresencePromised
<1>1. Init => Promise!Init
  BY DEF Init, Promise!Init
<1>2. HubInv /\ HubInv' /\ [Next]_vars => [Promise!Next]_Promise!promiseVars
  <2> SUFFICES ASSUME HubInv, HubInv', [Next]_vars
               PROVE  Promise!Next \/ UNCHANGED <<clients, closed, view, missed>>
    BY DEF Promise!promiseVars
  <2>1. ASSUME NEW c \in Clients, Register(c) PROVE Promise!Next
    BY <2>1, RegisterJoins DEF Promise!Next
  <2>2. ASSUME NEW c \in Clients, ReaderExit(c) \/ WriterExit(c)
        PROVE  Promise!Next \/ UNCHANGED <<clients, closed, view, missed>>
    BY <2>2, UnregisterLeaves DEF ReaderExit, WriterExit, Promise!Next
  <2>3. CASE Crash
    BY <2>3 DEF Crash, Promise!Next, Promise!Restart
  <2>4. ASSUME NEW c \in Clients, ReaderTyping(c) \/ WriterDeliver(c)
        PROVE  UNCHANGED <<clients, closed, view, missed>>
    BY <2>4 DEF ReaderTyping, WriterDeliver
  <2>5. ASSUME NEW b \in Procs, \/ BroadcastPick(b) \/ BroadcastSend(b) \/ BroadcastEnd(b)
                                \/ BroadcastPanic(b) \/ \E t \in Tenants : Produce(b, t)
        PROVE  UNCHANGED <<clients, closed, view, missed>>
    BY <2>5 DEF BroadcastPick, BroadcastSend, BroadcastEnd, BroadcastPanic, Produce
  <2>6. CASE UNCHANGED vars
    BY <2>6 DEF vars
  <2> QED BY <2>1, <2>2, <2>3, <2>4, <2>5, <2>6 DEF Next, Procs
<1> QED BY <1>1, <1>2, InitHubInv, NextHubInv, PTL DEF Spec, PresencePromised, Promise!Spec
============================================================================
