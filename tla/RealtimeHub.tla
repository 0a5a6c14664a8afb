---------------------------- MODULE RealtimeHub ----------------------------
(***************************************************************************)
(* The WebSocket hub of backend/internal/realtime (hub.go, websocket.go).  *)
(*                                                                         *)
(* Register and Unregister run under the hub's write lock, so each is one  *)
(* step.  Broadcast takes the read lock only to fetch the tenant's map and *)
(* then ranges over that live map without any lock: fetching the map,      *)
(* producing the next client and sending to it are steps of their own.     *)
(* Each connection has a reader goroutine (readPump, which also broadcasts *)
(* typing events) and a writer goroutine (writePump); whichever ends first *)
(* unregisters the client and closes the socket.                           *)
(***************************************************************************)
EXTENDS Naturals, FiniteSets

CONSTANTS Clients,    \* connections; each name is used once per server run
          Tenants, Users,
          TenantOf, UserOf,  \* the token a connection was opened with
          Producers,  \* other goroutines that call Broadcast
          Workers,    \* those of them that are LLM workers: nothing recovers
                      \* their panics, so one ends the process
          Typists,    \* bound: the connections that send typing messages
          Cap,        \* capacity of Client.Send (16)
          NoTenant, NoClient

ASSUME ClientAssumption ==
    /\ IsFiniteSet(Clients)
    /\ TenantOf \in [Clients -> Tenants]
    /\ UserOf \in [Clients -> Users]
    /\ NoClient \notin Clients
ASSUME TenantAssumption == NoTenant \notin Tenants
ASSUME ProducerAssumption ==
    /\ Workers \subseteq Producers
    /\ Producers \cap Clients = {}
    /\ Typists \subseteq Clients
ASSUME CapAssumption == Cap \in Nat \ {0}

VARIABLES clients,   \* h.clients, all tenants: the registered connections
          presence,  \* h.presence; a user with count 0 has no key
          buffered,  \* messages in each Client.Send
          closed,    \* the clients whose Send channel is closed
          reader, writer,  \* where each readPump and writePump is
          shut,      \* the sockets closed on the server side
          bc,        \* the Broadcast each goroutine is in
          view,      \* history: the last presence.update put into Send
          missed     \* history: clients whose last presence.update found Send full

vars == <<clients, presence, buffered, closed, reader, writer, shut, bc, view, missed>>

Procs == Clients \cup Producers

\* ref: the tenant whose map is ranged over; NoTenant for a nil map or one that
\* Unregister emptied and dropped from h.clients.  todo: the entries range still
\* has to produce.  target: the client about to be sent to.
Idle == [pc |-> "idle", ref |-> NoTenant, todo |-> {}, target |-> NoClient]

OfTenant(S, t) == {c \in S : TenantOf[c] = t}
Connections(t, u) == {c \in clients : TenantOf[c] = t /\ UserOf[c] = u}
Online(p, t) == {u \in Users : p[t][u] > 0}

Init ==
    /\ clients = {}
    /\ presence = [t \in Tenants |-> [u \in Users |-> 0]]
    /\ buffered = [c \in Clients |-> 0]
    /\ closed = {}
    /\ reader = [c \in Clients |-> "new"]
    /\ writer = [c \in Clients |-> "off"]
    /\ shut = {}
    /\ bc = [b \in Procs |-> Idle]
    /\ view = [c \in Clients |-> {}]
    /\ missed = {}
----------------------------------------------------------------------------
\* Mutant: the loop over the clients ends at a full channel.
AnnounceUntilFull(to, users, t) ==
    IF \E c \in OfTenant(to, t) : buffered[c] >= Cap
    THEN UNCHANGED <<buffered, view, missed>>
    ELSE /\ buffered' = [c \in Clients |-> IF c \in OfTenant(to, t) THEN buffered[c] + 1 ELSE buffered[c]]
         /\ view' = [c \in Clients |-> IF c \in OfTenant(to, t) THEN users ELSE view[c]]
         /\ missed' = missed \ OfTenant(to, t)

Announce(to, users, t) ==
    LET fits == {c \in OfTenant(to, t) : buffered[c] < Cap}
    IN  /\ buffered' = [c \in Clients |-> IF c \in fits THEN buffered[c] + 1 ELSE buffered[c]]
        /\ view' = [c \in Clients |-> IF c \in fits THEN users ELSE view[c]]
        /\ missed' = (missed \ fits) \cup (OfTenant(to, t) \ fits)

\* A non-blocking send of the online users (p are the new counts) to every
\* client of the tenant; a full channel drops it.
broadcastPresenceLocked(t, to, p) == Announce(to, Online(p, t), t)

\* ServeWS starts the writer and goes on as the reader.
startPumps(c) ==
    /\ reader' = [reader EXCEPT ![c] = "read"]
    /\ writer' = [writer EXCEPT ![c] = "select"]

\* A connection is upgraded and registered.  Range may or may not produce an
\* entry that is added while it runs.
Register(c) ==
    LET t == TenantOf[c]
        p == [presence EXCEPT ![t][UserOf[c]] = @ + 1]
    IN  /\ reader[c] = "new"
        /\ clients' = clients \cup {c}
        /\ presence' = p
        /\ broadcastPresenceLocked(t, clients \cup {c}, p)
        /\ startPumps(c)
        /\ \E B \in SUBSET {b \in Procs : bc[b].ref = t} :
              bc' = [b \in Procs |-> IF b \in B THEN [bc[b] EXCEPT !.todo = @ \cup {c}] ELSE bc[b]]
        /\ UNCHANGED <<closed, shut>>

\* Mutant: a second Unregister of the same client is not recognised.
neverSeenBefore(c) == TRUE

stillRegistered(c) == c \in clients

\* Mutant: the channel is not closed.
keepOpen(c) == closed

closeSend(c) == closed \cup {c}

\* Deleting an entry hides it from every range over the map; a map that becomes
\* empty is dropped, and later clients of the tenant go into another one.
deleteClient(c) ==
    LET dropped == OfTenant(clients, TenantOf[c]) \subseteq {c}
    IN  /\ clients' = clients \ {c}
        /\ bc' = [b \in Procs |->
                     IF bc[b].ref # TenantOf[c] THEN bc[b]
                     ELSE [bc[b] EXCEPT !.todo = @ \ {c}, !.ref = IF dropped THEN NoTenant ELSE @]]

\* Both pumps call it; the second call finds the client gone and does nothing.
Unregister(c) ==
    LET t == TenantOf[c]
        p == [presence EXCEPT ![t][UserOf[c]] = IF @ <= 1 THEN 0 ELSE @ - 1]
    IN  IF stillRegistered(c)
        THEN /\ deleteClient(c)
             /\ closed' = closeSend(c)
             /\ presence' = p
             /\ broadcastPresenceLocked(t, clients \ {c}, p)
        ELSE UNCHANGED <<clients, bc, closed, presence, buffered, view, missed>>
----------------------------------------------------------------------------
\* The first steps of Broadcast, up to RUnlock.
BroadcastStart(b, t) ==
    LET found == OfTenant(clients, t)
    IN  /\ bc[b].pc = "idle"
        /\ bc' = [bc EXCEPT ![b] = [pc |-> "range", ref |-> IF found = {} THEN NoTenant ELSE t,
                                    todo |-> found, target |-> NoClient]]

\* A request handler, the WhatsApp syncer or an LLM worker broadcasts.
Produce(b, t) ==
    /\ b \in Producers
    /\ BroadcastStart(b, t)
    /\ UNCHANGED <<clients, presence, buffered, closed, reader, writer, shut, view, missed>>

\* "for client := range clients" produces the next client.
BroadcastPick(b) ==
    /\ bc[b].pc = "range"
    /\ \E c \in bc[b].todo :
          bc' = [bc EXCEPT ![b].pc = "send", ![b].todo = @ \ {c}, ![b].target = c]
    /\ UNCHANGED <<clients, presence, buffered, closed, reader, writer, shut, view, missed>>

\* Mutant: the send does not look at the channel's capacity.
alwaysQueue(n) == n + 1

queueOrDrop(n) == IF n < Cap THEN n + 1 ELSE n

\* The select: the message is queued, or dropped when the channel is full.
BroadcastSend(b) ==
    LET c == bc[b].target
    IN  /\ bc[b].pc = "send"
        /\ c \notin closed
        /\ buffered' = [buffered EXCEPT ![c] = queueOrDrop(@)]
        /\ bc' = [bc EXCEPT ![b].pc = "range", ![b].target = NoClient]
        /\ UNCHANGED <<clients, presence, closed, reader, writer, shut, view, missed>>

BroadcastEnd(b) ==
    /\ bc[b].pc = "range"
    /\ bc[b].todo = {}
    /\ bc' = [bc EXCEPT ![b] = Idle]
    /\ reader' = IF b \in Clients THEN [reader EXCEPT ![b] = "read"] ELSE reader
    /\ UNCHANGED <<clients, presence, buffered, closed, writer, shut, view, missed>>

\* A send on a closed channel panics, default branch or not.  net/http recovers
\* a panicking reader (its deferred calls still run) and the request handlers.
BroadcastPanic(b) ==
    /\ bc[b].pc = "send"
    /\ bc[b].target \in closed
    /\ b \notin Workers
    /\ bc' = [bc EXCEPT ![b] = Idle]
    /\ reader' = IF b \in Clients THEN [reader EXCEPT ![b] = "exit"] ELSE reader
    /\ UNCHANGED <<clients, presence, buffered, closed, writer, shut, view, missed>>

\* The process ends and is started again with an empty hub: nothing recovers a
\* panicking worker, and the Go runtime aborts when it sees Broadcast range over
\* a map that Register or Unregister is writing.
Crash ==
    /\ \/ \E b \in Workers : bc[b].pc = "send" /\ bc[b].target \in closed
       \/ \E b \in Procs, c \in Clients :
             /\ bc[b].pc = "range" /\ bc[b].ref = TenantOf[c]
             /\ reader[c] = "new" \/ c \in clients
    /\ clients' = {} /\ closed' = {} /\ shut' = {} /\ missed' = {}
    /\ presence' = [t \in Tenants |-> [u \in Users |-> 0]]
    /\ buffered' = [c \in Clients |-> 0]
    /\ reader' = [c \in Clients |-> "new"]
    /\ writer' = [c \in Clients |-> "off"]
    /\ bc' = [b \in Procs |-> Idle]
    /\ view' = [c \in Clients |-> {}]
----------------------------------------------------------------------------
\* readPump: a "typing" message is broadcast to the tenant.
ReaderTyping(c) ==
    /\ c \in Typists
    /\ reader[c] = "read"
    /\ c \notin shut
    /\ reader' = [reader EXCEPT ![c] = "cast"]
    /\ BroadcastStart(c, TenantOf[c])
    /\ UNCHANGED <<clients, presence, buffered, closed, writer, shut, view, missed>>

\* readPump: a read error (the peer left, the deadline passed, the socket was
\* closed) or a panic runs the deferred Unregister and Close.
ReaderExit(c) ==
    /\ reader[c] \in {"read", "exit"}
    /\ Unregister(c)
    /\ reader' = [reader EXCEPT ![c] = "done"]
    /\ shut' = shut \cup {c}
    /\ UNCHANGED writer

\* writePump: a queued message is written.
WriterDeliver(c) ==
    /\ writer[c] = "select"
    /\ buffered[c] > 0
    /\ c \notin shut
    /\ buffered' = [buffered EXCEPT ![c] = @ - 1]
    /\ UNCHANGED <<clients, presence, closed, reader, writer, shut, bc, view, missed>>

\* Mutant: writePump returns without its deferred Unregister.
WriterExitLeaks(c) ==
    /\ writer[c] = "select"
    /\ writer' = [writer EXCEPT ![c] = "done"]
    /\ shut' = shut \cup {c}
    /\ UNCHANGED <<clients, presence, buffered, closed, bc, view, missed, reader>>

\* Mutant: writePump returns without closing the socket.
WriterExitKeepsSocket(c) ==
    /\ writer[c] = "select"
    /\ Unregister(c)
    /\ writer' = [writer EXCEPT ![c] = "done"]
    /\ UNCHANGED <<reader, shut>>

\* writePump: a failed write or ping, or Send closed and drained, runs the
\* deferred Unregister and Close.
WriterExit(c) ==
    /\ writer[c] = "select"
    /\ Unregister(c)
    /\ writer' = [writer EXCEPT ![c] = "done"]
    /\ shut' = shut \cup {c}
    /\ UNCHANGED reader

BroadcastStep(b) == BroadcastPick(b) \/ BroadcastSend(b) \/ BroadcastEnd(b) \/ BroadcastPanic(b)

Next ==
    \/ \E c \in Clients : \/ Register(c) \/ ReaderTyping(c) \/ ReaderExit(c)
                          \/ WriterDeliver(c) \/ WriterExit(c)
    \/ \E b \in Producers, t \in Tenants : Produce(b, t)
    \/ \E b \in Procs : BroadcastPick(b) \/ BroadcastSend(b) \/ BroadcastEnd(b) \/ BroadcastPanic(b)
    \/ Crash

\* A goroutine that can run does: a Broadcast in progress goes on, a reader
\* whose socket is closed returns from ReadMessage, a writer whose channel is
\* closed drains it and returns, one whose socket is closed fails at the next
\* ping at the latest.  Nobody has to connect, type or disconnect.
Fairness ==
    /\ \A b \in Procs : WF_vars(BroadcastStep(b))
    /\ \A c \in Clients :
          /\ WF_vars((c \in shut \/ reader[c] = "exit") /\ ReaderExit(c))
          /\ WF_vars(WriterDeliver(c) \/ ((c \in shut \/ (c \in closed /\ buffered[c] = 0)) /\ WriterExit(c)))

Spec == Init /\ [][Next]_vars

FairSpec == Spec /\ Fairness
----------------------------------------------------------------------------
\* Types; Client.Send never holds more than its capacity.
TypeOK ==
    /\ clients \subseteq Clients
    /\ presence \in [Tenants -> [Users -> Nat]]
    /\ buffered \in [Clients -> 0 .. Cap]
    /\ closed \subseteq Clients
    /\ reader \in [Clients -> {"new", "read", "cast", "exit", "done"}]
    /\ writer \in [Clients -> {"off", "select", "done"}]
    /\ shut \subseteq Clients
    /\ bc \in [Procs -> [pc : {"idle", "range", "send"}, ref : Tenants \cup {NoTenant},
                         todo : SUBSET Clients, target : Clients \cup {NoClient}]]
    /\ view \in [Clients -> SUBSET Users]
    /\ missed \subseteq Clients

\* The presence count of a user is the number of their registered connections,
\* whatever the order in which tabs open, pumps fail and both pumps of one
\* connection unregister it.
PresenceExact ==
    \A t \in Tenants, u \in Users : presence[t][u] = Cardinality(Connections(t, u))

\* hub.go, "Close channel only when removing from map": a connection that was
\* opened is either registered with an open channel or unregistered with a
\* closed one, and it is unregistered as soon as one of its pumps has ended, so
\* no dead connection stays in the map.
ConnectionLifecycle ==
    \A c \in Clients :
        /\ reader[c] = "new" => c \notin clients \cup closed
        /\ reader[c] # "new" => (c \in clients <=> c \notin closed)
        /\ reader[c] = "done" \/ writer[c] = "done" => c \notin clients

\* The last presence.update handed to a registered client names exactly the users
\* online now, unless that update was dropped because its channel was full.  It
\* follows from PresencePromised, which also says when these updates are made.
PresenceViewFresh ==
    \A c \in clients \ missed : view[c] = Online(presence, TenantOf[c])

\* The hub is what its tenants' clients take it for: each connection joins once
\* and leaves once, whichever pump notices first and how often Unregister is
\* called, and all present are told the users of the connections that are left.
Promise == INSTANCE PresencePromise WITH present <- clients, left <- closed, told <- view
PresencePromised == Promise!Spec

\* When one pump of a connection has ended, the other one ends too (or the
\* whole process does): no goroutine is leaked.
PumpsEndTogether ==
    \A c \in Clients :
        /\ (reader[c] = "done") ~> (writer[c] # "select")
        /\ (writer[c] = "done") ~> (reader[c] \in {"new", "done"})

\* hub.go closes a channel "only when removing from map", so that whoever finds
\* a client in the map may send to it: a client that Broadcast took from the map
\* still has an open channel when Broadcast sends to it.
SendsToOpenChannel ==
    \A b \in Procs : bc[b].pc = "send" => bc[b].target \notin closed
============================================================================
