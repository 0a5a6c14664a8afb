---------------------------- MODULE MessageSync ----------------------------
(***************************************************************************)
(* Writers of the messages table: the WhatsApp syncer                      *)
(* (backend/internal/whatsapp/sync.go) and the agents' ReplyMessage and    *)
(* ForwardMessage (backend/internal/handlers/messages.go).                 *)
(*                                                                         *)
(* The events of one WhatsApp connection are handled one after the other,  *)
(* but a tenant may have several connections and history sync runs beside  *)
(* live messages: Handlers are the goroutines that may be in handleMessage *)
(* at the same time.  Each statement sent to the database is a step.       *)
(***************************************************************************)
EXTENDS MessageStore

CONSTANTS Handlers,
          Agents,         \* requests that reply or forward
          Times,          \* what time.Now() may be in such a request
          Applied,        \* the migrations that were applied
          MaxDeliveries   \* bound: events delivered, redeliveries included

ASSUME SyncAssumption ==
    /\ Times \subseteq Nat
    /\ MaxDeliveries \in Nat

VARIABLES handler,    \* the handleMessage each handler is in
          agent,      \* the ReplyMessage or ForwardMessage each request is in
          sent,       \* replies that WhatsApp has
          deliveries,
          overlap     \* history: messages that two handlers were about to insert
                      \* at the same time

syncVars == <<handler, agent, sent, deliveries, overlap>>

Resting == [pc |-> "idle", wa |-> NoWa, id |-> NoRowId]
Away == [pc |-> "idle", wa |-> NoWa, at |-> 0]

SyncInit ==
    /\ handler = [h \in Handlers |-> Resting]
    /\ agent = [a \in Agents |-> Away]
    /\ sent = {}
    /\ deliveries = 0
    /\ overlap = {}

\* The migrations that created the unique index and the column that the upsert
\* names.
SchemaReady == {7, 9} \subseteq Applied

Later(s, t) == IF s < t THEN t ELSE s
----------------------------------------------------------------------------
\* An *events.Message, or a message of an *events.HistorySync, has text or media
\* and an id; others are dropped at once.  WhatsApp delivers what it has, and may
\* deliver it again.
Deliver(h, w) ==
    /\ handler[h].pc = "idle"
    /\ deliveries < MaxDeliveries
    /\ w \in Outgoing => w \in sent
    /\ handler' = [handler EXCEPT ![h] = [pc |-> "upsert", wa |-> w, id |-> NoRowId]]
    /\ deliveries' = deliveries + 1
    /\ UNCHANGED <<agent, sent, overlap, storeVars>>

\* Mutant: the timestamp is set without GREATEST.
upsertNewest(t) == lastAt' = t

\* ON CONFLICT DO UPDATE keeps the later timestamp.
upsert(t) == lastAt' = Later(lastAt, t)

UpsertConversation(h) ==
    /\ handler[h].pc = "upsert"
    /\ SchemaReady
    /\ upsert(TimeOf[handler[h].wa])
    /\ handler' = [handler EXCEPT ![h].pc = "check"]
    /\ UNCHANGED <<agent, sent, deliveries, overlap, messages, important, queue, pushed, faults, lost>>

\* syncContacts upserts every known contact with the zero time.
SyncContact ==
    /\ SchemaReady
    /\ upsert(0)
    /\ UNCHANGED <<syncVars, messages, important, queue, pushed, faults, lost>>

\* The statement fails; without the index and the column it always does.
UpsertFails(h) ==
    /\ handler[h].pc = "upsert"
    /\ SchemaReady => faults < MaxFaults
    /\ faults' = IF SchemaReady THEN faults + 1 ELSE faults
    /\ handler' = [handler EXCEPT ![h] = Resting]
    /\ UNCHANGED <<agent, sent, deliveries, overlap, messages, important, lastAt, queue, pushed, lost>>

\* Mutant: the message is looked up by nothing.
knownRowsNone(w) == {}

knownRows(w) == {id \in Stored : messages[id].wa = w}

\* insertMessage: the SELECT.
CheckMessage(h) ==
    LET w == handler[h].wa
        rivals == {g \in Handlers \ {h} : handler[g].pc = "insert" /\ handler[g].wa = w}
    IN  /\ handler[h].pc = "check"
        /\ \/ \E id \in knownRows(w) :
                 /\ handler' = [handler EXCEPT ![h].pc = "enqueue", ![h].id = id]
                 /\ UNCHANGED overlap
           \/ /\ knownRows(w) = {}
              /\ handler' = [handler EXCEPT ![h].pc = "insert"]
              /\ overlap' = IF rivals = {} THEN overlap ELSE overlap \cup {w}
        /\ UNCHANGED <<agent, sent, deliveries, storeVars>>

\* insertMessage: the INSERT.
InsertMessage(h) ==
    LET w == handler[h].wa
    IN  /\ handler[h].pc = "insert"
        /\ \E id \in Ids : /\ InsertRow(id, "sync", w, w)
                           /\ handler' = [handler EXCEPT ![h].pc = "enqueue", ![h].id = id]
        /\ UNCHANGED <<agent, sent, deliveries, overlap, important, lastAt, queue, pushed, faults, lost>>

\* The SELECT or the INSERT fails.
InsertFails(h) ==
    /\ handler[h].pc \in {"check", "insert"}
    /\ Fail
    /\ handler' = [handler EXCEPT ![h] = Resting]
    /\ UNCHANGED <<agent, sent, deliveries, overlap, messages, important, lastAt, queue, pushed, lost>>

\* The INSERT is committed but its answer is lost: the row is there and the
\* handler returns without queueing it.
InsertUnanswered(h) ==
    LET w == handler[h].wa
    IN  /\ handler[h].pc = "insert"
        /\ Fail
        /\ \E id \in Ids : InsertRow(id, "sync", w, w) /\ lost' = lost \cup {id}
        /\ handler' = [handler EXCEPT ![h] = Resting]
        /\ UNCHANGED <<agent, sent, deliveries, overlap, important, lastAt, queue, pushed>>

\* insertMessage reports inserted for a row that was there before as well, so a
\* redelivered message is queued again.  The broadcast to the hub follows.
EnqueueMessage(h) ==
    /\ handler[h].pc = "enqueue"
    /\ Enqueue(handler[h].id)
    /\ handler' = [handler EXCEPT ![h] = Resting]
    /\ UNCHANGED <<agent, sent, deliveries, overlap, messages, important, lastAt, faults, lost>>

\* The error of Enqueue is ignored.
EnqueueFails(h) ==
    /\ handler[h].pc = "enqueue"
    /\ redis = "yes"
    /\ Fail
    /\ lost' = lost \cup {handler[h].id}
    /\ handler' = [handler EXCEPT ![h] = Resting]
    /\ UNCHANGED <<agent, sent, deliveries, overlap, messages, important, lastAt, queue, pushed>>
----------------------------------------------------------------------------
\* ReplyMessage takes the time and finds the conversation before it sends.
ReplyStart(a, t) ==
    /\ agent[a].pc = "idle"
    /\ lastAt # -1
    /\ agent' = [agent EXCEPT ![a] = [pc |-> "send", wa |-> NoWa, at |-> t]]
    /\ UNCHANGED <<handler, sent, deliveries, overlap, storeVars>>

\* Manager.SendMessage creates a WhatsApp message; its id is not kept.
ReplySend(a, w) ==
    /\ agent[a].pc = "send"
    /\ w \in Outgoing \ sent
    /\ sent' = sent \cup {w}
    /\ agent' = [agent EXCEPT ![a].pc = "insert", ![a].wa = w]
    /\ UNCHANGED <<handler, deliveries, overlap, storeVars>>

\* ForwardMessage copies a stored message; it sends nothing.
ForwardStart(a, t) ==
    /\ agent[a].pc = "idle"
    /\ Stored # {}
    /\ agent' = [agent EXCEPT ![a] = [pc |-> "insert", wa |-> NoWa, at |-> t]]
    /\ UNCHANGED <<handler, sent, deliveries, overlap, storeVars>>

\* The row has NULL metadata.
AgentInsert(a) ==
    /\ agent[a].pc = "insert"
    /\ \E id \in Ids : InsertRow(id, "agent", agent[a].wa, NoWa)
    /\ agent' = [agent EXCEPT ![a].pc = "touch"]
    /\ UNCHANGED <<handler, sent, deliveries, overlap, important, lastAt, queue, pushed, faults, lost>>

\* The UPDATE of last_message_at has no GREATEST; the broadcast follows.
AgentTouch(a) ==
    /\ agent[a].pc = "touch"
    /\ lastAt' = agent[a].at
    /\ agent' = [agent EXCEPT ![a] = Away]
    /\ UNCHANGED <<handler, sent, deliveries, overlap, messages, important, queue, pushed, faults, lost>>

\* A failed send or INSERT ends the request with an error, a failed UPDATE is
\* ignored: in each case nothing more happens.
AgentFails(a) ==
    /\ agent[a].pc \in {"send", "insert", "touch"}
    /\ Fail
    /\ agent' = [agent EXCEPT ![a] = Away]
    /\ UNCHANGED <<handler, sent, deliveries, overlap, messages, important, lastAt, queue, pushed, lost>>

SyncNext ==
    \/ \E h \in Handlers, w \in WaIds : Deliver(h, w)
    \/ \E h \in Handlers : \/ UpsertConversation(h) \/ UpsertFails(h) \/ CheckMessage(h)
                           \/ InsertMessage(h) \/ InsertFails(h) \/ InsertUnanswered(h)
                           \/ EnqueueMessage(h) \/ EnqueueFails(h)
    \/ SyncContact
    \/ \E a \in Agents, t \in Times : ReplyStart(a, t) \/ ForwardStart(a, t)
    \/ \E a \in Agents, w \in WaIds : ReplySend(a, w)
    \/ \E a \in Agents : AgentInsert(a) \/ AgentTouch(a) \/ AgentFails(a)

\* A restart: what the handlers and requests were doing is gone.
SyncCrash ==
    /\ handler' = [h \in Handlers |-> Resting]
    /\ agent' = [a \in Agents |-> Away]
    /\ UNCHANGED <<sent, deliveries, overlap>>

SyncTypeOK ==
    /\ handler \in [Handlers -> [pc : {"idle", "upsert", "check", "insert", "enqueue"},
                                 wa : WaIds \cup {NoWa}, id : Ids \cup {NoRowId}]]
    /\ agent \in [Agents -> [pc : {"idle", "send", "insert", "touch"}, wa : WaIds \cup {NoWa},
                             at : Nat]]
    /\ sent \subseteq Outgoing
    /\ deliveries \in 0 .. MaxDeliveries
    /\ overlap \subseteq WaIds
============================================================================
