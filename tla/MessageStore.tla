---------------------------- MODULE MessageStore ----------------------------
(***************************************************************************)
(* What survives a restart of the server: the messages, the important      *)
(* messages and the conversation row in PostgreSQL, and the analysis queue *)
(* in Redis (backend/internal/llm/queue.go).  One tenant, one conversation.*)
(* A failing database or Redis call is a fault; MaxFaults bounds how many  *)
(* there are, not where.                                                   *)
(***************************************************************************)
EXTENDS Integers, Sequences, FiniteSets

CONSTANTS WaIds,      \* WhatsApp messages with text or media, by info.ID
          Outgoing,   \* those of them that an agent's reply creates
          TimeOf,     \* info.Timestamp
          Ids,        \* values of messages.id; their number bounds the rows
          NoWa, NoRowId,
          MaxFaults   \* bound: failing calls

ASSUME StoreAssumption ==
    /\ Outgoing \subseteq WaIds
    /\ TimeOf \in [WaIds -> Nat]
    /\ NoWa \notin WaIds
    /\ NoRowId \notin Ids
    /\ MaxFaults \in Nat

VARIABLES redis,      \* "yes": REDIS_URL is set and the queue exists
          messages,   \* the messages table
          important,  \* important_messages: a unique index on message_id
          lastAt,     \* conversations.last_message_at; -1: no such row yet
          queue,      \* the Redis list, its right end first
          pushed,     \* history: number of items ever pushed
          faults,     \* failing calls so far
          lost        \* history: rows whose analysis or listing a fault or a
                      \* crash took away

storeVars == <<messages, important, lastAt, queue, pushed, faults, lost>>

\* wa: metadata_json's whatsapp_id; analysis: metadata_json's analysis.
\* by, origin (history): who inserted the row, for which WhatsApp message.
Row == [by : {"none", "sync", "agent"}, origin : WaIds \cup {NoWa}, wa : WaIds \cup {NoWa},
        analysis : {"none", "plain", "important"}]
NoRow == [by |-> "none", origin |-> NoWa, wa |-> NoWa, analysis |-> "none"]

Stored == {id \in Ids : messages[id].by # "none"}

\* main reads the configuration once.
StoreInit ==
    /\ redis \in {"yes", "no"}
    /\ messages = [id \in Ids |-> NoRow]
    /\ important = {}
    /\ lastAt = -1
    /\ queue = <<>>
    /\ pushed = 0
    /\ faults = 0
    /\ lost = {}

Fail == faults < MaxFaults /\ faults' = faults + 1

\* Mutant: the INSERT replaces a row.
ReplaceRow(id, by, origin, wa) ==
    messages' = [messages EXCEPT ![id] = [by |-> by, origin |-> origin, wa |-> wa,
                                          analysis |-> "none"]]

InsertRow(id, by, origin, wa) ==
    /\ id \notin Stored
    /\ messages' = [messages EXCEPT ![id] = [by |-> by, origin |-> origin, wa |-> wa,
                                             analysis |-> "none"]]

\* LPush, by both callers only when there is a queue.
Enqueue(id) ==
    IF redis = "yes"
    THEN /\ queue' = Append(queue, [id |-> id, n |-> pushed + 1])
         /\ pushed' = pushed + 1
    ELSE UNCHANGED <<queue, pushed>>

StoreTypeOK ==
    /\ redis \in {"yes", "no"}
    /\ messages \in [Ids -> Row]
    /\ important \subseteq Ids
    /\ lastAt \in Int
    /\ queue \in Seq([id : Ids, n : Nat])
    /\ pushed \in Nat
    /\ faults \in 0 .. MaxFaults
    /\ lost \subseteq Ids
============================================================================
