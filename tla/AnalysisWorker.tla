--------------------------- MODULE AnalysisWorker ---------------------------
(***************************************************************************)
(* The analysis of stored messages: the tenant's LLM worker                *)
(* (backend/internal/llm/queue.go, worker_scheduler.go), StoreAnalysis     *)
(* (pipeline.go) and the requests AnalyzeMessage and BatchAnalyze          *)
(* (backend/internal/handlers/llm.go).                                     *)
(*                                                                         *)
(* StoreAnalysis is a SELECT, an UPDATE and perhaps an INSERT without a    *)
(* transaction; each is a step.  The LLM's verdict is any of two: plain or *)
(* important.  A result always comes: AnalyzeWithFallback falls back to    *)
(* the keyword rules when every provider fails (WorkerCalls has its steps).*)
(***************************************************************************)
EXTENDS MessageStore

CONSTANTS Slots,      \* goroutines that may run Worker.Start for the tenant
          Requests,   \* requests that analyse
          BatchSize,  \* 100 in worker_scheduler.go
          MaxPushes   \* bound: no request queues items beyond this number

ASSUME WorkerAssumption ==
    /\ Slots \cap Requests = {}
    /\ BatchSize \in Nat \ {0}
    /\ MaxPushes \in Nat

VARIABLES workers,  \* WorkerScheduler.workers: the slots started for the tenant
          batch,    \* the items each worker has popped and not begun
          todo,     \* messages of a BatchAnalyze still to be queued or analysed
          job,      \* the StoreAnalysis each goroutine is in
          served,   \* history: the newest item whose analysis has begun
          blind     \* history: rows that a StoreAnalysis failed to read

workerVars == <<workers, batch, todo, job, served, blind>>

Runners == Slots \cup Requests
Verdicts == {"plain", "important"}
NoJob(pc) == [pc |-> pc, id |-> NoRowId, verdict |-> "plain", read |-> NoWa]

IdsIn(items) == {items[i].id : i \in DOMAIN items}
\* The rows that only process memory knows are to be analysed or listed.
InHand(p) ==
    IF p \in Slots THEN IdsIn(batch[p]) \cup ({job[p].id} \cap Ids)
    ELSE {id \in Ids : job[p].pc = "mark" /\ job[p].id = id}

WorkerInit ==
    /\ workers = {}
    /\ batch = [s \in Slots |-> <<>>]
    /\ todo = [q \in Requests |-> {}]
    /\ job = [p \in Runners |-> NoJob(IF p \in Slots THEN "off" ELSE "idle")]
    /\ served = 0
    /\ blind = {}
----------------------------------------------------------------------------
\* Mutant: the map is not looked at, every call starts a worker.
startWorkerAlways(s) == s \notin workers

\* The tenant has no worker yet.
startWorker(s) == workers = {}

\* EnsureTenant, under the scheduler's mutex: the map has one entry per tenant.
EnsureTenant(j) ==
    \/ \E s \in Slots : /\ startWorker(s)
                        /\ workers' = workers \cup {s}
                        /\ job' = [j EXCEPT ![s] = NoJob("pop")]
    \/ /\ workers # {}
       /\ workers' = workers
       /\ job' = j

\* BatchAnalyze: the messages named by the request are queued for the worker,
\* which is started if need be, or analysed one by one when there is no queue.
BatchAnalyze(q, S) ==
    /\ job[q].pc = "idle"
    /\ S # {}
    /\ pushed + Cardinality(S) <= MaxPushes
    /\ todo' = [todo EXCEPT ![q] = S]
    /\ IF redis = "yes"
       THEN EnsureTenant([job EXCEPT ![q] = NoJob("enqueue")])
       ELSE job' = [job EXCEPT ![q] = NoJob("direct")] /\ UNCHANGED workers
    /\ UNCHANGED <<batch, served, blind, storeVars>>

AfterEnqueue(q, id) ==
    /\ todo' = [todo EXCEPT ![q] = @ \ {id}]
    /\ job' = [job EXCEPT ![q] = IF todo[q] = {id} THEN NoJob("idle") ELSE @]

BatchEnqueue(q, id) ==
    /\ job[q].pc = "enqueue"
    /\ id \in todo[q]
    /\ Enqueue(id)
    /\ AfterEnqueue(q, id)
    /\ UNCHANGED <<workers, batch, served, blind, messages, important, lastAt, faults, lost>>

\* The error is ignored: the request answers "queued".
BatchEnqueueFails(q, id) ==
    /\ job[q].pc = "enqueue"
    /\ id \in todo[q]
    /\ Fail
    /\ AfterEnqueue(q, id)
    /\ UNCHANGED <<workers, batch, served, blind, messages, important, lastAt, queue, pushed, lost>>

\* BatchAnalyze without a queue: the next message is analysed.
BatchDirect(q, id, v) ==
    /\ job[q].pc = "direct"
    /\ id \in todo[q]
    /\ todo' = [todo EXCEPT ![q] = @ \ {id}]
    /\ job' = [job EXCEPT ![q] = [pc |-> "read", id |-> id, verdict |-> v, read |-> NoWa]]
    /\ UNCHANGED <<workers, batch, served, blind, storeVars>>

\* AnalyzeMessage; when the provider fails the request ends and nothing changes.
AnalyzeMessage(q, id, v) ==
    /\ job[q].pc = "idle"
    /\ job' = [job EXCEPT ![q] = [pc |-> "read", id |-> id, verdict |-> v, read |-> NoWa]]
    /\ UNCHANGED <<workers, batch, todo, served, blind, storeVars>>
----------------------------------------------------------------------------
\* Mutant: the loop of DequeueBatch runs once too often.
roomInBatchOffByOne(s) == Len(batch[s]) <= BatchSize

\* The loop of DequeueBatch goes on.
roomInBatch(s) == Len(batch[s]) < BatchSize

\* DequeueBatch: one RPop.
Pop(s) ==
    /\ job[s].pc = "pop"
    /\ queue # <<>>
    /\ roomInBatch(s)
    /\ batch' = [batch EXCEPT ![s] = Append(@, Head(queue))]
    /\ queue' = Tail(queue)
    /\ UNCHANGED <<workers, todo, job, served, blind, messages, important, lastAt, pushed, faults, lost>>

\* The item is popped but the answer is lost; the client library tries again.
PopUnanswered(s) ==
    /\ job[s].pc = "pop"
    /\ queue # <<>>
    /\ roomInBatch(s)
    /\ Fail
    /\ lost' = lost \cup {Head(queue).id}
    /\ queue' = Tail(queue)
    /\ UNCHANGED <<workers, batch, todo, job, served, blind, messages, important, lastAt, pushed>>

\* RPop fails: the worker sleeps and starts over, without the items it had popped.
PopFails(s) ==
    /\ job[s].pc = "pop"
    /\ roomInBatch(s)
    /\ Fail
    /\ lost' = lost \cup IdsIn(batch[s])
    /\ batch' = [batch EXCEPT ![s] = <<>>]
    /\ UNCHANGED <<workers, todo, job, served, blind, messages, important, lastAt, queue, pushed>>

\* Mutant: the worker waits until its batch is full.
BatchReadyFull(s) ==
    /\ job[s].pc = "pop"
    /\ Len(batch[s]) = BatchSize
    /\ job' = [job EXCEPT ![s].pc = "analyze"]
    /\ UNCHANGED <<workers, batch, todo, served, blind, storeVars>>

\* The batch is full or the list empty.  An empty batch makes the worker sleep.
BatchReady(s) ==
    /\ job[s].pc = "pop"
    /\ batch[s] # <<>>
    /\ queue = <<>> \/ Len(batch[s]) = BatchSize
    /\ job' = [job EXCEPT ![s].pc = "analyze"]
    /\ UNCHANGED <<workers, batch, todo, served, blind, storeVars>>

\* Mutant: the loop over the batch ends after the first item.
AnalyzeOnlyFirst(s, v) ==
    /\ job[s].pc = "analyze"
    /\ job' = [job EXCEPT ![s] = [pc |-> "read", id |-> Head(batch[s]).id, verdict |-> v,
                                  read |-> NoWa]]
    /\ served' = Head(batch[s]).n
    /\ batch' = [batch EXCEPT ![s] = <<>>]
    /\ UNCHANGED <<workers, todo, blind, storeVars>>

\* AnalyzeWithFallback for the next item of the batch.
Analyze(s, v) ==
    /\ job[s].pc = "analyze"
    /\ job' = [job EXCEPT ![s] = [pc |-> "read", id |-> Head(batch[s]).id, verdict |-> v,
                                  read |-> NoWa]]
    /\ served' = Head(batch[s]).n
    /\ batch' = [batch EXCEPT ![s] = Tail(@)]
    /\ UNCHANGED <<workers, todo, blind, storeVars>>
----------------------------------------------------------------------------
\* StoreAnalysis returns: a worker goes on with its batch, a request with its
\* list or to its end.
Return(p) ==
    job' = [job EXCEPT ![p] =
               NoJob(IF p \in Slots THEN IF batch[p] = <<>> THEN "pop" ELSE "analyze"
                                    ELSE IF todo[p] = {} THEN "idle" ELSE "direct")]

\* Mutant: the stored metadata is not merged with the analysis.
readNothing(id) == NoWa

\* The SELECT of metadata_json.
readMetadata(id) == messages[id].wa

StoreRead(p) ==
    /\ job[p].pc = "read"
    /\ job' = [job EXCEPT ![p].pc = "update", ![p].read = readMetadata(job[p].id)]
    /\ UNCHANGED <<workers, batch, todo, served, blind, storeVars>>

\* Its error is ignored: the analysis replaces whatever is there.
StoreReadFails(p) ==
    /\ job[p].pc = "read"
    /\ Fail
    /\ job' = [job EXCEPT ![p].pc = "update"]
    /\ blind' = blind \cup {job[p].id}
    /\ UNCHANGED <<workers, batch, todo, served, messages, important, lastAt, queue, pushed, lost>>

\* Mutant: an important message is listed without being marked in the metadata.
StoreUpdateSkipped(p) ==
    /\ job[p].pc = "update"
    /\ job' = [job EXCEPT ![p].pc = "mark"]
    /\ UNCHANGED <<workers, batch, todo, served, blind, storeVars>>

\* The UPDATE of metadata_json.
StoreUpdate(p) ==
    /\ job[p].pc = "update"
    /\ messages' = [messages EXCEPT ![job[p].id].wa = job[p].read,
                                    ![job[p].id].analysis = job[p].verdict]
    /\ IF job[p].verdict = "important" THEN job' = [job EXCEPT ![p].pc = "mark"] ELSE Return(p)
    /\ UNCHANGED <<workers, batch, todo, served, blind, important, lastAt, queue, pushed, faults, lost>>

\* INSERT INTO important_messages ... ON CONFLICT DO NOTHING.
StoreMark(p) ==
    /\ job[p].pc = "mark"
    /\ important' = important \cup {job[p].id}
    /\ Return(p)
    /\ UNCHANGED <<workers, batch, todo, served, blind, messages, lastAt, queue, pushed, faults, lost>>

\* The connection, the UPDATE or the INSERT fails; the callers ignore the error.
StoreFails(p) ==
    /\ job[p].pc \in {"read", "update", "mark"}
    /\ Fail
    /\ lost' = IF p \in Slots \/ job[p].pc = "mark" THEN lost \cup {job[p].id} ELSE lost
    /\ Return(p)
    /\ UNCHANGED <<workers, batch, todo, served, blind, messages, important, lastAt, queue, pushed>>

\* What requests and workers do, except the analysis of an item by a worker.
QueueNext ==
    \/ \E q \in Requests, S \in SUBSET Stored : BatchAnalyze(q, S)
    \/ \E q \in Requests, id \in Stored : BatchEnqueue(q, id) \/ BatchEnqueueFails(q, id)
    \/ \E q \in Requests, id \in Stored, v \in Verdicts : BatchDirect(q, id, v) \/ AnalyzeMessage(q, id, v)
    \/ \E s \in Slots : Pop(s) \/ PopUnanswered(s) \/ PopFails(s) \/ BatchReady(s)
    \/ \E p \in Runners : StoreRead(p) \/ StoreReadFails(p) \/ StoreUpdate(p) \/ StoreMark(p) \/ StoreFails(p)

WorkerNext ==
    \/ QueueNext
    \/ \E s \in Slots, v \in Verdicts : Analyze(s, v)

\* What one worker goroutine does when it is scheduled, between two analyses.
WorkerStep(s) == Pop(s) \/ BatchReady(s) \/ StoreRead(s) \/ StoreUpdate(s) \/ StoreMark(s)

\* A restart: the workers are gone, and no worker is started until the next
\* BatchAnalyze.
WorkerCrash ==
    /\ workers' = {}
    /\ batch' = [s \in Slots |-> <<>>]
    /\ todo' = [q \in Requests |-> {}]
    /\ job' = [p \in Runners |-> NoJob(IF p \in Slots THEN "off" ELSE "idle")]
    /\ UNCHANGED <<served, blind>>

WorkerTypeOK ==
    /\ workers \subseteq Slots
    /\ batch \in [Slots -> Seq([id : Ids, n : Nat])]
    /\ \A s \in Slots : Len(batch[s]) <= BatchSize
    /\ todo \in [Requests -> SUBSET Ids]
    /\ job \in [Runners -> [pc : {"off", "idle", "pop", "analyze", "enqueue", "direct", "read",
                                  "update", "mark"},
                            id : Ids \cup {NoRowId}, verdict : Verdicts,
                            read : WaIds \cup {NoWa}]]
    /\ served \in Nat
    /\ blind \subseteq Ids
============================================================================
