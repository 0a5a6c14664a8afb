----------------------- MODULE AnalysisPipelineProofs -----------------------
(***************************************************************************)
(* Proofs about AnalysisPipeline and WorkerCalls.                          *)
(*                                                                         *)
(* Every invariant rests on Control, which ties the fields of handlers and *)
(* goroutines to their program counters, and most of them on Known: what   *)
(* memory and Redis refer to is stored.  Each further part of the          *)
(* invariant is preserved on top of these two.                             *)
(***************************************************************************)
EXTENDS WorkerCalls, SequenceTheorems, TLAPS

USE StoreAssumption, SyncAssumption, WorkerAssumption, CrashAssumption

Storing == {"read", "update", "mark"}

\* A handler has a message while it runs, and a row only when it has found or
\* inserted one.
HandlerControl ==
    \A h \in Handlers :
        /\ handler[h].pc # "idle" => handler[h].wa \in WaIds
        /\ IF handler[h].pc = "enqueue" THEN handler[h].id \in Ids ELSE handler[h].id = NoRowId

\* A goroutine has a row exactly while it is in StoreAnalysis.
JobControl ==
    /\ \A p \in Runners : IF job[p].pc \in Storing THEN job[p].id \in Ids ELSE job[p].id = NoRowId
    /\ \A s \in Slots : job[s].pc \in {"off", "pop", "analyze"} \cup Storing
    /\ \A q \in Requests : job[q].pc \in {"idle", "enqueue", "direct"} \cup Storing

\* Only a started worker has items, and it goes on analysing only with one.
WorkerControl ==
    \A s \in Slots :
        /\ job[s].pc = "off" <=> s \notin workers
        /\ s \notin workers => batch[s] = <<>>
        /\ job[s].pc = "analyze" => batch[s] # <<>>

Control == HandlerControl /\ JobControl /\ WorkerControl
----------------------------------------------------------------------------
Item == [id : Ids, n : Nat]

HandlerPcs == {"idle", "upsert", "check", "insert", "enqueue"}
HandlerStates == [pc : HandlerPcs, wa : WaIds \cup {NoWa}, id : Ids \cup {NoRowId}]
AgentStates == [pc : {"idle", "send", "insert", "touch"}, wa : WaIds \cup {NoWa}, at : Nat]

LEMMA HandlerTypes ==
    ASSUME handler \in [Handlers -> HandlerStates], NEW h \in Handlers, NEW pc \in HandlerPcs,
           NEW id \in Ids,
           handler' = [handler EXCEPT ![h].pc = pc, ![h].id = id]
    PROVE  handler' \in [Handlers -> HandlerStates]
  BY DEF HandlerStates

LEMMA AgentTypes ==
    ASSUME agent \in [Agents -> AgentStates], NEW a \in Agents, NEW w \in WaIds,
           agent' = [agent EXCEPT ![a].pc = "insert", ![a].wa = w]
    PROVE  agent' \in [Agents -> AgentStates]
  BY DEF AgentStates

LEMMA EnqueueTypes ==
    ASSUME queue \in Seq(Item), pushed \in Nat, NEW id \in Ids, Enqueue(id)
    PROVE  queue' \in Seq(Item) /\ pushed' \in Nat
<1>1. [id |-> id, n |-> pushed + 1] \in Item
  BY DEF Item
<1>2. CASE redis = "yes"
  <2>1. queue' = Append(queue, [id |-> id, n |-> pushed + 1])
    BY <1>2 DEF Enqueue
  <2>2. queue' \in Seq(Item)
    BY <1>1, <2>1, AppendProperties
  <2> QED BY <1>2, <2>2 DEF Enqueue
<1>3. CASE redis # "yes"
  BY <1>3 DEF Enqueue
<1> QED BY <1>2, <1>3

LEMMA InsertTypes ==
    ASSUME StoreTypeOK, NEW id \in Ids, NEW by \in {"sync", "agent"},
           NEW o \in WaIds \cup {NoWa}, NEW w \in WaIds \cup {NoWa}, InsertRow(id, by, o, w)
    PROVE  messages' \in [Ids -> Row]
  BY DEF InsertRow, StoreTypeOK, Row

\* A step of the syncer or of an agent keeps types and control.
LEMMA SyncControl ==
    ASSUME TypeOK, Control, SyncNext, UNCHANGED <<redis, workerVars, crashes>>
    PROVE  TypeOK' /\ Control'
<1> USE DEF syncVars, storeVars, workerVars, StoreTypeOK, SyncTypeOK, HandlerControl
<1>0. WorkerTypeOK' /\ JobControl' /\ WorkerControl' /\ redis' \in {"yes", "no"}
        /\ crashes' \in 0 .. MaxCrashes
  BY DEF TypeOK, Control, WorkerTypeOK, JobControl, WorkerControl
<1> SUFFICES StoreTypeOK' /\ SyncTypeOK' /\ HandlerControl'
  BY <1>0 DEF TypeOK, Control
<1>a. StoreTypeOK /\ SyncTypeOK /\ HandlerControl
  BY DEF TypeOK, Control
<1>b. /\ handler \in [Handlers -> HandlerStates]
      /\ agent \in [Agents -> AgentStates]
  BY <1>a DEF HandlerStates, HandlerPcs, AgentStates
<1>1. ASSUME NEW h \in Handlers, NEW w \in WaIds, Deliver(h, w)
     PROVE  StoreTypeOK' /\ SyncTypeOK' /\ HandlerControl'
  BY <1>0, <1>a, <1>1 DEF Deliver
<1>2. ASSUME NEW h \in Handlers, UpsertConversation(h)
     PROVE  StoreTypeOK' /\ SyncTypeOK' /\ HandlerControl'
  <2>1. TimeOf[handler[h].wa] \in Nat
    BY <1>a, <1>2 DEF UpsertConversation
  <2>2. lastAt' \in Int
    BY <1>0, <1>a, <1>2, <2>1 DEF UpsertConversation, upsert, Later
  <2>3. handler' \in [Handlers -> HandlerStates]
    BY <1>b, <1>2 DEF UpsertConversation, HandlerPcs, HandlerStates
  <2>4. HandlerControl'
    BY <1>0, <1>a, <1>2 DEF UpsertConversation
  <2> QED BY <1>0, <1>a, <1>2, <2>1, <2>2, <2>3, <2>4 DEF UpsertConversation, HandlerStates, HandlerPcs
<1>3. ASSUME NEW h \in Handlers, UpsertFails(h)
     PROVE  StoreTypeOK' /\ SyncTypeOK' /\ HandlerControl'
  BY <1>0, <1>a, <1>3 DEF UpsertFails, Resting
<1>4. ASSUME NEW h \in Handlers, CheckMessage(h)
     PROVE  StoreTypeOK' /\ SyncTypeOK' /\ HandlerControl'
  <2>0. handler[h].pc = "check"
    BY <1>4 DEF CheckMessage
  <2>1. CASE \E id \in knownRows(handler[h].wa) :
                 /\ handler' = [handler EXCEPT ![h].pc = "enqueue", ![h].id = id]
                 /\ UNCHANGED overlap
    <3>1. handler' \in [Handlers -> HandlerStates]
      BY <1>b, <1>4, <2>1, HandlerTypes DEF HandlerPcs, knownRows, Stored
    <3>2. HandlerControl'
      BY <1>a, <2>0, <2>1 DEF knownRows, Stored
    <3> QED BY <1>0, <1>a, <1>4, <2>1, <3>1, <3>2 DEF CheckMessage, HandlerStates, HandlerPcs
  <2>2. CASE handler' = [handler EXCEPT ![h].pc = "insert"]
    <3>1. overlap' \subseteq WaIds
      BY <1>a, <1>4 DEF CheckMessage
    <3>2. handler' \in [Handlers -> HandlerStates]
      BY <1>b, <2>2 DEF HandlerPcs, HandlerStates
    <3>3. HandlerControl'
      BY <1>a, <2>0, <2>2
    <3> QED BY <1>0, <1>a, <1>4, <2>2, <3>1, <3>2, <3>3 DEF CheckMessage, HandlerStates, HandlerPcs
  <2> QED BY <1>4, <2>1, <2>2 DEF CheckMessage
<1>5. ASSUME NEW h \in Handlers, InsertMessage(h)
     PROVE  StoreTypeOK' /\ SyncTypeOK' /\ HandlerControl'
  BY <1>0, <1>a, <1>5, InsertTypes, SMTT(30) DEF InsertMessage
<1>6. ASSUME NEW h \in Handlers, InsertFails(h)
     PROVE  StoreTypeOK' /\ SyncTypeOK' /\ HandlerControl'
  BY <1>0, <1>a, <1>6 DEF InsertFails, Fail, Resting
<1>7. ASSUME NEW h \in Handlers, InsertUnanswered(h)
     PROVE  StoreTypeOK' /\ SyncTypeOK' /\ HandlerControl'
  BY <1>0, <1>a, <1>7, InsertTypes DEF InsertUnanswered, Fail, Resting
<1>8. ASSUME NEW h \in Handlers, EnqueueMessage(h)
     PROVE  StoreTypeOK' /\ SyncTypeOK' /\ HandlerControl'
  BY <1>0, <1>a, <1>8, EnqueueTypes DEF EnqueueMessage, Resting, Item
<1>9. ASSUME NEW h \in Handlers, EnqueueFails(h)
     PROVE  StoreTypeOK' /\ SyncTypeOK' /\ HandlerControl'
  BY <1>0, <1>a, <1>9 DEF EnqueueFails, Fail, Resting
<1>10. ASSUME SyncContact
     PROVE  StoreTypeOK' /\ SyncTypeOK' /\ HandlerControl'
  BY <1>0, <1>a, <1>10 DEF SyncContact, upsert, Later
<1>11. ASSUME NEW a \in Agents, NEW t \in Times, ReplyStart(a, t) \/ ForwardStart(a, t)
     PROVE  StoreTypeOK' /\ SyncTypeOK' /\ HandlerControl'
  <2>1. t \in Nat
    OBVIOUS
  <2>2. agent' \in [Agents -> AgentStates]
    BY <1>b, <1>11, <2>1 DEF ReplyStart, ForwardStart, AgentStates
  <2> QED BY <1>0, <1>a, <1>11, <2>2 DEF ReplyStart, ForwardStart, AgentStates
<1>12. ASSUME NEW a \in Agents, NEW w \in WaIds, ReplySend(a, w)
     PROVE  StoreTypeOK' /\ SyncTypeOK' /\ HandlerControl'
  <2>1. sent' \subseteq Outgoing
    BY <1>a, <1>12 DEF ReplySend
  <2>2. agent' \in [Agents -> AgentStates]
    BY <1>b, <1>12, AgentTypes DEF ReplySend
  <2> QED BY <1>0, <1>a, <1>12, <2>1, <2>2 DEF ReplySend, AgentStates
<1>13. ASSUME NEW a \in Agents, AgentInsert(a)
     PROVE  StoreTypeOK' /\ SyncTypeOK' /\ HandlerControl'
  BY <1>0, <1>a, <1>13, InsertTypes, ZenonT(40) DEF AgentInsert
<1>14. ASSUME NEW a \in Agents, AgentTouch(a)
     PROVE  StoreTypeOK' /\ SyncTypeOK' /\ HandlerControl'
  BY <1>0, <1>a, <1>14 DEF AgentTouch, Away
<1>15. ASSUME NEW a \in Agents, AgentFails(a)
     PROVE  StoreTypeOK' /\ SyncTypeOK' /\ HandlerControl'
  BY <1>0, <1>a, <1>15 DEF AgentFails, Away, Fail
<1> QED BY <1>1, <1>2, <1>3, <1>4, <1>5, <1>6, <1>7, <1>8, <1>9, <1>10, <1>11, <1>12, <1>13, <1>14, <1>15 DEF SyncNext
----------------------------------------------------------------------------
JobPcs == {"off", "idle", "pop", "analyze", "enqueue", "direct", "read", "update", "mark"}
JobStates == [pc : JobPcs, id : Ids \cup {NoRowId}, verdict : Verdicts, read : WaIds \cup {NoWa}]

\* The types of the worker's variables, by the names used here.
WorkerTypes ==
    /\ job \in [Runners -> JobStates]
    /\ batch \in [Slots -> Seq(Item)]
    /\ todo \in [Requests -> SUBSET Ids]
    /\ queue \in Seq(Item)

LEMMA TypesOf == TypeOK => WorkerTypes
  BY DEF TypeOK, WorkerTypeOK, StoreTypeOK, WorkerTypes, JobStates, JobPcs, Item

LEMMA NoJobType == ASSUME NEW pc \in JobPcs PROVE NoJob(pc) \in JobStates
  BY DEF NoJob, JobStates, Verdicts

LEMMA MergeType ==
    ASSUME NEW m \in Row, NEW w \in WaIds \cup {NoWa}, NEW v \in Verdicts
    PROVE  [m EXCEPT !.wa = w, !.analysis = v] \in Row
  BY DEF Row, Verdicts

\* What Return leaves in job.
LEMMA ReturnControl ==
    ASSUME WorkerTypes, JobControl, WorkerControl, NEW p \in Runners, job[p].pc \in Storing,
           Return(p), UNCHANGED <<workers, batch, todo>>
    PROVE  job' \in [Runners -> JobStates] /\ JobControl' /\ WorkerControl'
<1> DEFINE pc == IF p \in Slots THEN IF batch[p] = <<>> THEN "pop" ELSE "analyze"
                                ELSE IF todo[p] = {} THEN "idle" ELSE "direct"
<1>1. pc \in JobPcs /\ pc \notin Storing
  BY DEF JobPcs, Storing
<1>2. job' = [job EXCEPT ![p] = NoJob(pc)]
  BY DEF Return
<1>3. job' \in [Runners -> JobStates]
  BY <1>1, <1>2, NoJobType DEF WorkerTypes
<1>4. job'[p].pc = pc /\ job'[p].id = NoRowId
  BY <1>2 DEF NoJob, WorkerTypes
<1>5. \A q \in Runners \ {p} : job'[q] = job[q]
  BY <1>2 DEF WorkerTypes
<1>6. JobControl'
  BY <1>1, <1>4, <1>5 DEF JobControl, Runners
<1>7. WorkerControl'
  <2> SUFFICES ASSUME NEW s \in Slots
               PROVE  /\ job'[s].pc = "off" <=> s \notin workers
                      /\ s \notin workers => batch[s] = <<>>
                      /\ job'[s].pc = "analyze" => batch[s] # <<>>
    BY DEF WorkerControl
  <2>1. CASE s = p
    BY <1>4, <2>1 DEF WorkerControl, Storing
  <2>2. CASE s # p
    BY <1>5, <2>2 DEF WorkerControl, Runners
  <2> QED BY <2>1, <2>2
<1> QED BY <1>3, <1>6, <1>7

\* A goroutine that only moves on within StoreAnalysis.
LEMMA MoveControl ==
    ASSUME WorkerTypes, JobControl, WorkerControl, NEW p \in Runners, job[p].pc \in Storing,
           NEW pc \in Storing, NEW r \in WaIds \cup {NoWa},
           job' = [job EXCEPT ![p].pc = pc, ![p].read = r],
           UNCHANGED <<workers, batch>>
    PROVE  job' \in [Runners -> JobStates] /\ JobControl' /\ WorkerControl'
<1>0. /\ job[p] \in JobStates
      /\ pc \in JobPcs
      /\ job' = [job EXCEPT ![p] = [job[p] EXCEPT !.pc = pc, !.read = r]]
  BY DEF WorkerTypes, JobPcs, Storing
<1>1. job' \in [Runners -> JobStates]
  <2>1. [job[p] EXCEPT !.pc = pc, !.read = r] \in JobStates
    BY <1>0 DEF JobStates
  <2> QED BY <1>0, <2>1 DEF WorkerTypes
<1>2. job'[p].pc = pc /\ job'[p].id = job[p].id
  BY DEF WorkerTypes, JobStates
<1>3. \A q \in Runners \ {p} : job'[q] = job[q]
  BY DEF WorkerTypes
<1>4. JobControl'
  BY <1>2, <1>3 DEF JobControl, Runners
<1>5. WorkerControl'
  BY <1>2, <1>3 DEF WorkerControl, Runners, Storing
<1> QED BY <1>1, <1>4, <1>5

\* A goroutine that begins StoreAnalysis.
LEMMA BeginControl ==
    ASSUME WorkerTypes, JobControl, WorkerControl, NEW p \in Runners, NEW id \in Ids,
           NEW v \in Verdicts, p \in Slots => p \in workers,
           job' = [job EXCEPT ![p] = [pc |-> "read", id |-> id, verdict |-> v, read |-> NoWa]],
           workers' = workers, \A s \in Slots \ {p} : batch'[s] = batch[s]
    PROVE  job' \in [Runners -> JobStates] /\ JobControl' /\ WorkerControl'
<1>1. job' \in [Runners -> JobStates]
  BY DEF WorkerTypes, JobStates, JobPcs
<1>2. job'[p].pc = "read" /\ job'[p].id = id
  BY DEF WorkerTypes
<1>3. \A q \in Runners \ {p} : job'[q] = job[q]
  BY DEF WorkerTypes
<1>4. JobControl'
  BY <1>2, <1>3 DEF JobControl, Runners, Storing
<1>5. WorkerControl'
  BY <1>2, <1>3 DEF WorkerControl, Runners
<1> QED BY <1>1, <1>4, <1>5

\* EnsureTenant, called by a request that goes on with j.
LEMMA EnsureControl ==
    ASSUME WorkerTypes, JobControl, WorkerControl, NEW q \in Requests, NEW pc \in {"enqueue"},
           EnsureTenant([job EXCEPT ![q] = NoJob(pc)]), batch' = batch, workers \subseteq Slots
    PROVE  /\ job' \in [Runners -> JobStates] /\ JobControl' /\ WorkerControl'
           /\ workers' \subseteq Slots
<1> DEFINE j == [job EXCEPT ![q] = NoJob(pc)]
<1>1. /\ j \in [Runners -> JobStates] /\ j[q] = NoJob(pc)
      /\ \A p \in Runners \ {q} : j[p] = job[p]
  BY NoJobType DEF WorkerTypes, Runners, JobPcs
<1>2. CASE workers' = workers /\ job' = j
  BY <1>1, <1>2 DEF JobControl, WorkerControl, NoJob, Runners, Storing
<1>3. ASSUME NEW s \in Slots, startWorker(s), workers' = workers \cup {s},
             job' = [j EXCEPT ![s] = NoJob("pop")]
      PROVE  /\ job' \in [Runners -> JobStates] /\ JobControl' /\ WorkerControl'
             /\ workers' \subseteq Slots
  <2>1. /\ job' \in [Runners -> JobStates] /\ job'[s] = NoJob("pop") /\ job'[q] = NoJob(pc)
        /\ \A p \in Runners \ {q, s} : job'[p] = job[p]
    BY <1>1, <1>3, NoJobType DEF Runners, JobPcs
  <2>2. JobControl'
    BY <2>1 DEF JobControl, NoJob, Runners, Storing
  <2>3. WorkerControl'
    BY <1>3, <2>1 DEF WorkerControl, NoJob, Runners, startWorker
  <2> QED BY <1>3, <2>1, <2>2, <2>3
<1> QED BY <1>2, <1>3 DEF EnsureTenant

\* A step of a worker or of a request keeps types and control.
LEMMA WorkerStepControl ==
    ASSUME TypeOK, Control, WorkerNext, UNCHANGED <<redis, syncVars, crashes>>
    PROVE  TypeOK' /\ Control'
<1> USE DEF syncVars, storeVars
<1>0. SyncTypeOK' /\ HandlerControl' /\ redis' \in {"yes", "no"} /\ crashes' \in 0 .. MaxCrashes
  BY DEF TypeOK, Control, StoreTypeOK, SyncTypeOK, HandlerControl
<1>a. /\ WorkerTypes /\ JobControl /\ WorkerControl
      /\ StoreTypeOK /\ workers \subseteq Slots /\ served \in Nat /\ blind \subseteq Ids
      /\ \A s \in Slots : Len(batch[s]) <= BatchSize
  BY TypesOf DEF TypeOK, Control, WorkerTypeOK
<1> DEFINE Goal == /\ WorkerTypes' /\ JobControl' /\ WorkerControl'
                   /\ StoreTypeOK' /\ workers' \subseteq Slots /\ served' \in Nat /\ blind' \subseteq Ids
                   /\ \A s \in Slots : Len(batch'[s]) <= BatchSize
<1> SUFFICES Goal
  BY <1>0 DEF TypeOK, Control, WorkerTypeOK, WorkerTypes, JobStates, JobPcs, Item
<1> HIDE DEF Goal
<1>1. ASSUME NEW q \in Requests, NEW S \in SUBSET Stored, BatchAnalyze(q, S) PROVE Goal
  <2>1. todo' \in [Requests -> SUBSET Ids]
    BY <1>a, <1>1 DEF BatchAnalyze, WorkerTypes, Stored
  <2>2. job' \in [Runners -> JobStates] /\ JobControl' /\ WorkerControl' /\ workers' \subseteq Slots
    <3>1. CASE redis = "yes"
      BY <1>a, <1>1, <3>1, EnsureControl DEF BatchAnalyze
    <3>2. CASE redis # "yes"
      <4>1. job' = [job EXCEPT ![q] = NoJob("direct")] /\ workers' = workers /\ batch' = batch
        BY <1>1, <3>2 DEF BatchAnalyze
      <4>2. /\ job' \in [Runners -> JobStates] /\ job'[q] = NoJob("direct")
            /\ \A p \in Runners \ {q} : job'[p] = job[p]
        BY <1>a, <4>1, NoJobType DEF WorkerTypes, Runners, JobPcs
      <4> QED BY <1>a, <4>1, <4>2 DEF JobControl, WorkerControl, NoJob, Runners, Storing
    <3> QED BY <3>1, <3>2
  <2> QED BY <1>a, <1>1, <2>1, <2>2 DEF BatchAnalyze, Goal, WorkerTypes, StoreTypeOK
<1>2. ASSUME NEW q \in Requests, NEW id \in Stored, BatchEnqueue(q, id) \/ BatchEnqueueFails(q, id)
      PROVE  Goal
  <2>1. AfterEnqueue(q, id) /\ UNCHANGED <<workers, batch, served, blind, messages, important, lastAt, lost>>
    BY <1>2 DEF BatchEnqueue, BatchEnqueueFails
  <2>2. todo' \in [Requests -> SUBSET Ids]
    BY <1>a, <2>1 DEF AfterEnqueue, WorkerTypes
  <2>3. /\ job' \in [Runners -> JobStates]
        /\ \A p \in Runners \ {q} : job'[p] = job[p]
        /\ job'[q] = job[q] \/ job'[q] = NoJob("idle")
    BY <1>a, <2>1, NoJobType DEF AfterEnqueue, WorkerTypes, Runners, JobPcs
  <2>4. JobControl' /\ WorkerControl'
    BY <1>a, <2>1, <2>3 DEF JobControl, WorkerControl, NoJob, Runners, Storing
  <2>5. queue' \in Seq(Item) /\ pushed' \in Nat /\ faults' \in 0 .. MaxFaults
    <3>1. CASE BatchEnqueue(q, id)
      BY <1>a, <3>1, EnqueueTypes DEF BatchEnqueue, WorkerTypes, StoreTypeOK, Stored
    <3>2. CASE BatchEnqueueFails(q, id)
      BY <1>a, <3>2 DEF BatchEnqueueFails, Fail, WorkerTypes, StoreTypeOK
    <3> QED BY <1>2, <3>1, <3>2
  <2>6. StoreTypeOK'
    BY <1>0, <1>a, <2>1, <2>5 DEF StoreTypeOK, Item
  <2> QED BY <1>a, <2>1, <2>2, <2>3, <2>4, <2>5, <2>6 DEF Goal, WorkerTypes
<1>3. ASSUME NEW q \in Requests, NEW id \in Stored, NEW v \in Verdicts,
             BatchDirect(q, id, v) \/ AnalyzeMessage(q, id, v)
      PROVE  Goal
  <2>1. /\ job' = [job EXCEPT ![q] = [pc |-> "read", id |-> id, verdict |-> v, read |-> NoWa]]
        /\ UNCHANGED <<workers, batch, served, blind, storeVars>>
    BY <1>3 DEF BatchDirect, AnalyzeMessage
  <2>2. todo' \in [Requests -> SUBSET Ids]
    BY <1>a, <1>3 DEF BatchDirect, AnalyzeMessage, WorkerTypes
  <2>3. job' \in [Runners -> JobStates] /\ JobControl' /\ WorkerControl'
    BY <1>a, <2>1, BeginControl DEF Stored, Runners
  <2> QED BY <1>0, <1>a, <2>1, <2>2, <2>3 DEF Goal, WorkerTypes, StoreTypeOK
<1>4. ASSUME NEW s \in Slots, Pop(s) PROVE Goal
  <2>1. Head(queue) \in Item /\ Tail(queue) \in Seq(Item)
    BY <1>a, <1>4, HeadTailProperties DEF Pop, WorkerTypes
  <2>2. /\ Append(batch[s], Head(queue)) \in Seq(Item)
        /\ Len(Append(batch[s], Head(queue))) = Len(batch[s]) + 1
        /\ Append(batch[s], Head(queue)) # <<>>
    BY <1>a, <2>1, AppendProperties DEF WorkerTypes
  <2>3. /\ batch' \in [Slots -> Seq(Item)] /\ batch'[s] = Append(batch[s], Head(queue))
        /\ \A t \in Slots \ {s} : batch'[t] = batch[t]
    BY <1>a, <1>4, <2>2 DEF Pop, WorkerTypes
  <2>4. \A t \in Slots : Len(batch'[t]) <= BatchSize
    <3>1. Len(batch[s]) \in Nat
      BY <1>a, LenProperties DEF WorkerTypes
    <3> QED BY <1>a, <1>4, <2>2, <2>3, <3>1 DEF Pop, roomInBatch
  <2>5. WorkerControl'
    BY <1>a, <1>4, <2>2, <2>3 DEF Pop, WorkerControl
  <2> QED BY <1>0, <1>a, <1>4, <2>1, <2>3, <2>4, <2>5
        DEF Pop, Goal, WorkerTypes, StoreTypeOK, JobControl, Item
<1>5. ASSUME NEW s \in Slots, PopUnanswered(s) PROVE Goal
  <2>1. Head(queue) \in Item /\ Tail(queue) \in Seq(Item)
    BY <1>a, <1>5, HeadTailProperties DEF PopUnanswered, WorkerTypes
  <2>2. lost' \subseteq Ids
    BY <1>a, <1>5, <2>1 DEF PopUnanswered, StoreTypeOK, Item
  <2> QED BY <1>0, <1>a, <1>5, <2>1, <2>2
        DEF PopUnanswered, Fail, Goal, WorkerTypes, StoreTypeOK, JobControl, WorkerControl, Item
<1>6. ASSUME NEW s \in Slots, PopFails(s) PROVE Goal
  <2>1. batch[s] \in Seq(Item) /\ IdsIn(batch[s]) \subseteq Ids
    <3>1. batch[s] \in Seq(Item)
      BY <1>a DEF WorkerTypes
    <3>2. \A i \in DOMAIN batch[s] : batch[s][i] \in Item
      BY <3>1
    <3> QED BY <3>1, <3>2 DEF IdsIn, Item
  <2>2. /\ batch' \in [Slots -> Seq(Item)] /\ batch'[s] = <<>> /\ Len(batch'[s]) = 0
        /\ \A t \in Slots \ {s} : batch'[t] = batch[t]
    BY <1>a, <1>6 DEF PopFails, WorkerTypes
  <2>3. \A t \in Slots : Len(batch'[t]) <= BatchSize
    BY <1>a, <2>2
  <2>4. WorkerControl'
    BY <1>a, <1>6, <2>2 DEF PopFails, WorkerControl
  <2> QED BY <1>0, <1>a, <1>6, <2>1, <2>2, <2>3, <2>4
        DEF PopFails, Fail, Goal, WorkerTypes, StoreTypeOK, JobControl
<1>7. ASSUME NEW s \in Slots, BatchReady(s) PROVE Goal
  <2>1. /\ job' \in [Runners -> JobStates] /\ job'[s].pc = "analyze" /\ job'[s].id = job[s].id
        /\ \A p \in Runners \ {s} : job'[p] = job[p]
    BY <1>a, <1>7, ZenonT(40) DEF BatchReady, WorkerTypes, JobStates, JobPcs, Runners
  <2>2. JobControl'
    BY <1>a, <1>7, <2>1 DEF BatchReady, JobControl, Runners, Storing
  <2>3. WorkerControl'
    BY <1>a, <1>7, <2>1 DEF BatchReady, WorkerControl, Runners
  <2> QED BY <1>0, <1>a, <1>7, <2>1, <2>2, <2>3 DEF BatchReady, Goal, WorkerTypes, StoreTypeOK
<1>8. ASSUME NEW p \in Runners, StoreRead(p) PROVE Goal
  <2>1. job[p].pc \in Storing /\ "update" \in Storing /\ UNCHANGED <<workers, batch>>
    BY <1>8 DEF StoreRead, Storing
  <2>2. readMetadata(job[p].id) \in WaIds \cup {NoWa}
    BY <1>a, <2>1 DEF readMetadata, JobControl, StoreTypeOK, Row
  <2>3. job' \in [Runners -> JobStates] /\ JobControl' /\ WorkerControl'
    BY <1>a, <1>8, <2>1, <2>2, MoveControl DEF StoreRead
  <2> QED BY <1>0, <1>a, <1>8, <2>3 DEF StoreRead, Goal, WorkerTypes, StoreTypeOK
<1>9. ASSUME NEW p \in Runners, StoreReadFails(p) PROVE Goal
  <2>1. job[p].pc \in Storing /\ "update" \in Storing /\ UNCHANGED <<workers, batch>>
    BY <1>9 DEF StoreReadFails, Storing
  <2>2. job[p].read \in WaIds \cup {NoWa} /\ job[p].id \in Ids
    BY <1>a, <2>1 DEF WorkerTypes, JobStates, JobControl
  <2>3. job' = [job EXCEPT ![p].pc = "update", ![p].read = job[p].read]
    BY <1>a, <1>9 DEF StoreReadFails, WorkerTypes, JobStates
  <2>4. job' \in [Runners -> JobStates] /\ JobControl' /\ WorkerControl'
    BY <1>a, <2>1, <2>2, <2>3, MoveControl
  <2> QED BY <1>0, <1>a, <1>9, <2>2, <2>4, SMTT(30) DEF StoreReadFails, Fail, Goal, WorkerTypes, StoreTypeOK
<1>10. ASSUME NEW p \in Runners, StoreUpdate(p) PROVE Goal
  <2>1. /\ job[p].pc \in Storing /\ "mark" \in Storing /\ UNCHANGED <<workers, batch, todo>>
        /\ job[p].id \in Ids /\ job[p].read \in WaIds \cup {NoWa} /\ job[p].verdict \in Verdicts
    BY <1>a, <1>10 DEF StoreUpdate, Storing, WorkerTypes, JobStates, JobControl
  <2>2. messages' \in [Ids -> Row]
    <3>1. messages \in [Ids -> Row]
      BY <1>a DEF StoreTypeOK
    <3>2. [messages[job[p].id] EXCEPT !.wa = job[p].read, !.analysis = job[p].verdict] \in Row
      BY <2>1, <3>1, MergeType
    <3>3. messages' = [messages EXCEPT ![job[p].id] = [messages[job[p].id] EXCEPT !.wa = job[p].read,
                                                             !.analysis = job[p].verdict]]
      BY <1>10, <2>1, <3>1 DEF StoreUpdate
    <3> QED BY <2>1, <3>1, <3>2, <3>3
  <2>3. job' \in [Runners -> JobStates] /\ JobControl' /\ WorkerControl'
    <3>1. CASE job[p].verdict = "important"
      <4>1. job' = [job EXCEPT ![p].pc = "mark", ![p].read = job[p].read]
        BY <1>a, <1>10, <3>1 DEF StoreUpdate, WorkerTypes, JobStates
      <4> QED BY <1>a, <2>1, <4>1, MoveControl
    <3>2. CASE job[p].verdict # "important"
      BY <1>a, <1>10, <2>1, <3>2, ReturnControl DEF StoreUpdate
    <3> QED BY <3>1, <3>2
  <2> QED BY <1>0, <1>a, <1>10, <2>2, <2>3 DEF StoreUpdate, Goal, WorkerTypes, StoreTypeOK
<1>11. ASSUME NEW p \in Runners, StoreMark(p) \/ StoreFails(p) PROVE Goal
  <2>1. job[p].pc \in Storing /\ UNCHANGED <<workers, batch, todo>> /\ Return(p)
    BY <1>11 DEF StoreMark, StoreFails, Storing
  <2>2. job[p].id \in Ids
    BY <1>a, <2>1 DEF JobControl
  <2>3. job' \in [Runners -> JobStates] /\ JobControl' /\ WorkerControl'
    BY <1>a, <2>1, ReturnControl
  <2> QED BY <1>0, <1>a, <1>11, <2>2, <2>3 DEF StoreMark, StoreFails, Fail, Goal, WorkerTypes, StoreTypeOK
<1>12. ASSUME NEW s \in Slots, NEW v \in Verdicts, Analyze(s, v) PROVE Goal
  <2>1. batch[s] \in Seq(Item) /\ batch[s] # <<>> /\ s \in workers
    BY <1>a, <1>12 DEF Analyze, WorkerTypes, WorkerControl
  <2>2. /\ Head(batch[s]) \in Item /\ Tail(batch[s]) \in Seq(Item)
        /\ Len(batch[s]) \in Nat /\ Len(Tail(batch[s])) = Len(batch[s]) - 1
    BY <2>1, HeadTailProperties, LenProperties
  <2>3. Head(batch[s]).id \in Ids /\ Head(batch[s]).n \in Nat
    BY <2>2 DEF Item
  <2>4. /\ batch' \in [Slots -> Seq(Item)] /\ batch'[s] = Tail(batch[s])
        /\ \A t \in Slots \ {s} : batch'[t] = batch[t]
    BY <1>a, <1>12, <2>2 DEF Analyze, WorkerTypes
  <2>5. \A t \in Slots : Len(batch'[t]) <= BatchSize
    BY <1>a, <2>2, <2>4, SMTT(30)
  <2>6. job' \in [Runners -> JobStates] /\ JobControl' /\ WorkerControl'
    BY <1>a, <1>12, <2>1, <2>3, <2>4, BeginControl DEF Analyze, Runners
  <2> QED BY <1>0, <1>a, <1>12, <2>3, <2>4, <2>5, <2>6 DEF Analyze, Goal, WorkerTypes, StoreTypeOK
<1> QED BY <1>1, <1>2, <1>3, <1>4, <1>5, <1>6, <1>7, <1>8, <1>9, <1>10, <1>11, <1>12
     DEF WorkerNext, QueueNext

LEMMA CrashControl == TypeOK /\ Control /\ Crash /\ UNCHANGED redis => TypeOK' /\ Control'
<1> SUFFICES ASSUME TypeOK, Control, Crash, UNCHANGED redis PROVE TypeOK' /\ Control'
  OBVIOUS
<1>1. SyncTypeOK' /\ HandlerControl'
  BY DEF TypeOK, Crash, SyncCrash, SyncTypeOK, HandlerControl, Resting, Away
<1>2. job' \in [Runners -> JobStates]
  BY NoJobType DEF Crash, WorkerCrash, JobPcs
<1>3. WorkerTypeOK'
  BY <1>2 DEF TypeOK, Crash, WorkerCrash, WorkerTypeOK, JobStates, JobPcs
<1>4. JobControl' /\ WorkerControl'
  BY DEF Crash, WorkerCrash, JobControl, WorkerControl, NoJob, Runners, Storing
<1>5. lost' \subseteq Ids
  <2>1. \A p \in Runners : InHand(p) \subseteq Ids
    <3>1. \A s \in Slots : \A i \in DOMAIN batch[s] : batch[s][i] \in Item
      BY TypesOf DEF WorkerTypes
    <3> QED BY <3>1 DEF InHand, IdsIn, Item
  <2>2. lost \subseteq Ids
    BY DEF TypeOK, StoreTypeOK
  <2>3. UNION {InHand(p) : p \in Runners} \subseteq Ids
    BY <2>1
  <2> QED BY <2>2, <2>3 DEF Crash
<1>6. StoreTypeOK' /\ crashes' \in 0 .. MaxCrashes
  BY <1>5 DEF TypeOK, StoreTypeOK, Crash
<1> QED BY <1>1, <1>3, <1>4, <1>6 DEF TypeOK, Control

LEMMA InitControl == Init => TypeOK /\ Control
<1> SUFFICES ASSUME Init PROVE TypeOK /\ Control
  OBVIOUS
<1>1. StoreTypeOK /\ SyncTypeOK /\ HandlerControl /\ crashes \in 0 .. MaxCrashes
  BY DEF Init, StoreInit, SyncInit, StoreTypeOK, SyncTypeOK, HandlerControl, Resting, Away, Row, NoRow
<1>2. job \in [Runners -> JobStates]
  BY NoJobType DEF Init, WorkerInit, JobPcs
<1>3. WorkerTypeOK
  BY <1>2 DEF Init, WorkerInit, WorkerTypeOK, JobStates, JobPcs
<1>4. JobControl /\ WorkerControl
  BY DEF Init, WorkerInit, JobControl, WorkerControl, NoJob, Runners, Storing
<1> QED BY <1>1, <1>3, <1>4 DEF TypeOK, Control

LEMMA NextControl == TypeOK /\ Control /\ [Next]_vars => TypeOK' /\ Control'
<1> SUFFICES ASSUME TypeOK, Control, [Next]_vars PROVE TypeOK' /\ Control'
  OBVIOUS
<1>1. CASE UNCHANGED vars
  BY <1>1 DEF vars, storeVars, syncVars, workerVars, TypeOK, StoreTypeOK, SyncTypeOK, WorkerTypeOK, Control,
              HandlerControl, JobControl, WorkerControl
<1>2. CASE SyncNext /\ UNCHANGED <<workerVars, crashes>> /\ UNCHANGED redis
  BY <1>2, SyncControl
<1>3. CASE WorkerNext /\ UNCHANGED <<syncVars, crashes>> /\ UNCHANGED redis
  BY <1>3, WorkerStepControl
<1>4. CASE Crash /\ UNCHANGED redis
  BY <1>4, CrashControl
<1> QED BY <1>1, <1>2, <1>3, <1>4 DEF Next

LEMMA ControlHolds == Spec => [](TypeOK /\ Control)
<1>1. Init => TypeOK /\ Control
  BY InitControl
<1>2. TypeOK /\ Control /\ [Next]_vars => (TypeOK /\ Control)'
  BY NextControl
<1> QED BY <1>1, <1>2, PTL DEF Spec

\* The variables of the pipeline keep their types, however handlers, agents,
\* workers, requests and restarts interleave: in particular no StoreAnalysis runs
\* for a row that is none, and no batch outgrows BatchSize.
THEOREM TypeCorrect == Spec => []TypeOK
  BY ControlHolds, PTL
----------------------------------------------------------------------------
\* Only the INSERTs of syncer and agents and the UPDATE of StoreAnalysis write the
\* messages table.
LEMMA Writers ==
    ASSUME TypeOK, Control, [Next]_vars
    PROVE  \/ messages' = messages
           \/ \E id \in Ids, o, w \in WaIds \cup {NoWa}, by \in {"sync", "agent"} : InsertRow(id, by, o, w)
           \/ \E p \in Runners : StoreUpdate(p)
<1> USE DEF storeVars
<1>1. CASE UNCHANGED vars
  BY <1>1 DEF vars
<1>2. CASE SyncNext
  <2>1. \A h \in Handlers : InsertMessage(h) \/ InsertUnanswered(h) =>
            \E id \in Ids : InsertRow(id, "sync", handler[h].wa, handler[h].wa)
    BY DEF InsertMessage, InsertUnanswered
  <2>2. \A a \in Agents : AgentInsert(a) => \E id \in Ids : InsertRow(id, "agent", agent[a].wa, NoWa)
    BY DEF AgentInsert
  <2>3. /\ \A h \in Handlers : handler[h].wa \in WaIds \cup {NoWa}
        /\ \A a \in Agents : agent[a].wa \in WaIds \cup {NoWa}
    BY DEF TypeOK, SyncTypeOK
  <2> QED BY <1>2, <2>1, <2>2, <2>3
        DEF SyncNext, Deliver, UpsertConversation, UpsertFails, CheckMessage, InsertFails, EnqueueMessage,
            EnqueueFails, SyncContact, ReplyStart, ForwardStart, ReplySend, AgentTouch, AgentFails
<1>3. CASE WorkerNext
  BY <1>3 DEF WorkerNext, QueueNext, BatchAnalyze, BatchEnqueue, BatchEnqueueFails, BatchDirect,
              AnalyzeMessage, Pop, PopUnanswered, PopFails, BatchReady, StoreRead, StoreReadFails, StoreMark,
              StoreFails, Analyze
<1>4. CASE Crash
  BY <1>4 DEF Crash
<1> QED BY <1>1, <1>2, <1>3, <1>4 DEF Next

\* A row stays, keeps its author and its message, and is never without an
\* analysis again.
LEMMA RowsStay ==
    ASSUME TypeOK, Control, [Next]_vars
    PROVE  /\ Stored \subseteq Stored'
           /\ \A id \in Stored : /\ messages'[id].by = messages[id].by
                                 /\ messages'[id].origin = messages[id].origin
                                 /\ messages[id].analysis # "none" => messages'[id].analysis # "none"
<1>0. messages \in [Ids -> Row]
  BY DEF TypeOK, StoreTypeOK
<1>1. CASE messages' = messages
  BY <1>1 DEF Stored
<1>2. ASSUME NEW id \in Ids, NEW o, NEW w, NEW by \in {"sync", "agent"}, InsertRow(id, by, o, w)
      PROVE  /\ \A i \in Stored : messages'[i] = messages[i]
             /\ Stored \subseteq Stored'
  BY <1>0, <1>2 DEF InsertRow, Stored
<1>3. ASSUME NEW p \in Runners, StoreUpdate(p)
      PROVE  /\ \A i \in Ids : /\ messages'[i].by = messages[i].by
                               /\ messages'[i].origin = messages[i].origin
                               /\ messages[i].analysis # "none" => messages'[i].analysis # "none"
             /\ Stored \subseteq Stored'
  <2>1. job[p].id \in Ids /\ job[p].verdict # "none"
    BY <1>3, TypesOf DEF StoreUpdate, Control, JobControl, Storing, WorkerTypes, JobStates, Verdicts
  <2>2. \A i \in Ids \ {job[p].id} : messages'[i] = messages[i]
    BY <1>0, <1>3 DEF StoreUpdate
  <2>3. /\ messages'[job[p].id].by = messages[job[p].id].by
        /\ messages'[job[p].id].origin = messages[job[p].id].origin
        /\ messages'[job[p].id].analysis = job[p].verdict
    BY <1>0, <1>3, <2>1 DEF StoreUpdate, Row
  <2> QED BY <2>1, <2>2, <2>3 DEF Stored
<1> QED BY <1>1, <1>2, <1>3, Writers DEF Stored
----------------------------------------------------------------------------
\* The rows that memory, Redis and the histories refer to are stored, and a
\* message is only listed once its analysis is.
KnownHandlers == \A h \in Handlers : handler[h].id \in Ids => handler[h].id \in Stored
KnownItems ==
    /\ \A i \in DOMAIN queue : queue[i].id \in Stored
    /\ \A s \in Slots : \A i \in DOMAIN batch[s] : batch[s][i].id \in Stored
KnownJobs ==
    \A p \in Runners : /\ job[p].id \in Ids => job[p].id \in Stored
                       /\ job[p].pc = "mark" => messages[job[p].id].analysis # "none"
KnownRows ==
    /\ lost \subseteq Stored /\ blind \subseteq Stored
    /\ \A id \in Ids : messages[id].analysis # "none" => id \in Stored

Known == KnownHandlers /\ KnownItems /\ KnownJobs /\ KnownRows

\* Between steps of Next, what is known to be stored stays so.
LEMMA AnalysisOfStored ==
    ASSUME TypeOK, Control, Known, [Next]_vars
    PROVE  \A id \in Ids : messages'[id].analysis # "none" => id \in Stored'
<1>0. messages \in [Ids -> Row] /\ Stored \subseteq Stored'
  BY RowsStay DEF TypeOK, StoreTypeOK
<1>1. CASE messages' = messages
  BY <1>0, <1>1 DEF Known, KnownRows
<1>2. ASSUME NEW id \in Ids, NEW o, NEW w, NEW by \in {"sync", "agent"}, InsertRow(id, by, o, w)
      PROVE  \A i \in Ids : messages'[i].analysis # "none" => i \in Stored'
  BY <1>0, <1>2 DEF InsertRow, Known, KnownRows
<1>3. ASSUME NEW p \in Runners, StoreUpdate(p)
      PROVE  \A i \in Ids : messages'[i].analysis # "none" => i \in Stored'
  <2>1. job[p].id \in Ids
    BY <1>3 DEF StoreUpdate, Control, JobControl, Storing
  <2>2. \A i \in Ids \ {job[p].id} : messages'[i] = messages[i]
    BY <1>0, <1>3 DEF StoreUpdate
  <2> QED BY <1>0, <2>1, <2>2 DEF Known, KnownRows, KnownJobs
<1> QED BY <1>1, <1>2, <1>3, Writers

LEMMA EnqueueKnown ==
    ASSUME TypeOK, KnownItems, NEW id \in Stored, Enqueue(id), Stored \subseteq Stored'
    PROVE  \A i \in DOMAIN queue' : queue'[i].id \in Stored'
<1>1. queue \in Seq(Item) /\ pushed \in Nat /\ [id |-> id, n |-> pushed + 1] \in Item
  BY TypesOf DEF TypeOK, StoreTypeOK, WorkerTypes, Item, Stored
<1>2. CASE redis = "yes"
  <2>1. queue' = Append(queue, [id |-> id, n |-> pushed + 1])
    BY <1>2 DEF Enqueue
  <2> QED BY <1>1, <2>1 DEF KnownItems
<1>3. CASE redis # "yes"
  BY <1>3 DEF Enqueue, KnownItems
<1> QED BY <1>2, <1>3

\* Taking items away leaves known ones.
LEMMA TailKnown ==
    ASSUME NEW items \in Seq(Item), NEW S, items # <<>>, \A i \in DOMAIN items : items[i].id \in S
    PROVE  /\ \A i \in DOMAIN Tail(items) : Tail(items)[i].id \in S
           /\ Head(items).id \in S
  BY HeadTailProperties

LEMMA SyncKnown ==
    ASSUME TypeOK, Control, Known, SyncNext, UNCHANGED <<redis, workerVars, crashes>>
    PROVE  Known'
<1> USE DEF storeVars
<1>0. Next
  BY DEF Next
<1>a. Stored \subseteq Stored' /\ handler \in [Handlers -> HandlerStates]
  BY <1>0, RowsStay DEF TypeOK, SyncTypeOK, HandlerStates, HandlerPcs
<1>b. KnownJobs'
  BY <1>0, <1>a, RowsStay DEF Known, KnownJobs, workerVars, Control, JobControl, Storing
<1>c. \A id \in Ids : messages'[id].analysis # "none" => id \in Stored'
  BY <1>0, AnalysisOfStored
<1>d. blind' \subseteq Stored' /\ \A s \in Slots : \A i \in DOMAIN batch'[s] : batch'[s][i].id \in Stored'
  BY <1>a DEF Known, KnownItems, KnownRows, workerVars
<1>1. KnownHandlers'
  <2>1. ASSUME NEW h \in Handlers, CheckMessage(h) PROVE KnownHandlers'
    <3>1. CASE \E id \in knownRows(handler[h].wa) : handler' = [handler EXCEPT ![h].pc = "enqueue", ![h].id = id]
      BY <1>a, <3>1 DEF Known, KnownHandlers, knownRows, HandlerStates
    <3>2. CASE handler' = [handler EXCEPT ![h].pc = "insert"]
      BY <1>a, <3>2 DEF Known, KnownHandlers, HandlerStates
    <3> QED BY <2>1, <3>1, <3>2 DEF CheckMessage
  <2>2. ASSUME NEW h \in Handlers, InsertMessage(h) PROVE KnownHandlers'
    <3>1. PICK id \in Ids : /\ InsertRow(id, "sync", handler[h].wa, handler[h].wa)
                            /\ handler' = [handler EXCEPT ![h].pc = "enqueue", ![h].id = id]
      BY <2>2 DEF InsertMessage
    <3>2. id \in Stored'
      BY <3>1 DEF InsertRow, Stored, TypeOK, StoreTypeOK
    <3> QED BY <1>a, <3>1, <3>2 DEF Known, KnownHandlers, HandlerStates
  <2>3. ASSUME NEW h \in Handlers, UpsertConversation(h) PROVE KnownHandlers'
    BY <1>a, <2>3 DEF UpsertConversation, Known, KnownHandlers, HandlerStates
  <2>4. ASSUME NEW h \in Handlers,
               \/ \E w \in WaIds : Deliver(h, w)
               \/ UpsertFails(h) \/ InsertFails(h) \/ InsertUnanswered(h)
               \/ EnqueueMessage(h) \/ EnqueueFails(h)
        PROVE  KnownHandlers'
    <3>1. /\ handler'[h].id = NoRowId
          /\ \A g \in Handlers \ {h} : handler'[g] = handler[g]
      BY <1>a, <2>4 DEF Deliver, UpsertFails, InsertFails, InsertUnanswered, EnqueueMessage, EnqueueFails, Resting
    <3> QED BY <1>a, <3>1 DEF Known, KnownHandlers
  <2>5. CASE handler' = handler
    BY <1>a, <2>5 DEF Known, KnownHandlers
  <2> QED BY <2>1, <2>2, <2>3, <2>4, <2>5
        DEF SyncNext, SyncContact, ReplyStart, ForwardStart, ReplySend, AgentInsert, AgentTouch, AgentFails,
            syncVars
<1>2. \A i \in DOMAIN queue' : queue'[i].id \in Stored'
  <2>1. ASSUME NEW h \in Handlers, EnqueueMessage(h) PROVE \A i \in DOMAIN queue' : queue'[i].id \in Stored'
    <3>1. handler[h].id \in Stored
      BY <2>1 DEF EnqueueMessage, Control, HandlerControl, Known, KnownHandlers
    <3> QED BY <1>a, <2>1, <3>1, EnqueueKnown DEF EnqueueMessage, Known
  <2>2. CASE queue' = queue
    BY <1>a, <2>2 DEF Known, KnownItems
  <2> QED BY <2>1, <2>2
        DEF SyncNext, Deliver, UpsertConversation, UpsertFails, CheckMessage, InsertMessage, InsertFails,
            InsertUnanswered, EnqueueFails, SyncContact, ReplyStart, ForwardStart, ReplySend, AgentInsert,
            AgentTouch, AgentFails
<1>3. lost' \subseteq Stored'
  <2>1. ASSUME NEW h \in Handlers, EnqueueFails(h) PROVE lost' \subseteq Stored'
    <3>1. handler[h].id \in Stored
      BY <2>1 DEF EnqueueFails, Control, HandlerControl, Known, KnownHandlers
    <3> QED BY <1>a, <2>1, <3>1 DEF EnqueueFails, Known, KnownRows
  <2>2. ASSUME NEW h \in Handlers, InsertUnanswered(h) PROVE lost' \subseteq Stored'
    <3>1. PICK id \in Ids : InsertRow(id, "sync", handler[h].wa, handler[h].wa) /\ lost' = lost \cup {id}
      BY <2>2 DEF InsertUnanswered
    <3>2. id \in Stored'
      BY <3>1 DEF InsertRow, Stored, TypeOK, StoreTypeOK
    <3> QED BY <1>a, <3>1, <3>2 DEF Known, KnownRows
  <2>3. CASE lost' = lost
    BY <1>a, <2>3 DEF Known, KnownRows
  <2> QED BY <2>1, <2>2, <2>3
        DEF SyncNext, Deliver, UpsertConversation, UpsertFails, CheckMessage, InsertMessage, InsertFails,
            EnqueueMessage, SyncContact, ReplyStart, ForwardStart, ReplySend, AgentInsert, AgentTouch, AgentFails
<1> QED BY <1>b, <1>c, <1>d, <1>1, <1>2, <1>3 DEF Known, KnownItems, KnownRows

\* What Return leaves in job, as the facts about one goroutine and the others.
LEMMA ReturnLeaves ==
    ASSUME WorkerTypes, NEW p \in Runners, Return(p)
    PROVE  /\ job'[p].pc \notin Storing /\ job'[p].id = NoRowId
           /\ \A q \in Runners \ {p} : job'[q] = job[q]
  BY DEF WorkerTypes, Return, NoJob, Storing

\* What requests and workers do between two StoreAnalysis leaves alone the
\* goroutines that are in one.
QueueStep ==
    \/ \E q \in Requests, S \in SUBSET Stored : BatchAnalyze(q, S)
    \/ \E q \in Requests, id \in Stored : BatchEnqueue(q, id) \/ BatchEnqueueFails(q, id)
    \/ \E s \in Slots : Pop(s) \/ PopUnanswered(s) \/ PopFails(s) \/ BatchReady(s)

LEMMA QuietJobs ==
    ASSUME TypeOK, Control, QueueStep
    PROVE  \A p \in Runners : \/ job'[p] = job[p]
                              \/ /\ job[p].pc \notin Storing /\ job'[p].pc \notin Storing
                                 /\ job'[p].id = NoRowId
<1> USE DEF NoJob, Storing
<1>a. WorkerTypes /\ JobControl /\ WorkerControl /\ Slots \subseteq Runners /\ Requests \subseteq Runners
  BY TypesOf DEF Control, Runners
<1>1. ASSUME NEW q \in Requests, NEW S \in SUBSET Stored, BatchAnalyze(q, S), NEW p \in Runners
      PROVE  job'[p] = job[p] \/ (job[p].pc \notin Storing /\ job'[p].pc \notin Storing /\ job'[p].id = NoRowId)
  <2>1. job[q].pc \notin Storing
    BY <1>1 DEF BatchAnalyze
  <2>3. CASE redis = "yes"
    <3> DEFINE j == [job EXCEPT ![q] = NoJob("enqueue")]
    <3>1. EnsureTenant(j)
      BY <1>1, <2>3 DEF BatchAnalyze
    <3>2. CASE job' = j
      BY <1>a, <2>1, <3>2 DEF WorkerTypes
    <3>3. ASSUME NEW s \in Slots, startWorker(s), job' = [j EXCEPT ![s] = NoJob("pop")]
          PROVE  job'[p] = job[p] \/ (job[p].pc \notin Storing /\ job'[p].pc \notin Storing /\ job'[p].id = NoRowId)
      <4>1. job[s].pc = "off"
        BY <1>a, <3>3 DEF startWorker, WorkerControl
      <4> QED BY <1>a, <2>1, <3>3, <4>1 DEF WorkerTypes
    <3> QED BY <3>1, <3>2, <3>3 DEF EnsureTenant
  <2>4. CASE redis # "yes"
    BY <1>1, <1>a, <2>1, <2>4 DEF BatchAnalyze, WorkerTypes
  <2> QED BY <2>3, <2>4
<1>2. ASSUME NEW q \in Requests, NEW id \in Stored, BatchEnqueue(q, id) \/ BatchEnqueueFails(q, id),
             NEW p \in Runners
      PROVE  job'[p] = job[p] \/ (job[p].pc \notin Storing /\ job'[p].pc \notin Storing /\ job'[p].id = NoRowId)
  BY <1>a, <1>2 DEF BatchEnqueue, BatchEnqueueFails, AfterEnqueue, WorkerTypes
<1>3. ASSUME NEW s \in Slots, Pop(s) \/ PopUnanswered(s) \/ PopFails(s) \/ BatchReady(s), NEW p \in Runners
      PROVE  job'[p] = job[p] \/ (job[p].pc \notin Storing /\ job'[p].pc \notin Storing /\ job'[p].id = NoRowId)
  <2>1. CASE job' = job
    BY <2>1
  <2>2. CASE BatchReady(s)
    <3>1. /\ job[s].pc = "pop" /\ job'[s].pc = "analyze" /\ job'[s].id = job[s].id
          /\ \A r \in Runners \ {s} : job'[r] = job[r]
      BY <1>a, <2>2 DEF BatchReady, WorkerTypes, JobStates
    <3> QED BY <1>a, <3>1 DEF JobControl
  <2> QED BY <1>3, <2>1, <2>2 DEF Pop, PopUnanswered, PopFails
<1> QED BY <1>1, <1>2, <1>3 DEF QueueStep

LEMMA WorkerKnown ==
    ASSUME TypeOK, Control, Known, WorkerNext, UNCHANGED <<redis, syncVars, crashes>>
    PROVE  Known'
<1> USE DEF storeVars
<1>0. Next
  BY DEF Next
<1>a. Stored \subseteq Stored' /\ WorkerTypes
  BY <1>0, RowsStay, TypesOf
<1>b. KnownHandlers'
  BY <1>a DEF Known, KnownHandlers, syncVars
<1>c. \A id \in Ids : messages'[id].analysis # "none" => id \in Stored'
  BY <1>0, AnalysisOfStored
<1>d. \A id \in Stored : messages[id].analysis # "none" => messages'[id].analysis # "none"
  BY <1>0, RowsStay
<1>1. KnownItems'
  <2>1. ASSUME NEW q \in Requests, NEW id \in Stored, BatchEnqueue(q, id) PROVE KnownItems'
    BY <1>a, <2>1, EnqueueKnown DEF BatchEnqueue, Known, KnownItems
  <2>2. ASSUME NEW s \in Slots, Pop(s) PROVE KnownItems'
    <3>1. /\ \A i \in DOMAIN queue' : queue'[i].id \in Stored
          /\ Head(queue).id \in Stored /\ Head(queue) \in Item
      BY <1>a, <2>2, TailKnown, HeadTailProperties DEF Pop, Known, KnownItems, WorkerTypes
    <3>2. batch[s] \in Seq(Item) /\ batch'[s] = Append(batch[s], Head(queue))
          /\ \A t \in Slots \ {s} : batch'[t] = batch[t]
      BY <1>a, <2>2 DEF Pop, WorkerTypes
    <3>3. \A i \in DOMAIN batch'[s] : batch'[s][i].id \in Stored
      BY <3>1, <3>2 DEF Known, KnownItems
    <3> QED BY <1>a, <3>1, <3>2, <3>3 DEF Known, KnownItems
  <2>3. ASSUME NEW s \in Slots, PopUnanswered(s) PROVE KnownItems'
    BY <1>a, <2>3, TailKnown DEF PopUnanswered, Known, KnownItems, WorkerTypes
  <2>4. ASSUME NEW s \in Slots, PopFails(s) PROVE KnownItems'
    BY <1>a, <2>4 DEF PopFails, Known, KnownItems, WorkerTypes
  <2>5. ASSUME NEW s \in Slots, NEW v \in Verdicts, Analyze(s, v) PROVE KnownItems'
    <3>1. batch[s] \in Seq(Item) /\ batch[s] # <<>>
      BY <1>a, <2>5 DEF Analyze, WorkerTypes, Control, WorkerControl
    <3>2. \A i \in DOMAIN Tail(batch[s]) : Tail(batch[s])[i].id \in Stored
      BY <3>1, TailKnown DEF Known, KnownItems
    <3> QED BY <1>a, <2>5, <3>2 DEF Analyze, Known, KnownItems, WorkerTypes
  <2>6. CASE UNCHANGED <<queue, batch>>
    BY <1>a, <2>6 DEF Known, KnownItems
  <2> QED BY <2>1, <2>2, <2>3, <2>4, <2>5, <2>6
        DEF WorkerNext, QueueNext, BatchAnalyze, BatchEnqueueFails, BatchDirect, AnalyzeMessage, BatchReady,
            StoreRead, StoreReadFails, StoreUpdate, StoreMark, StoreFails
<1>2. lost' \subseteq Stored' /\ blind' \subseteq Stored'
  <2>1. \A p \in Runners : job[p].pc \in Storing => job[p].id \in Stored
    BY DEF Control, JobControl, Known, KnownJobs
  <2>2. ASSUME NEW s \in Slots, PopUnanswered(s) PROVE lost' \subseteq Stored' /\ blind' \subseteq Stored'
    <3>1. Head(queue).id \in Stored
      BY <1>a, <2>2, TailKnown DEF PopUnanswered, Known, KnownItems, WorkerTypes
    <3> QED BY <1>a, <2>2, <3>1 DEF PopUnanswered, Known, KnownRows
  <2>3. ASSUME NEW s \in Slots, PopFails(s) PROVE lost' \subseteq Stored' /\ blind' \subseteq Stored'
    BY <1>a, <2>3 DEF PopFails, Known, KnownRows, KnownItems, IdsIn
  <2>4. ASSUME NEW p \in Runners, StoreFails(p) \/ StoreReadFails(p)
        PROVE  lost' \subseteq Stored' /\ blind' \subseteq Stored'
    BY <1>a, <2>1, <2>4 DEF StoreFails, StoreReadFails, Storing, Known, KnownRows
  <2>5. CASE UNCHANGED <<lost, blind>>
    BY <1>a, <2>5 DEF Known, KnownRows
  <2> QED BY <2>2, <2>3, <2>4, <2>5
        DEF WorkerNext, QueueNext, BatchAnalyze, BatchEnqueue, BatchEnqueueFails, BatchDirect, AnalyzeMessage,
            Pop, BatchReady, StoreRead, StoreUpdate, StoreMark, Analyze
<1>3. KnownJobs'
  <2>1. ASSUME QueueStep PROVE KnownJobs'
    BY <1>a, <1>d, <2>1, QuietJobs DEF Known, KnownJobs, Storing, Control, JobControl
  <2>2. ASSUME NEW p \in Runners, NEW id \in Stored,
               job'[p].pc = "read" /\ job'[p].id = id, \A q \in Runners \ {p} : job'[q] = job[q]
        PROVE  KnownJobs'
    BY <1>a, <1>d, <2>2 DEF Known, KnownJobs, Storing, Control, JobControl
  <2>3. ASSUME NEW q \in Requests, NEW id \in Stored, NEW v \in Verdicts,
               BatchDirect(q, id, v) \/ AnalyzeMessage(q, id, v)
        PROVE  KnownJobs'
    <3>1. /\ q \in Runners /\ job'[q].pc = "read" /\ job'[q].id = id
          /\ \A p \in Runners \ {q} : job'[p] = job[p]
      BY <1>a, <2>3 DEF BatchDirect, AnalyzeMessage, WorkerTypes, Runners
    <3> QED BY <2>2, <3>1
  <2>4. ASSUME NEW s \in Slots, NEW v \in Verdicts, Analyze(s, v) PROVE KnownJobs'
    <3>1. /\ s \in Runners /\ job'[s].pc = "read" /\ job'[s].id = Head(batch[s]).id
          /\ \A p \in Runners \ {s} : job'[p] = job[p]
      BY <1>a, <2>4 DEF Analyze, WorkerTypes, Runners
    <3>2. Head(batch[s]).id \in Stored
      BY <1>a, <2>4, TailKnown DEF Analyze, Known, KnownItems, WorkerTypes, Control, WorkerControl
    <3> QED BY <2>2, <3>1, <3>2
  <2>5. ASSUME NEW p \in Runners, StoreRead(p) \/ StoreReadFails(p) PROVE KnownJobs'
    <3>1. /\ job'[p].pc = "update" /\ job'[p].id = job[p].id
          /\ \A q \in Runners \ {p} : job'[q] = job[q]
      BY <1>a, <2>5 DEF StoreRead, StoreReadFails, WorkerTypes, JobStates
    <3> QED BY <1>a, <1>d, <3>1 DEF Known, KnownJobs, Storing, Control, JobControl
  <2>6. ASSUME NEW p \in Runners, StoreUpdate(p) PROVE KnownJobs'
    <3>1. /\ job'[p].id \in {NoRowId, job[p].id}
          /\ job'[p].pc = "mark" => job'[p].id = job[p].id
          /\ \A q \in Runners \ {p} : job'[q] = job[q]
      <4>1. CASE job[p].verdict = "important"
        BY <1>a, <2>6, <4>1 DEF StoreUpdate, WorkerTypes, JobStates
      <4>2. CASE job[p].verdict # "important"
        BY <1>a, <2>6, <4>2, ReturnLeaves DEF StoreUpdate, Storing
      <4> QED BY <4>1, <4>2
    <3>2. job[p].id \in Ids /\ job[p].verdict # "none" /\ messages \in [Ids -> Row]
      BY <1>a, <2>6 DEF StoreUpdate, Control, JobControl, Storing, WorkerTypes, JobStates, Verdicts, TypeOK, StoreTypeOK
    <3>3. messages'[job[p].id].analysis = job[p].verdict
      BY <2>6, <3>2 DEF StoreUpdate, Row
    <3> QED BY <1>a, <1>d, <3>1, <3>2, <3>3 DEF Known, KnownJobs, Storing, Control, JobControl
  <2>7. ASSUME NEW p \in Runners, StoreMark(p) \/ StoreFails(p) PROVE KnownJobs'
    <3>1. Return(p)
      BY <2>7 DEF StoreMark, StoreFails
    <3> QED BY <1>a, <1>d, <3>1, ReturnLeaves DEF Known, KnownJobs, Storing, Control, JobControl
  <2> QED BY <2>1, <2>3, <2>4, <2>5, <2>6, <2>7 DEF WorkerNext, QueueNext, QueueStep
<1> QED BY <1>b, <1>c, <1>1, <1>2, <1>3 DEF Known, KnownRows

LEMMA CrashKnown == TypeOK /\ Control /\ Known /\ Crash => Known'
<1> SUFFICES ASSUME TypeOK, Control, Known, Crash PROVE Known'
  OBVIOUS
<1>0. Stored' = Stored /\ messages' = messages
  BY DEF Crash, Stored
<1>1. KnownHandlers' /\ KnownItems' /\ KnownJobs'
  BY <1>0 DEF Crash, SyncCrash, WorkerCrash, KnownHandlers, KnownItems, KnownJobs, Known, Resting, NoJob
<1>2. lost' \subseteq Stored
  <2>1. \A p \in Runners : InHand(p) \subseteq Stored
    BY DEF InHand, IdsIn, Known, KnownItems, KnownJobs
  <2>2. {handler[h].id : h \in Handlers} \cap Ids \subseteq Stored
    BY DEF Known, KnownHandlers
  <2>3. UNION {InHand(p) : p \in Runners} \subseteq Stored
    BY <2>1
  <2>4. lost \subseteq Stored
    BY DEF Known, KnownRows
  <2> QED BY <2>2, <2>3, <2>4 DEF Crash
<1>3. KnownRows'
  BY <1>0, <1>2 DEF Known, KnownRows, Crash, WorkerCrash
<1> QED BY <1>1, <1>3 DEF Known

LEMMA InitKnown == Init => Known
  BY DEF Init, StoreInit, SyncInit, WorkerInit, Known, KnownHandlers, KnownItems, KnownJobs, KnownRows,
         Resting, NoJob, NoRow, Stored

LEMMA NextKnown == TypeOK /\ Control /\ Known /\ [Next]_vars => Known'
<1> SUFFICES ASSUME TypeOK, Control, Known, [Next]_vars PROVE Known'
  OBVIOUS
<1>1. CASE UNCHANGED vars
  BY <1>1 DEF vars, storeVars, syncVars, workerVars, Known, KnownHandlers, KnownItems, KnownJobs, KnownRows, Stored
<1> QED BY <1>1, SyncKnown, WorkerKnown, CrashKnown DEF Next

LEMMA KnownHolds == Spec => [](TypeOK /\ Control /\ Known)
<1>1. Init => Known
  BY InitKnown
<1>2. TypeOK /\ Control /\ Known /\ [Next]_vars => Known'
  BY NextKnown
<1> QED BY <1>1, <1>2, ControlHolds, PTL DEF Spec

----------------------------------------------------------------------------
\* No step removes a row from important_messages or from the histories.
LEMMA HistoriesGrow ==
    ASSUME [Next]_vars
    PROVE  important \subseteq important' /\ lost \subseteq lost' /\ blind \subseteq blind'
              /\ overlap \subseteq overlap' /\ redis' = redis
<1> USE DEF storeVars, syncVars, workerVars
<1>1. CASE UNCHANGED vars
  BY <1>1 DEF vars
<1>2. CASE SyncNext /\ UNCHANGED workerVars
  <2>1. ASSUME NEW h \in Handlers, CheckMessage(h) PROVE overlap \subseteq overlap' /\ UNCHANGED storeVars
    BY <2>1 DEF CheckMessage
  <2> QED BY <1>2, <2>1
        DEF SyncNext, Deliver, UpsertConversation, UpsertFails, InsertMessage, InsertFails,
            InsertUnanswered, EnqueueMessage, EnqueueFails, SyncContact, ReplyStart, ForwardStart, ReplySend,
            AgentInsert, AgentTouch, AgentFails, Next, vars
<1>3. CASE WorkerNext /\ UNCHANGED syncVars
  BY <1>3 DEF WorkerNext, QueueNext, BatchAnalyze, BatchEnqueue, BatchEnqueueFails, BatchDirect,
              AnalyzeMessage, Pop, PopUnanswered, PopFails, BatchReady, StoreRead, StoreReadFails, StoreUpdate,
              StoreMark, StoreFails, Analyze, Next, vars
<1>4. CASE Crash
  BY <1>4 DEF Crash, SyncCrash, WorkerCrash, Next, vars
<1> QED BY <1>1, <1>2, <1>3, <1>4 DEF Next

\* A StoreAnalysis that is about to list its row goes on to do so, unless a fault
\* or a restart takes it.
LEMMA MarkStays ==
    ASSUME TypeOK, Control, [Next]_vars, NEW p \in Runners, job[p].pc = "mark"
    PROVE  job'[p] = job[p] \/ job[p].id \in important' \cup lost'
<1> USE DEF storeVars
<1>a. WorkerTypes /\ Slots \subseteq Runners /\ Requests \subseteq Runners
  BY TypesOf DEF Runners
<1>1. CASE QueueStep
  BY <1>1, QuietJobs DEF Storing
<1>2. ASSUME NEW q \in Runners, StoreMark(q) \/ StoreFails(q)
      PROVE  job'[p] = job[p] \/ job[p].id \in important' \cup lost'
  <2>1. CASE q = p
    BY <1>2, <2>1 DEF StoreMark, StoreFails
  <2>2. CASE q # p
    BY <1>a, <1>2, <2>2, ReturnLeaves DEF StoreMark, StoreFails
  <2> QED BY <2>1, <2>2
<1>3. ASSUME NEW q \in Runners, StoreUpdate(q) PROVE job'[p] = job[p]
  <2>1. q # p
    BY <1>3 DEF StoreUpdate
  <2>2. CASE Return(q)
    BY <1>a, <2>1, <2>2, ReturnLeaves
  <2> QED BY <1>a, <1>3, <2>1, <2>2 DEF StoreUpdate, WorkerTypes
<1>4. ASSUME NEW q \in Runners, StoreRead(q) \/ StoreReadFails(q) PROVE job'[p] = job[p]
  BY <1>a, <1>4 DEF StoreRead, StoreReadFails, WorkerTypes
<1>5. ASSUME NEW q \in Requests, NEW id \in Stored, NEW v \in Verdicts,
             BatchDirect(q, id, v) \/ AnalyzeMessage(q, id, v)
      PROVE  job'[p] = job[p]
  BY <1>a, <1>5 DEF BatchDirect, AnalyzeMessage, WorkerTypes
<1>6. ASSUME NEW s \in Slots, NEW v \in Verdicts, Analyze(s, v) PROVE job'[p] = job[p]
  BY <1>a, <1>6 DEF Analyze, WorkerTypes
<1>7. CASE UNCHANGED workerVars
  BY <1>7 DEF workerVars
<1>8. CASE Crash
  <2>1. job[p].id \in InHand(p)
    BY DEF InHand, Control, JobControl, Storing
  <2> QED BY <1>8, <2>1 DEF Crash
<1> QED BY <1>1, <1>2, <1>3, <1>4, <1>5, <1>6, <1>7, <1>8
     DEF Next, vars, WorkerNext, QueueNext, QueueStep

LEMMA ListedStep ==
    ASSUME TypeOK, Control, Known, ImportantListed, [Next]_vars
    PROVE  ImportantListed'
<1>a. WorkerTypes /\ messages \in [Ids -> Row]
  BY TypesOf DEF TypeOK, StoreTypeOK
<1> SUFFICES ASSUME NEW id \in Ids
             PROVE  /\ messages'[id].analysis = "important" =>
                          \/ id \in important' \cup lost'
                          \/ \E p \in Runners : job'[p].pc = "mark" /\ job'[p].id = id
                    /\ id \in important' => messages'[id].analysis # "none"
  BY DEF ImportantListed
<1>1. messages[id].analysis = "important" =>
         \/ id \in important' \cup lost'
         \/ \E p \in Runners : job'[p].pc = "mark" /\ job'[p].id = id
  BY HistoriesGrow, MarkStays DEF ImportantListed
<1>2. ASSUME messages'[id].analysis = "important"
      PROVE  \/ id \in important' \cup lost'
             \/ \E p \in Runners : job'[p].pc = "mark" /\ job'[p].id = id
  <2>1. CASE messages' = messages
    BY <1>1, <1>2, <2>1
  <2>2. ASSUME NEW i \in Ids, NEW o, NEW w, NEW by, InsertRow(i, by, o, w)
        PROVE  messages[id].analysis = "important"
    BY <1>a, <1>2, <2>2 DEF InsertRow
  <2>3. ASSUME NEW p \in Runners, StoreUpdate(p)
        PROVE  \/ messages[id].analysis = "important"
               \/ job'[p].pc = "mark" /\ job'[p].id = id
    <3>1. CASE job[p].id = id
      <4>1. messages'[id].analysis = job[p].verdict
        BY <1>a, <2>3, <3>1 DEF StoreUpdate, Row
      <4>2. job' = [job EXCEPT ![p].pc = "mark"]
        BY <1>2, <2>3, <4>1 DEF StoreUpdate
      <4> QED BY <1>a, <3>1, <4>2 DEF WorkerTypes, JobStates
    <3>2. CASE job[p].id # id
      BY <1>a, <1>2, <2>3, <3>2 DEF StoreUpdate
    <3> QED BY <3>1, <3>2
  <2> QED BY <1>1, <2>1, <2>2, <2>3, Writers
<1>3. ASSUME id \in important' PROVE messages'[id].analysis # "none"
  <2>1. CASE id \in important
    BY <2>1, RowsStay DEF ImportantListed, Known, KnownRows
  <2>2. ASSUME NEW p \in Runners, StoreMark(p), job[p].id = id PROVE messages'[id].analysis # "none"
    BY <2>2 DEF StoreMark, Known, KnownJobs
  <2>3. important' = important \/ \E p \in Runners : StoreMark(p)
    BY DEF Next, vars, storeVars, SyncNext, Deliver, UpsertConversation, UpsertFails, CheckMessage, InsertMessage,
           InsertFails, InsertUnanswered, EnqueueMessage, EnqueueFails, SyncContact, ReplyStart, ForwardStart,
           ReplySend, AgentInsert, AgentTouch, AgentFails, WorkerNext, QueueNext, BatchAnalyze, BatchEnqueue,
           BatchEnqueueFails, BatchDirect, AnalyzeMessage, Pop, PopUnanswered, PopFails, BatchReady, StoreRead,
           StoreReadFails, StoreUpdate, StoreFails, Analyze, Crash
  <2> QED BY <1>3, <2>1, <2>2, <2>3 DEF StoreMark
<1> QED BY <1>2, <1>3

\* A message whose stored analysis says important is listed, or is about to be,
\* or a fault or a restart took the listing: two StoreAnalysis of one row, by the
\* worker and by requests, cannot lose it between UPDATE and INSERT.
THEOREM ImportantAreListed == Spec => []ImportantListed
<1>1. Init => ImportantListed
  BY DEF Init, StoreInit, ImportantListed, NoRow
<1>2. TypeOK /\ Control /\ Known /\ ImportantListed /\ [Next]_vars => ImportantListed'
  BY ListedStep
<1> QED BY <1>1, <1>2, KnownHolds, PTL DEF Spec

----------------------------------------------------------------------------
\* The items of the list are in the order they were pushed, those of a batch too
\* and before them, and none has been served; there is one worker.
Queued ==
    /\ served <= pushed
    /\ \A i \in DOMAIN queue : served < queue[i].n /\ queue[i].n <= pushed
    /\ \A i, j \in DOMAIN queue : i < j => queue[i].n < queue[j].n
Batched ==
    \A s \in Slots :
        /\ \A i \in DOMAIN batch[s] : served < batch[s][i].n /\ batch[s][i].n <= pushed
        /\ \A i, j \in DOMAIN batch[s] : i < j => batch[s][i].n < batch[s][j].n
        /\ \A i \in DOMAIN batch[s] : \A j \in DOMAIN queue : batch[s][i].n < queue[j].n
OneWorker == \A s, t \in workers : s = t

Order == Queued /\ Batched /\ OneWorker

\* The numbers of the items, and what the histories are.
LEMMA NumbersOf ==
    ASSUME TypeOK
    PROVE  /\ WorkerTypes /\ served \in Nat /\ pushed \in Nat /\ workers \subseteq Slots
           /\ \A i \in DOMAIN queue : queue[i].n \in Nat
           /\ \A s \in Slots : \A i \in DOMAIN batch[s] : batch[s][i].n \in Nat
<1>1. WorkerTypes /\ served \in Nat /\ pushed \in Nat /\ workers \subseteq Slots
  BY TypesOf DEF TypeOK, StoreTypeOK, WorkerTypeOK
<1>2. /\ \A i \in DOMAIN queue : queue[i] \in Item
      /\ \A s \in Slots : \A i \in DOMAIN batch[s] : batch[s][i] \in Item
  BY <1>1 DEF WorkerTypes
<1> QED BY <1>1, <1>2 DEF Item

LEMMA EnqueueOrder ==
    ASSUME TypeOK, Order, NEW id \in Ids, Enqueue(id), UNCHANGED <<served, batch, workers>>
    PROVE  Order'
<1>a. /\ WorkerTypes /\ served \in Nat /\ pushed \in Nat
      /\ \A i \in DOMAIN queue : queue[i].n \in Nat
      /\ \A s \in Slots : \A i \in DOMAIN batch[s] : batch[s][i].n \in Nat
  BY NumbersOf
<1>1. CASE redis = "yes"
  <2> DEFINE item == [id |-> id, n |-> pushed + 1]
  <2>1. queue' = Append(queue, item) /\ pushed' = pushed + 1 /\ item \in Item /\ item.n = pushed + 1
    BY <1>1, <1>a DEF Enqueue, Item
  <2> HIDE DEF item
  <2>2. /\ queue \in Seq(Item) /\ Len(queue) \in Nat /\ DOMAIN queue = 1 .. Len(queue)
        /\ DOMAIN queue' = 1 .. (Len(queue) + 1) /\ queue'[Len(queue) + 1] = item
        /\ \A i \in DOMAIN queue : queue'[i] = queue[i]
    BY <1>a, <2>1 DEF WorkerTypes
  <2>3. Queued'
    BY <1>a, <2>1, <2>2 DEF Order, Queued
  <2>4. Batched'
    BY <1>a, <2>1, <2>2 DEF Order, Batched
  <2> QED BY <2>3, <2>4 DEF Order, OneWorker
<1>2. CASE redis # "yes"
  BY <1>2 DEF Enqueue, Order, Queued, Batched, OneWorker
<1> QED BY <1>1, <1>2

\* The first item of a list and the others.
LEMMA TailItems ==
    ASSUME NEW items \in Seq(Item), items # <<>>
    PROVE  /\ Head(items) = items[1] /\ 1 \in DOMAIN items
           /\ \A i \in DOMAIN Tail(items) : /\ i + 1 \in DOMAIN items /\ Tail(items)[i] = items[i + 1]
                                            /\ i \in Nat \ {0}
  BY HeadTailProperties

LEMMA PopOrder ==
    ASSUME TypeOK, Control, Order, NEW s \in Slots, Pop(s)
    PROVE  Order'
<1> USE NumbersOf
<1>1. /\ queue \in Seq(Item) /\ queue # <<>> /\ queue' = Tail(queue)
      /\ batch[s] \in Seq(Item) /\ batch'[s] = Append(batch[s], Head(queue))
      /\ \A t \in Slots \ {s} : batch'[t] = batch[t]
      /\ UNCHANGED <<served, pushed, workers>>
  BY DEF Pop, WorkerTypes
<1>2. /\ Head(queue) = queue[1] /\ 1 \in DOMAIN queue /\ Head(queue) \in Item
      /\ \A i \in DOMAIN queue' : i + 1 \in DOMAIN queue /\ queue'[i] = queue[i + 1] /\ i \in Nat \ {0}
  BY <1>1, TailItems, HeadTailProperties
<1>3. Queued'
  BY <1>1, <1>2 DEF Order, Queued
<1>4. \A j \in DOMAIN queue' : queue[1].n < queue'[j].n
  BY <1>1, <1>2 DEF Order, Queued
<1>5. /\ Len(batch[s]) \in Nat /\ DOMAIN batch[s] = 1 .. Len(batch[s])
      /\ DOMAIN batch'[s] = 1 .. (Len(batch[s]) + 1)
      /\ batch'[s][Len(batch[s]) + 1] = queue[1]
      /\ \A i \in DOMAIN batch[s] : batch'[s][i] = batch[s][i]
  BY <1>1, <1>2
<1>6. Batched'
  <2> SUFFICES ASSUME NEW t \in Slots
               PROVE  /\ \A i \in DOMAIN batch'[t] : served' < batch'[t][i].n /\ batch'[t][i].n <= pushed'
                      /\ \A i, j \in DOMAIN batch'[t] : i < j => batch'[t][i].n < batch'[t][j].n
                      /\ \A i \in DOMAIN batch'[t] : \A j \in DOMAIN queue' : batch'[t][i].n < queue'[j].n
    BY DEF Batched
  <2>1. CASE t = s
    <3>1. \A i \in DOMAIN batch'[s] : served' < batch'[s][i].n /\ batch'[s][i].n <= pushed'
      BY <1>1, <1>2, <1>5 DEF Order, Batched, Queued
    <3>2. ASSUME NEW i \in DOMAIN batch'[s], NEW j \in DOMAIN batch'[s], i < j
          PROVE  batch'[s][i].n < batch'[s][j].n
      <4>1. i \in DOMAIN batch[s] /\ batch'[s][i] = batch[s][i]
        BY <1>5, <3>2
      <4>2. CASE j \in DOMAIN batch[s]
        BY <1>5, <3>2, <4>1, <4>2 DEF Order, Batched
      <4>3. CASE j = Len(batch[s]) + 1
        BY <1>2, <1>5, <4>1, <4>3 DEF Order, Batched
      <4> QED BY <1>5, <4>2, <4>3
    <3>3. \A i \in DOMAIN batch'[s] : \A j \in DOMAIN queue' : batch'[s][i].n < queue'[j].n
      BY <1>1, <1>2, <1>4, <1>5, SMTT(30) DEF Order, Batched, Queued
    <3> QED BY <2>1, <3>1, <3>2, <3>3
  <2>2. CASE t # s
    <3>1. batch'[t] = batch[t]
      BY <1>1, <2>2
    <3>2. \A i \in DOMAIN batch[t] : \A j \in DOMAIN queue' : batch[t][i].n < queue'[j].n
      BY <1>2 DEF Order, Batched
    <3> QED BY <1>1, <3>1, <3>2 DEF Order, Batched
  <2> QED BY <2>1, <2>2
<1> QED BY <1>1, <1>3, <1>6 DEF Order, OneWorker

LEMMA AnalyzeOrder ==
    ASSUME TypeOK, Control, Order, NEW s \in Slots, NEW v \in Verdicts, Analyze(s, v)
    PROVE  Order'
<1> USE NumbersOf
<1>1. /\ batch[s] \in Seq(Item) /\ batch[s] # <<>> /\ s \in workers /\ batch'[s] = Tail(batch[s])
      /\ \A t \in Slots \ {s} : batch'[t] = batch[t]
      /\ served' = Head(batch[s]).n /\ UNCHANGED <<queue, pushed, workers>>
  BY DEF Analyze, WorkerTypes, Control, WorkerControl, storeVars
<1>2. /\ Head(batch[s]) = batch[s][1] /\ 1 \in DOMAIN batch[s]
      /\ \A i \in DOMAIN batch'[s] : i + 1 \in DOMAIN batch[s] /\ batch'[s][i] = batch[s][i + 1] /\ i \in Nat \ {0}
  BY <1>1, TailItems
<1>3. Queued'
  BY <1>1, <1>2 DEF Order, Queued, Batched
<1>4. Batched'
  <2> SUFFICES ASSUME NEW t \in Slots
               PROVE  /\ \A i \in DOMAIN batch'[t] : served' < batch'[t][i].n /\ batch'[t][i].n <= pushed'
                      /\ \A i, j \in DOMAIN batch'[t] : i < j => batch'[t][i].n < batch'[t][j].n
                      /\ \A i \in DOMAIN batch'[t] : \A j \in DOMAIN queue' : batch'[t][i].n < queue'[j].n
    BY DEF Batched
  <2>1. CASE t = s
    <3>1. \A i \in DOMAIN batch'[s] : served' < batch'[s][i].n /\ batch'[s][i].n <= pushed'
      BY <1>1, <1>2 DEF Order, Batched
    <3>2. \A i, j \in DOMAIN batch'[s] : i < j => batch'[s][i].n < batch'[s][j].n
      BY <1>2 DEF Order, Batched
    <3>3. \A i \in DOMAIN batch'[s] : \A j \in DOMAIN queue' : batch'[s][i].n < queue'[j].n
      BY <1>1, <1>2 DEF Order, Batched
    <3> QED BY <2>1, <3>1, <3>2, <3>3
  <2>2. CASE t # s
    <3>1. batch'[t] = <<>>
      BY <1>1, <2>2 DEF Order, OneWorker, Control, WorkerControl
    <3> QED BY <3>1
  <2> QED BY <2>1, <2>2
<1> QED BY <1>1, <1>3, <1>4 DEF Order, OneWorker

LEMMA OrderStep ==
    ASSUME TypeOK, Control, Order, [Next]_vars
    PROVE  Order'
<1> USE DEF storeVars, syncVars, workerVars
<1>1. CASE UNCHANGED <<queue, pushed, served, batch, workers>>
  BY <1>1 DEF Order, Queued, Batched, OneWorker
<1>2. ASSUME SyncNext, UNCHANGED workerVars PROVE Order'
  <2>1. ASSUME NEW h \in Handlers, EnqueueMessage(h) PROVE Order'
    BY <1>2, <2>1, EnqueueOrder DEF EnqueueMessage, Control, HandlerControl
  <2> QED BY <1>1, <1>2, <2>1
        DEF SyncNext, Deliver, UpsertConversation, UpsertFails, CheckMessage, InsertMessage, InsertFails,
            InsertUnanswered, EnqueueFails, SyncContact, ReplyStart, ForwardStart, ReplySend, AgentInsert,
            AgentTouch, AgentFails
<1>3. ASSUME NEW q \in Requests, NEW S \in SUBSET Stored, BatchAnalyze(q, S) PROVE Order'
  <2>1. OneWorker'
    BY <1>3 DEF BatchAnalyze, EnsureTenant, startWorker, Order, OneWorker
  <2> QED BY <1>3, <2>1 DEF BatchAnalyze, Order, Queued, Batched
<1>4. ASSUME NEW q \in Requests, NEW id \in Stored, BatchEnqueue(q, id) PROVE Order'
  BY <1>4, EnqueueOrder DEF BatchEnqueue, Stored
<1>5. ASSUME NEW s \in Slots, PopUnanswered(s) PROVE Order'
  <2>1. queue \in Seq(Item) /\ queue # <<>> /\ queue' = Tail(queue)
        /\ UNCHANGED <<served, pushed, batch, workers>>
    BY <1>5, NumbersOf DEF PopUnanswered, WorkerTypes
  <2>2. \A i \in DOMAIN queue' : i + 1 \in DOMAIN queue /\ queue'[i] = queue[i + 1] /\ i \in Nat \ {0}
    BY <2>1, TailItems
  <2>3. Queued'
    BY <2>1, <2>2, NumbersOf DEF Order, Queued
  <2>4. Batched'
    BY <2>1, <2>2 DEF Order, Batched
  <2> QED BY <2>1, <2>3, <2>4 DEF Order, OneWorker
<1>6. ASSUME NEW s \in Slots, PopFails(s) PROVE Order'
  <2>1. batch'[s] = <<>> /\ \A t \in Slots \ {s} : batch'[t] = batch[t]
    BY <1>6, NumbersOf DEF PopFails, WorkerTypes
  <2>2. Batched'
    BY <1>6, <2>1 DEF PopFails, Order, Batched
  <2> QED BY <1>6, <2>2 DEF PopFails, Order, Queued, OneWorker
<1>7. ASSUME Crash PROVE Order'
  BY <1>7 DEF Crash, WorkerCrash, Order, Queued, Batched, OneWorker
<1>8. ASSUME WorkerNext PROVE Order'
  BY <1>1, <1>3, <1>4, <1>5, <1>6, <1>8, PopOrder, AnalyzeOrder
     DEF WorkerNext, QueueNext, BatchEnqueueFails, BatchDirect, AnalyzeMessage, BatchReady, StoreRead,
         StoreReadFails, StoreUpdate, StoreMark, StoreFails
<1> QED BY <1>1, <1>2, <1>7, <1>8 DEF Next, vars

\* LPush, RPop and the one worker per tenant serve the items in the order they
\* were pushed, for every batch size and whatever faults and restarts take.
THEOREM ServedOldestFirst == Spec => []OldestFirst
<1>1. Init => Order
  BY DEF Init, StoreInit, WorkerInit, Order, Queued, Batched, OneWorker
<1>2. TypeOK /\ Control /\ Order /\ [Next]_vars => Order'
  BY OrderStep
<1>3. TypeOK /\ Order => OldestFirst
  BY NumbersOf DEF Order, Queued, Batched, OldestFirst
<1> QED BY <1>1, <1>2, <1>3, ControlHolds, PTL DEF Spec

----------------------------------------------------------------------------
\* What is in the list or in a worker's hands.
Held(s) == IdsIn(batch[s]) \cup ({job[s].id} \cap Ids)

LEMMA IdsOfTail ==
    ASSUME NEW items \in Seq(Item), items # <<>>
    PROVE  IdsIn(items) = {Head(items).id} \cup IdsIn(Tail(items))
<1>1. \A i \in DOMAIN items : i = 1 \/ (i - 1 \in DOMAIN Tail(items) /\ Tail(items)[i - 1] = items[i])
  BY HeadTailProperties
<1>2. Head(items).id \in IdsIn(items)
  BY TailItems DEF IdsIn
<1>3. ASSUME NEW x \in IdsIn(Tail(items)) PROVE x \in IdsIn(items)
  <2>1. PICK i \in DOMAIN Tail(items) : x = Tail(items)[i].id
    BY <1>3 DEF IdsIn
  <2>2. i + 1 \in DOMAIN items /\ Tail(items)[i] = items[i + 1]
    BY TailItems
  <2> QED BY <2>1, <2>2 DEF IdsIn
<1>4. ASSUME NEW x \in IdsIn(items) PROVE x = Head(items).id \/ x \in IdsIn(Tail(items))
  <2>1. PICK i \in DOMAIN items : x = items[i].id
    BY <1>4 DEF IdsIn
  <2> QED BY <1>1, <2>1, TailItems DEF IdsIn
<1> QED BY <1>2, <1>3, <1>4

LEMMA IdsOfAppend ==
    ASSUME NEW items \in Seq(Item), NEW x \in Item
    PROVE  IdsIn(Append(items, x)) = IdsIn(items) \cup {x.id}
<1>1. /\ Len(items) \in Nat /\ DOMAIN items = 1 .. Len(items)
      /\ DOMAIN Append(items, x) = 1 .. (Len(items) + 1) /\ Append(items, x)[Len(items) + 1] = x
      /\ \A i \in DOMAIN items : Append(items, x)[i] = items[i]
  OBVIOUS
<1> QED BY <1>1 DEF IdsIn

LEMMA EnqueueIds ==
    ASSUME TypeOK, NEW id \in Ids, Enqueue(id)
    PROVE  IdsIn(queue) \subseteq IdsIn(queue') /\ (redis = "yes" => id \in IdsIn(queue'))
<1>1. queue \in Seq(Item) /\ pushed \in Nat /\ [id |-> id, n |-> pushed + 1] \in Item
  BY NumbersOf DEF WorkerTypes, Item
<1> QED BY <1>1, IdsOfAppend DEF Enqueue

\* An item of the list stays there, goes into a worker's batch, or is lost.
LEMMA QueueStays ==
    ASSUME TypeOK, Control, [Next]_vars, NEW id \in IdsIn(queue)
    PROVE  id \in IdsIn(queue') \cup lost' \/ \E s \in Slots : id \in IdsIn(batch'[s])
<1> USE DEF storeVars
<1>a. WorkerTypes
  BY TypesOf
<1>1. CASE queue' = queue
  BY <1>1
<1>2. ASSUME NEW h \in Handlers, EnqueueMessage(h) PROVE id \in IdsIn(queue')
  BY <1>2, EnqueueIds DEF EnqueueMessage, Control, HandlerControl
<1>3. ASSUME NEW q \in Requests, NEW i \in Stored, BatchEnqueue(q, i) PROVE id \in IdsIn(queue')
  BY <1>3, EnqueueIds DEF BatchEnqueue, Stored
<1>4. ASSUME NEW s \in Slots, Pop(s) PROVE id \in IdsIn(queue') \/ id \in IdsIn(batch'[s])
  <2>1. queue \in Seq(Item) /\ queue # <<>> /\ queue' = Tail(queue) /\ Head(queue) \in Item
        /\ batch[s] \in Seq(Item) /\ batch'[s] = Append(batch[s], Head(queue))
    BY <1>a, <1>4, HeadTailProperties DEF Pop, WorkerTypes
  <2> QED BY <2>1, IdsOfTail, IdsOfAppend
<1>5. ASSUME NEW s \in Slots, PopUnanswered(s) PROVE id \in IdsIn(queue') \/ id \in lost'
  BY <1>a, <1>5, IdsOfTail DEF PopUnanswered, WorkerTypes
<1> QED BY <1>1, <1>2, <1>3, <1>4, <1>5
     DEF Next, vars, SyncNext, Deliver, UpsertConversation, UpsertFails, CheckMessage, InsertMessage,
         InsertFails, InsertUnanswered, EnqueueFails, SyncContact, ReplyStart, ForwardStart, ReplySend,
         AgentInsert, AgentTouch, AgentFails, WorkerNext, QueueNext, BatchAnalyze, BatchEnqueueFails,
         BatchDirect, AnalyzeMessage, PopFails, BatchReady, StoreRead, StoreReadFails, StoreUpdate, StoreMark,
         StoreFails, Analyze, Crash

\* A row in a handler's hands stays there, goes into the list, or is lost.
LEMMA HandlerStays ==
    ASSUME TypeOK, Control, [Next]_vars, redis = "yes", NEW h \in Handlers, handler[h].id \in Ids
    PROVE  handler'[h].id = handler[h].id \/ handler[h].id \in IdsIn(queue') \cup lost'
<1> USE DEF storeVars, syncVars
<1>a. handler \in [Handlers -> HandlerStates] /\ handler[h].pc = "enqueue"
  BY DEF TypeOK, SyncTypeOK, HandlerStates, HandlerPcs, Control, HandlerControl
<1>1. CASE handler' = handler
  BY <1>1
<1>2. ASSUME NEW g \in Handlers, CheckMessage(g) PROVE handler'[h] = handler[h]
  <2>1. g # h
    BY <1>2, <1>a DEF CheckMessage
  <2>2. CASE \E id \in knownRows(handler[g].wa) : handler' = [handler EXCEPT ![g].pc = "enqueue", ![g].id = id]
    BY <1>a, <2>1, <2>2
  <2>3. CASE handler' = [handler EXCEPT ![g].pc = "insert"]
    BY <1>a, <2>1, <2>3
  <2> QED BY <1>2, <2>2, <2>3 DEF CheckMessage
<1>3. ASSUME NEW g \in Handlers,
             \/ \E w \in WaIds : Deliver(g, w)
             \/ UpsertConversation(g) \/ UpsertFails(g) \/ InsertMessage(g) \/ InsertFails(g) \/ InsertUnanswered(g)
      PROVE  handler'[h] = handler[h]
  BY <1>a, <1>3 DEF Deliver, UpsertConversation, UpsertFails, InsertMessage, InsertFails, InsertUnanswered
<1>4. ASSUME NEW g \in Handlers, EnqueueMessage(g)
      PROVE  handler'[h] = handler[h] \/ handler[h].id \in IdsIn(queue')
  <2>1. CASE g = h
    BY <1>4, <2>1, EnqueueIds DEF EnqueueMessage
  <2>2. CASE g # h
    BY <1>a, <1>4, <2>2 DEF EnqueueMessage
  <2> QED BY <2>1, <2>2
<1>5. ASSUME NEW g \in Handlers, EnqueueFails(g)
      PROVE  handler'[h] = handler[h] \/ handler[h].id \in lost'
  BY <1>a, <1>5 DEF EnqueueFails
<1>6. CASE Crash
  BY <1>6 DEF Crash
<1> QED BY <1>1, <1>2, <1>3, <1>4, <1>5, <1>6
     DEF Next, vars, SyncNext, SyncContact, ReplyStart, ForwardStart, ReplySend, AgentInsert, AgentTouch, AgentFails

\* An item that a worker has popped is analysed, still with the worker, or lost.
LEMMA HeldStays ==
    ASSUME TypeOK, Control, Known, [Next]_vars, NEW s \in Slots, NEW id \in Held(s), id \in Ids
    PROVE  id \in lost' \/ id \in Held(s)' \/ messages'[id].analysis # "none"
<1> USE DEF storeVars, syncVars, workerVars
<1>a. WorkerTypes /\ Slots \subseteq Runners /\ s \in Runners /\ s \notin Requests
  BY TypesOf DEF Runners
<1>1. ASSUME id \in IdsIn(batch[s]) PROVE id \in lost' \/ id \in Held(s)'
  <2>1. CASE batch'[s] = batch[s]
    BY <1>1, <2>1 DEF Held
  <2>2. ASSUME NEW t \in Slots, Pop(t) PROVE id \in IdsIn(batch'[s])
    <3>1. CASE t = s
      <4>1. batch[s] \in Seq(Item) /\ Head(queue) \in Item /\ batch'[s] = Append(batch[s], Head(queue))
        BY <1>a, <2>2, <3>1, HeadTailProperties DEF Pop, WorkerTypes
      <4> QED BY <1>1, <4>1, IdsOfAppend
    <3>2. CASE t # s
      BY <1>a, <1>1, <2>2, <3>2 DEF Pop, WorkerTypes
    <3> QED BY <3>1, <3>2
  <2>3. ASSUME NEW t \in Slots, PopFails(t) PROVE id \in lost' \/ id \in IdsIn(batch'[s])
    BY <1>a, <1>1, <2>3 DEF PopFails, WorkerTypes
  <2>4. ASSUME NEW t \in Slots, NEW v \in Verdicts, Analyze(t, v) PROVE id \in Held(s)'
    <3>1. CASE t = s
      <4>1. batch[s] \in Seq(Item) /\ batch[s] # <<>> /\ batch'[s] = Tail(batch[s])
            /\ job'[s].id = Head(batch[s]).id
        BY <1>a, <2>4, <3>1 DEF Analyze, WorkerTypes, Control, WorkerControl
      <4> QED BY <1>1, <4>1, IdsOfTail DEF Held
    <3>2. CASE t # s
      BY <1>a, <1>1, <2>4, <3>2 DEF Analyze, WorkerTypes, Held
    <3> QED BY <3>1, <3>2
  <2>5. CASE Crash
    <3>1. id \in InHand(s)
      BY <1>1 DEF InHand
    <3> QED BY <1>a, <2>5, <3>1 DEF Crash
  <2>6. \/ batch' = batch \/ Crash \/ \E t \in Slots : Pop(t) \/ PopFails(t)
        \/ \E t \in Slots, v \in Verdicts : Analyze(t, v)
    BY DEF Next, vars, WorkerNext, QueueNext, BatchAnalyze, BatchEnqueue, BatchEnqueueFails, BatchDirect,
           AnalyzeMessage, PopUnanswered, BatchReady, StoreRead, StoreReadFails, StoreUpdate, StoreMark, StoreFails
  <2>7. ASSUME NEW t \in Slots, Pop(t) \/ PopFails(t) PROVE id \in lost' \/ id \in Held(s)'
    BY <2>2, <2>3, <2>7 DEF Held
  <2> QED BY <2>1, <2>4, <2>5, <2>6, <2>7
<1>2. ASSUME job[s].id = id PROVE id \in lost' \/ id \in Held(s)' \/ messages'[id].analysis # "none"
  <2>0. job[s].pc \in Storing
    BY <1>a, <1>2 DEF Control, JobControl
  <2>1. CASE job'[s].id = job[s].id
    BY <1>2, <2>1 DEF Held
  <2>2. CASE QueueStep
    BY <1>a, <2>0, <2>1, <2>2, QuietJobs
  <2>3. ASSUME NEW p \in Runners, StoreMark(p) PROVE job'[s].id = job[s].id \/ messages'[id].analysis # "none"
    <3>1. CASE p = s
      BY <1>2, <2>3, <3>1 DEF StoreMark, Known, KnownJobs
    <3>2. CASE p # s
      BY <1>a, <2>3, <3>2, ReturnLeaves DEF StoreMark
    <3> QED BY <3>1, <3>2
  <2>4. ASSUME NEW p \in Runners, StoreFails(p) PROVE job'[s].id = job[s].id \/ id \in lost'
    <3>1. CASE p = s
      BY <1>2, <2>4, <3>1 DEF StoreFails
    <3>2. CASE p # s
      BY <1>a, <2>4, <3>2, ReturnLeaves DEF StoreFails
    <3> QED BY <3>1, <3>2
  <2>5. ASSUME NEW p \in Runners, StoreUpdate(p) PROVE job'[s].id = job[s].id \/ messages'[id].analysis # "none"
    <3>1. CASE p = s
      <4>1. messages \in [Ids -> Row] /\ job[s].verdict # "none"
        BY <1>a DEF TypeOK, StoreTypeOK, WorkerTypes, JobStates, Verdicts
      <4> QED BY <1>2, <2>5, <3>1, <4>1 DEF StoreUpdate, Row
    <3>2. CASE p # s
      <4>1. CASE Return(p)
        BY <1>a, <3>2, <4>1, ReturnLeaves
      <4> QED BY <1>a, <2>5, <3>2, <4>1 DEF StoreUpdate, WorkerTypes
    <3> QED BY <3>1, <3>2
  <2>6. ASSUME NEW p \in Runners, StoreRead(p) \/ StoreReadFails(p) PROVE job'[s].id = job[s].id
    <3>1. CASE p = s
      BY <1>a, <2>6, <3>1 DEF StoreRead, StoreReadFails, WorkerTypes, JobStates
    <3>2. CASE p # s
      BY <1>a, <2>6, <3>2 DEF StoreRead, StoreReadFails, WorkerTypes
    <3> QED BY <3>1, <3>2
  <2>7. ASSUME NEW q \in Requests, NEW i \in Stored, NEW v \in Verdicts,
               BatchDirect(q, i, v) \/ AnalyzeMessage(q, i, v)
        PROVE  job'[s].id = job[s].id
    BY <1>a, <2>7 DEF BatchDirect, AnalyzeMessage, WorkerTypes
  <2>8. ASSUME NEW t \in Slots, NEW v \in Verdicts, Analyze(t, v) PROVE job'[s].id = job[s].id
    BY <1>a, <2>0, <2>8 DEF Analyze, WorkerTypes, Storing
  <2>9. CASE Crash
    <3>1. id \in InHand(s)
      BY <1>2 DEF InHand
    <3> QED BY <1>a, <2>9, <3>1 DEF Crash
  <2>10. CASE UNCHANGED workerVars
    BY <2>1, <2>10
  <2> QED BY <1>2, <2>1, <2>2, <2>3, <2>4, <2>5, <2>6, <2>7, <2>8, <2>9, <2>10
       DEF Next, vars, WorkerNext, QueueNext, QueueStep
<1> QED BY <1>1, <1>2 DEF Held

\* The statements that may add a row, and what else they change.
LEMMA NewRows ==
    ASSUME TypeOK, Control, [Next]_vars, NEW id \in Ids, id \notin Stored, messages'[id].by # "none"
    PROVE  /\ messages'[id].analysis = "none" /\ important' = important
           /\ \A i \in Ids \ {id} : messages'[i] = messages[i]
           /\ \/ messages'[id].by = "agent" /\ lost' = lost
              \/ lost' = lost \cup {id}
              \/ lost' = lost /\ \E h \in Handlers : handler'[h].id = id
<1>a. messages \in [Ids -> Row] /\ messages[id].by = "none" /\ handler \in [Handlers -> HandlerStates]
  BY DEF TypeOK, StoreTypeOK, SyncTypeOK, Stored, HandlerStates, HandlerPcs
<1> DEFINE Goal == /\ messages'[id].analysis = "none" /\ important' = important
                   /\ \A i \in Ids \ {id} : messages'[i] = messages[i]
                   /\ \/ messages'[id].by = "agent" /\ lost' = lost
                      \/ lost' = lost \cup {id}
                      \/ lost' = lost /\ \E h \in Handlers : handler'[h].id = id
<1>1. ASSUME NEW h \in Handlers, InsertMessage(h) PROVE Goal
  <2>1. PICK i \in Ids : /\ InsertRow(i, "sync", handler[h].wa, handler[h].wa)
                         /\ handler' = [handler EXCEPT ![h].pc = "enqueue", ![h].id = i]
    BY <1>1 DEF InsertMessage
  <2>2. i = id
    BY <1>a, <2>1 DEF InsertRow
  <2>3. handler'[h].id = id
    BY <1>a, <2>1, <2>2 DEF HandlerStates
  <2> QED BY <1>a, <1>1, <2>1, <2>2, <2>3 DEF InsertMessage, InsertRow
<1>2. ASSUME NEW h \in Handlers, InsertUnanswered(h) PROVE Goal
  <2>1. PICK i \in Ids : InsertRow(i, "sync", handler[h].wa, handler[h].wa) /\ lost' = lost \cup {i}
    BY <1>2 DEF InsertUnanswered
  <2>2. i = id
    BY <1>a, <2>1 DEF InsertRow
  <2> QED BY <1>a, <1>2, <2>1, <2>2 DEF InsertUnanswered, InsertRow
<1>3. ASSUME NEW a \in Agents, AgentInsert(a) PROVE Goal
  <2>1. PICK i \in Ids : InsertRow(i, "agent", agent[a].wa, NoWa)
    BY <1>3 DEF AgentInsert
  <2>2. i = id
    BY <1>a, <2>1 DEF InsertRow
  <2> QED BY <1>a, <1>3, <2>1, <2>2 DEF AgentInsert, InsertRow
<1>4. ASSUME NEW p \in Runners, StoreUpdate(p) PROVE FALSE
  <2>1. job[p].id \in Ids
    BY <1>4 DEF StoreUpdate, Control, JobControl, Storing
  <2> QED BY <1>a, <1>4, <2>1 DEF StoreUpdate, Row
<1>5. messages' # messages
  BY <1>a
<1> QED BY <1>1, <1>2, <1>3, <1>4, <1>5
     DEF Next, vars, storeVars, SyncNext, Deliver, UpsertConversation, UpsertFails, CheckMessage,
         InsertFails, EnqueueMessage, EnqueueFails, SyncContact, ReplyStart, ForwardStart, ReplySend,
         AgentTouch, AgentFails, WorkerNext, QueueNext, BatchAnalyze, BatchEnqueue, BatchEnqueueFails,
         BatchDirect, AnalyzeMessage, Pop, PopUnanswered, PopFails, BatchReady, StoreRead, StoreReadFails,
         StoreMark, StoreFails, Analyze, Crash

LEMMA VanishStep ==
    ASSUME TypeOK, Control, Known, NothingVanishes, [Next]_vars
    PROVE  NothingVanishes'
<1> SUFFICES ASSUME redis = "yes", NEW id \in Ids, messages'[id].by = "sync"
             PROVE  \/ messages'[id].analysis # "none"
                    \/ id \in lost' \cup IdsIn(queue')
                    \/ \E s \in Slots : id \in Held(s)'
                    \/ \E h \in Handlers : handler'[h].id = id
  BY HistoriesGrow DEF NothingVanishes, InHand, Held
<1>1. CASE id \notin Stored
  BY <1>1, NewRows
<1>2. CASE id \in Stored
  <2>1. \/ messages[id].analysis # "none"
        \/ id \in lost \cup IdsIn(queue)
        \/ \E s \in Slots : id \in Held(s)
        \/ \E h \in Handlers : handler[h].id = id
    BY <1>2, RowsStay DEF NothingVanishes, InHand, Held
  <2>2. CASE messages[id].analysis # "none" \/ id \in lost
    BY <1>2, <2>2, RowsStay, HistoriesGrow
  <2>3. CASE id \in IdsIn(queue)
    BY <2>3, QueueStays DEF Held
  <2>4. CASE \E s \in Slots : id \in Held(s)
    BY <2>4, HeldStays
  <2>5. CASE \E h \in Handlers : handler[h].id = id
    BY <2>5, HandlerStays
  <2> QED BY <2>1, <2>2, <2>3, <2>4, <2>5
<1> QED BY <1>1, <1>2

\* With a queue, a message that the syncer stored is analysed, or on its way, or a
\* fault or a restart is known to have taken it: no schedule of handlers, requests
\* and worker drops it.
THEOREM NothingIsDropped == Spec => []NothingVanishes
<1>1. Init => NothingVanishes
  BY DEF Init, StoreInit, NothingVanishes, NoRow
<1>2. TypeOK /\ Control /\ Known /\ NothingVanishes /\ [Next]_vars => NothingVanishes'
  BY VanishStep
<1> QED BY <1>1, <1>2, KnownHolds, PTL DEF Spec
----------------------------------------------------------------------------
\* The arms of LifeOf.
LEMMA LifeValues ==
    ASSUME NEW id \in Ids
    PROVE  /\ id \notin Stored => LifeOf(id) = "absent"
           /\ id \in Stored /\ messages[id].analysis # "none" => LifeOf(id) = "analysed"
           /\ id \in Stored /\ messages[id].analysis = "none" /\ id \in lost => LifeOf(id) = "missed"
           /\ id \in Stored /\ messages[id].analysis = "none" /\ id \notin lost => LifeOf(id) = "stored"
  BY DEF LifeOf

LEMMA LifeValuesAfter ==
    ASSUME NEW id \in Ids
    PROVE  /\ id \notin Stored' => LifeOf(id)' = "absent"
           /\ id \in Stored' /\ messages'[id].analysis # "none" => LifeOf(id)' = "analysed"
           /\ id \in Stored' /\ messages'[id].analysis = "none" /\ id \in lost' => LifeOf(id)' = "missed"
           /\ id \in Stored' /\ messages'[id].analysis = "none" /\ id \notin lost' => LifeOf(id)' = "stored"
  BY DEF LifeOf

\* Each step of the pipeline is a step of AnalysisPromise or leaves its variables
\* alone.
LEMMA PromiseStep ==
    ASSUME TypeOK, Control, Known, [Next]_vars
    PROVE  [Promise!Next]_(Promise!promiseVars)
<1> DEFINE life == [id \in Ids |-> LifeOf(id)]
<1>a. /\ messages \in [Ids -> Row] /\ WorkerTypes /\ lost \subseteq lost' /\ important \subseteq important'
      /\ Stored' = {id \in Ids : messages'[id].by # "none"}
  BY TypesOf, HistoriesGrow DEF TypeOK, StoreTypeOK, Stored
<1>1. ASSUME messages' = messages, important' = important PROVE Promise!Next
  <2> DEFINE S == {id \in Ids : LifeOf(id) = "stored" /\ id \in lost'}
  <2>1. Stored' = Stored
    BY <1>1 DEF Stored
  <2>2. \A id \in Ids : LifeOf(id)' = IF id \in S THEN "missed" ELSE LifeOf(id)
    BY <1>1, <1>a, <2>1, LifeValues, LifeValuesAfter
  <2>3. life' = [id \in Ids |-> IF id \in S THEN "missed" ELSE life[id]]
    BY <2>2
  <2>4. Promise!Miss(S)
    BY <1>1, <2>3 DEF Promise!Miss
  <2> QED BY <2>4 DEF Promise!Next
<1>2. ASSUME NEW id \in Ids, id \notin Stored, messages'[id].by # "none" PROVE Promise!Next
  <2>1. /\ messages'[id].analysis = "none" /\ important' = important
        /\ \A i \in Ids \ {id} : messages'[i] = messages[i]
        /\ lost' = lost \/ lost' = lost \cup {id}
    BY <1>2, NewRows
  <2>2. /\ id \in Stored' /\ \A i \in Ids \ {id} : i \in Stored' <=> i \in Stored
    BY <1>2, <1>a, <2>1 DEF Stored
  <2>3. \A i \in Ids \ {id} : LifeOf(i)' = LifeOf(i)
    BY <2>1, <2>2, LifeValues, LifeValuesAfter
  <2>4. LifeOf(id) = "absent" /\ LifeOf(id)' \in {"stored", "missed"}
    BY <1>2, <2>1, <2>2, LifeValues, LifeValuesAfter
  <2>5. life' = [life EXCEPT ![id] = LifeOf(id)']
    BY <2>3
  <2>6. Promise!Store(id)
    BY <2>1, <2>4, <2>5 DEF Promise!Store
  <2> QED BY <2>6 DEF Promise!Next
<1>3. ASSUME NEW p \in Runners, StoreUpdate(p) PROVE Promise!Next
  <2>1. PICK id \in Stored : id = job[p].id /\ job[p].verdict # "none" /\ id \in Ids
    BY <1>3, <1>a DEF StoreUpdate, Control, JobControl, Storing, Known, KnownJobs, WorkerTypes, JobStates, Verdicts
  <2>2. /\ important' = important /\ lost' = lost
        /\ \A i \in Ids \ {id} : messages'[i] = messages[i]
        /\ messages'[id].by = messages[id].by /\ messages'[id].analysis = job[p].verdict
    BY <1>3, <1>a, <2>1 DEF StoreUpdate, Row
  <2>3. \A i \in Ids : i \in Stored' <=> i \in Stored
    BY <1>a, <2>2 DEF Stored
  <2>4. \A i \in Ids \ {id} : LifeOf(i)' = LifeOf(i)
    BY <2>2, <2>3, LifeValues, LifeValuesAfter
  <2>5. LifeOf(id) # "absent" /\ LifeOf(id)' = "analysed"
    BY <2>1, <2>2, <2>3, LifeValues, LifeValuesAfter
  <2>6. life' = [life EXCEPT ![id] = "analysed"]
    BY <2>4, <2>5
  <2>7. Promise!Analyse(id)
    BY <2>1, <2>2, <2>5, <2>6 DEF Promise!Analyse
  <2> QED BY <2>1, <2>7 DEF Promise!Next
<1>4. ASSUME NEW p \in Runners, StoreMark(p) PROVE Promise!Next
  <2>1. PICK id \in Stored : id = job[p].id /\ id \in Ids /\ messages[id].analysis # "none"
    BY <1>4 DEF StoreMark, Control, JobControl, Storing, Known, KnownJobs
  <2>2. important' = important \cup {id} /\ UNCHANGED <<messages, lost>>
    BY <1>4, <2>1 DEF StoreMark
  <2>3. \A i \in Ids : LifeOf(i)' = LifeOf(i)
    BY <2>2, LifeValues, LifeValuesAfter DEF Stored
  <2>4. life' = life /\ life[id] = "analysed"
    BY <2>1, <2>3, LifeValues
  <2>5. Promise!List(id)
    BY <2>2, <2>4 DEF Promise!List
  <2> QED BY <2>1, <2>5 DEF Promise!Next
<1>5. \/ important' = important \/ \E p \in Runners : StoreMark(p)
  BY DEF Next, vars, storeVars, SyncNext, Deliver, UpsertConversation, UpsertFails, CheckMessage, InsertMessage,
         InsertFails, InsertUnanswered, EnqueueMessage, EnqueueFails, SyncContact, ReplyStart, ForwardStart,
         ReplySend, AgentInsert, AgentTouch, AgentFails, WorkerNext, QueueNext, BatchAnalyze, BatchEnqueue,
         BatchEnqueueFails, BatchDirect, AnalyzeMessage, Pop, PopUnanswered, PopFails, BatchReady, StoreRead,
         StoreReadFails, StoreUpdate, StoreFails, Analyze, Crash
<1>6. ASSUME NEW id \in Ids, NEW o, NEW w, NEW by \in {"sync", "agent"}, InsertRow(id, by, o, w)
      PROVE  id \notin Stored /\ messages'[id].by # "none"
  BY <1>6, <1>a DEF InsertRow
<1> QED BY <1>1, <1>2, <1>3, <1>4, <1>5, <1>6, Writers

\* The pipeline, with its queue, its worker, its requests, its failing calls and
\* its restarts, implements AnalysisPromise: a row stays stored, its analysis is
\* never taken back, and only what has been analysed is ever listed.
THEOREM KeepsPromise == Spec => PromiseKept
<1>1. Init => Promise!Init
  <2> SUFFICES ASSUME Init PROVE Promise!Init
    OBVIOUS
  <2>1. \A id \in Ids : id \notin Stored
    BY DEF Init, StoreInit, Stored, NoRow
  <2>2. \A id \in Ids : LifeOf(id) = "absent"
    BY <2>1, LifeValues
  <2> QED BY <2>2 DEF Promise!Init, Init, StoreInit
<1>2. TypeOK /\ Control /\ Known /\ [Next]_vars => [Promise!Next]_(Promise!promiseVars)
  BY PromiseStep
<1> QED BY <1>1, <1>2, KnownHolds, PTL DEF Spec, PromiseKept, Promise!Spec

----------------------------------------------------------------------------
\* Unless a StoreAnalysis failed to read it, a row of the syncer has the
\* whatsapp_id of its message, and a StoreAnalysis that is about to write it back
\* has it too.
RowsKept ==
    /\ \A id \in Ids \ blind : messages[id].by = "sync" => messages[id].wa = messages[id].origin
    /\ \A p \in Runners : job[p].pc = "update" /\ job[p].id \notin blind =>
                              job[p].read = messages[job[p].id].wa

\* A handler between SELECT and INSERT has not seen a row of its message: one that
\* exists was inserted by a handler that was there at the same time.
Inserting ==
    /\ \A h \in Handlers : \A id \in Ids :
          handler[h].pc = "insert" /\ messages[id].by = "sync" /\ messages[id].origin = handler[h].wa =>
              handler[h].wa \in overlap \/ id \in blind
    /\ \A g, h \in Handlers :
          g # h /\ handler[g].pc = "insert" /\ handler[h].pc = "insert" /\ handler[g].wa = handler[h].wa =>
              handler[g].wa \in overlap

\* Where an UPDATE of StoreAnalysis that is due comes from.
LEMMA UpdateJobs ==
    ASSUME TypeOK, Control, [Next]_vars, NEW p \in Runners, job'[p].pc = "update"
    PROVE  \/ job'[p] = job[p]
           \/ StoreRead(p) /\ job'[p].id = job[p].id /\ job'[p].read = messages[job[p].id].wa
           \/ StoreReadFails(p) /\ job'[p].id = job[p].id
<1> USE DEF storeVars
<1>a. WorkerTypes /\ Slots \subseteq Runners /\ Requests \subseteq Runners
  BY TypesOf DEF Runners
<1>1. CASE QueueStep
  BY <1>1, QuietJobs DEF Storing
<1>2. ASSUME NEW q \in Runners, StoreMark(q) \/ StoreFails(q) PROVE job'[p] = job[p]
  <2>1. Return(q)
    BY <1>2 DEF StoreMark, StoreFails
  <2> QED BY <1>a, <2>1, ReturnLeaves DEF Storing
<1>3. ASSUME NEW q \in Runners, StoreUpdate(q) PROVE job'[p] = job[p]
  <2>1. CASE Return(q)
    BY <1>a, <2>1, ReturnLeaves DEF Storing
  <2>2. CASE job' = [job EXCEPT ![q].pc = "mark"]
    BY <1>a, <2>2 DEF WorkerTypes, JobStates
  <2> QED BY <1>3, <2>1, <2>2 DEF StoreUpdate
<1>4. ASSUME NEW q \in Runners, StoreRead(q) \/ StoreReadFails(q)
      PROVE  \/ job'[p] = job[p]
             \/ StoreRead(p) /\ job'[p].id = job[p].id /\ job'[p].read = messages[job[p].id].wa
             \/ StoreReadFails(p) /\ job'[p].id = job[p].id
  <2>1. CASE q = p
    <3>1. CASE StoreRead(p)
      BY <1>a, <3>1 DEF StoreRead, readMetadata, WorkerTypes, JobStates
    <3>2. CASE StoreReadFails(p)
      BY <1>a, <3>2 DEF StoreReadFails, WorkerTypes, JobStates
    <3> QED BY <1>4, <2>1, <3>1, <3>2
  <2>2. CASE q # p
    BY <1>a, <1>4, <2>2 DEF StoreRead, StoreReadFails, WorkerTypes
  <2> QED BY <2>1, <2>2
<1>5. ASSUME NEW q \in Requests, NEW id \in Stored, NEW v \in Verdicts,
             BatchDirect(q, id, v) \/ AnalyzeMessage(q, id, v)
      PROVE  job'[p] = job[p]
  BY <1>a, <1>5 DEF BatchDirect, AnalyzeMessage, WorkerTypes
<1>6. ASSUME NEW s \in Slots, NEW v \in Verdicts, Analyze(s, v) PROVE job'[p] = job[p]
  BY <1>a, <1>6 DEF Analyze, WorkerTypes
<1>7. CASE UNCHANGED workerVars
  BY <1>7 DEF workerVars
<1>8. CASE Crash
  BY <1>8 DEF Crash, WorkerCrash, NoJob
<1> QED BY <1>1, <1>2, <1>3, <1>4, <1>5, <1>6, <1>7, <1>8
     DEF Next, vars, WorkerNext, QueueNext, QueueStep

\* The row that an INSERT of the syncer adds, and the handler that did it.
LEMMA NewSyncRows ==
    ASSUME TypeOK, Control, [Next]_vars, NEW id \in Ids, id \notin Stored, messages'[id].by = "sync"
    PROVE  \E h \in Handlers :
              /\ handler[h].pc = "insert" /\ handler'[h].pc # "insert"
              /\ messages'[id].origin = handler[h].wa /\ messages'[id].wa = handler[h].wa
              /\ \A g \in Handlers \ {h} : handler'[g] = handler[g]
<1>a. messages \in [Ids -> Row] /\ messages[id].by = "none" /\ handler \in [Handlers -> HandlerStates]
  BY DEF TypeOK, StoreTypeOK, SyncTypeOK, Stored, HandlerStates, HandlerPcs
<1>1. ASSUME NEW h \in Handlers, InsertMessage(h) \/ InsertUnanswered(h)
      PROVE  /\ handler[h].pc = "insert" /\ handler'[h].pc # "insert"
             /\ messages'[id].origin = handler[h].wa /\ messages'[id].wa = handler[h].wa
             /\ \A g \in Handlers \ {h} : handler'[g] = handler[g]
  <2>1. PICK i \in Ids : InsertRow(i, "sync", handler[h].wa, handler[h].wa)
    BY <1>1 DEF InsertMessage, InsertUnanswered
  <2>2. i = id
    BY <1>a, <2>1 DEF InsertRow
  <2>3. messages'[id].origin = handler[h].wa /\ messages'[id].wa = handler[h].wa
    BY <1>a, <2>1, <2>2 DEF InsertRow
  <2>4. /\ handler[h].pc = "insert" /\ handler'[h].pc # "insert"
        /\ \A g \in Handlers \ {h} : handler'[g] = handler[g]
    <3>1. CASE InsertMessage(h)
      BY <1>a, <3>1 DEF InsertMessage, HandlerStates
    <3>2. CASE InsertUnanswered(h)
      BY <1>a, <3>2 DEF InsertUnanswered, Resting
    <3> QED BY <1>1, <3>1, <3>2
  <2> QED BY <2>3, <2>4
<1>2. ASSUME NEW a \in Agents, AgentInsert(a) PROVE FALSE
  BY <1>a, <1>2 DEF AgentInsert, InsertRow
<1>3. ASSUME NEW p \in Runners, StoreUpdate(p) PROVE FALSE
  <2>1. job[p].id \in Ids
    BY <1>3 DEF StoreUpdate, Control, JobControl, Storing
  <2> QED BY <1>a, <1>3, <2>1 DEF StoreUpdate, Row
<1>4. messages' # messages
  BY <1>a
<1>5. \E h \in Handlers : InsertMessage(h) \/ InsertUnanswered(h)
  BY <1>2, <1>3, <1>4
     DEF Next, vars, storeVars, SyncNext, Deliver, UpsertConversation, UpsertFails, CheckMessage,
         InsertFails, EnqueueMessage, EnqueueFails, SyncContact, ReplyStart, ForwardStart, ReplySend,
         AgentTouch, AgentFails, WorkerNext, QueueNext, BatchAnalyze, BatchEnqueue, BatchEnqueueFails,
         BatchDirect, AnalyzeMessage, Pop, PopUnanswered, PopFails, BatchReady, StoreRead, StoreReadFails,
         StoreMark, StoreFails, Analyze, Crash
<1> QED BY <1>1, <1>5

\* Where a handler that is about to INSERT comes from.
LEMMA InsertHandlers ==
    ASSUME TypeOK, Control, [Next]_vars, NEW h \in Handlers, handler'[h].pc = "insert"
    PROVE  \/ handler'[h] = handler[h]
           \/ /\ handler'[h].wa = handler[h].wa /\ knownRows(handler[h].wa) = {} /\ messages' = messages
              /\ \A g \in Handlers \ {h} : handler'[g] = handler[g]
              /\ (\E g \in Handlers \ {h} : handler[g].pc = "insert" /\ handler[g].wa = handler[h].wa) =>
                     handler[h].wa \in overlap'
<1> USE DEF storeVars, syncVars
<1>a. handler \in [Handlers -> HandlerStates]
  BY DEF TypeOK, SyncTypeOK, HandlerStates, HandlerPcs
<1>1. CASE handler' = handler
  BY <1>1
<1>2. ASSUME NEW g \in Handlers, CheckMessage(g)
      PROVE  \/ handler'[h] = handler[h]
             \/ /\ handler'[h].wa = handler[h].wa /\ knownRows(handler[h].wa) = {} /\ messages' = messages
                /\ \A f \in Handlers \ {h} : handler'[f] = handler[f]
                /\ (\E f \in Handlers \ {h} : handler[f].pc = "insert" /\ handler[f].wa = handler[h].wa) =>
                       handler[h].wa \in overlap'
  <2>1. CASE g # h
    <3>1. CASE \E id \in knownRows(handler[g].wa) : handler' = [handler EXCEPT ![g].pc = "enqueue", ![g].id = id]
      BY <1>a, <2>1, <3>1
    <3>2. CASE handler' = [handler EXCEPT ![g].pc = "insert"]
      BY <1>a, <2>1, <3>2
    <3> QED BY <1>2, <3>1, <3>2 DEF CheckMessage
  <2>2. CASE g = h
    <3>1. CASE \E id \in knownRows(handler[h].wa) : handler' = [handler EXCEPT ![h].pc = "enqueue", ![h].id = id]
      BY <1>a, <3>1 DEF HandlerStates
    <3>2. CASE /\ knownRows(handler[h].wa) = {}
               /\ handler' = [handler EXCEPT ![h].pc = "insert"]
               /\ overlap' = IF {f \in Handlers \ {h} : handler[f].pc = "insert" /\ handler[f].wa = handler[h].wa} = {}
                             THEN overlap ELSE overlap \cup {handler[h].wa}
      <4>1. handler'[h].wa = handler[h].wa /\ \A f \in Handlers \ {h} : handler'[f] = handler[f]
        BY <1>a, <3>2 DEF HandlerStates
      <4>2. messages' = messages
        BY <1>2 DEF CheckMessage
      <4> QED BY <3>2, <4>1, <4>2
    <3> QED BY <1>2, <2>2, <3>1, <3>2 DEF CheckMessage
  <2> QED BY <2>1, <2>2
<1>3. ASSUME NEW g \in Handlers,
             \/ \E w \in WaIds : Deliver(g, w)
             \/ UpsertConversation(g) \/ UpsertFails(g) \/ InsertMessage(g) \/ InsertFails(g) \/ InsertUnanswered(g)
             \/ EnqueueMessage(g) \/ EnqueueFails(g)
      PROVE  handler'[h] = handler[h]
  <2>1. handler'[g].pc # "insert" /\ \A f \in Handlers \ {g} : handler'[f] = handler[f]
    BY <1>a, <1>3 DEF Deliver, UpsertConversation, UpsertFails, InsertMessage, InsertFails, InsertUnanswered,
                      EnqueueMessage, EnqueueFails, Resting, HandlerStates
  <2> QED BY <2>1
<1>4. CASE Crash
  BY <1>4 DEF Crash, SyncCrash, Resting
<1> QED BY <1>1, <1>2, <1>3, <1>4
     DEF Next, vars, SyncNext, SyncContact, ReplyStart, ForwardStart, ReplySend, AgentInsert, AgentTouch, AgentFails

LEMMA RowsKeptStep ==
    ASSUME TypeOK, Control, Known, RowsKept, [Next]_vars
    PROVE  RowsKept'
<1>a. /\ messages \in [Ids -> Row] /\ blind \subseteq blind' /\ blind \subseteq Stored
      /\ \A p \in Runners : job[p].pc \in Storing => job[p].id \in Stored
  BY HistoriesGrow DEF TypeOK, StoreTypeOK, Known, KnownRows, KnownJobs, Control, JobControl
<1>1. \A id \in Stored \ blind : messages'[id].wa = messages[id].wa
  <2>1. CASE messages' = messages
    BY <2>1
  <2>2. ASSUME NEW i \in Ids, NEW o, NEW w, NEW by, InsertRow(i, by, o, w)
        PROVE  \A id \in Stored : messages'[id] = messages[id]
    BY <1>a, <2>2 DEF InsertRow, Stored
  <2>3. ASSUME NEW p \in Runners, StoreUpdate(p), NEW id \in Stored \ blind PROVE messages'[id].wa = messages[id].wa
    <3>1. CASE id = job[p].id
      <4>1. id \in Ids /\ job[p].read = messages[id].wa
        BY <2>3, <3>1 DEF StoreUpdate, RowsKept, Stored
      <4> QED BY <1>a, <2>3, <3>1, <4>1 DEF StoreUpdate, Row
    <3>2. CASE id # job[p].id
      BY <1>a, <2>3, <3>2 DEF StoreUpdate, Stored
    <3> QED BY <3>1, <3>2
  <2> QED BY <2>1, <2>2, <2>3, Writers
<1>2. ASSUME NEW id \in Ids \ blind', messages'[id].by = "sync" PROVE messages'[id].wa = messages'[id].origin
  <2>1. CASE id \in Stored
    BY <1>a, <1>1, <1>2, <2>1, RowsStay DEF RowsKept
  <2>2. CASE id \notin Stored
    BY <1>2, <2>2, NewSyncRows
  <2> QED BY <2>1, <2>2
<1>3. ASSUME NEW p \in Runners, job'[p].pc = "update", job'[p].id \notin blind'
      PROVE  job'[p].read = messages'[job'[p].id].wa
  <2>1. CASE job'[p] = job[p]
    BY <1>a, <1>1, <1>3, <2>1 DEF RowsKept, Storing
  <2>2. CASE StoreRead(p) /\ job'[p].id = job[p].id /\ job'[p].read = messages[job[p].id].wa
    BY <2>2 DEF StoreRead, storeVars
  <2>3. CASE StoreReadFails(p) /\ job'[p].id = job[p].id
    BY <1>3, <2>3 DEF StoreReadFails
  <2> QED BY <1>3, <2>1, <2>2, <2>3, UpdateJobs
<1> QED BY <1>2, <1>3 DEF RowsKept

LEMMA InsertingStep ==
    ASSUME TypeOK, Control, Known, RowsKept, Inserting, [Next]_vars
    PROVE  Inserting'
<1>a. overlap \subseteq overlap' /\ blind \subseteq blind'
  BY HistoriesGrow
<1>1. ASSUME NEW h \in Handlers, NEW id \in Ids, handler'[h].pc = "insert", messages'[id].by = "sync",
             messages'[id].origin = handler'[h].wa
      PROVE  handler'[h].wa \in overlap' \/ id \in blind'
  <2>1. CASE /\ handler'[h].wa = handler[h].wa /\ knownRows(handler[h].wa) = {} /\ messages' = messages
    <3>1. messages[id].wa # handler[h].wa
      BY <1>1, <2>1 DEF knownRows, Stored
    <3> QED BY <1>1, <1>a, <2>1, <3>1 DEF RowsKept
  <2>2. CASE handler'[h] = handler[h] /\ id \in Stored
    BY <1>1, <1>a, <2>2, RowsStay DEF Inserting
  <2>3. CASE handler'[h] = handler[h] /\ id \notin Stored
    <3>1. PICK g \in Handlers : /\ handler[g].pc = "insert" /\ handler'[g].pc # "insert"
                                /\ messages'[id].origin = handler[g].wa
      BY <1>1, <2>3, NewSyncRows
    <3> QED BY <1>1, <1>a, <2>3, <3>1 DEF Inserting
  <2> QED BY <1>1, <2>1, <2>2, <2>3, InsertHandlers
<1>2. ASSUME NEW g \in Handlers, NEW h \in Handlers, g # h, handler'[g].pc = "insert", handler'[h].pc = "insert",
             handler'[g].wa = handler'[h].wa
      PROVE  handler'[g].wa \in overlap'
  <2>1. CASE handler'[g] = handler[g] /\ handler'[h] = handler[h]
    BY <1>2, <1>a, <2>1 DEF Inserting
  <2>2. CASE handler'[h] # handler[h]
    BY <1>2, <2>2, InsertHandlers
  <2>3. CASE handler'[g] # handler[g]
    BY <1>2, <2>3, InsertHandlers
  <2> QED BY <2>1, <2>2, <2>3
<1> QED BY <1>1, <1>2 DEF Inserting

LEMMA UniqueStep ==
    ASSUME TypeOK, Control, Known, Inserting, UniqueRows, [Next]_vars
    PROVE  UniqueRows'
<1> SUFFICES ASSUME NEW i \in Ids, NEW j \in Ids, i # j, messages'[i].by = "sync", messages'[j].by = "sync",
                    messages'[i].origin = messages'[j].origin
             PROVE  messages'[i].origin \in overlap' \/ i \in blind' \/ j \in blind'
  BY DEF UniqueRows
<1>a. overlap \subseteq overlap' /\ blind \subseteq blind' /\ messages \in [Ids -> Row]
  BY HistoriesGrow DEF TypeOK, StoreTypeOK
<1>1. CASE i \in Stored /\ j \in Stored
  BY <1>1, <1>a, RowsStay DEF UniqueRows
<1>2. ASSUME NEW k \in Ids, NEW l \in Ids, k # l, k \notin Stored, messages'[k].by = "sync", messages'[l].by = "sync",
             messages'[k].origin = messages'[l].origin
      PROVE  messages'[k].origin \in overlap' \/ l \in blind'
  <2>1. PICK h \in Handlers : handler[h].pc = "insert" /\ messages'[k].origin = handler[h].wa
    BY <1>2, NewSyncRows
  <2>2. messages'[l] = messages[l]
    BY <1>2, NewRows
  <2> QED BY <1>2, <1>a, <2>1, <2>2 DEF Inserting
<1> QED BY <1>1, <1>2

\* Two rows for one WhatsApp message exist only if two handlers were between the
\* SELECT and the INSERT of insertMessage at the same time, or if a StoreAnalysis
\* overwrote the whatsapp_id of one after a read that failed: neither redeliveries
\* nor restarts nor concurrent analyses are enough.
THEOREM RowsAreUnique == Spec => []UniqueRows
<1>1. Init => RowsKept /\ Inserting /\ UniqueRows
  BY DEF Init, StoreInit, SyncInit, WorkerInit, RowsKept, Inserting, UniqueRows, NoRow, NoJob, Resting
<1>2. TypeOK /\ Control /\ Known /\ RowsKept /\ Inserting /\ UniqueRows /\ [Next]_vars =>
         (RowsKept /\ Inserting /\ UniqueRows)'
  BY RowsKeptStep, InsertingStep, UniqueStep
<1> QED BY <1>1, <1>2, KnownHolds, PTL DEF Spec
----------------------------------------------------------------------------
NoAgentRow == \A id \in Ids : messages[id].by # "agent"

\* A request that is about to set last_message_at has inserted its row; as long as
\* there is none, a handler past its upsert finds last_message_at no older than its
\* message.
Upserted ==
    /\ \A a \in Agents : agent[a].pc = "touch" => ~NoAgentRow
    /\ NoAgentRow => \A h \in Handlers : handler[h].pc \in {"check", "insert"} => TimeOf[handler[h].wa] <= lastAt
    /\ NoAgentRow => \A id \in Stored : messages[id].origin \in WaIds /\ TimeOf[messages[id].origin] <= lastAt

LEMMA UpsertedStep ==
    ASSUME TypeOK, Control, Upserted, [Next]_vars
    PROVE  Upserted'
<1> USE DEF storeVars, syncVars
<1>a. /\ handler \in [Handlers -> HandlerStates] /\ agent \in [Agents -> AgentStates] /\ lastAt \in Int
      /\ messages \in [Ids -> Row] /\ Stored' = {id \in Ids : messages'[id].by # "none"}
  BY DEF TypeOK, StoreTypeOK, SyncTypeOK, HandlerStates, HandlerPcs, AgentStates, Stored
<1>b. NoAgentRow' => NoAgentRow
  BY RowsStay DEF NoAgentRow, Stored
<1>1. \A a \in Agents : agent'[a].pc = "touch" => ~NoAgentRow'
  <2>1. ASSUME NEW a \in Agents, AgentInsert(a) PROVE ~NoAgentRow'
    BY <1>a, <2>1 DEF AgentInsert, InsertRow, NoAgentRow
  <2>2. ASSUME NEW a \in Agents, NEW b \in Agents,
               \/ \E t \in Times : ReplyStart(b, t) \/ ForwardStart(b, t)
               \/ \E w \in WaIds : ReplySend(b, w)
               \/ AgentTouch(b) \/ AgentFails(b)
        PROVE  agent'[a].pc = "touch" => agent[a].pc = "touch"
    BY <1>a, <2>2 DEF ReplyStart, ForwardStart, ReplySend, AgentTouch, AgentFails, Away, AgentStates
  <2>3. CASE Crash
    BY <2>3 DEF Crash, SyncCrash, Away
  <2>4. CASE agent' = agent
    BY <1>b, <2>4 DEF Upserted
  <2> QED BY <1>b, <2>1, <2>2, <2>3, <2>4
       DEF Upserted, Next, vars, SyncNext, Deliver, UpsertConversation, UpsertFails, CheckMessage, InsertMessage,
           InsertFails, InsertUnanswered, EnqueueMessage, EnqueueFails, SyncContact
<1>2. ASSUME NoAgentRow' PROVE lastAt' \in Int /\ lastAt <= lastAt'
  <2>1. lastAt' \in Int
    BY NextControl DEF TypeOK, StoreTypeOK
  <2>2. ASSUME NEW a \in Agents, AgentTouch(a) PROVE FALSE
    BY <1>2, <1>b, <2>2 DEF AgentTouch, Upserted
  <2>3. ASSUME NEW h \in Handlers, UpsertConversation(h) PROVE lastAt <= lastAt'
    <3>1. TimeOf[handler[h].wa] \in Nat
      BY <2>3 DEF UpsertConversation, Control, HandlerControl
    <3> QED BY <1>a, <2>3, <3>1 DEF UpsertConversation, upsert, Later
  <2>4. CASE SyncContact
    BY <1>a, <2>4 DEF SyncContact, upsert, Later
  <2>5. CASE lastAt' = lastAt
    BY <1>a, <2>5
  <2> QED BY <2>1, <2>2, <2>3, <2>4, <2>5
       DEF Next, vars, SyncNext, Deliver, UpsertFails, CheckMessage, InsertMessage, InsertFails, InsertUnanswered,
           EnqueueMessage, EnqueueFails, ReplyStart, ForwardStart, ReplySend, AgentInsert, AgentFails, WorkerNext,
           QueueNext, BatchAnalyze, BatchEnqueue, BatchEnqueueFails, BatchDirect, AnalyzeMessage, Pop,
           PopUnanswered, PopFails, BatchReady, StoreRead, StoreReadFails, StoreUpdate, StoreMark, StoreFails,
           Analyze, Crash
<1>3. ASSUME NoAgentRow', NEW h \in Handlers, handler'[h].pc \in {"check", "insert"}
      PROVE  TimeOf[handler'[h].wa] <= lastAt'
  <2>0. TimeOf[handler'[h].wa] \in Nat
    BY <1>3, NextControl DEF Control, HandlerControl
  <2>1. CASE handler'[h] = handler[h]
    BY <1>2, <1>3, <1>a, <1>b, <2>0, <2>1 DEF Upserted
  <2>2. CASE UpsertConversation(h)
    <3>1. handler'[h].wa = handler[h].wa
      BY <1>a, <2>2 DEF UpsertConversation, HandlerStates
    <3> QED BY <1>a, <2>0, <2>2, <3>1 DEF UpsertConversation, upsert, Later
  <2>3. CASE handler'[h].wa = handler[h].wa /\ handler[h].pc = "check"
    BY <1>2, <1>3, <1>a, <1>b, <2>0, <2>3 DEF Upserted
  <2>4. ASSUME NEW g \in Handlers, CheckMessage(g)
        PROVE  handler'[h] = handler[h] \/ (handler'[h].wa = handler[h].wa /\ handler[h].pc = "check")
    <3>1. CASE \E id \in knownRows(handler[g].wa) : handler' = [handler EXCEPT ![g].pc = "enqueue", ![g].id = id]
      BY <1>a, <1>3, <3>1 DEF HandlerStates
    <3>2. CASE handler' = [handler EXCEPT ![g].pc = "insert"]
      BY <1>a, <2>4, <3>2 DEF HandlerStates, CheckMessage
    <3> QED BY <2>4, <3>1, <3>2 DEF CheckMessage
  <2>5. ASSUME NEW g \in Handlers,
               \/ \E w \in WaIds : Deliver(g, w)
               \/ UpsertFails(g) \/ InsertMessage(g) \/ InsertFails(g) \/ InsertUnanswered(g)
               \/ EnqueueMessage(g) \/ EnqueueFails(g)
        PROVE  handler'[h] = handler[h]
    <3>1. handler'[g].pc \notin {"check", "insert"} /\ \A f \in Handlers \ {g} : handler'[f] = handler[f]
      BY <1>a, <2>5 DEF Deliver, UpsertFails, InsertMessage, InsertFails, InsertUnanswered, EnqueueMessage,
                        EnqueueFails, Resting, HandlerStates
    <3> QED BY <1>3, <3>1
  <2>6. ASSUME NEW g \in Handlers, UpsertConversation(g), g # h PROVE handler'[h] = handler[h]
    BY <1>a, <2>6 DEF UpsertConversation
  <2>7. CASE Crash
    BY <1>3, <2>7 DEF Crash, SyncCrash, Resting
  <2> QED BY <2>1, <2>2, <2>3, <2>4, <2>5, <2>6, <2>7
       DEF Next, vars, SyncNext, SyncContact, ReplyStart, ForwardStart, ReplySend, AgentInsert, AgentTouch, AgentFails
<1>4. ASSUME NoAgentRow', NEW id \in Stored'
      PROVE  messages'[id].origin \in WaIds /\ TimeOf[messages'[id].origin] <= lastAt'
  <2>1. CASE id \in Stored
    <3>1. messages'[id].origin = messages[id].origin /\ messages[id].origin \in WaIds
          /\ TimeOf[messages[id].origin] <= lastAt /\ TimeOf[messages[id].origin] \in Nat
      BY <1>4, <1>b, <2>1, RowsStay DEF Upserted
    <3> QED BY <1>2, <1>4, <1>a, <3>1
  <2>2. CASE id \notin Stored
    <3>1. id \in Ids /\ messages'[id].by = "sync"
      <4>1. id \in Ids /\ messages'[id].by # "none" /\ messages'[id].by # "agent" /\ messages' \in [Ids -> Row]
        BY <1>4, <1>a, NextControl DEF NoAgentRow, TypeOK, StoreTypeOK
      <4> QED BY <4>1 DEF Row
    <3>2. PICK h \in Handlers : handler[h].pc = "insert" /\ messages'[id].origin = handler[h].wa
      BY <2>2, <3>1, NewSyncRows
    <3>3. handler[h].wa \in WaIds /\ TimeOf[handler[h].wa] \in Nat
      BY <3>2 DEF Control, HandlerControl
    <3>4. TimeOf[handler[h].wa] <= lastAt
      BY <1>4, <1>b, <3>2 DEF Upserted
    <3> QED BY <1>2, <1>4, <1>a, <3>2, <3>3, <3>4
  <2> QED BY <2>1, <2>2
<1> QED BY <1>1, <1>3, <1>4 DEF Upserted

\* Until an agent writes to the conversation, last_message_at is not older than any
\* message stored in it, in whatever order messages, contacts and redeliveries come.
THEOREM ConversationsUpToDate == Spec => []ConversationUpToDate
<1>1. Init => Upserted
  BY DEF Init, StoreInit, SyncInit, Upserted, NoAgentRow, Stored, NoRow, Resting, Away
<1>2. TypeOK /\ Control /\ Upserted /\ [Next]_vars => Upserted'
  BY UpsertedStep
<1>3. Upserted => ConversationUpToDate
  BY DEF Upserted, NoAgentRow, ConversationUpToDate
<1> QED BY <1>1, <1>2, <1>3, ControlHolds, PTL DEF Spec

----------------------------------------------------------------------------
\* The worker with the steps of its calls implements the worker that analyses an
\* item in one step, so that all the theorems above hold of it.
THEOREM CallsImplementPipeline == CallSpec => Spec
<1>1. CallInit => Init
  BY DEF CallInit
<1>2. [CallNext]_callVars => [Next]_vars
  <2> SUFFICES ASSUME CallNext PROVE [Next]_vars
    BY DEF callVars, vars
  <2>1. ASSUME NEW s \in Slots, CallReturns(s) PROVE Next
    BY <2>1 DEF CallReturns, Next, WorkerNext
  <2>2. ASSUME NEW s \in Slots, CallStep(s) \/ ProviderDeadline(s) \/ WorkerDeadline(s) PROVE UNCHANGED vars
    BY <2>2 DEF CallStep, BeginCall, NextProvider, NoClient, UseFallback, Attempt, Answered, Unusable,
                AttemptFails, BackoffElapses, BackoffCancelled, ProviderDeadline, WorkerDeadline, CallTo
  <2> QED BY <2>1, <2>2 DEF CallNext, Next, WorkerNext
<1> QED BY <1>1, <1>2, PTL DEF CallSpec, Spec

CallPcs == {"none", "next", "try", "sent", "wait", "done"}
Calls == [pc : CallPcs, left : Nat, tries : Nat, expired : BOOLEAN, over : BOOLEAN, early : BOOLEAN, late : Nat]

\* An attempt is only begun while one is left, and after the context has ended only
\* when none was begun since: a back-off that began after its end is cancelled.
CallBounded(c) ==
    /\ c.tries <= Attempts /\ c.late <= 1
    /\ c.pc = "try" => c.tries < Attempts /\ c.late = 0
    /\ c.late > 0 => c.expired
    /\ c.pc = "wait" /\ c.early => c.late = 0

CallsBounded == call \in [Slots -> Calls] /\ \A s \in Slots : CallBounded(call[s])

LEMMA CallToBounded ==
    ASSUME CallsBounded, NEW s \in Slots, NEW c \in Calls, CallTo(s, c), CallBounded(c)
    PROVE  CallsBounded'
<1>1. /\ call' \in [Slots -> Calls] /\ call'[s] = c
      /\ \A t \in Slots \ {s} : call'[t] = call[t]
  BY DEF CallsBounded, CallTo
<1>2. \A t \in Slots : CallBounded(call'[t])
  BY <1>1 DEF CallsBounded
<1> QED BY <1>1, <1>2 DEF CallsBounded

LEMMA NoCallBounded ==
    /\ NoCall \in Calls /\ CallBounded(NoCall)
    /\ [NoCall EXCEPT !.pc = "done"] \in Calls /\ CallBounded([NoCall EXCEPT !.pc = "done"])
    /\ \A n \in Nat : /\ [NoCall EXCEPT !.pc = "next", !.left = n] \in Calls
                      /\ CallBounded([NoCall EXCEPT !.pc = "next", !.left = n])
<1> USE CallAssumption DEF NoCall, CallPcs
<1>1. NoCall \in Calls /\ CallBounded(NoCall)
  BY DEF Calls, CallBounded
<1>2. [NoCall EXCEPT !.pc = "done"] \in Calls
  BY DEF Calls
<1>3. CallBounded([NoCall EXCEPT !.pc = "done"])
  BY DEF CallBounded
<1>4. \A n \in Nat : [NoCall EXCEPT !.pc = "next", !.left = n] \in Calls
  BY DEF Calls
<1>5. \A n \in Nat : CallBounded([NoCall EXCEPT !.pc = "next", !.left = n])
  BY DEF CallBounded
<1> QED BY <1>1, <1>2, <1>3, <1>4, <1>5

LEMMA CallChanges ==
    ASSUME NEW c \in Calls, NEW pc \in CallPcs, NEW n \in Nat, NEW t \in Nat, NEW l \in Nat, NEW e \in BOOLEAN
    PROVE  /\ [c EXCEPT !.pc = pc, !.left = n, !.tries = t, !.late = l, !.expired = e] \in Calls
           /\ [c EXCEPT !.pc = pc, !.tries = t, !.late = l] \in Calls
           /\ [c EXCEPT !.pc = pc, !.early = e] \in Calls
  BY DEF Calls

LEMMA CallStepBounded ==
    ASSUME CallsBounded, NEW s \in Slots, CallStep(s) \/ ProviderDeadline(s) \/ WorkerDeadline(s)
    PROVE  CallsBounded'
<1> USE CallAssumption DEF CallPcs
<1>a. call[s] \in Calls /\ CallBounded(call[s])
  BY DEF CallsBounded
<1>1. CASE BeginCall(s)
  <2>1. CASE \E n \in 0 .. MaxProviders : CallTo(s, [NoCall EXCEPT !.pc = "next", !.left = n])
    <3>1. PICK n \in 0 .. MaxProviders : CallTo(s, [NoCall EXCEPT !.pc = "next", !.left = n])
      BY <2>1
    <3>2. n \in Nat
      OBVIOUS
    <3> QED BY <3>1, <3>2, CallToBounded, NoCallBounded
  <2>2. CASE CallTo(s, [NoCall EXCEPT !.pc = "done"])
    BY <2>2, CallToBounded, NoCallBounded
  <2> QED BY <1>1, <2>1, <2>2 DEF BeginCall
<1>2. CASE NextProvider(s)
  <2> DEFINE c == [call[s] EXCEPT !.pc = "try", !.left = @ - 1, !.tries = 0, !.late = 0, !.expired = call[s].over]
  <2>1. c \in Calls
    <3>1. call[s].left - 1 \in Nat /\ call[s].over \in BOOLEAN /\ "try" \in CallPcs
      BY <1>a, <1>2 DEF NextProvider, Calls, CallPcs
    <3> QED BY <1>a, <3>1, CallChanges, ZenonT(40)
  <2>2. c.pc = "try" /\ c.tries = 0 /\ c.late = 0
    BY <1>a DEF Calls
  <2>3. CallBounded(c)
    BY <1>a, <1>2, <2>2 DEF NextProvider, Calls, CallBounded
  <2> QED BY <1>2, <2>1, <2>3, CallToBounded DEF NextProvider
<1>3. CASE NoClient(s)
  <2> DEFINE c == [call[s] EXCEPT !.left = @ - 1]
  <2>1. c \in Calls /\ CallBounded(c)
    BY <1>a, <1>3 DEF NoClient, Calls, CallBounded
  <2> QED BY <1>3, <2>1, CallToBounded DEF NoClient
<1>4. CASE UseFallback(s) \/ Answered(s)
  BY <1>4, CallToBounded, NoCallBounded DEF UseFallback, Answered
<1>5. CASE Attempt(s)
  <2> DEFINE c == [call[s] EXCEPT !.pc = "sent", !.tries = @ + 1, !.late = IF call[s].expired THEN @ + 1 ELSE @]
  <2>1. c \in Calls
    <3>1. /\ call[s].tries + 1 \in Nat /\ "sent" \in CallPcs
          /\ (IF call[s].expired THEN call[s].late + 1 ELSE call[s].late) \in Nat
      BY <1>a DEF Calls, CallPcs
    <3> QED BY <1>a, <3>1, CallChanges
  <2>2. /\ c.pc = "sent" /\ c.tries = call[s].tries + 1 /\ c.expired = call[s].expired
        /\ c.late = IF call[s].expired THEN call[s].late + 1 ELSE call[s].late
    BY <1>a DEF Calls
  <2>3. CallBounded(c)
    BY <1>a, <1>5, <2>2 DEF Attempt, Calls, CallBounded
  <2> QED BY <1>5, <2>1, <2>3, CallToBounded DEF Attempt
<1>6. CASE Unusable(s) \/ BackoffCancelled(s)
  <2> DEFINE c == [call[s] EXCEPT !.pc = "next"]
  <2>1. c \in Calls /\ CallBounded(c)
    BY <1>a DEF Calls, CallBounded
  <2> QED BY <1>6, <2>1, CallToBounded DEF Unusable, BackoffCancelled
<1>7. CASE AttemptFails(s)
  <2>0. PICK e \in BOOLEAN : e = ~call[s].expired
    OBVIOUS
  <2> DEFINE c == [call[s] EXCEPT !.pc = "wait", !.early = e]
  <2>1. c \in Calls
    BY <1>a, CallChanges DEF CallPcs
  <2>2. /\ c.pc = "wait" /\ c.early = e /\ c.expired = call[s].expired
        /\ c.late = call[s].late /\ c.tries = call[s].tries
    BY <1>a DEF Calls
  <2>3. call[s].late > 0 => ~e
    BY <1>a, <2>0 DEF CallBounded
  <2>4. CallBounded(c)
    BY <1>a, <2>2, <2>3 DEF Calls, CallBounded
  <2> QED BY <1>7, <2>0, <2>1, <2>4, CallToBounded DEF AttemptFails
<1>8. CASE BackoffElapses(s)
  <2> DEFINE c == [call[s] EXCEPT !.pc = IF call[s].tries < Attempts THEN "try" ELSE "next"]
  <2>1. c \in Calls /\ CallBounded(c)
    BY <1>a, <1>8 DEF BackoffElapses, Calls, CallBounded
  <2> QED BY <1>8, <2>1, CallToBounded DEF BackoffElapses
<1>9. CASE ProviderDeadline(s)
  <2> DEFINE c == [call[s] EXCEPT !.expired = TRUE]
  <2>1. c \in Calls /\ CallBounded(c)
    BY <1>a DEF Calls, CallBounded
  <2> QED BY <1>9, <2>1, CallToBounded DEF ProviderDeadline
<1>10. CASE WorkerDeadline(s)
  <2> DEFINE c == [call[s] EXCEPT !.expired = TRUE, !.over = TRUE]
  <2>1. c \in Calls /\ CallBounded(c)
    BY <1>a DEF Calls, CallBounded
  <2> QED BY <1>10, <2>1, CallToBounded DEF WorkerDeadline
<1> QED BY <1>1, <1>2, <1>3, <1>4, <1>5, <1>6, <1>7, <1>8, <1>9, <1>10 DEF CallStep

LEMMA CallsAreBounded == CallSpec => []CallsBounded
<1>1. CallInit => CallsBounded
  BY NoCallBounded DEF CallInit, CallsBounded
<1>2. CallsBounded /\ [CallNext]_callVars => CallsBounded'
  <2> SUFFICES ASSUME CallsBounded, [CallNext]_callVars PROVE CallsBounded'
    OBVIOUS
  <2>1. CASE call' = call
    BY <2>1 DEF CallsBounded
  <2>2. ASSUME NEW s \in Slots, call' = [call EXCEPT ![s] = NoCall] PROVE CallsBounded'
    <3>1. call' \in [Slots -> Calls] /\ call'[s] = NoCall /\ \A t \in Slots \ {s} : call'[t] = call[t]
      BY <2>2, NoCallBounded DEF CallsBounded
    <3> QED BY <3>1, NoCallBounded DEF CallsBounded
  <2>3. CASE call' = [s \in Slots |-> NoCall]
    BY <2>3, NoCallBounded DEF CallsBounded
  <2> QED BY <2>1, <2>2, <2>3, CallStepBounded DEF CallNext, callVars, CallReturns
<1> QED BY <1>1, <1>2, PTL DEF CallSpec

\* A provider is asked at most Attempts times, and at most once after the end of its
\* context, for every number of attempts and of providers and wherever in the
\* retries the deadlines of the provider and of the worker fall.
THEOREM AttemptsAreBounded == CallSpec => []AttemptsBounded
<1>1. CallsBounded => AttemptsBounded
  BY DEF CallsBounded, CallBounded, AttemptsBounded
<1> QED BY <1>1, CallsAreBounded, PTL

\* A call's own steps, under its bound on the attempts: each brings the call nearer.
LEMMA CallStepNearer ==
    ASSUME CallsBounded, NEW s \in Slots, CallStep(s)
    PROVE  Nearer(call'[s], call[s])
<1> USE CallAssumption
<1> DEFINE c == call[s]
           d == call'[s]
<1>a. c \in Calls /\ CallBounded(c)
  BY DEF CallsBounded
<1>b. c.left \in Nat /\ c.tries \in Nat /\ c.tries <= Attempts /\ (c.pc = "try" => c.tries < Attempts)
  BY <1>a DEF Calls, CallBounded
<1>c. ASSUME NEW x, CallTo(s, x) PROVE d = x
  BY <1>c DEF CallTo, CallsBounded
<1>d. c.pc \in {"try", "sent", "wait"} => StepsOfTry(c) \in Nat /\ StepsOfTry(c) > 0
  <2>1. 3 * (Attempts - c.tries) \in Nat /\ (c.pc = "try" => 3 * (Attempts - c.tries) > 0)
    BY <1>b
  <2> QED BY <2>1 DEF StepsOfTry, RetriesLeft
<1>1. CASE BeginCall(s)
  <2>1. d.pc \in {"next", "done"}
    BY <1>1, <1>c DEF BeginCall, NoCall
  <2>2. c.pc = "none"
    BY <1>1 DEF BeginCall
  <2>3. Stage(c) = 2 /\ Stage(d) \in {0, 1}
    BY <2>1, <2>2 DEF Stage
  <2> QED BY <2>3 DEF Nearer
<1>2. CASE NextProvider(s)
  <2>1. d.pc = "try" /\ d.left = c.left - 1
    BY <1>2, <1>a, <1>c DEF NextProvider, Calls
  <2> QED BY <1>2, <1>b, <2>1 DEF NextProvider, Nearer, Stage
<1>3. CASE NoClient(s)
  <2>1. d.pc = "next" /\ d.left = c.left - 1
    BY <1>3, <1>a, <1>c DEF NoClient, Calls
  <2> QED BY <1>3, <1>b, <2>1 DEF NoClient, Nearer, Stage
<1>4. CASE UseFallback(s) \/ Answered(s)
  <2>1. d.pc = "done"
    BY <1>4, <1>c DEF UseFallback, Answered, NoCall
  <2> QED BY <1>4, <2>1 DEF UseFallback, Answered, Nearer, Stage
<1>5. CASE Attempt(s)
  <2>1. d.pc = "sent" /\ d.left = c.left /\ d.tries = c.tries + 1
    BY <1>5, <1>a, <1>c, ZenonT(40) DEF Attempt, Calls
  <2>2. StepsOfTry(d) < StepsOfTry(c)
    BY <1>5, <1>b, <2>1 DEF Attempt, StepsOfTry, RetriesLeft
  <2> QED BY <1>5, <2>1, <2>2 DEF Attempt, Nearer, Stage
<1>6. ASSUME c.pc \in {"sent", "wait"}, CallTo(s, [c EXCEPT !.pc = "next"]) PROVE Nearer(d, c)
  <2>1. d.pc = "next" /\ d.left = c.left
    BY <1>6, <1>a, <1>c DEF Calls
  <2>2. StepsOfTry(d) < StepsOfTry(c)
    BY <1>6, <1>d, <2>1 DEF StepsOfTry
  <2> QED BY <1>6, <2>1, <2>2 DEF Nearer, Stage
<1>7. CASE AttemptFails(s)
  <2>0. PICK e \in BOOLEAN : e = ~c.expired
    OBVIOUS
  <2>1. d.pc = "wait" /\ d.left = c.left /\ d.tries = c.tries
    <3>1. d = [c EXCEPT !.pc = "wait", !.early = e]
      BY <1>7, <1>c, <2>0 DEF AttemptFails
    <3> QED BY <1>a, <3>1 DEF Calls
  <2>2. StepsOfTry(d) < StepsOfTry(c)
    BY <1>7, <1>b, <2>1 DEF AttemptFails, StepsOfTry, RetriesLeft
  <2> QED BY <1>7, <2>1, <2>2 DEF AttemptFails, Nearer, Stage
<1>8. ASSUME c.pc = "wait", c.tries < Attempts, CallTo(s, [c EXCEPT !.pc = "try"]) PROVE Nearer(d, c)
  <2>1. d.pc = "try" /\ d.left = c.left /\ d.tries = c.tries
    BY <1>8, <1>a, <1>c DEF Calls
  <2>2. StepsOfTry(d) < StepsOfTry(c)
    BY <1>8, <1>b, <2>1 DEF StepsOfTry, RetriesLeft
  <2> QED BY <1>8, <2>1, <2>2 DEF Nearer, Stage
<1>9. CASE Unusable(s) \/ BackoffCancelled(s) \/ BackoffElapses(s)
  BY <1>6, <1>8, <1>9 DEF Unusable, BackoffCancelled, BackoffElapses
<1> QED BY <1>1, <1>2, <1>3, <1>4, <1>5, <1>7, <1>9 DEF CallStep

\* A deadline moves nothing but the marks of the two contexts.
LEMMA DeadlineMarks ==
    ASSUME CallsBounded, NEW s \in Slots, ProviderDeadline(s) \/ WorkerDeadline(s)
    PROVE  [call[s] EXCEPT !.expired = TRUE, !.over = TRUE] = [call'[s] EXCEPT !.expired = TRUE, !.over = TRUE]
<1>1. call[s] \in Calls /\ call \in [Slots -> Calls]
  BY DEF CallsBounded
<1>2. CASE ProviderDeadline(s)
  <2>1. call'[s] = [call[s] EXCEPT !.expired = TRUE]
    BY <1>1, <1>2 DEF ProviderDeadline, CallTo
  <2> QED BY <1>1, <2>1 DEF Calls
<1>3. CASE WorkerDeadline(s)
  <2>1. call'[s] = [call[s] EXCEPT !.expired = TRUE, !.over = TRUE]
    BY <1>1, <1>3 DEF WorkerDeadline, CallTo
  <2> QED BY <1>1, <2>1 DEF Calls
<1> QED BY <1>2, <1>3

\* AnalyzeWithFallback and the Retrier never lead back: every step of a call brings it
\* nearer to its result, for every number of attempts and of providers, so that what
\* QueueDrains asks of a fair worker takes a bounded number of its steps.
THEOREM CallsAdvance == CallSpec => CallAdvances
<1> DEFINE Same(c, d) ==
               [c EXCEPT !.expired = TRUE, !.over = TRUE] = [d EXCEPT !.expired = TRUE, !.over = TRUE]
           Move(s) ==
               \/ Same(call[s], call'[s])
               \/ Nearer(call'[s], call[s])
               \/ call'[s] = NoCall /\ (call[s].pc = "done" \/ crashes' # crashes)
<1>1. CallsBounded /\ TypeOK /\ [CallNext]_callVars => [\A s \in Slots : Move(s)]_callVars
  <2> SUFFICES ASSUME CallsBounded, TypeOK, CallNext, NEW s \in Slots PROVE Move(s)
    OBVIOUS
  <2>0. call \in [Slots -> Calls]
    BY DEF CallsBounded
  <2>1. CASE call'[s] = call[s]
    BY <2>1
  <2>2. ASSUME NEW t \in Slots, t # s, CallReturns(t) \/ CallStep(t) \/ ProviderDeadline(t) \/ WorkerDeadline(t)
        PROVE  call'[s] = call[s]
    BY <2>0, <2>2
       DEF CallReturns, CallStep, BeginCall, NextProvider, NoClient, UseFallback, Attempt, Answered, Unusable,
           AttemptFails, BackoffElapses, BackoffCancelled, ProviderDeadline, WorkerDeadline, CallTo
  <2>3. CASE CallReturns(s)
    BY <2>0, <2>3 DEF CallReturns
  <2>4. CASE CallStep(s)
    BY <2>4, CallStepNearer
  <2>5. CASE ProviderDeadline(s) \/ WorkerDeadline(s)
    BY <2>5, DeadlineMarks
  <2>6. CASE Crash /\ call' = [t \in Slots |-> NoCall]
    <3>1. crashes' # crashes
      BY <2>6 DEF Crash, TypeOK
    <3> QED BY <2>6, <3>1
  <2> QED BY <2>1, <2>2, <2>3, <2>4, <2>5, <2>6 DEF CallNext
<1> QED BY <1>1, CallsAreBounded, CallsImplementPipeline, TypeCorrect, PTL DEF CallSpec, CallAdvances

============================================================================
