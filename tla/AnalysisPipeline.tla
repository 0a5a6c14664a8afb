-------------------------- MODULE AnalysisPipeline --------------------------
(***************************************************************************)
(* From a WhatsApp event to an analysed message: the syncer and the agents *)
(* (MessageSync) and the analysis (AnalysisWorker) over one database and   *)
(* one Redis list (MessageStore), with restarts of the server in between.  *)
(***************************************************************************)
EXTENDS MessageSync, AnalysisWorker

CONSTANT MaxCrashes  \* bound: restarts

ASSUME CrashAssumption == MaxCrashes \in Nat

VARIABLE crashes

vars == <<redis, storeVars, syncVars, workerVars, crashes>>

Init == StoreInit /\ SyncInit /\ WorkerInit /\ crashes = 0

\* The process ends at any point and is started again.
Crash ==
    /\ crashes < MaxCrashes
    /\ crashes' = crashes + 1
    /\ SyncCrash
    /\ WorkerCrash
    /\ lost' = lost \cup (UNION {InHand(p) : p \in Runners})
                    \cup ({handler[h].id : h \in Handlers} \cap Ids)
    /\ UNCHANGED <<messages, important, lastAt, queue, pushed, faults>>

Next ==
    /\ \/ SyncNext /\ UNCHANGED <<workerVars, crashes>>
       \/ WorkerNext /\ UNCHANGED <<syncVars, crashes>>
       \/ Crash
    /\ UNCHANGED redis

Spec == Init /\ [][Next]_vars
----------------------------------------------------------------------------
TypeOK == StoreTypeOK /\ SyncTypeOK /\ WorkerTypeOK /\ crashes \in 0 .. MaxCrashes

\* insertMessage looks for the whatsapp_id before it inserts.  Two rows for one
\* WhatsApp message can therefore only exist if two handlers were between the
\* SELECT and the INSERT for it at the same time, or StoreAnalysis overwrote the
\* whatsapp_id of one of them after a failed read; neither a redelivery, nor a
\* restart, nor concurrent analyses of the row can produce them.
UniqueRows ==
    \A i, j \in Ids :
        /\ i # j
        /\ messages[i].by = "sync" /\ messages[j].by = "sync"
        /\ messages[i].origin = messages[j].origin
        => messages[i].origin \in overlap \/ {i, j} \cap blind # {}

\* A message that the syncer stored is analysed, or on its way through handler,
\* queue and worker, or a failing call or a restart is known to have taken it:
\* no schedule of handlers, requests and worker makes it vanish.
NothingVanishes ==
    redis = "yes" =>
        \A id \in Ids :
            messages[id].by = "sync" =>
                \/ messages[id].analysis # "none"
                \/ id \in lost \cup IdsIn(queue)
                \/ \E s \in Slots : id \in InHand(s)
                \/ \E h \in Handlers : handler[h].id = id

\* LPush and RPop make the list a queue and EnsureTenant allows one worker: an
\* item is never still waiting, in Redis or in a batch, when the analysis of a
\* later one has begun.
OldestFirst ==
    /\ \A i \in DOMAIN queue : queue[i].n > served
    /\ \A s \in Slots : \A i \in DOMAIN batch[s] : batch[s][i].n > served

\* A message whose stored analysis says important is listed in
\* important_messages, or the StoreAnalysis that will list it is under way, or
\* that one failed; and what is listed has an analysis.
ImportantListed ==
    \A id \in Ids :
        /\ messages[id].analysis = "important" =>
              \/ id \in important \cup lost
              \/ \E p \in Runners : job[p].pc = "mark" /\ job[p].id = id
        /\ id \in important => messages[id].analysis # "none"

\* How the rows of the pipeline look to somebody who only knows what it promises.
LifeOf(id) ==
    CASE id \notin Stored -> "absent"
      [] id \in Stored /\ messages[id].analysis # "none" -> "analysed"
      [] id \in Stored /\ messages[id].analysis = "none" -> IF id \in lost THEN "missed" ELSE "stored"

Promise == INSTANCE AnalysisPromise WITH
    Rows <- Ids, life <- [id \in Ids |-> LifeOf(id)], listed <- important

\* Every step of syncer, agents, worker, requests and restarts is a step of
\* AnalysisPromise or invisible to it: in particular no redelivery, no failing
\* call and no overlap of two StoreAnalysis takes a stored analysis back.
PromiseKept == Promise!Spec

\* UpsertConversation runs before insertMessage and never moves last_message_at
\* back: until an agent writes to the conversation, last_message_at is not older
\* than any message stored in it.
ConversationUpToDate ==
    (\A id \in Ids : messages[id].by # "agent") =>
        \A id \in Stored : TimeOf[messages[id].origin] <= lastAt

\* sync.go on the upsert's ON CONFLICT: "We need a unique constraint on
\* (tenant_id, contact_number) for this to work which we added in migration
\* 009".  When a handler runs the upsert, the migrations it needs are applied.
UpsertHasItsIndex ==
    (\E h \in Handlers : handler[h].pc = "upsert") => SchemaReady
============================================================================
