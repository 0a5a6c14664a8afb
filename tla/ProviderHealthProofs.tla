------------------------ MODULE ProviderHealthProofs ------------------------
(***************************************************************************)
(* Proofs about the health of LLM providers for every set of providers and *)
(* of requests that test them: types, and that a provider shown as         *)
(* unhealthy has failed.                                                   *)
(***************************************************************************)
EXTENDS ProviderHealth, FiniteSetTheorems, TLAPS

MonitorStates == [pc : {"off", "list", "next", "insert", "update", "count", "mark"},
                  todo : SUBSET Providers, p : Providers \cup {NoProvider}, status : Statuses]
TestStates == [pc : {"idle", "insert", "update"}, p : Providers \cup {NoProvider},
               status : {"ok", "error"}]

Logged == /\ log \in [Providers -> Seq(Statuses)]
          /\ \A p \in Providers : Len(log[p]) <= 3 /\ (p \notin Live => log[p] = <<>>)

\* A check in hand is a check of a provider.
Busy ==
    /\ monitor.pc \in {"insert", "update", "count", "mark"} => monitor.p \in Providers
    /\ \A t \in Tests : test[t].pc # "idle" => test[t].p \in Providers

Typed == TypeOK /\ Logged /\ Busy

\* No health is shown of a provider that has no row.
Hidden == \A p \in Providers : p \notin Live => health[p] = "unknown"

AllFailed(p) == Len(log[p]) = 3 /\ \A i \in 1 .. 3 : log[p][i] # "ok"

\* The monitor marks a provider whose last three checks failed when it counted.
Verdict ==
    monitor.pc = "mark" =>
        AllFailed(monitor.p) \/ monitor.p \in unsettled \/ row[monitor.p] = "deleted"

IInv == Typed /\ Hidden /\ Verdict /\ UnhealthyJustified
----------------------------------------------------------------------------
\* RecentHealthFailures counts in the last three rows: three failures are all.
LEMMA FailingIsAll ==
    ASSUME NEW p \in Providers, Logged, Failing(p)
    PROVE  AllFailed(p)
<1> DEFINE n == Len(log[p])
           S == {i \in DOMAIN log[p] : log[p][i] # "ok"}
<1>1. n \in Nat /\ n <= 3 /\ DOMAIN log[p] = 1 .. n
  BY DEF Logged
<1>2. S \in SUBSET (1 .. n)
  BY <1>1
<1>3. IsFiniteSet(1 .. n) /\ Cardinality(1 .. n) = n
  BY <1>1, FS_Interval
<1>4. /\ IsFiniteSet(S) /\ Cardinality(S) <= n
      /\ Cardinality(1 .. n) = Cardinality(S) => 1 .. n = S
  BY <1>2, <1>3, FS_Subset
<1>5. Cardinality(S) \in Nat /\ Cardinality(S) >= 3
  BY <1>4, FS_CardinalityType DEF Failing
<1> HIDE DEF n, S
<1>6. n = 3
  BY <1>1, <1>4, <1>5
<1>7. S = 1 .. 3
  BY <1>3, <1>4, <1>5, <1>6
<1> QED BY <1>6, <1>7 DEF AllFailed, n, S

\* An INSERT into llm_provider_health: its effect on the last three rows.
LEMMA InsertLogTyped ==
    ASSUME NEW p \in Providers, NEW x \in Statuses, Logged, InsertLog(p, x), row' = row
    PROVE  /\ log' \in [Providers -> Seq(Statuses)]
           /\ \A q \in Providers : Len(log'[q]) <= 3 /\ (q \notin Live => log'[q] = <<>>)
           /\ \A q \in Providers \ {p} : log'[q] = log[q]
<1> DEFINE kept == IF Len(log[p]) = 3 THEN Tail(log[p]) ELSE log[p]
<1>1. log[p] \in Seq(Statuses) /\ Len(log[p]) <= 3
  BY DEF Logged
<1>2. kept \in Seq(Statuses) /\ Len(kept) <= 2
  <2>1. CASE Len(log[p]) = 3
    <3>1. log[p] # <<>>
      BY <2>1
    <3>2. Tail(log[p]) \in Seq(Statuses) /\ Len(Tail(log[p])) = Len(log[p]) - 1
      BY <1>1, <3>1
    <3>3. kept = Tail(log[p])
      BY <2>1
    <3> HIDE DEF kept
    <3> QED BY <2>1, <3>2, <3>3
  <2>2. CASE Len(log[p]) # 3
    <3>1. kept = log[p] /\ Len(log[p]) \in Nat
      BY <1>1, <2>2
    <3>2. \A n \in Nat : n <= 3 /\ n # 3 => n <= 2
      OBVIOUS
    <3> HIDE DEF kept
    <3>3. Len(log[p]) <= 2
      BY <1>1, <2>2, <3>1, <3>2
    <3> QED BY <1>1, <3>1, <3>3
  <2> QED BY <2>1, <2>2
<1>3. Append(kept, x) \in Seq(Statuses) /\ Len(Append(kept, x)) <= 3
  BY <1>2
<1>4. log' = [log EXCEPT ![p] = Append(kept, x)] /\ p \in Live
  BY DEF InsertLog
<1> HIDE DEF kept
<1> QED BY <1>3, <1>4 DEF Logged

LEMMA MonitorTyped ==
    ASSUME Typed, [Next]_vars
    PROVE  /\ monitor' \in MonitorStates
           /\ monitor'.pc \in {"insert", "update", "count", "mark"} => monitor'.p \in Providers
<1> USE DEF Typed, TypeOK, Busy
<1>1. monitor \in MonitorStates
  BY DEF MonitorStates
<1>2. ASSUME NEW p \in Providers, Check(p)
      PROVE  monitor' \in MonitorStates /\ monitor'.p \in Providers
  <2>1. PICK c : monitor' = [pc |-> "insert", todo |-> monitor.todo \ {p}, p |-> p, status |-> Answer(p, c)]
    BY <1>2 DEF Check
  <2>2. Answer(p, c) \in Statuses
    BY DEF Answer, Reply, Statuses
  <2>3. monitor.todo \ {p} \in SUBSET Providers
    BY <1>1 DEF MonitorStates
  <2> QED BY <2>1, <2>2, <2>3 DEF MonitorStates
<1>3. ASSUME NEW x \in {"off", "list", "next", "insert", "update", "count", "mark"}, Step(x)
      PROVE  monitor' \in MonitorStates /\ monitor'.pc = x /\ monitor'.p = monitor.p
  BY <1>1, <1>3 DEF Step, MonitorStates
<1>4. ASSUME NEW p \in Providers, CreateProvider(p) PROVE EnsureTenant
  BY <1>4 DEF CreateProvider
<1>5. CASE EnsureTenant
  BY <1>1, <1>5 DEF EnsureTenant, MonitorStates
<1>6. CASE RunOnce \/ EndRound \/ Restart
  <2>1. NoMonitor \in MonitorStates /\ NoMonitor.pc = "off"
    BY DEF NoMonitor, MonitorStates, Statuses
  <2>2. CASE EndRound
    BY <2>1, <2>2 DEF EndRound, MonitorStates
  <2>3. CASE RunOnce
    <3>1. Live \in SUBSET Providers
      BY DEF Live
    <3> QED BY <1>1, <2>3, <3>1 DEF RunOnce, MonitorStates
  <2>4. CASE Restart
    BY <2>1, <2>4 DEF Restart
  <2> QED BY <1>6, <2>2, <2>3, <2>4
<1>7. ASSUME NEW p \in Providers, Skip(p)
      PROVE  monitor' \in MonitorStates /\ monitor'.pc = "next"
  BY <1>1, <1>7 DEF Skip, MonitorStates
<1>8. CASE MonitorInsert \/ MonitorInsertFails \/ MonitorUpdate \/ MonitorUpdateFails
  BY <1>3, <1>8 DEF MonitorInsert, MonitorInsertFails, MonitorUpdate, MonitorUpdateFails, Recorded
<1>9. CASE RecentHealthFailures \/ SetProviderHealth
  BY <1>3, <1>9 DEF RecentHealthFailures, SetProviderHealth
<1>10. CASE UNCHANGED monitor
  BY <1>1, <1>10
<1>11. \/ EnsureTenant \/ RunOnce \/ EndRound \/ Restart
       \/ \E p \in Providers : Check(p) \/ Skip(p)
       \/ MonitorInsert \/ MonitorInsertFails \/ MonitorUpdate \/ MonitorUpdateFails
       \/ RecentHealthFailures \/ SetProviderHealth \/ UNCHANGED monitor
  BY <1>4 DEF Next, vars, MonitorStep, DeleteProvider, ServiceChanges, TestStep, TestInsert, TestUpdate,
              TestFails, TestProvider, CreateAnother, DatabaseChanges
<1> QED
  BY <1>2, <1>5, <1>6, <1>7, <1>8, <1>9, <1>10, <1>11

LEMMA TestTyped ==
    ASSUME Typed, [Next]_vars
    PROVE  /\ test' \in [Tests -> TestStates]
           /\ \A t \in Tests : test'[t].pc # "idle" => test'[t].p \in Providers
<1> USE DEF Typed, TypeOK, Busy
<1>1. test \in [Tests -> TestStates]
  BY DEF TestStates
<1>2. ASSUME NEW t \in Tests, NEW x \in TestStates, test' = [test EXCEPT ![t] = x],
             x.pc # "idle" => x.p \in Providers
      PROVE  /\ test' \in [Tests -> TestStates]
             /\ \A u \in Tests : test'[u].pc # "idle" => test'[u].p \in Providers
  BY <1>1, <1>2
<1>3. NoTest \in TestStates /\ NoTest.pc = "idle"
  BY DEF NoTest, TestStates
<1>4. ASSUME NEW t \in Tests, NEW p \in Providers, TestProvider(t, p)
      PROVE  \E x \in {"ok", "error"} : test' = [test EXCEPT ![t] = [pc |-> "insert", p |-> p, status |-> x]]
  BY <1>4 DEF TestProvider
<1>5. ASSUME NEW p \in Providers, NEW x \in {"ok", "error"}
      PROVE  LET r == [pc |-> "insert", p |-> p, status |-> x]
             IN  r \in TestStates /\ r.pc = "insert" /\ r.p = p
  BY DEF TestStates
<1>6. ASSUME NEW t \in Tests, TestInsert(t)
      PROVE  /\ test' = [test EXCEPT ![t] = [test[t] EXCEPT !.pc = "update"]]
             /\ [test[t] EXCEPT !.pc = "update"] \in TestStates
             /\ [test[t] EXCEPT !.pc = "update"].p \in Providers
  <2>1. test[t] \in TestStates /\ test[t].p \in Providers
    BY <1>1, <1>6 DEF TestInsert
  <2>2. [test[t] EXCEPT !.pc = "update"] \in TestStates /\ [test[t] EXCEPT !.pc = "update"].p \in Providers
    BY <2>1 DEF TestStates
  <2> QED BY <1>6, <2>2 DEF TestInsert
<1>7. ASSUME NEW t \in Tests, TestUpdate(t) \/ TestFails(t) PROVE test' = [test EXCEPT ![t] = NoTest]
  BY <1>7 DEF TestUpdate, TestFails
<1>8. CASE Restart
  BY <1>3, <1>8 DEF Restart
<1>9. CASE \E t \in Tests : TestStep(t) \/ TestFails(t) \/ \E p \in Providers : TestProvider(t, p)
  <2>1. PICK t \in Tests : TestStep(t) \/ TestFails(t) \/ \E p \in Providers : TestProvider(t, p)
    BY <1>9
  <2>2. CASE TestInsert(t)
    BY <1>2, <1>6, <2>2
  <2>3. CASE TestUpdate(t) \/ TestFails(t)
    BY <1>2, <1>3, <1>7, <2>3
  <2>4. CASE \E p \in Providers : TestProvider(t, p)
    <3>1. PICK p \in Providers, x \in {"ok", "error"} :
             test' = [test EXCEPT ![t] = [pc |-> "insert", p |-> p, status |-> x]]
      BY <1>4, <2>4
    <3>2. /\ [pc |-> "insert", p |-> p, status |-> x] \in TestStates
          /\ [pc |-> "insert", p |-> p, status |-> x].p \in Providers
      BY <1>5
    <3> QED BY <1>2, <3>1, <3>2
  <2> QED BY <2>1, <2>2, <2>3, <2>4 DEF TestStep
<1>10. CASE UNCHANGED test
  BY <1>1, <1>10
<1> QED
  BY <1>8, <1>9, <1>10
     DEF Next, vars, MonitorStep, RunOnce, EndRound, Check, Skip, MonitorInsert, MonitorInsertFails,
         MonitorUpdate, MonitorUpdateFails, RecentHealthFailures, SetProviderHealth, CreateProvider,
         DeleteProvider, ServiceChanges, CreateAnother, DatabaseChanges
----------------------------------------------------------------------------
LEMMA LogTyped == Typed /\ [Next]_vars => Logged'
<1> SUFFICES ASSUME Typed, [Next]_vars PROVE Logged'
  OBVIOUS
<1> USE DEF Typed, TypeOK, Busy
<1>1. CASE MonitorInsert
  <2>1. monitor.p \in Providers /\ monitor.status \in Statuses /\ row' = row
    BY <1>1 DEF MonitorInsert
  <2>2. InsertLog(monitor.p, monitor.status)
    BY <1>1 DEF MonitorInsert
  <2> QED BY <2>1, <2>2, InsertLogTyped DEF Logged, Live
<1>2. ASSUME NEW t \in Tests, TestInsert(t) PROVE Logged'
  <2>1. test[t].p \in Providers /\ test[t].status \in Statuses /\ row' = row
    BY <1>2 DEF TestInsert, Statuses
  <2>2. InsertLog(test[t].p, test[t].status)
    BY <1>2 DEF TestInsert
  <2> QED BY <2>1, <2>2, InsertLogTyped DEF Logged, Live
<1>3. ASSUME NEW p \in Providers, DeleteProvider(p) PROVE Logged'
  <2>1. /\ log' = [log EXCEPT ![p] = <<>>]
        /\ \A q \in Providers : q \notin Live' => q \notin Live \/ q = p
    BY <1>3 DEF DeleteProvider, Live
  <2>2. Len(<<>>) <= 3 /\ <<>> \in Seq(Statuses)
    OBVIOUS
  <2> QED BY <2>1, <2>2 DEF Logged
<1>4. ASSUME NEW p \in Providers, CreateProvider(p) PROVE Logged'
  <2>1. log' = log /\ Live \subseteq Live'
    BY <1>4 DEF CreateProvider, Live
  <2> QED BY <2>1 DEF Logged
<1>5. CASE UNCHANGED <<log, row>>
  BY <1>5 DEF Logged, Live
<1> QED
  BY <1>1, <1>2, <1>3, <1>4, <1>5
     DEF Next, vars, MonitorStep, RunOnce, EndRound, Check, Skip, MonitorInsertFails,
         MonitorUpdate, MonitorUpdateFails, RecentHealthFailures, SetProviderHealth,
         TestStep, TestUpdate, TestFails, TestProvider, ServiceChanges, CreateAnother, DatabaseChanges,
         Restart

LEMMA TypedStep == Typed /\ [Next]_vars => Typed'
<1> SUFFICES ASSUME Typed, [Next]_vars PROVE Typed'
  OBVIOUS
<1> USE DEF Typed, TypeOK, Busy
<1>1. service' \in [Providers -> {"up", "slow", "down"}] /\ database' \in {"up", "down"}
  BY SMTT(30) DEF Next, vars, MonitorStep, RunOnce, EndRound, Check, Skip, MonitorInsert, MonitorInsertFails,
         MonitorUpdate, MonitorUpdateFails, RecentHealthFailures, SetProviderHealth, CreateProvider,
         DeleteProvider, ServiceChanges, TestStep, TestInsert, TestUpdate, TestFails, TestProvider,
         CreateAnother, DatabaseChanges, Restart
<1>2. row' \in [Providers -> {"none", "live", "deleted"}]
  <2>1. \/ row' = row
        \/ \E p \in Providers, x \in {"live", "deleted"} : row' = [row EXCEPT ![p] = x]
    BY DEF Next, vars, MonitorStep, RunOnce, EndRound, Check, Skip, MonitorInsert, MonitorInsertFails,
           MonitorUpdate, MonitorUpdateFails, RecentHealthFailures, SetProviderHealth, CreateProvider,
           DeleteProvider, ServiceChanges, TestStep, TestInsert, TestUpdate, TestFails, TestProvider,
           CreateAnother, DatabaseChanges, Restart
  <2> QED BY <2>1
<1>3. client' \in [Providers -> {"none", "ready", "broken"}]
  <2>1. ASSUME NEW p \in Providers, Check(p) \/ \E t \in Tests : TestProvider(t, p)
        PROVE  \/ \E c \in {"ready", "broken"} : client' = [client EXCEPT ![p] = c]
               \/ client' = client
    BY <2>1 DEF Check, TestProvider, GetProvider
  <2> QED
    BY <2>1
       DEF Next, vars, MonitorStep, RunOnce, EndRound, Skip, MonitorInsert, MonitorInsertFails,
           MonitorUpdate, MonitorUpdateFails, RecentHealthFailures, SetProviderHealth, CreateProvider,
           DeleteProvider, ServiceChanges, TestStep, TestInsert, TestUpdate, TestFails,
           CreateAnother, DatabaseChanges, Restart
<1>4. ASSUME NEW p \in Providers, NEW x \in Statuses, UpdateHealth(p, x)
      PROVE  /\ health' \in [Providers -> Statuses \cup {"unknown", "unhealthy"}]
             /\ unsettled' \subseteq Providers
  BY <1>4 DEF UpdateHealth
<1>5. /\ health' \in [Providers -> Statuses \cup {"unknown", "unhealthy"}]
      /\ unsettled' \subseteq Providers
  <2>1. CASE MonitorUpdate
    BY <1>4, <2>1 DEF MonitorUpdate
  <2>2. ASSUME NEW t \in Tests, TestUpdate(t)
        PROVE  /\ health' \in [Providers -> Statuses \cup {"unknown", "unhealthy"}]
               /\ unsettled' \subseteq Providers
    BY <1>4, <2>2 DEF TestUpdate, Statuses
  <2>3. CASE MonitorUpdateFails \/ SetProviderHealth \/ Restart
    BY <2>3 DEF MonitorUpdateFails, SetProviderHealth, Restart
  <2>4. ASSUME NEW t \in Tests, TestInsert(t) \/ TestFails(t)
        PROVE  health' = health /\ unsettled' \subseteq Providers
    BY <2>4 DEF TestInsert, TestFails
  <2>5. ASSUME NEW p \in Providers, DeleteProvider(p)
        PROVE  /\ health' \in [Providers -> Statuses \cup {"unknown", "unhealthy"}]
               /\ unsettled' = unsettled
    BY <2>5 DEF DeleteProvider
  <2>6. CASE UNCHANGED <<health, unsettled>>
    BY <2>6
  <2> QED
    BY <2>1, <2>2, <2>3, <2>4, <2>5, <2>6
       DEF Next, vars, MonitorStep, RunOnce, EndRound, Check, Skip, MonitorInsert, MonitorInsertFails,
           RecentHealthFailures, CreateProvider, ServiceChanges, TestStep, TestProvider,
           CreateAnother, DatabaseChanges
<1>6. Logged'
  BY LogTyped
<1>7. monitor' \in MonitorStates /\ (monitor'.pc \in {"insert", "update", "count", "mark"} => monitor'.p \in Providers)
  BY MonitorTyped
<1>8. test' \in [Tests -> TestStates] /\ \A t \in Tests : test'[t].pc # "idle" => test'[t].p \in Providers
  BY TestTyped
<1>9. \A p \in Providers : log'[p] \in Seq(Statuses) /\ Len(log'[p]) <= 3 /\ (p \notin Live' => log'[p] = <<>>)
  BY <1>6 DEF Logged
<1> QED
  BY <1>1, <1>2, <1>3, <1>5, <1>6, <1>7, <1>8, <1>9 DEF MonitorStates, TestStates
----------------------------------------------------------------------------
\* The UPDATE of health_status leaves no provider unhealthy.
LEMMA UpdateClears ==
    ASSUME NEW p \in Providers, NEW x \in Statuses, Typed, Hidden, UpdateHealth(p, x)
    PROVE  /\ health'[p] # "unhealthy"
           /\ \A q \in Providers \ {p} : health'[q] = health[q] /\ (q \in unsettled' <=> q \in unsettled)
           /\ Marking(p) => unsettled' = unsettled
           /\ \A q \in Providers : q \notin Live => health'[q] = health[q]
<1>1. health \in [Providers -> Statuses \cup {"unknown", "unhealthy"}]
  BY DEF Typed, TypeOK
<1> QED BY <1>1 DEF UpdateHealth, Hidden, Statuses

LEMMA HiddenStep == Typed /\ Hidden /\ [Next]_vars => Hidden'
<1> SUFFICES ASSUME Typed, Hidden, [Next]_vars, NEW p \in Providers, p \notin Live'
             PROVE  health'[p] = "unknown"
  BY DEF Hidden
<1> USE DEF Typed, TypeOK, Busy
<1>1. CASE MonitorUpdate
  <2>1. UpdateHealth(monitor.p, monitor.status) /\ row' = row /\ monitor.p \in Providers
    BY <1>1 DEF MonitorUpdate
  <2> QED BY <2>1, UpdateClears DEF Hidden, Live
<1>2. ASSUME NEW t \in Tests, TestUpdate(t) PROVE health'[p] = "unknown"
  <2>1. /\ UpdateHealth(test[t].p, test[t].status) /\ row' = row
        /\ test[t].p \in Providers /\ test[t].status \in Statuses
    BY <1>2 DEF TestUpdate, Statuses
  <2> QED BY <2>1, UpdateClears DEF Hidden, Live
<1>3. CASE SetProviderHealth
  BY <1>3 DEF SetProviderHealth, Hidden, Live
<1>4. ASSUME NEW q \in Providers, DeleteProvider(q) PROVE health'[p] = "unknown"
  BY <1>4 DEF DeleteProvider, Hidden, Live
<1>5. ASSUME NEW q \in Providers, CreateProvider(q) PROVE health'[p] = "unknown"
  BY <1>5 DEF CreateProvider, Hidden, Live
<1>6. CASE UNCHANGED <<health, row>>
  BY <1>6 DEF Hidden, Live
<1> QED
  BY <1>1, <1>2, <1>3, <1>4, <1>5, <1>6
     DEF Next, vars, MonitorStep, RunOnce, EndRound, Check, Skip, MonitorInsert, MonitorInsertFails,
         MonitorUpdateFails, RecentHealthFailures, ServiceChanges, TestStep, TestInsert, TestFails,
         TestProvider, CreateAnother, DatabaseChanges, Restart

LEMMA VerdictStep == Typed /\ Hidden /\ Verdict /\ [Next]_vars => Verdict'
<1> SUFFICES ASSUME Typed, Hidden, Verdict, [Next]_vars, monitor'.pc = "mark"
             PROVE  AllFailed(monitor.p)' \/ monitor'.p \in unsettled' \/ row'[monitor'.p] = "deleted"
  BY DEF Verdict
<1> USE DEF Typed, TypeOK, Busy
<1> DEFINE Good == AllFailed(monitor.p)' \/ monitor'.p \in unsettled' \/ row'[monitor'.p] = "deleted"
<1>1. CASE RecentHealthFailures
  <2>1. monitor.p \in Providers /\ Failing(monitor.p) /\ monitor'.p = monitor.p /\ log' = log
    BY <1>1 DEF RecentHealthFailures, Step
  <2>2. AllFailed(monitor.p)
    BY <2>1, FailingIsAll
  <2> QED BY <2>1, <2>2 DEF AllFailed
<1>2. ASSUME NEW t \in Tests, TestInsert(t), monitor.pc = "mark" PROVE Good
  <2>1. monitor' = monitor /\ test[t].p \in Providers /\ test[t].status \in Statuses /\ row' = row
        /\ InsertLog(test[t].p, test[t].status)
        /\ unsettled' = IF Marking(test[t].p) THEN unsettled \cup {test[t].p} ELSE unsettled
    BY <1>2 DEF TestInsert, Statuses
  <2>2. CASE test[t].p = monitor.p
    BY <1>2, <2>1, <2>2 DEF Marking
  <2>3. CASE test[t].p # monitor.p
    <3>1. log'[monitor.p] = log[monitor.p]
      BY <1>2, <2>1, <2>3, InsertLogTyped
    <3> QED BY <1>2, <2>1, <2>3, <3>1 DEF Verdict, AllFailed, Marking
  <2> QED BY <2>2, <2>3
<1>3. ASSUME NEW t \in Tests, TestUpdate(t), monitor.pc = "mark" PROVE Good
  <2>1. monitor' = monitor /\ log' = log /\ row' = row
        /\ test[t].p \in Providers /\ test[t].status \in Statuses
        /\ UpdateHealth(test[t].p, test[t].status)
    BY <1>3 DEF TestUpdate, Statuses
  <2>2. monitor.p \in unsettled' <=> monitor.p \in unsettled
    BY <1>3, <2>1, UpdateClears, SMTT(30) DEF Marking
  <2> QED BY <1>3, <2>1, <2>2 DEF Verdict, AllFailed
<1>4. ASSUME NEW t \in Tests, TestFails(t), monitor.pc = "mark" PROVE Good
  BY <1>4 DEF TestFails, Verdict, AllFailed
<1>5. ASSUME NEW p \in Providers, DeleteProvider(p), monitor.pc = "mark" PROVE Good
  BY <1>5 DEF DeleteProvider, Verdict, AllFailed
<1>6. ASSUME NEW p \in Providers, CreateProvider(p), monitor.pc = "mark" PROVE Good
  <2>1. monitor' = monitor /\ log' = log /\ unsettled' = unsettled
        /\ (row[monitor.p] = "deleted" => row'[monitor.p] = "deleted")
    BY <1>6 DEF CreateProvider, EnsureTenant
  <2> QED BY <1>6, <2>1 DEF Verdict, AllFailed
<1>7. CASE UNCHANGED <<monitor, log, row, unsettled>>
  BY <1>7 DEF Verdict, AllFailed
<1>8. monitor'.pc # monitor.pc => RecentHealthFailures
  <2>1. ASSUME NEW p \in Providers, CreateProvider(p) PROVE monitor' = [monitor EXCEPT !.pc = "list"] \/ monitor' = monitor
    BY <2>1 DEF CreateProvider, EnsureTenant
  <2>2. CASE CreateAnother
    BY <2>2 DEF CreateAnother, EnsureTenant
  <2>3. CASE Restart
    BY <2>3 DEF Restart, NoMonitor
  <2>4. CASE MonitorStep
    <3>1. ASSUME NEW x \in {"next", "update", "count"}, Step(x) PROVE FALSE
      BY <3>1 DEF Step
    <3>2. ~ (MonitorInsert \/ MonitorInsertFails \/ MonitorUpdate \/ MonitorUpdateFails \/ SetProviderHealth)
      <4>1. ~ Recorded
        BY <3>1 DEF Recorded
      <4> QED BY <3>1, <4>1 DEF MonitorInsert, MonitorInsertFails, MonitorUpdate, MonitorUpdateFails,
                                SetProviderHealth
    <3>3. ~ (RunOnce \/ EndRound)
      BY DEF RunOnce, EndRound, NoMonitor
    <3>4. ASSUME NEW p \in Providers PROVE ~ (Check(p) \/ Skip(p))
      BY DEF Check, Skip
    <3> QED BY <2>4, <3>2, <3>3, <3>4 DEF MonitorStep
  <2> QED BY <2>1, <2>2, <2>3, <2>4
     DEF Next, vars, ServiceChanges, DeleteProvider, TestStep, TestInsert, TestUpdate, TestFails,
         TestProvider, DatabaseChanges
<1>9. CASE monitor.pc = "mark"
  BY <1>2, <1>3, <1>4, <1>5, <1>6, <1>7, <1>9
     DEF Next, vars, MonitorStep, RunOnce, EndRound, Check, Skip, MonitorInsert, MonitorInsertFails,
         MonitorUpdate, MonitorUpdateFails, RecentHealthFailures, SetProviderHealth, Step,
         ServiceChanges, TestStep, TestProvider, CreateAnother, DatabaseChanges, Restart, NoMonitor
<1> QED BY <1>1, <1>8, <1>9
----------------------------------------------------------------------------
\* What the answer in hand leaves open: an UPDATE of p is still to come.
Writing(p) ==
    \/ monitor.pc = "update" /\ monitor.p = p
    \/ \E t \in Tests : test[t].pc = "update" /\ test[t].p = p

LEMMA JustifiedStep ==
    ASSUME Typed, Hidden, Verdict, UnhealthyJustified, [Next]_vars
    PROVE  UnhealthyJustified'
<1> SUFFICES ASSUME NEW p \in Providers, health'[p] = "unhealthy"
             PROVE  AllFailed(p)' \/ p \in unsettled' \/ Writing(p)'
  BY DEF UnhealthyJustified, AllFailed, Writing
<1> USE DEF Typed, TypeOK, Busy
<1> DEFINE Good == AllFailed(p)' \/ p \in unsettled' \/ Writing(p)'
<1>0. health[p] = "unhealthy" => AllFailed(p) \/ p \in unsettled \/ Writing(p)
  BY DEF UnhealthyJustified, AllFailed, Writing
<1>1. CASE SetProviderHealth
  <2>1. log' = log /\ unsettled' = unsettled /\ test' = test /\ monitor.pc = "mark"
    BY <1>1 DEF SetProviderHealth
  <2>2. CASE health[p] = "unhealthy"
    BY <1>0, <2>1, <2>2 DEF AllFailed, Writing
  <2>3. CASE health[p] # "unhealthy"
    <3>1. monitor.p = p /\ p \in Live
      BY <1>1, <2>3 DEF SetProviderHealth
    <3> QED BY <2>1, <3>1 DEF Verdict, AllFailed, Live
  <2> QED BY <2>2, <2>3
<1>2. CASE MonitorInsert
  <2>1. /\ monitor.p \in Providers /\ monitor.status \in Statuses /\ row' = row /\ test' = test
        /\ health' = health /\ unsettled' = unsettled /\ monitor.pc = "insert"
        /\ InsertLog(monitor.p, monitor.status)
    BY <1>2 DEF MonitorInsert
  <2>2. monitor'.pc = "update" /\ monitor'.p = monitor.p
    BY <1>2 DEF MonitorInsert, Step
  <2>3. CASE monitor.p = p
    BY <2>2, <2>3 DEF Writing
  <2>4. CASE monitor.p # p
    <3>1. log'[p] = log[p]
      BY <2>1, <2>4, InsertLogTyped
    <3> QED BY <1>0, <2>1, <3>1 DEF AllFailed, Writing
  <2> QED BY <2>3, <2>4
<1>3. CASE MonitorUpdate
  <2>1. /\ monitor.p \in Providers /\ monitor.status \in Statuses /\ log' = log /\ test' = test
        /\ UpdateHealth(monitor.p, monitor.status)
    BY <1>3 DEF MonitorUpdate
  <2>2. monitor.p # p /\ health'[p] = health[p] /\ (p \in unsettled' <=> p \in unsettled)
    BY <2>1, UpdateClears
  <2> QED BY <1>0, <2>1, <2>2 DEF AllFailed, Writing
<1>4. CASE MonitorUpdateFails
  BY <1>0, <1>4 DEF MonitorUpdateFails, AllFailed, Writing
<1>5. ASSUME NEW t \in Tests, TestInsert(t) PROVE Good
  <2>1. /\ test[t].p \in Providers /\ test[t].status \in Statuses /\ row' = row /\ monitor' = monitor
        /\ health' = health /\ (p \in unsettled => p \in unsettled') /\ test[t].pc = "insert"
        /\ InsertLog(test[t].p, test[t].status)
        /\ \A u \in Tests \ {t} : test'[u] = test[u]
        /\ test'[t].pc = "update" /\ test'[t].p = test[t].p
    BY <1>5 DEF TestInsert, Statuses
  <2>2. Writing(p) => Writing(p)'
    BY <2>1 DEF Writing
  <2>3. CASE test[t].p = p
    BY <2>1, <2>3 DEF Writing
  <2>4. CASE test[t].p # p
    <3>1. log'[p] = log[p]
      BY <2>1, <2>4, InsertLogTyped
    <3> QED BY <1>0, <2>1, <2>2, <3>1 DEF AllFailed
  <2> QED BY <2>3, <2>4
<1>6. ASSUME NEW t \in Tests, TestUpdate(t) PROVE Good
  <2>1. /\ test[t].p \in Providers /\ test[t].status \in Statuses /\ log' = log /\ monitor' = monitor
        /\ UpdateHealth(test[t].p, test[t].status)
        /\ \A u \in Tests \ {t} : test'[u] = test[u]
    BY <1>6 DEF TestUpdate, Statuses
  <2>2. test[t].p # p /\ health'[p] = health[p] /\ (p \in unsettled' <=> p \in unsettled)
    BY <2>1, UpdateClears
  <2> QED BY <1>0, <2>1, <2>2 DEF AllFailed, Writing
<1>7. ASSUME NEW t \in Tests, TestFails(t) PROVE Good
  <2>1. /\ log' = log /\ monitor' = monitor /\ health' = health
        /\ \A u \in Tests \ {t} : test'[u] = test[u]
        /\ p \in unsettled => p \in unsettled'
        /\ test[t].pc = "update" /\ test[t].p = p => p \in unsettled'
    BY <1>7 DEF TestFails
  <2> QED BY <1>0, <2>1 DEF AllFailed, Writing
<1>8. ASSUME NEW t \in Tests, NEW q \in Providers, TestProvider(t, q) PROVE Good
  <2>1. /\ log' = log /\ monitor' = monitor /\ health' = health /\ unsettled' = unsettled
        /\ \A u \in Tests \ {t} : test'[u] = test[u]
        /\ test[t].pc = "idle"
    BY <1>8 DEF TestProvider
  <2> QED BY <1>0, <2>1 DEF AllFailed, Writing
<1>9. ASSUME NEW q \in Providers, DeleteProvider(q) PROVE Good
  BY <1>0, <1>9 DEF DeleteProvider, AllFailed, Writing
<1>10. CASE Restart
  <2>1. /\ log' = log /\ health' = health
        /\ p \in unsettled => p \in unsettled'
        /\ Writing(p) => p \in unsettled'
    BY <1>10 DEF Restart, Writing
  <2> QED BY <1>0, <2>1 DEF AllFailed
<1>11. CASE /\ UNCHANGED <<log, health, test, unsettled>>
            /\ monitor.pc # "update" \/ monitor' = monitor
  BY <1>0, <1>11 DEF AllFailed, Writing
<1>12. CASE \E q \in Providers : CreateProvider(q)
  BY <1>11, <1>12 DEF CreateProvider, EnsureTenant
<1>13. CASE CreateAnother
  BY <1>11, <1>13 DEF CreateAnother
<1> QED
  BY <1>1, <1>2, <1>3, <1>4, <1>5, <1>6, <1>7, <1>8, <1>9, <1>10, <1>11, <1>12, <1>13
     DEF Next, vars, MonitorStep, RunOnce, EndRound, Check, Skip, MonitorInsertFails,
         RecentHealthFailures, ServiceChanges, TestStep, DatabaseChanges

LEMMA Holds == Spec => []IInv
<1>1. Init => IInv
  <2> SUFFICES ASSUME Init PROVE IInv
    OBVIOUS
  <2>1. Logged
    <3>1. <<>> \in Seq(Statuses) /\ Len(<<>>) <= 3
      OBVIOUS
    <3> QED BY <3>1 DEF Init, Logged
  <2>2. TypeOK
    <3>1. NoMonitor \in MonitorStates
      BY DEF NoMonitor, MonitorStates, Statuses
    <3>2. NoTest \in TestStates
      BY DEF NoTest, TestStates
    <3>3. \A p \in Providers : log[p] \in Seq(Statuses) /\ Len(log[p]) <= 3 /\ (p \notin Live => log[p] = <<>>)
      BY <2>1 DEF Logged
    <3>4. row \in [Providers -> {"none", "live", "deleted"}] /\ service \in [Providers -> {"up", "slow", "down"}]
      BY DEF Init
    <3> QED BY <3>1, <3>2, <3>3, <3>4 DEF Init, TypeOK, MonitorStates, TestStates
  <2>3. Busy /\ Hidden /\ Verdict /\ UnhealthyJustified
    BY DEF Init, Busy, Hidden, Verdict, UnhealthyJustified, NoMonitor, NoTest
  <2> QED BY <2>1, <2>2, <2>3 DEF IInv, Typed
<1>2. IInv /\ [Next]_vars => IInv'
  BY TypedStep, HiddenStep, VerdictStep, JustifiedStep DEF IInv
<1> QED BY <1>1, <1>2, PTL DEF Spec
----------------------------------------------------------------------------
\* The tables, the factory's instances, the monitor and the requests that test a
\* provider keep their types; the window that RecentHealthFailures reads never
\* exceeds three rows and is empty for a provider without a row.
THEOREM TypeCorrect == Spec => []TypeOK
<1>1. IInv => TypeOK
  BY DEF IInv, Typed
<1> QED BY <1>1, Holds, PTL

\* However checks of the monitor and of requests interleave, a provider shown as
\* unhealthy failed its last three recorded checks, or a check of it is being
\* written, lost its UPDATE, or came between the monitor's count and its verdict.
THEOREM UnhealthyIsJustified == Spec => []UnhealthyJustified
<1>1. IInv => UnhealthyJustified
  BY DEF IInv
<1> QED BY <1>1, Holds, PTL
=============================================================================
