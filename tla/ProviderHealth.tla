--------------------------- MODULE ProviderHealth ---------------------------
(***************************************************************************)
(* The health of one tenant's LLM providers: the monitor and its scheduler *)
(* (backend/internal/llm/health.go, scheduler.go), the requests that test  *)
(* a provider (handlers/llm.go) and the tables both write through          *)
(* llm/store.go, each SQL statement one step.                              *)
(*                                                                         *)
(* The service behind a provider answers, answers after more than three    *)
(* seconds, or fails; the database answers or fails.  Both change at any   *)
(* time.  Whether is_active is set, and the cache's expiry, are subjects   *)
(* of ProviderRouting: here a row that exists is active, and an instance   *)
(* that exists may be found in the cache.                                  *)
(***************************************************************************)
EXTENDS Integers, Sequences, FiniteSets

CONSTANTS Providers,  \* rows of llm_providers
          Checked,    \* those whose client asks the service when it is made (Cohere)
          Tests,      \* requests TestProvider
          NoProvider

ASSUME HealthAssumption == Checked \subseteq Providers /\ NoProvider \notin Providers

VARIABLES service,   \* "up", "slow" or "down"
          database,  \* "up" or "down"
          row,       \* "none", "live" or "deleted"
          health,    \* llm_providers.health_status
          log,       \* the last three rows of llm_provider_health, the newest last
          client,    \* the factory's instance: "none", "ready", or "broken"
          monitor,   \* the tenant's goroutine of HealthMonitor.Run
          test,      \* the requests
          unsettled  \* history: health_status may not be what the log says

vars == <<service, database, row, health, log, client, monitor, test, unsettled>>

Statuses == {"ok", "slow", "error"}
Live == {p \in Providers : row[p] = "live"}
NoTest == [pc |-> "idle", p |-> NoProvider, status |-> "ok"]
NoMonitor == [pc |-> "off", todo |-> {}, p |-> NoProvider, status |-> "ok"]

Init ==
    /\ service \in [Providers -> {"up", "down"}]
    /\ database = "up"
    /\ row \in [Providers -> {"none", "live"}]
    /\ health = [p \in Providers |-> "unknown"]
    /\ log = [p \in Providers |-> <<>>]
    /\ client = [p \in Providers |-> "none"]
    /\ monitor = NoMonitor
    /\ test = [t \in Tests |-> NoTest]
    /\ unsettled = {}
----------------------------------------------------------------------------
\* CreateProvider ends with EnsureTenant: the map of workers has an entry per
\* tenant, and only a tenant without one gets a monitor.
EnsureTenant == monitor' = IF monitor.pc = "off" THEN [monitor EXCEPT !.pc = "list"] ELSE monitor

CreateProvider(p) ==
    /\ row[p] = "none" /\ database = "up"
    /\ row' = [row EXCEPT ![p] = "live"]
    /\ EnsureTenant
    /\ UNCHANGED <<service, database, health, log, client, test, unsettled>>

\* Another provider of the tenant, which the model does not follow, is created.
CreateAnother ==
    /\ monitor.pc = "off" /\ database = "up"
    /\ EnsureTenant
    /\ UNCHANGED <<service, database, row, health, log, client, test, unsettled>>

\* The rows of llm_provider_health go with it.
DeleteProvider(p) ==
    /\ row[p] = "live" /\ database = "up"
    /\ row' = [row EXCEPT ![p] = "deleted"]
    /\ health' = [health EXCEPT ![p] = "unknown"]
    /\ log' = [log EXCEPT ![p] = <<>>]
    /\ UNCHANGED <<service, database, client, monitor, test, unsettled>>
----------------------------------------------------------------------------
\* A Cohere client that cannot reach the service when it is made stays nil.
NewInstance(p) == IF p \in Checked /\ service[p] = "down" THEN "broken" ELSE "ready"

\* GetProvider: from the cache, or from the row; c is the instance it ends with.
GetProvider(p, c) ==
    /\ client' = [client EXCEPT ![p] = c]
    /\ \/ c = client[p] /\ c # "none"
       \/ client[p] = "none" /\ p \in Live /\ database = "up" /\ c = NewInstance(p)

ProviderNotFound(p) == database = "down" \/ p \notin Live

\* The service's reply to HealthCheck: its error, or its latency.
Reply(p) ==
    CASE service[p] = "down" -> "error" [] service[p] = "slow" -> "slow" [] service[p] = "up" -> "ok"

\* HealthCheck of a provider that has the instance c.
Answer(p, c) == IF c = "broken" THEN "error" ELSE Reply(p)

\* InsertHealth begins with the INSERT; the row must exist (foreign key).
InsertLog(p, status) ==
    /\ database = "up" /\ p \in Live
    /\ log' = [log EXCEPT ![p] = Append(IF Len(@) = 3 THEN Tail(@) ELSE @, status)]

Marking(p) == monitor.pc = "mark" /\ monitor.p = p

\* Mutant: only bad news are written.
UpdateHealthIfBad(p, status) ==
    /\ database = "up"
    /\ health' = IF p \in Live /\ status # "ok" THEN [health EXCEPT ![p] = status] ELSE health
    /\ unsettled' = IF Marking(p) THEN unsettled ELSE unsettled \ {p}

\* ... and ends with the UPDATE of health_status.
UpdateHealth(p, status) ==
    /\ database = "up"
    /\ health' = IF p \in Live THEN [health EXCEPT ![p] = status] ELSE health
    /\ unsettled' = IF Marking(p) THEN unsettled ELSE unsettled \ {p}
----------------------------------------------------------------------------
Step(pc) == monitor' = [monitor EXCEPT !.pc = pc]

\* The ticker fires: ListProviderIDs.
RunOnce ==
    /\ monitor.pc = "list" /\ database = "up"
    /\ monitor' = [monitor EXCEPT !.pc = "next", !.todo = Live]
    /\ UNCHANGED <<service, database, row, health, log, client, test, unsettled>>

EndRound ==
    /\ monitor.pc = "next" /\ monitor.todo = {}
    /\ monitor' = [NoMonitor EXCEPT !.pc = "list"]
    /\ UNCHANGED <<service, database, row, health, log, client, test, unsettled>>

Check(p) ==
    /\ monitor.pc = "next" /\ p \in monitor.todo
    /\ \E c \in {"ready", "broken"} :
          /\ GetProvider(p, c)
          /\ monitor' = [pc |-> "insert", todo |-> monitor.todo \ {p}, p |-> p, status |-> Answer(p, c)]
    /\ UNCHANGED <<service, database, row, health, log, test, unsettled>>

Skip(p) ==
    /\ monitor.pc = "next" /\ p \in monitor.todo
    /\ ProviderNotFound(p)
    /\ monitor' = [monitor EXCEPT !.todo = @ \ {p}]
    /\ UNCHANGED <<service, database, row, health, log, client, test, unsettled>>

\* After InsertHealth, whatever came of it.
Recorded == Step(IF monitor.status = "error" THEN "count" ELSE "next")

MonitorInsert ==
    /\ monitor.pc = "insert"
    /\ InsertLog(monitor.p, monitor.status)
    /\ Step("update")
    /\ UNCHANGED <<service, database, row, health, client, test, unsettled>>

\* The UPDATE is left out when the INSERT fails.
MonitorInsertFails ==
    /\ monitor.pc = "insert"
    /\ ProviderNotFound(monitor.p)
    /\ Recorded
    /\ UNCHANGED <<service, database, row, health, log, client, test, unsettled>>

MonitorUpdate ==
    /\ monitor.pc = "update"
    /\ UpdateHealth(monitor.p, monitor.status)
    /\ Recorded
    /\ UNCHANGED <<service, database, row, log, client, test>>

MonitorUpdateFails ==
    /\ monitor.pc = "update" /\ database = "down"
    /\ Recorded
    /\ unsettled' = unsettled \cup {monitor.p}
    /\ UNCHANGED <<service, database, row, health, log, client, test>>

\* Mutant: two failures are enough.
FailingTwo(p) == Cardinality({i \in DOMAIN log[p] : log[p][i] # "ok"}) >= 2

\* Mutant: the rows read are only two.
FailingLastTwo(p) == Cardinality({i \in DOMAIN log[p] : i > 1 /\ log[p][i] # "ok"}) >= 3

\* RecentHealthFailures: of the last three rows none is ok.
Failing(p) == Cardinality({i \in DOMAIN log[p] : log[p][i] # "ok"}) >= 3

RecentHealthFailures ==
    /\ monitor.pc = "count"
    /\ Step(IF database = "up" /\ Failing(monitor.p) THEN "mark" ELSE "next")
    /\ UNCHANGED <<service, database, row, health, log, client, test, unsettled>>

SetProviderHealth ==
    /\ monitor.pc = "mark"
    /\ health' = IF database = "up" /\ monitor.p \in Live
                 THEN [health EXCEPT ![monitor.p] = "unhealthy"] ELSE health
    /\ Step("next")
    /\ UNCHANGED <<service, database, row, log, client, test, unsettled>>

MonitorStep ==
    \/ RunOnce \/ EndRound \/ (\E p \in Providers : Check(p) \/ Skip(p))
    \/ MonitorInsert \/ MonitorInsertFails \/ MonitorUpdate \/ MonitorUpdateFails
    \/ RecentHealthFailures \/ SetProviderHealth
----------------------------------------------------------------------------
\* TestProvider does not tell slow from ok.  Its HealthCheck of the service
\* fails too when the provider is not found, and that is recorded as well.
TestProvider(t, p) ==
    /\ test[t].pc = "idle" /\ row[p] # "none"
    /\ \/ \E c \in {"ready", "broken"} :
             /\ GetProvider(p, c)
             /\ test' = [test EXCEPT ![t] = [pc |-> "insert", p |-> p,
                                             status |-> IF Answer(p, c) = "error" THEN "error" ELSE "ok"]]
       \/ /\ ProviderNotFound(p)
          /\ test' = [test EXCEPT ![t] = [pc |-> "insert", p |-> p, status |-> "error"]]
          /\ UNCHANGED client
    /\ UNCHANGED <<service, database, row, health, log, monitor, unsettled>>

TestInsert(t) ==
    /\ test[t].pc = "insert"
    /\ InsertLog(test[t].p, test[t].status)
    /\ test' = [test EXCEPT ![t].pc = "update"]
    /\ unsettled' = IF Marking(test[t].p) THEN unsettled \cup {test[t].p} ELSE unsettled
    /\ UNCHANGED <<service, database, row, health, client, monitor>>

TestUpdate(t) ==
    /\ test[t].pc = "update"
    /\ UpdateHealth(test[t].p, test[t].status)
    /\ test' = [test EXCEPT ![t] = NoTest]
    /\ UNCHANGED <<service, database, row, log, client, monitor>>

\* The client leaves, the 60 seconds end, or a statement fails.
TestFails(t) ==
    /\ test[t].pc \in {"insert", "update"}
    /\ test' = [test EXCEPT ![t] = NoTest]
    /\ unsettled' = IF test[t].pc = "update" THEN unsettled \cup {test[t].p} ELSE unsettled
    /\ UNCHANGED <<service, database, row, health, log, client, monitor>>

TestStep(t) == TestInsert(t) \/ TestUpdate(t)
----------------------------------------------------------------------------
ServiceChanges(p) ==
    /\ \E s \in {"up", "slow", "down"} \ {service[p]} : service' = [service EXCEPT ![p] = s]
    /\ UNCHANGED <<database, row, health, log, client, monitor, test, unsettled>>

DatabaseChanges ==
    /\ database' = IF database = "up" THEN "down" ELSE "up"
    /\ UNCHANGED <<service, row, health, log, client, monitor, test, unsettled>>

\* A restart: no monitor runs until a provider is created.
Restart ==
    /\ client' = [p \in Providers |-> "none"]
    /\ monitor' = NoMonitor
    /\ test' = [t \in Tests |-> NoTest]
    /\ unsettled' = unsettled \cup {test[t].p : t \in {u \in Tests : test[u].pc = "update"}}
                              \cup (IF monitor.pc = "update" THEN {monitor.p} ELSE {})
    /\ UNCHANGED <<service, database, row, health, log>>

Next ==
    \/ MonitorStep
    \/ \E p \in Providers : CreateProvider(p) \/ DeleteProvider(p) \/ ServiceChanges(p)
    \/ \E t \in Tests : TestStep(t) \/ TestFails(t) \/ \E p \in Providers : TestProvider(t, p)
    \/ CreateAnother \/ DatabaseChanges \/ Restart

Spec == Init /\ [][Next]_vars

\* The ticker fires and the goroutines run; a request in hand is finished.
FairSpec == Spec /\ WF_vars(MonitorStep) /\ \A t \in Tests : WF_vars(TestStep(t) \/ TestFails(t))
----------------------------------------------------------------------------
TypeOK ==
    /\ service \in [Providers -> {"up", "slow", "down"}] /\ database \in {"up", "down"}
    /\ row \in [Providers -> {"none", "live", "deleted"}]
    /\ health \in [Providers -> Statuses \cup {"unknown", "unhealthy"}]
    /\ \A p \in Providers : log[p] \in Seq(Statuses) /\ Len(log[p]) <= 3 /\ (p \notin Live => log[p] = <<>>)
    /\ client \in [Providers -> {"none", "ready", "broken"}]
    /\ monitor \in [pc : {"off", "list", "next", "insert", "update", "count", "mark"},
                    todo : SUBSET Providers, p : Providers \cup {NoProvider}, status : Statuses]
    /\ test \in [Tests -> [pc : {"idle", "insert", "update"}, p : Providers \cup {NoProvider},
                           status : {"ok", "error"}]]
    /\ unsettled \subseteq Providers

\* A provider shown as unhealthy failed its last three recorded checks, unless
\* the answer to a later check is just being written or its UPDATE failed, or a
\* request recorded a check between the monitor's count and its verdict.
UnhealthyJustified ==
    \A p \in Providers :
        health[p] = "unhealthy" =>
            \/ Len(log[p]) = 3 /\ \A i \in 1 .. 3 : log[p][i] # "ok"
            \/ p \in unsettled
            \/ monitor.pc = "update" /\ monitor.p = p
            \/ \E t \in Tests : test[t].pc = "update" /\ test[t].p = p

Watched(p) == monitor.pc # "off" /\ database = "up" /\ row[p] = "live"

\* A provider whose service is back is shown as ok for good, whatever monitor
\* and requests had in hand when it came back, as long as the monitor runs and
\* the instance has a client.
RecoveryShown ==
    \A p \in Providers :
        <>[](Watched(p) /\ service[p] = "up" /\ client[p] # "broken") => <>[](health[p] = "ok")

\* A provider whose service stays away is shown as unhealthy again and again:
\* each check shows error until the monitor has counted.
FailingIsMarked ==
    \A p \in Providers :
        <>[](Watched(p) /\ service[p] = "down") => []<>(health[p] = "unhealthy")
=============================================================================
