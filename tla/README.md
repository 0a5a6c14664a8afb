# MessageFlow: a TLA+ verification project

MessageFlow is a multi-tenant WhatsApp operations server (Go, PostgreSQL, Redis)
with a React dashboard. This directory holds TLA+ models of the parts of the
server that several goroutines, requests and restarts share, the TLC
configurations that check them on small instances, and TLAPS proofs of the
properties that matter most for instances of every size.

`PROJECT.json` lists the components, the runs, the mutant of each property (a
plausible bug that the property must catch), the map from definitions to source
lines, the findings, the hazards and the theorems.

## 1. Inventory

Paths are under `src/backend/internal` unless they start with `src/`.

| Component | State | Operations | Interacts with | Hard because | Correct when |
|---|---|---|---|---|---|
| Realtime hub (`realtime/`) | clients per tenant, presence counts, one 16-message channel per client | Register, Unregister, Broadcast, two pumps per connection | every handler, the syncer and the LLM workers broadcast through it | Broadcast ranges over a live map without the lock; both pumps unregister; full channels drop | presence counts are exact, channels are closed once and only with removal, both pumps end, dashboards know who is online |
| Rate limiter (`middleware/`) | an entry (count, reset) per key | Allow | called by the router for each request | fixed windows that start with the first request | refusals are justified, admissions are bounded |
| Tenant connections (`db/db.go`) | `app.tenant_id` of each pooled connection | WithTenantConn | every SQL statement | errors of RESET are ignored | a statement runs with its caller's tenant; connections come back |
| Message sync (`whatsapp/sync.go`) | messages, conversations | handleMessage, UpsertConversation, insertMessage, handleHistorySync | WhatsApp events, analysis queue, hub | redelivery, several connections of a tenant, check-then-insert, ignored errors | one row per WhatsApp message, `last_message_at` not behind, every stored message is queued |
| Agent messages (`handlers/messages.go`) | messages, conversations | ReplyMessage, ForwardMessage | WhatsApp session, hub | time taken first and written last | replies are stored, conversations stay in order |
| Analysis queue and worker (`llm/queue.go`, `worker_scheduler.go`) | Redis list, one worker per tenant, a batch in memory | Enqueue, DequeueBatch, Worker.Start, EnsureTenant | syncer, batch-analyze requests, StoreAnalysis | batches in memory, lost replies, restarts | nothing vanishes silently, oldest first, the queue drains |
| Analysis storage (`llm/pipeline.go`) | `metadata_json`, important_messages | StoreAnalysis | worker and requests, on the same rows | read-modify-write in three statements | the WhatsApp id survives, important messages are listed |
| Provider routing (`llm/router.go`, `factory.go`, `store.go`, `service.go`) | provider rows, 5-minute cache, instances for ever | GetProvider, GetDefaultProvider, AnalyzeWithFallback, provider administration | handlers, worker, health monitor | two caches over an editable table | a tenant's settings are the ones used |
| LLM calls (`llm/providers/`) | retries and deadlines of a call | Analyze, Summarize, ExtractActions, HealthCheck, Retrier.Do | worker, health monitor | attempts, back-off, the provider's and the worker's deadline | bounded attempts, the worker gets on |
| Provider health (`llm/health.go`, `scheduler.go`) | health rows and status | runOnce, TestProvider | provider routing | up to four statements per check, requests in between | unhealthy after three failures, ok after recovery |
| WhatsApp sessions (`whatsapp/manager.go`) | sessions, QR channels, stored devices | StartSession, consumeQR, AutoReconnect, DisconnectSession | syncer, replies, login | background goroutines | the status says whether a phone paired, nothing stays pending |
| Roles and team (`handlers/rbac.go`, `team.go`, `auth.go`, `whatsapp_auth.go`) | users and three role tables | setUserRole, RemoveTeamUser, Authorize, Register, ensureWhatsAppUser | each request | several statements without a transaction, polling | the tables agree, nobody acts without a role |
| Router and middleware (`router/`, `middleware/`) | none of their own | dispatch, authenticate, CSRF, role check | every handler | two switches that must agree, failing role lookups | documented routes are served, each for its role |
| Collaboration (`handlers/action_items.go`, `comments.go`, `labels.go`, `notifications.go`, `workflows.go`, `integrations.go`) | their tables, audit log, notifications | create, update, delete, webhooks | roles, hub, audit log | change, audit row and notification are separate statements | roles can be traced to an audit row, assignees are told |
| Dashboard (`src/frontend/src/components/DashboardPage.jsx`) | selected conversation, messages, socket | load, poll, WebSocket events | API and hub | answers out of order | what is shown belongs to what is selected |

The hazards of `PROJECT.json` are listed line by line with the properties that
would catch them; those without a property say why.

The modules: `RequestPath` composes `Routes`, `RateLimiter` and `TenantPool`;
`Collaboration` composes `TeamRoles` (which uses `Routes`) with the rows the members
work on; `AnalysisPipeline` composes `MessageStore`, `MessageSync` and
`AnalysisWorker` and implements `AnalysisPromise`; `WorkerCalls` refines the analysis
step of `AnalysisPipeline`; `RealtimeHub` implements `PresencePromise`;
`ProviderRouting`, `ProviderHealth` and `WhatsAppSessions` stand alone.

## 2. What is modelled

### RealtimeHub

Register and Unregister hold the hub's lock and are one step each. Broadcast is
split where the code gives up the lock: fetching the tenant's map
(`BroadcastStart`), producing the next client (`BroadcastPick`), sending to it
(`BroadcastSend`, or `BroadcastPanic` on a closed channel), the end of the loop.
Go's rules for a map that changes under `range` are kept: a deleted entry is not
produced any more, an added one may or may not be, and a map that became empty
and was dropped is another map than the tenant's next one. Each connection has a
reader and a writer; either may fail at any time and then unregisters the client
and closes the socket. A panic in a request is recovered by net/http; one in an
LLM worker, or a concurrent map iteration that the Go runtime notices, ends the
process (`Crash`). `view` and `missed` are history: what each client was last told
about presence, and whether its last update was dropped.

`PresencePromise` is what a dashboard may rely on: a connection joins once and leaves
once, and at each of these moments every connection of the tenant is told exactly the
users of those that are present, save some that are known to have missed it; nothing
else changes what they were told. `PresencePromised` maps the registered clients, the
closed ones and `view` to it; pumps, broadcasts and the draining of channels are stutters.

### RateLimiter, TenantPool, Routes, RequestPath

`RateLimiter`: `Allow` runs under a mutex; its three outcomes are three actions over a
clock that ticks independently. `cum` is the history of admissions per key.

`TenantPool`: the steps of WithTenantConn: Acquire, SET, fn, the deferred RESET, the
deferred Release. SET and RESET may fail, be carried out with their answer lost, or
meet a broken connection that the pool replaces.

`Routes`: the switch of ServeHTTP and the one of RequiredRole as tables of path shapes;
the first row that fits decides, and a row that fits without serving the request ends
in the 404 as a case of the switch does.

`RequestPath`: a request with or without a token passes limiter, CSRF token and role
check in the order of ServeHTTP, and takes a connection for the role lookup, for the
audit row of the check and for the handler. A lookup that fails counts as viewer. Of a
route the steps only depend on what `KindOf` computes from the tables, so one run goes
through all documented routes. OPTIONS and requests without a valid token change
nothing and are no step. The role asked for depends on the path alone: for a path
that RequiredRole does not list it is viewer.

### MessageStore, MessageSync, AnalysisWorker, AnalysisPipeline

`MessageStore` is what survives a restart: the messages table (each row with its
`whatsapp_id` and its analysis), important_messages, `last_message_at`, and the
Redis list. `redis` says whether REDIS_URL is set. `MessageSync` adds the syncer's
handlers and the agents' requests, `AnalysisWorker` the scheduler, the worker, the
analysis requests and StoreAnalysis; both work on the same store.
`AnalysisPipeline` composes them and adds restarts. Every SQL statement and every
Redis command is a step of its own, so all interleavings of handlers, requests and
worker on one row are covered. Each call may fail (at most `MaxFaults` in a
behaviour, anywhere), an INSERT and an RPop may also be carried out with their
answer lost. Each ignored error of the code is an action that goes on as the code
does.

History variables: `by` and `origin` of a row, `overlap` (two handlers were
between SELECT and INSERT for one message), `blind` (a StoreAnalysis failed to
read the row), `lost` (rows whose analysis or listing a fault or a restart took
away), `served` (the newest item whose analysis has begun).

Left out: the contents of messages, contact names and pictures, extraction of text
and media (a message with neither is dropped at once), activity logs, several
conversations and tenants (their rows and queues are disjoint; what keeps tenants
apart is TenantPool), requests that name a message that does not exist, and what
the LLM says beyond plain or important.

`AnalysisPromise` is what somebody who reads the tables may rely on: a stored row stays,
an analysis is never taken back, only analysed rows are listed as important and nothing
leaves the list. `PromiseKept` maps the pipeline's rows to it (`LifeOf`): a row is
absent, stored, missed (in `lost`) or analysed.

### WorkerCalls

Here the worker's analysis of an item, one step in `AnalysisPipeline`, is the loop of
AnalyzeWithFallback over the active providers, and in it the Retrier: attempt, failure,
back-off (also after the last attempt), with the provider's deadline (30, 45 or 60
seconds) and the worker's two minutes ending at any time. A back-off that began before
its context ended may be left either way when both are ready, as Go's `select` does; one
that began later is cancelled. An answer that cannot be parsed is not retried, a Cohere
provider without a client fails at once, and the keyword rules answer in the end.

### ProviderRouting

`owner`, `live`, `active`, `dflt` and `key` are the llm_providers rows, `usage` the
usage log, `instances` the factory's map, `cache` the router's (slot 0 is a tenant's
default). A request goes through GetProvider or GetDefaultProvider: hit or miss of
the cache, the SELECT, CreateProvider of the factory, the cache entry, the call,
InsertUsage, each a step of its own, so that rows change between them. CreateProvider
finds the instance (`FindInstance`) or makes one (`MakeInstance`, `InstanceMade`;
`BuildInstance`, `InstanceBuilt` for AnalyzeWithFallback), and the factory's mutex is
held from one step to the other: Cohere's constructor asks the service, without a
context or a timeout, so neither making an instance nor waiting for the mutex has a
bound. SummarizeConversation without a
provider id asks for the default first and goes on with the id in that instance's
configuration. AnalyzeWithFallback reads the list once and tries it in order,
without the cache. Create, update and delete of a provider are one statement each;
with `is_default` they are two, clearing and writing, and other requests and
restarts come in between. The unique index on the default, the foreign key of the
usage log with its cascade, and the growing ids come from the schema.

A configuration is its row's id and its factory key (name, model, URLs); the other
settings follow the id, so `charged` of a usage row says whose
configuration the call ran with. The
provider names that the handlers accept are all known to the factory, so its nil
result never occurs. Callers that log no usage (health checks) are requests whose
InsertUsage has no effect, as has one that fails; a ListProviders that fails in
AnalyzeWithFallback changes nothing and is not a step. Time passes whatever a request
waits for. `gone`, `settled` and `kept` are history: when a row was deleted, when the
last request that had read it before was done with it (cached it or was stopped), and
which tenants were given a default and not made to lose it. Left out: the
fallback text and the daily_summaries row of SummarizeConversation, provider history,
encryption, feature assignments.

### ProviderHealth

One tenant's monitor (started by CreateProvider only, so not after a restart), the
TestProvider requests, and the two tables: `health` is `health_status`, `log` the last
three rows of llm_provider_health. INSERT, UPDATE, the count and the verdict are steps of
their own. The service and the database fail and come back at any time; a Cohere instance
made while the service was away has no client and stays so. `unsettled` is history: a
check was recorded without its UPDATE, or recorded between the monitor's count and its
verdict. Left out: `is_active` and the cache's expiry (ProviderRouting), BulkTestProviders,
which writes nothing.

### WhatsAppSessions

`session` holds the Session objects (status and the device of its client), `sessions` the
ids in the manager's map, `channel` the QR channel. A phone may pair while the channel
ends for another reason; consumeQR goes on for a session that left the map. AutoReconnect
takes the stored devices one after the other in the background. Left out: the tenant of a
session (AutoReconnect always uses tenant 1), LastQR, and that a logged-out device is
noticed by nobody (it is an external step that the properties except).

### TeamRoles, Collaboration

`users`, `users_extended`, `team_members`, `user_roles` and `invitations` are the tables;
a request holds its handler's position, and each statement is a step. `Authorize` reads
users_extended; a handler goes on without looking again. ensureWhatsAppUser counts, selects,
inserts and sets the role at every poll of a connected login. Histories: `held` (the actor
had the role the request needs at some moment since it arrived), `alone` and `torn` (role
changes that ran beside another one or were cut short), `founded`, `audited` and
`unlogged` (accounts whose role an audit row tells, and those whose role no row will
ever tell: a login set it, or the handler that set it was cut short or lost its row).

`Collaboration` adds one row of any kind with its child row and, for an action item, the
assignee and the notifications. A handler is role check, statement, audit row and
notification; the errors of the last two are dropped. Rows do not meet, so one row per
behaviour is enough. Left out: contents, the activity log, watchers.

## 3. The runs

| Run | Shows | Bounds |
|---|---|---|
| `request_path` | `TwiceLimit`, `DenyJustified`, `Isolation`, `HandledForRole`, `DocumentedServed`, `Advances`, `Answered` | all documented routes and one unknown, 2 requests on 1 connection so that they wait for it, a user (member) and an address, 2 tenants, limit 2, window 1, clock to 4, 5 admissions |
| `hub` | `PresenceExact`, `ConnectionLifecycle`, `PumpsEndTogether`, and the refinement `PresencePromised` (from which `PresenceViewFresh`, proved on its own, follows) | two tabs of one user, capacity 1 so that channels fill, a typing client, an API handler and a worker that broadcast; further users are left to the theorems |
| `hub_panic` | violation: Broadcast sends on a closed channel | 3 connections of 2 users |
| `message_sync` | `UniqueRows`, `ConversationUpToDate` | 2 handlers, 1 agent, 3 WhatsApp messages (one created by a reply), 3 deliveries, 3 rows, 1 fault, 1 restart |
| `analysis_pipeline` | `UniqueRows`, `NothingVanishes`, `OldestFirst`, `ImportantListed`, and the refinement `PromiseKept` | 1 handler, 1 request, 2 possible workers, 2 messages, batches of 2, requests queue up to 2 items, 1 fault, 1 restart, with and without Redis |
| `queue_drains` | `AttemptsBounded`, `CallAdvances`, `QueueDrains` | 1 row queued up to three times, batches of 2, up to 2 providers with 3 attempts each, 1 fault, 1 restart |
| `docker_schema` | violation: the upsert runs without its index | migrations 001 to 006 |
| `provider_routing` | `UsageOwned`, `RouteFresh`, `DefaultKept` | 2 tenants, 1 factory key so that instances are shared, 2 rows, 2 requests, 2 administrators, 4 calls in all, cache for 1 tick, clock to 3, 1 restart: entries expire after a deletion, and requests wait for the factory longer than an entry lives |
| `provider_shared` | violation: a tenant is served with another one's configuration | as `provider_routing`, 1 request, 1 administrator |
| `workspace` | `RolesAgree`, `RoleDuringRequest`, `AdminsNeedAFounder`, `RolesTraceable`, `AssigneeNotified`, `PromotionsGranted` | 2 concurrent requests, 3 in all, an account from Register and one from a WhatsApp login in every founded or unfounded tenant, one row of each kind, 1 failing statement, restarts |
| `sessions` | `StatusSettled`, `StatusForward`, `PendingSettles` | 2 sessions, 2 phones, 1 restart |
| `provider_health` | `UnhealthyJustified`, `RecoveryShown`, `FailingIsMarked` | 1 provider whose client asks the service when made, 1 test request; outages and restarts without bound |

`request_path`, `hub`, `analysis_pipeline` and `provider_routing` also check the type
invariant, which bounds counts, channels and batches; those of the other state machines
are proved (`TypeCorrect`) and in no run.

The bounds are the smallest that let each hazard happen: two handlers race on one
message while a third delivery comes later; a queue longer than a batch; a
StoreAnalysis of a request beside one of the worker on the same row; a role change
beside a request that depends on it; a restart with items in the queue, in the batch and
in a handler. Row ids, handlers, workers, requests and, where their times are equal,
WhatsApp messages are interchangeable; these runs use symmetry, as `provider_routing`
does for tenants, requests and administrators; runs with liveness properties do not.
`request_path`, `provider_routing`, `provider_shared` and `workspace` switch
deadlock checking off because clock and calls are bounded; the others never block.

**Fairness.** `hub`: a Broadcast in progress goes on, a reader whose socket is closed
returns from ReadMessage, a writer whose channel is closed drains it, and one whose
socket is closed fails at its next 30-second ping. `queue_drains`: the worker's goroutine
is scheduled and an attempt ends; handlers, requests, deadlines and restarts are under no
obligation, and the number of faults is finite, so a Redis that never comes back is not
covered. `request_path`: statements end, and the pool serves those who wait in their
order (strong fairness of Connect, as pgxpool's queue gives it). `sessions`: consumeQR
reads on, and whatsmeow ends a QR channel when its codes have run out. `provider_health`:
the ticker fires, goroutines run, a request in hand ends; `RecoveryShown` and
`FailingIsMarked` state on their own that service and database eventually stay as they
are.

One assumption is not the code's own: that a call of the Cohere client ends. The client
takes no context (`llm/providers/cohere.go`), so the deadlines of provider and worker do
not interrupt it. `QueueDrains`, `RecoveryShown` and `FailingIsMarked` hold as long as no
such call hangs for ever; one that does keeps its worker or its monitor, and a
constructor that does keeps the factory's mutex. The safety properties, `RouteFresh`
included, need no such assumption.

### Findings

* `hub_panic`: a client that leaves between `range` and the send makes Broadcast
  panic (`realtime/hub.go:78`); in the LLM worker nothing recovers it.
* `docker_schema`: `docker/migrate.sh` stops at migration 006, while the upsert of
  each incoming message needs 007 and 009.
* `provider_shared`: provider instances are kept under name, model and URLs without
  the tenant (`llm/factory.go:24`), so a tenant's calls may run with another tenant's
  API key, limits and prices.
* `request_path`: a fixed window starts with the first request and the next one from
  nothing (`middleware/middleware.go:88`), so up to 120 requests pass within a minute
  around its end, where src/README.md:167 speaks of 60 per minute. Here the run does not
  refute a property: it checks the bound that the code does keep, `TwiceLimit`.

Behaviours the models show without a document that says otherwise:

* a redelivered message is analysed again; a reply is stored a second time when WhatsApp
  delivers it back; a reply can move `last_message_at` back;
* a failing pop discards the items popped before it; after a restart a tenant's queue
  rests until the next batch-analyze request, and its providers are not checked until
  the next CreateProvider;
* an update of a provider's key, limits or costs takes effect only after a restart, and
  so does the recovery of a Cohere instance that was made during an outage; setting the
  default to a provider that does not exist leaves the tenant without one;
* a request that read a provider's row before its deletion may wait for the factory and
  cache the provider any time later; `RouteFresh` counts the TTL from that moment on. One
  constructor that hangs holds up every tenant's cache miss and AnalyzeWithFallback;
* the owner that the first poll of a WhatsApp login makes is a member after the second;
  a tenant whose first account came from Register never has an administrator;
* two role changes of one account at the same time may leave the three tables apart until
  the next change that runs alone, and the later audit row need not tell the role that
  stands;
* a login that sets a role writes no audit row, nor does the invitation that AddTeamUser
  makes; a role change cut short after its write to users_extended is in force without
  one (`RolesTraceable` names these exceptions and no others).

Seen while reading, and no part of a model: `usageAware` (`llm/service.go:14`) has an
unexported method, which the types of the package `providers` cannot implement, so every
usage row is written with zero tokens and costs; the dashboard knows a health status
`healthy` that the server never writes; feature assignments are stored but
GetProviderForFeature ignores them.

## 4. The proofs

The invariants that the runs check are seldom inductive: they say nothing about the
requests and goroutines under way. Each proof module states the strengthening it needs;
TLC checked the strengthenings of the state machines before they were proved.

| Module | Theorems | Argument |
|---|---|---|
| `RateLimiterProofs` | `EntriesExact`, `TypeCorrect`, `AtMostTwiceLimit`, `RefusalsJustified` | `IInv` ties each entry to the history: its count is exactly what was admitted since its window began, and the window before it held at most the limit. Two adjacent windows cover any interval of one window's length. |
| `RequestPathProofs` | `PoolIsolation`, `UsesLimiter`, `UsesPool`, `TenantIsolation`, `RequestsLimited`, `HandlersRunForRole`, `RequestsTyped`, `DocumentedAreServed`, `RequestsAdvance` | The pool alone: a connection has one holder (`Exclusive`), so only the holder's own SET and RESET touch its setting. A request carries its own tenant, and a permission only with the role (`Carried`); this needs that whatever a viewer may use everybody with a row may, and that what needs no token needs no role (`PublicNeedsNoRole`: the tables of requiresAuth and RequiredRole agree). Then each step of the composition is a step of the limiter, and of the pool, or leaves it alone, and their theorems carry over. `DocumentedServed` is proved from the tables, in their four parts: for each row that a documented path is meant for, the rows before it that begin with the same word do not fit (`Reaches`), so it is the first that does (`FirstIs`), and it has the method's handler (`RowAnswers`); `KindServed` and `Carried` take this to the requests. For `RequestsAdvance` a step takes a gate off or a step of the call (`OwnStep`), with the types of gates and calls alone; so it lowers `Remaining`: three connections at most, four steps with each. |
| `RealtimeHubProofs` | `TypeCorrect`, `LifecycleSafe`, `PresenceCounts`, `PresenceViews`, `KeepsPromise` | `LifecycleInv` adds to the lifecycle that a client that is broadcasting has a started pump and that a writer runs only for an opened connection; `HubInv` adds the exact counts, so that adding or removing one connection changes one cardinality by one, and the announced users are those of the new counts. `KeepsPromise` maps Register to Join, Unregister to Leave (or to a stutter for a client that has gone), a crash to Restart and every other step to a stutter; the users counted are those of the clients present because the counts are exact. |
| `AnalysisPipelineProofs` | `TypeCorrect`, `ImportantAreListed`, `ServedOldestFirst`, `NothingIsDropped`, `KeepsPromise`, `RowsAreUnique`, `ConversationsUpToDate`, `CallsImplementPipeline`, `AttemptsAreBounded`, `CallsAdvance` | All rest on `Control` (the fields of a handler or goroutine fit its place) and most on `Known` (what memory and Redis refer to is stored). On top: `Order` for the queue (numbers rise from the batch to the end of the queue, one worker at a time); `RowsKept` and `Inserting` for unique rows (a row keeps its WhatsApp id unless a failed read preceded its UPDATE; a handler at the INSERT of a message that has a row, or a rival, is an overlap); `Upserted` for conversations (a handler past the upsert left a timestamp at least as late as its message's); `CallsBounded` for attempts (a provider is tried again only with an attempt left and before its context has been found over). `KeepsPromise` maps each step to a step of `AnalysisPromise` or a stutter. `CallsImplementPipeline` maps the steps of a provider call to stutters or to the pipeline's analysis step, so that the other theorems hold of `WorkerCalls` too. `CallsAdvance` orders the states of a call by stage, providers left and steps left of the retries (`Nearer`); under `CallsBounded` every step goes down in it. |
| `ProviderRoutingProofs` | `RoutingInvariant`, `TypeCorrect`, `UsageIsOwned`, `DeletedProvidersFade`, `DefaultsAreKept` | `IInv` follows a row from the SELECT to the cache and to the call. Whatever names a row for a tenant is owned by it (a request on its way, `CreateOK`, a list, `ListOK`, a cached slot); a row that a request brings along is not yet settled, and an entry of a deleted row expires by `settled` plus TTL (`CacheOK`), while nothing is settled in the future (`SettledOK`). A request may wait for the factory as long as it likes: each tick takes the row's `settled` with it. `DefaultKept` needs only types: the last switch to end leaves a default or is the one that failed. |
| `ProviderHealthProofs` | `TypeCorrect`, `UnhealthyIsJustified` | `Logged` and `Busy` type the last three rows and the checks in hand; `Verdict` says what the monitor knows between its count and the UPDATE, `Hidden` that a provider without a row shows no health. Three failures among at most three rows are all of them (`FailingIsAll`). |
| `WhatsAppSessionsProofs` | `TypeCorrect`, `StatusIsSettled`, `StatusMovesForward` | `Listened`: an open QR channel has its consumeQR. `Followed`: while it reads, the phones counted as in time are those that paired, and a success, reported or waiting anywhere in the channel, means a phone. `InOrder`: what is still to be read is codes and then at most one last event, and the session is pending until that one is read. |
| `CollaborationProofs` | `TypeCorrect`, `RolesStayInAgreement`, `RolesHeldDuringRequest`, `AdministratorsNeedAFounder`, `RolesAreTraceable`, `AssigneesAreNotified`, `PromotionsAreGranted` | `InPlace` says where a request may be, given what it was sent for. `Rights`: a request that waits for the role check counts as held when it would pass, and whoever acts for the team does so in a founded tenant; so an account can only become an administrator in one. Only setUserRole writes a role that may be an administrator's, and `InPlace` says who brings a request there (`PromotionsAreGranted`). `Alone`: a role change that met no other has written exactly what the tables before it say, and one that is not alone is in `torn`. A role in users_extended is traced by the request that set it (`Granting`) until its audit row is written: a write takes its account out of `audited` and is carried by its own request (`WriteTraced`), the steps after it keep the request's place and target (`TeamTraced`), and what is cut short, fails to write its row or comes from a login is in `unlogged`. |

Assumptions are those of the modules, and TLC evaluates each of them in a run: the
constants have their types; `Clients` is a finite
set (a cardinality is counted); limit, window and capacity are positive; and
`TeamNeedsAdmin`, a fact about the table of roles. What RequiredRole returns in general is
proved from the table (`RequiredRoleTyped`).

The theorems are about `Spec`; where a run uses a `FairSpec`, that implies `Spec`.

Only model-checked:

* liveness (`Answered`, `PumpsEndTogether`, `QueueDrains`, `PendingSettles`,
  `RecoveryShown`, `FailingIsMarked`): fairness is outside the proof
  system's reach here. The safety behind three of them is proved: `Advances` and
  `CallAdvances` bound the steps of a request and of a provider call, so that inside them
  only scheduling is left to `Answered` and `QueueDrains`, and `StatusForward` that a settled status stays settled;
* the three findings that are counterexamples.

## 5. Not modelled, and the plan

Not modelled:

* read-only endpoints (dashboard, lists, reports, the dashboard's event stream): they
  change nothing beyond the activity log; their routes and roles are in `Routes`;
* the keyword rules of `llm/fallback.go`, prompts, parsing of answers, encryption of API
  keys, extraction of text and media: functions of one text, which no modelled state
  depends on beyond their outcome;
* feature assignments and provider history: rows that no modelled operation reads;
* the summary text and row of SummarizeConversation;
* the React frontend, whose late answers may be shown for another conversation, and the
  generated gRPC code, which the server does not use.

Every invariant, action property and refinement that a passing run checks is proved for
all values of the constants. What is left to TLC is liveness and the findings. Worth doing
next: the summary of SummarizeConversation beside a deletion of its provider, and the
dashboard's requests, whose late answers are the hazard without a property.
