--------------------------- MODULE ProviderRouting ---------------------------
(***************************************************************************)
(* How a request gets its LLM provider: the router's cache and fallback    *)
(* (backend/internal/llm/router.go, service.go), the factory's shared      *)
(* instances (factory.go), and the administration of the llm_providers     *)
(* rows (handlers/llm.go), each SQL statement one step.  A provider's      *)
(* configuration is its id and its factory key (name, model, URLs); the    *)
(* other settings follow the id.  Every name that the handlers accept is   *)
(* one the factory knows, so CreateProvider never returns nil.  The        *)
(* factory holds its mutex while it makes an instance, and Cohere's asks   *)
(* the service without a context (cohere.go): neither the making nor the   *)
(* wait for the mutex has a bound.                                         *)
(***************************************************************************)
EXTENDS Integers

CONSTANTS Tenants, Keys,
          MaxId,       \* ids of llm_providers are 1 .. MaxId
          Requests, Admins,
          TTL,         \* of the cache (5 minutes)
          MaxTime,     \* bound on the clock
          MaxRestarts, \* bound on restarts
          MaxCalls,    \* bound on requests of all kinds
          NoTenant, NoEntry

Ids == 1 .. MaxId

ASSUME RoutingAssumption ==
    /\ MaxId \in Nat /\ TTL \in Nat /\ MaxTime \in Nat /\ MaxRestarts \in Nat /\ MaxCalls \in Nat
    /\ NoTenant \notin Tenants
    /\ NoEntry \notin [inst : Ids, expires : Int]

VARIABLES owner,     \* tenant_id of each row ever inserted
          live,      \* rows that exist
          active,    \* ... with is_active
          dflt,      \* ... with is_default
          key,       \* factory key of each row
          usage,     \* llm_usage_logs: whose call, under which row, with which row's configuration
          instances, \* the factory: the row each instance was created from, 0 for none
          cache,     \* the router's cache; slot 0 holds the tenant's default
          req,       \* requests that need a provider
          admin,     \* requests between clearing the default and writing the new one
          now, restarts, calls,
          gone,      \* history: when a row was deleted
          settled,   \* history: ... and the last request that had read it was done with it
          kept       \* history: tenants that were given a default and not made to lose it

rowVars    == <<owner, live, active, dflt, key, gone, settled, kept>>
serverVars == <<instances, cache>>
vars == <<owner, live, active, dflt, key, usage, instances, cache, req, admin, now, restarts, calls,
          gone, settled, kept>>

Slots  == 0 .. MaxId
Config == [id : Ids, key : Keys]
NoReq  == [pc |-> "idle"]
NoOp   == [pc |-> "idle"]

Init ==
    /\ owner = [i \in Ids |-> NoTenant]
    /\ live = {} /\ active = {} /\ dflt = {}
    /\ key \in [Ids -> Keys]
    /\ usage = {}
    /\ instances = [k \in Keys |-> 0]
    /\ cache = [c \in Tenants \X Slots |-> NoEntry]
    /\ req = [r \in Requests |-> NoReq]
    /\ admin = [a \in Admins |-> NoOp]
    /\ now = 0 /\ restarts = 0 /\ calls = 0
    /\ gone = [i \in Ids |-> 0] /\ settled = [i \in Ids |-> 0]
    /\ kept = {}

RowsOf(t) == {i \in live : owner[i] = t}

ActiveOf(t) == RowsOf(t) \cap active

\* ORDER BY is_default DESC, id ASC: i comes first in S, where D are the defaults.
Leads(i, S, D) == i \in S /\ (i \in D \/ (S \cap D = {} /\ \A j \in S : i <= j))

\* One more request arrives.
Arrive == calls < MaxCalls /\ calls' = calls + 1

Goto(r, state) == req' = [req EXCEPT ![r] = state]
----------------------------------------------------------------------------
\* A request names a provider, or asks for the default (slot 0): Analyze, Summarize
\* and HealthCheck of the service, SummarizeConversation, the health monitor.
StartRequest(r, t, slot) ==
    /\ Arrive
    /\ req[r].pc = "idle"
    /\ Goto(r, [pc |-> "get", tenant |-> t, slot |-> slot])
    /\ UNCHANGED <<rowVars, usage, serverVars, admin, now, restarts>>

\* A provider has been obtained for a slot.  Slot 0 only tells the id of the
\* provider's own configuration, with which SummarizeConversation goes on.
Obtained(r, inst) ==
    LET t == req[r].tenant  slot == req[r].slot IN
    IF slot = 0 THEN Goto(r, [pc |-> "get", tenant |-> t, slot |-> inst])
    ELSE Goto(r, [pc |-> "call", tenant |-> t, slot |-> slot, inst |-> inst, at |-> now])

\* Mutant: an entry does not expire.
FreshForever(t, slot) == cache[<<t, slot>>] # NoEntry

Fresh(t, slot) == cache[<<t, slot>>] # NoEntry /\ now <= cache[<<t, slot>>].expires

CacheHit(r) ==
    /\ req[r].pc = "get"
    /\ Fresh(req[r].tenant, req[r].slot)
    /\ Obtained(r, cache[<<req[r].tenant, req[r].slot>>].inst)
    /\ UNCHANGED <<rowVars, usage, serverVars, admin, now, restarts, calls>>

CacheMiss(r) ==
    /\ req[r].pc = "get"
    /\ ~Fresh(req[r].tenant, req[r].slot)
    /\ cache' = [cache EXCEPT ![<<req[r].tenant, req[r].slot>>] = NoEntry]
    /\ Goto(r, [req[r] EXCEPT !.pc = "load"])
    /\ UNCHANGED <<rowVars, usage, instances, admin, now, restarts, calls>>

\* A SELECT returned row i.
Loaded(r, i) ==
    /\ Goto(r, [pc |-> "create", tenant |-> req[r].tenant, slot |-> req[r].slot,
                id |-> i, key |-> key[i], at |-> now])
    /\ UNCHANGED <<rowVars, usage, serverVars, admin, now, restarts, calls>>

\* Mutant: the SELECT by id without the condition on tenant_id.
LoadAnyTenant(r) ==
    /\ req[r].pc = "load" /\ req[r].slot # 0
    /\ req[r].slot \in live
    /\ Loaded(r, req[r].slot)

LoadById(r) ==
    /\ req[r].pc = "load" /\ req[r].slot # 0
    /\ req[r].slot \in RowsOf(req[r].tenant)
    /\ Loaded(r, req[r].slot)

LoadDefault(r) ==
    /\ req[r].pc = "load" /\ req[r].slot = 0
    /\ \E i \in ActiveOf(req[r].tenant) \cap dflt : Loaded(r, i)

\* No default, or the SELECT failed: ListProviders is tried next.
NoDefault(r) ==
    /\ req[r].pc = "load" /\ req[r].slot = 0
    /\ Goto(r, [req[r] EXCEPT !.pc = "list"])
    /\ UNCHANGED <<rowVars, usage, serverVars, admin, now, restarts, calls>>

LoadFirst(r) ==
    /\ req[r].pc = "list"
    /\ \E i \in ActiveOf(req[r].tenant) :
          /\ Leads(i, ActiveOf(req[r].tenant), dflt)
          /\ Loaded(r, i)

\* No such row, or the database failed: the request ends without a provider.
LoadFails(r) ==
    /\ \/ req[r].pc = "load" /\ req[r].slot # 0
       \/ req[r].pc = "list"
    /\ Goto(r, NoReq)
    /\ UNCHANGED <<rowVars, usage, serverVars, admin, now, restarts, calls>>

\* CreateProvider of the factory takes the mutex, which a request keeps for as long
\* as it makes an instance: "make" for the router, "build" for AnalyzeWithFallback.
FactoryFree == \A p \in Requests : req[p].pc \notin {"make", "build"}

\* Mutant: a missing instance is not noticed.
TakenForKnown(k) == k \in Keys

Known(k) == instances[k] # 0

\* The instance of the key, made from configuration c when there is none.
AddInstance(c) == instances' = [instances EXCEPT ![c.key] = c.id]

WithInstance(q, inst) == [pc |-> "cache", tenant |-> q.tenant, slot |-> q.slot, inst |-> inst, at |-> q.at]

FindInstance(r) ==
    /\ req[r].pc = "create" /\ FactoryFree
    /\ Known(req[r].key)
    /\ Goto(r, WithInstance(req[r], instances[req[r].key]))
    /\ UNCHANGED <<rowVars, usage, serverVars, admin, now, restarts, calls>>

MakeInstance(r) ==
    /\ req[r].pc = "create" /\ FactoryFree
    /\ ~Known(req[r].key)
    /\ Goto(r, [req[r] EXCEPT !.pc = "make"])
    /\ UNCHANGED <<rowVars, usage, serverVars, admin, now, restarts, calls>>

\* The constructor returns, with or without a client; the mutex is released.
InstanceMade(r) ==
    /\ req[r].pc = "make"
    /\ AddInstance(req[r])
    /\ Goto(r, WithInstance(req[r], req[r].id))
    /\ UNCHANGED <<rowVars, usage, cache, admin, now, restarts, calls>>

\* cache.set: the instance is served from now on for TTL, whenever the row was read.
SetCache(r) ==
    /\ req[r].pc = "cache"
    /\ cache' = [cache EXCEPT ![<<req[r].tenant, req[r].slot>>] =
                    [inst |-> req[r].inst, expires |-> now + TTL]]
    /\ Obtained(r, req[r].inst)
    /\ UNCHANGED <<rowVars, usage, instances, admin, now, restarts, calls>>

\* InsertUsage: the row must exist (foreign key); the error is ignored.
InsertUsage(t, i, inst) ==
    \/ i \in live /\ usage' = usage \cup {[tenant |-> t, id |-> i, charged |-> inst]}
    \/ UNCHANGED usage

\* The call of the provider ends, well or badly, and is logged.
CallEnds(r) ==
    /\ req[r].pc = "call"
    /\ InsertUsage(req[r].tenant, req[r].slot, req[r].inst)
    /\ Goto(r, NoReq)
    /\ UNCHANGED <<rowVars, serverVars, admin, now, restarts, calls>>
----------------------------------------------------------------------------
\* AnalyzeWithFallback: the worker and BatchAnalyze.  The list is read once.
StartFallback(r, t) ==
    /\ Arrive
    /\ req[r].pc = "idle"
    /\ Goto(r, [pc |-> "try", tenant |-> t, defaults |-> dflt,
                todo |-> {[id |-> i, key |-> key[i]] : i \in ActiveOf(t)}])
    /\ UNCHANGED <<rowVars, usage, serverVars, admin, now, restarts>>

\* c is the next provider of q's list.
NextOf(q, c) == c \in q.todo /\ Leads(c.id, {d.id : d \in q.todo}, q.defaults)

\* It is called as soon as the factory has its instance; the cache is not involved.
Attempting(q, id, rest, inst) ==
    [pc |-> "attempt", tenant |-> q.tenant, defaults |-> q.defaults, todo |-> rest, id |-> id, inst |-> inst]

Try(r) ==
    /\ req[r].pc = "try" /\ FactoryFree
    /\ \E c \in req[r].todo :
          /\ NextOf(req[r], c) /\ Known(c.key)
          /\ Goto(r, Attempting(req[r], c.id, req[r].todo \ {c}, instances[c.key]))
    /\ UNCHANGED <<rowVars, usage, serverVars, admin, now, restarts, calls>>

BuildInstance(r) ==
    /\ req[r].pc = "try" /\ FactoryFree
    /\ \E c \in req[r].todo :
          /\ NextOf(req[r], c) /\ ~Known(c.key)
          /\ Goto(r, [pc |-> "build", tenant |-> req[r].tenant, defaults |-> req[r].defaults,
                      todo |-> req[r].todo \ {c}, id |-> c.id, key |-> c.key])
    /\ UNCHANGED <<rowVars, usage, serverVars, admin, now, restarts, calls>>

InstanceBuilt(r) ==
    /\ req[r].pc = "build"
    /\ AddInstance(req[r])
    /\ Goto(r, Attempting(req[r], req[r].id, req[r].todo, req[r].id))
    /\ UNCHANGED <<rowVars, usage, cache, admin, now, restarts, calls>>

\* A successful call is logged under the row of the list.
AttemptSucceeds(r) ==
    /\ req[r].pc = "attempt"
    /\ InsertUsage(req[r].tenant, req[r].id, req[r].inst)
    /\ Goto(r, NoReq)
    /\ UNCHANGED <<rowVars, serverVars, admin, now, restarts, calls>>

\* A failed one is not logged.
AttemptFails(r) ==
    /\ req[r].pc = "attempt"
    /\ Goto(r, [pc |-> "try", tenant |-> req[r].tenant, defaults |-> req[r].defaults, todo |-> req[r].todo])
    /\ UNCHANGED <<rowVars, usage, serverVars, admin, now, restarts, calls>>

\* Nothing is left: the keyword analysis is the result.
FallbackAnalysis(r) ==
    /\ req[r].pc = "try" /\ req[r].todo = {}
    /\ Goto(r, NoReq)
    /\ UNCHANGED <<rowVars, usage, serverVars, admin, now, restarts, calls>>
----------------------------------------------------------------------------
HasDefault(t) == dflt \cap RowsOf(t) # {}

\* A request that sets the default of t is between its two statements.
Switching(t) == \E a \in Admins : admin[a].pc = "write" /\ admin[a].tenant = t

\* CreateProvider and UpdateProvider with is_default first clear the tenant's
\* default; the error of that statement is ignored.  Target 0 is a new row.
ClearDefault(a, t, target) ==
    /\ Arrive
    /\ admin[a].pc = "idle"
    /\ admin' = [admin EXCEPT ![a] = [pc |-> "write", tenant |-> t, target |-> target]]
    /\ dflt' \in {dflt, dflt \ RowsOf(t)}
    /\ UNCHANGED <<owner, live, active, key, gone, settled, kept, usage, serverVars, req, now, restarts>>

\* The unique index on is_default: no other row of the tenant is the default.
OnlyDefault(t, i) == dflt \cap RowsOf(t) \subseteq {i}

\* BIGSERIAL: a new id is larger than every id given out.
FreshId(i) == \A j \in Ids : owner[j] # NoTenant => j < i

\* INSERT of a provider of tenant t.
InsertRow(t, i, k, on) ==
    /\ FreshId(i)
    /\ owner' = [owner EXCEPT ![i] = t]
    /\ live' = live \cup {i}
    /\ active' = IF on THEN active \cup {i} ELSE active
    /\ key' = [key EXCEPT ![i] = k]

\* UPDATE of the columns the request gives; the others keep their values.
UpdateRow(t, i, k, on) ==
    /\ i \in RowsOf(t)
    /\ active' = IF on THEN active \cup {i} ELSE active \ {i}
    /\ key' = [key EXCEPT ![i] = k]
    /\ UNCHANGED <<owner, live>>

\* Mutant: the default is cleared after the write.
WriteThenClear(a) ==
    /\ admin[a].pc = "write"
    /\ \E i \in Ids, k \in Keys, on \in BOOLEAN :
          /\ IF admin[a].target = 0 THEN InsertRow(admin[a].tenant, i, k, on)
             ELSE i = admin[a].target /\ UpdateRow(admin[a].tenant, i, k, on)
          /\ OnlyDefault(admin[a].tenant, i)
    /\ dflt' = dflt \ RowsOf(admin[a].tenant)
    /\ kept' = kept \cup {admin[a].tenant}
    /\ admin' = [admin EXCEPT ![a] = NoOp]
    /\ UNCHANGED <<gone, settled, usage, serverVars, req, now, restarts, calls>>

\* The INSERT or UPDATE that sets the default.
WriteDefault(a) ==
    /\ admin[a].pc = "write"
    /\ \E i \in Ids, k \in Keys, on \in BOOLEAN :
          /\ IF admin[a].target = 0 THEN InsertRow(admin[a].tenant, i, k, on)
             ELSE i = admin[a].target /\ UpdateRow(admin[a].tenant, i, k, on)
          /\ OnlyDefault(admin[a].tenant, i)
          /\ dflt' = dflt \cup {i}
    /\ kept' = kept \cup {admin[a].tenant}
    /\ admin' = [admin EXCEPT ![a] = NoOp]
    /\ UNCHANGED <<gone, settled, usage, serverVars, req, now, restarts, calls>>

\* It fails: no such row, the index, or the database.  The default stays cleared.
WriteFails(a) ==
    /\ admin[a].pc = "write"
    /\ kept' = IF HasDefault(admin[a].tenant) THEN kept ELSE kept \ {admin[a].tenant}
    /\ admin' = [admin EXCEPT ![a] = NoOp]
    /\ UNCHANGED <<owner, live, active, dflt, key, gone, settled, usage, serverVars, req, now, restarts, calls>>

\* The same requests without is_default: one statement.
CreateProvider(t) ==
    /\ Arrive
    /\ \E i \in Ids, k \in Keys, on \in BOOLEAN : InsertRow(t, i, k, on)
    /\ UNCHANGED <<dflt, gone, settled, kept, usage, serverVars, req, admin, now, restarts>>

UpdateProvider(t) ==
    /\ Arrive
    /\ \E i \in Ids, k \in Keys, on \in BOOLEAN :
          /\ UpdateRow(t, i, k, on)
          /\ \/ UNCHANGED <<dflt, kept>>
             \/ /\ dflt' = dflt \ {i}
                /\ kept' = IF i \in dflt THEN kept \ {t} ELSE kept
    /\ UNCHANGED <<gone, settled, usage, serverVars, req, admin, now, restarts>>

\* Usage rows go with their provider (ON DELETE CASCADE); cache and factory keep it.
DeleteProvider(t) ==
    /\ Arrive
    /\ \E i \in RowsOf(t) :
          /\ live' = live \ {i} /\ active' = active \ {i} /\ dflt' = dflt \ {i}
          /\ gone' = [gone EXCEPT ![i] = now] /\ settled' = [settled EXCEPT ![i] = now]
          /\ kept' = IF i \in dflt THEN kept \ {t} ELSE kept
          /\ usage' = {u \in usage : u.id # i}
    /\ UNCHANGED <<owner, key, serverVars, req, admin, now, restarts>>
----------------------------------------------------------------------------
\* A request has read row i before it was deleted, and has not cached it yet.
OnItsWay(i) ==
    /\ i \notin live
    /\ \E r \in Requests :
          req[r].pc \in {"create", "make", "cache"} /\ req[r].slot = i /\ req[r].at <= gone[i]

\* Time passes whatever a request waits for.
Tick ==
    /\ now < MaxTime
    /\ now' = now + 1
    /\ settled' = [i \in Ids |-> IF OnItsWay(i) THEN now + 1 ELSE settled[i]]
    /\ UNCHANGED <<owner, live, active, dflt, key, gone, kept, usage, serverVars, req, admin, restarts, calls>>

\* The process stops at any point; the rows stay.
Restart ==
    /\ restarts < MaxRestarts
    /\ restarts' = restarts + 1
    /\ instances' = [k \in Keys |-> 0]
    /\ cache' = [c \in Tenants \X Slots |-> NoEntry]
    /\ req' = [r \in Requests |-> NoReq]
    /\ admin' = [a \in Admins |-> NoOp]
    /\ kept' = {t \in kept : HasDefault(t) \/ ~Switching(t)}
    /\ UNCHANGED <<owner, live, active, dflt, key, gone, settled, usage, now, calls>>

Next ==
    \/ \E r \in Requests :
          \/ \E t \in Tenants : StartFallback(r, t) \/ \E slot \in Slots : StartRequest(r, t, slot)
          \/ CacheHit(r) \/ CacheMiss(r) \/ LoadById(r) \/ LoadDefault(r) \/ NoDefault(r)
          \/ LoadFirst(r) \/ LoadFails(r) \/ FindInstance(r) \/ MakeInstance(r) \/ InstanceMade(r)
          \/ SetCache(r) \/ CallEnds(r) \/ Try(r) \/ BuildInstance(r) \/ InstanceBuilt(r)
          \/ AttemptSucceeds(r) \/ AttemptFails(r) \/ FallbackAnalysis(r)
    \/ \E a \in Admins :
          \/ \E t \in Tenants, target \in Slots : ClearDefault(a, t, target)
          \/ WriteDefault(a) \/ WriteFails(a)
    \/ \E t \in Tenants : CreateProvider(t) \/ UpdateProvider(t) \/ DeleteProvider(t)
    \/ Tick \/ Restart

Spec == Init /\ [][Next]_vars
----------------------------------------------------------------------------
Getting  == [pc : {"get", "load"}, tenant : Tenants, slot : Slots]
Listing  == [pc : {"list"}, tenant : Tenants, slot : {0}]
Creating == [pc : {"create", "make"}, tenant : Tenants, slot : Slots, id : Ids, key : Keys, at : 0 .. MaxTime]
Caching  == [pc : {"cache"}, tenant : Tenants, slot : Slots, inst : Ids, at : 0 .. MaxTime]
Calling  == [pc : {"call"}, tenant : Tenants, slot : Ids, inst : Ids, at : 0 .. MaxTime]
Trying   == [pc : {"try"}, tenant : Tenants, defaults : SUBSET Ids, todo : SUBSET Config]
Attempt  == [pc : {"attempt"}, tenant : Tenants, defaults : SUBSET Ids, todo : SUBSET Config,
             id : Ids, inst : Ids]
Building == [pc : {"build"}, tenant : Tenants, defaults : SUBSET Ids, todo : SUBSET Config,
             id : Ids, key : Keys]
Writing  == [pc : {"write"}, tenant : Tenants, target : Slots]
Entry    == [inst : Ids, expires : 0 .. MaxTime + TTL]

TypeOK ==
    /\ owner \in [Ids -> Tenants \cup {NoTenant}]
    /\ live \subseteq Ids /\ active \subseteq live /\ dflt \subseteq live
    /\ key \in [Ids -> Keys]
    /\ usage \subseteq [tenant : Tenants, id : Ids, charged : Ids]
    /\ instances \in [Keys -> Slots]
    /\ cache \in [Tenants \X Slots -> Entry \cup {NoEntry}]
    /\ req \in [Requests -> {NoReq} \cup Getting \cup Listing \cup Creating \cup Caching \cup Calling
                              \cup Trying \cup Attempt \cup Building]
    /\ admin \in [Admins -> {NoOp} \cup Writing]
    /\ now \in 0 .. MaxTime /\ restarts \in 0 .. MaxRestarts /\ calls \in 0 .. MaxCalls
    /\ gone \in [Ids -> 0 .. MaxTime] /\ settled \in [Ids -> 0 .. MaxTime]
    /\ kept \subseteq Tenants

\* Usage is logged under a provider of the tenant that made the call, although the
\* default's id comes from an instance that another tenant may have created, and
\* although neither the foreign key nor the cache compares tenants.
UsageOwned == \A u \in usage : u.id \in live /\ owner[u.id] = u.tenant

\* A deletion does not reach the cache, and a request that read the row before may
\* cache it any time later: it waits for the factory.  But the router hands out a
\* deleted provider no longer than one TTL after the last such request has cached
\* it: neither a hit nor another tenant's request with the same instance renews it.
RouteFresh ==
    \A r \in Requests :
        req[r].pc = "call" => \/ req[r].slot \in live
                              \/ req[r].at <= settled[req[r].slot] + TTL

\* A tenant that was given a default loses it only to a deletion, to is_default =
\* false, or to a switch of the default that did not get to its second statement:
\* never to several switches running at once.
DefaultKept == \A t \in kept : HasDefault(t) \/ Switching(t)

\* "Each provider is configured per tenant with rate limits, temperature, token
\* caps, and cost tracking" (README.md): the configuration that a tenant's call
\* runs with, its prices in the usage row included, is one of that tenant.
ConfiguredPerTenant == \A u \in usage : owner[u.charged] = u.tenant
=============================================================================
