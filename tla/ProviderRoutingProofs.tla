----------------------- MODULE ProviderRoutingProofs -----------------------
(***************************************************************************)
(* UsageOwned and RouteFresh for every number of tenants, rows, requests   *)
(* and administrators, every TTL, and requests that wait for the factory   *)
(* as long as they like.  The inductive invariant follows a row from the   *)
(* SELECT to the cache and to the call: whatever names row s for tenant t  *)
(* is owned by t, and an entry of s ends at most TTL after s is settled,   *)
(* for s counts as settled only when no request still brings it along.     *)
(***************************************************************************)
EXTENDS ProviderRouting, TLAPS

\* A cache entry of row s belongs to the owner of s, and ends soon after s is gone.
CacheOK ==
    \A t \in Tenants, s \in Ids :
        LET e == cache[<<t, s>>] IN
        e # NoEntry => /\ owner[s] = t
                       /\ e.expires <= now + TTL
                       /\ s \in live \/ e.expires <= settled[s] + TTL

\* A deletion is the first moment at which a row can be settled.
SettledOK == \A i \in Ids : gone[i] <= now /\ settled[i] <= now

\* A row that a request has read is not settled before the request has cached it.
CreateOK(q) ==
    q.pc \in {"create", "make", "cache"} =>
        /\ q.at <= now
        /\ q.slot # 0 => /\ owner[q.slot] = q.tenant
                         /\ q.slot \in live \/ (q.at <= gone[q.slot] /\ settled[q.slot] = now)

\* The same for the row that a request calls.
CallOK(q) ==
    q.pc = "call" =>
        /\ q.at <= now /\ owner[q.slot] = q.tenant
        /\ q.slot \in live \/ q.at <= settled[q.slot] + TTL

\* A list of AnalyzeWithFallback holds rows of its tenant.
ListOK(q) ==
    /\ q.pc \in {"try", "attempt", "build"} => \A c \in q.todo : owner[c.id] = q.tenant
    /\ q.pc \in {"attempt", "build"} => owner[q.id] = q.tenant

Served(q) == CreateOK(q) /\ CallOK(q) /\ ListOK(q)
ReqOK == \A r \in Requests : Served(req[r])

IInv == TypeOK /\ SettledOK /\ CacheOK /\ ReqOK /\ UsageOwned

ReqType == {NoReq} \cup Getting \cup Listing \cup Creating \cup Caching \cup Calling
              \cup Trying \cup Attempt \cup Building

USE RoutingAssumption DEF Ids, Slots

\* The state of a request tells its fields.
LEMMA RequestFields ==
    ASSUME TypeOK, NEW r \in Requests
    PROVE  /\ req[r].pc \in {"get", "load"} => req[r] \in Getting
           /\ req[r].pc = "list" => req[r] \in Listing
           /\ req[r].pc \in {"create", "make"} => req[r] \in Creating
           /\ req[r].pc = "cache" => req[r] \in Caching
           /\ req[r].pc = "call" => req[r] \in Calling
           /\ req[r].pc = "try" => req[r] \in Trying
           /\ req[r].pc = "attempt" => req[r] \in Attempt
           /\ req[r].pc = "build" => req[r] \in Building
<1>1. req[r] \in ReqType
  BY DEF TypeOK, ReqType
<1> QED
  BY <1>1 DEF ReqType, NoReq, Getting, Listing, Creating, Caching, Calling, Trying, Attempt, Building

LEMMA InitIInv == Init => IInv
<1> SUFFICES ASSUME Init PROVE IInv
  OBVIOUS
<1>1. \A r \in Requests : req[r] = NoReq /\ req[r].pc = "idle"
  BY DEF Init, NoReq
<1>2. TypeOK
  BY <1>1 DEF Init, TypeOK, NoOp
<1>3. CacheOK
  BY DEF Init, CacheOK
<1>4. ReqOK
  BY <1>1 DEF ReqOK, Served, CreateOK, CallOK, ListOK
<1>5. UsageOwned /\ SettledOK
  BY DEF Init, UsageOwned, SettledOK
<1> QED
  BY <1>2, <1>3, <1>4, <1>5 DEF IInv
----------------------------------------------------------------------------
\* A step that changes no row and no clock: one request moves to a good state, the
\* cache keeps good entries, usage grows by what the request owns.
LEMMA RequestStep ==
    ASSUME IInv, NEW r \in Requests, NEW q \in ReqType,
           UNCHANGED <<rowVars, admin, now, restarts>>,
           req' = [req EXCEPT ![r] = q], Served(q),
           calls' \in 0 .. MaxCalls,
           instances' \in [Keys -> Slots],
           cache' \in [Tenants \X Slots -> Entry \cup {NoEntry}], CacheOK',
           usage' \subseteq [tenant : Tenants, id : Ids, charged : Ids], UsageOwned'
    PROVE  IInv'
<1>1. TypeOK'
  <2>1. req' \in [Requests -> ReqType]
    BY DEF IInv, TypeOK, ReqType
  <2> QED
    BY <2>1 DEF IInv, TypeOK, ReqType, rowVars
<1>2. ReqOK'
  <2> SUFFICES ASSUME NEW p \in Requests PROVE Served(req[p])'
    BY DEF ReqOK
  <2>1. /\ Served(req[p])
        /\ req'[p] = IF p = r THEN q ELSE req[p]
        /\ owner' = owner /\ live' = live /\ gone' = gone /\ settled' = settled /\ now' = now
    BY DEF IInv, ReqOK, TypeOK, rowVars
  <2> QED
    BY <2>1 DEF Served, CreateOK, CallOK, ListOK
<1>3. SettledOK'
  BY DEF IInv, SettledOK, rowVars
<1> QED
  BY <1>1, <1>2, <1>3 DEF IInv

\* The conditions of RequestStep that hold when cache, factory and usage stay.
LEMMA QuietStep ==
    ASSUME IInv, NEW r \in Requests, NEW q \in ReqType,
           UNCHANGED <<rowVars, usage, serverVars, admin, now, restarts>>,
           req' = [req EXCEPT ![r] = q], Served(q),
           calls' \in 0 .. MaxCalls
    PROVE  IInv'
<1>1. /\ instances' \in [Keys -> Slots] /\ cache' \in [Tenants \X Slots -> Entry \cup {NoEntry}]
      /\ usage' \subseteq [tenant : Tenants, id : Ids, charged : Ids]
  BY DEF IInv, TypeOK, serverVars
<1>2. CacheOK'
  BY DEF IInv, CacheOK, serverVars, rowVars
<1>3. UsageOwned'
  BY DEF IInv, UsageOwned, rowVars
<1> QED
  BY <1>1, <1>2, <1>3, RequestStep

\* A request that has nothing yet makes no promise.
LEMMA FreeStates ==
    /\ NoReq \in ReqType /\ Served(NoReq)
    /\ \A t \in Tenants, s \in Slots, pc \in {"get", "load"} :
          LET q == [pc |-> pc, tenant |-> t, slot |-> s] IN q \in ReqType /\ Served(q)
    /\ \A t \in Tenants :
          LET q == [pc |-> "list", tenant |-> t, slot |-> 0] IN q \in ReqType /\ Served(q)
<1>1. NoReq \in ReqType /\ Served(NoReq)
  BY DEF NoReq, ReqType, Served, CreateOK, CallOK, ListOK
<1>2. ASSUME NEW t \in Tenants, NEW s \in Slots, NEW pc \in {"get", "load"}
      PROVE  LET q == [pc |-> pc, tenant |-> t, slot |-> s] IN q \in ReqType /\ Served(q)
  BY DEF ReqType, Getting, Served, CreateOK, CallOK, ListOK
<1>3. ASSUME NEW t \in Tenants
      PROVE  LET q == [pc |-> "list", tenant |-> t, slot |-> 0] IN q \in ReqType /\ Served(q)
  BY DEF ReqType, Listing, Served, CreateOK, CallOK, ListOK
<1> QED
  BY <1>1, <1>2, <1>3

LEMMA StartRequestStep ==
    ASSUME IInv, NEW r \in Requests, NEW t \in Tenants, NEW slot \in Slots, StartRequest(r, t, slot)
    PROVE  IInv'
<1> DEFINE q == [pc |-> "get", tenant |-> t, slot |-> slot]
<1>1. q \in ReqType /\ Served(q)
  BY FreeStates
<1>2. calls' \in 0 .. MaxCalls
  BY DEF StartRequest, Arrive, IInv, TypeOK
<1>3. req' = [req EXCEPT ![r] = q] /\ UNCHANGED <<rowVars, usage, serverVars, admin, now, restarts>>
  BY DEF StartRequest, Goto
<1> HIDE DEF q
<1> QED
  BY <1>1, <1>2, <1>3, QuietStep

\* calls does not change once a request has arrived.
LEMMA CallsType == IInv /\ calls' = calls => calls' \in 0 .. MaxCalls
  BY DEF IInv, TypeOK

\* Steps that end the request, or send it to the list.
LEMMA GiveUpStep ==
    ASSUME IInv, NEW r \in Requests, LoadFails(r) \/ FallbackAnalysis(r)
    PROVE  IInv'
<1>1. /\ req' = [req EXCEPT ![r] = NoReq] /\ calls' = calls
      /\ UNCHANGED <<rowVars, usage, serverVars, admin, now, restarts>>
  BY DEF LoadFails, FallbackAnalysis, Goto
<1> QED
  BY <1>1, FreeStates, CallsType, QuietStep

LEMMA NoDefaultStep ==
    ASSUME IInv, NEW r \in Requests, NoDefault(r)
    PROVE  IInv'
<1> DEFINE q == [pc |-> "list", tenant |-> req[r].tenant, slot |-> 0]
<1>1. req[r] \in Getting /\ req[r].slot = 0
  BY RequestFields DEF NoDefault, IInv
<1>2. [req[r] EXCEPT !.pc = "list"] = q
  BY <1>1 DEF Getting
<1>3. q \in ReqType /\ Served(q)
  BY <1>1, FreeStates DEF Getting
<1>4. /\ req' = [req EXCEPT ![r] = q] /\ calls' = calls
      /\ UNCHANGED <<rowVars, usage, serverVars, admin, now, restarts>>
  BY <1>2 DEF NoDefault, Goto
<1> HIDE DEF q
<1> QED
  BY <1>3, <1>4, CallsType, QuietStep

\* A SELECT found row i; for a slot other than 0 it is the row of the slot.
LEMMA LoadedStep ==
    ASSUME IInv, NEW r \in Requests, NEW i \in Ids, Loaded(r, i),
           req[r] \in Getting \cup Listing,
           req[r].slot # 0 => req[r].slot = i /\ i \in RowsOf(req[r].tenant)
    PROVE  IInv'
<1> DEFINE q == [pc |-> "create", tenant |-> req[r].tenant, slot |-> req[r].slot,
                 id |-> i, key |-> key[i], at |-> now]
<1>1. req[r].tenant \in Tenants /\ req[r].slot \in Slots
  BY DEF Getting, Listing
<1>2. key[i] \in Keys /\ now \in 0 .. MaxTime
  BY DEF IInv, TypeOK
<1>3. q \in ReqType
  BY <1>1, <1>2 DEF ReqType, Creating
<1>4. Served(q)
  BY <1>1, <1>2 DEF Served, CreateOK, CallOK, ListOK, RowsOf
<1>5. /\ req' = [req EXCEPT ![r] = q] /\ calls' = calls
      /\ UNCHANGED <<rowVars, usage, serverVars, admin, now, restarts>>
  BY DEF Loaded, Goto
<1> HIDE DEF q
<1> QED
  BY <1>3, <1>4, <1>5, CallsType, QuietStep

LEMMA LoadStep ==
    ASSUME IInv, NEW r \in Requests, LoadById(r) \/ LoadDefault(r) \/ LoadFirst(r)
    PROVE  IInv'
<1>1. CASE LoadById(r)
  <2>1. req[r] \in Getting /\ req[r].slot \in Ids
    BY <1>1, RequestFields DEF LoadById, IInv, Getting
  <2> QED
    BY <1>1, <2>1, LoadedStep DEF LoadById
<1>2. CASE LoadDefault(r)
  <2>1. req[r] \in Getting /\ req[r].slot = 0
    BY <1>2, RequestFields DEF LoadDefault, IInv
  <2>2. PICK i \in ActiveOf(req[r].tenant) \cap dflt : Loaded(r, i)
    BY <1>2 DEF LoadDefault
  <2>3. i \in Ids
    BY DEF IInv, TypeOK
  <2> QED
    BY <2>1, <2>2, <2>3, LoadedStep
<1>3. CASE LoadFirst(r)
  <2>1. req[r] \in Listing /\ req[r].slot = 0
    BY <1>3, RequestFields DEF LoadFirst, IInv, Listing
  <2>2. PICK i \in ActiveOf(req[r].tenant) : Loaded(r, i)
    BY <1>3 DEF LoadFirst
  <2>3. i \in Ids
    BY DEF IInv, TypeOK, ActiveOf
  <2> QED
    BY <2>1, <2>2, <2>3, LoadedStep
<1> QED
  BY <1>1, <1>2, <1>3

\* A provider is handed out for the slot, from the cache or newly created.
LEMMA ObtainedStep ==
    ASSUME IInv, NEW r \in Requests, NEW inst \in Ids, Obtained(r, inst),
           req[r].tenant \in Tenants, req[r].slot \in Slots,
           req[r].slot # 0 => /\ owner[req[r].slot] = req[r].tenant
                              /\ req[r].slot \in live \/ now <= settled[req[r].slot] + TTL,
           UNCHANGED <<rowVars, usage, admin, now, restarts, calls>>,
           instances' \in [Keys -> Slots],
           cache' \in [Tenants \X Slots -> Entry \cup {NoEntry}], CacheOK'
    PROVE  IInv'
<1> DEFINE t == req[r].tenant
           s == req[r].slot
           q == IF s = 0 THEN [pc |-> "get", tenant |-> t, slot |-> inst]
                ELSE [pc |-> "call", tenant |-> t, slot |-> s, inst |-> inst, at |-> now]
<1>1. q \in ReqType /\ Served(q)
  <2>1. CASE s = 0
    <3> DEFINE g == [pc |-> "get", tenant |-> t, slot |-> inst]
    <3>1. t \in Tenants /\ inst \in Slots
      OBVIOUS
    <3>2. g \in ReqType /\ Served(g)
      BY <3>1, FreeStates
    <3> QED
      BY <2>1, <3>2
  <2>2. CASE s # 0
    <3> DEFINE c == [pc |-> "call", tenant |-> t, slot |-> s, inst |-> inst, at |-> now]
    <3>1. now \in 0 .. MaxTime /\ s \in Ids
      BY <2>2 DEF IInv, TypeOK
    <3>2. c \in ReqType
      BY <3>1 DEF ReqType, Calling
    <3>3. Served(c)
      BY <2>2, <3>1 DEF Served, CreateOK, CallOK, ListOK
    <3> QED
      BY <2>2, <3>2, <3>3
  <2> QED
    BY <2>1, <2>2
<1>2. req' = [req EXCEPT ![r] = q]
  BY DEF Obtained, Goto
<1>3. /\ usage' \subseteq [tenant : Tenants, id : Ids, charged : Ids] /\ UsageOwned'
      /\ UNCHANGED <<rowVars, admin, now, restarts>>
  BY DEF IInv, TypeOK, UsageOwned, rowVars
<1>4. calls' \in 0 .. MaxCalls
  BY CallsType
<1> HIDE DEF q
<1> QED
  BY <1>1, <1>2, <1>3, <1>4, RequestStep

LEMMA CacheHitStep ==
    ASSUME IInv, NEW r \in Requests, CacheHit(r)
    PROVE  IInv'
<1> DEFINE t == req[r].tenant
           s == req[r].slot
           e == cache[<<t, s>>]
<1>1. req[r] \in Getting
  BY RequestFields DEF CacheHit, IInv
<1>2. t \in Tenants /\ s \in Slots
  BY <1>1 DEF Getting
<1>3. e \in Entry /\ now <= e.expires
  BY <1>2 DEF CacheHit, Fresh, IInv, TypeOK
<1>4. s # 0 => owner[s] = t /\ (s \in live \/ now <= settled[s] + TTL)
  <2> SUFFICES ASSUME s # 0 PROVE owner[s] = t /\ (s \in live \/ now <= settled[s] + TTL)
    OBVIOUS
  <2>1. s \in Ids /\ e # NoEntry
    BY <1>2 DEF CacheHit, Fresh
  <2>2. owner[s] = t /\ (s \in live \/ e.expires <= settled[s] + TTL)
    BY <1>2, <2>1 DEF IInv, CacheOK
  <2>3. now \in Int /\ e.expires \in Int /\ settled[s] \in Int
    <3> HIDE DEF t, s, e
    <3>1. e.expires \in Int
      BY <1>3 DEF Entry
    <3>2. now \in Int /\ settled[s] \in Int
      BY <2>1 DEF IInv, TypeOK
    <3> QED
      BY <3>1, <3>2
  <2> HIDE DEF t, s, e
  <2> QED
    BY <1>3, <2>2, <2>3
<1>5. e.inst \in Ids /\ Obtained(r, e.inst)
  BY <1>3 DEF Entry, CacheHit
<1>6. /\ UNCHANGED <<rowVars, usage, admin, now, restarts, calls>>
      /\ instances' \in [Keys -> Slots] /\ cache' \in [Tenants \X Slots -> Entry \cup {NoEntry}]
  BY DEF CacheHit, IInv, TypeOK, serverVars
<1>7. CacheOK'
  BY DEF CacheHit, IInv, CacheOK, serverVars, rowVars
<1> QED
  BY <1>2, <1>4, <1>5, <1>6, <1>7, ObtainedStep

LEMMA CacheMissStep ==
    ASSUME IInv, NEW r \in Requests, CacheMiss(r)
    PROVE  IInv'
<1> DEFINE q == [pc |-> "load", tenant |-> req[r].tenant, slot |-> req[r].slot]
<1>1. req[r] \in Getting
  BY RequestFields DEF CacheMiss, IInv
<1>2. q \in ReqType /\ Served(q)
  BY <1>1, FreeStates DEF Getting
<1>3. [req[r] EXCEPT !.pc = "load"] = q
  BY <1>1 DEF Getting
<1>4. /\ req' = [req EXCEPT ![r] = q] /\ calls' = calls
      /\ UNCHANGED <<rowVars, admin, now, restarts>>
  BY <1>3 DEF CacheMiss, Goto
<1>5. cache' \in [Tenants \X Slots -> Entry \cup {NoEntry}]
  BY DEF CacheMiss, IInv, TypeOK
<1>6. CacheOK'
  <2> SUFFICES ASSUME NEW u \in Tenants, NEW i \in Ids, cache'[<<u, i>>] # NoEntry
               PROVE  /\ owner'[i] = u
                      /\ cache'[<<u, i>>].expires <= now' + TTL
                      /\ i \in live' \/ cache'[<<u, i>>].expires <= settled'[i] + TTL
    BY DEF CacheOK
  <2>1. cache'[<<u, i>>] = cache[<<u, i>>]
    BY DEF CacheMiss, IInv, TypeOK
  <2> QED
    BY <2>1, <1>4 DEF IInv, CacheOK, rowVars
<1>7. /\ instances' \in [Keys -> Slots] /\ usage' \subseteq [tenant : Tenants, id : Ids, charged : Ids]
      /\ UsageOwned'
  BY DEF CacheMiss, IInv, TypeOK, UsageOwned, rowVars
<1> HIDE DEF q
<1> QED
  BY <1>2, <1>4, <1>5, <1>6, <1>7, CallsType, RequestStep

\* The factory holds rows; one that is found is in Ids.
LEMMA InstanceType ==
    ASSUME TypeOK, NEW k \in Keys, Known(k)
    PROVE  instances[k] \in Ids
  BY DEF TypeOK, Known

LEMMA AddInstanceType ==
    ASSUME TypeOK, NEW c, c.key \in Keys, c.id \in Ids, AddInstance(c)
    PROVE  instances' \in [Keys -> Slots]
<1>1. instances \in [Keys -> Slots] /\ c.id \in Slots /\ instances' = [instances EXCEPT ![c.key] = c.id]
  BY DEF TypeOK, AddInstance
<1> QED
  BY <1>1

\* A step of the factory: a request moves on, and at most an instance is added.
LEMMA FactoryStep ==
    ASSUME IInv, NEW r \in Requests, NEW q \in ReqType, Served(q),
           req' = [req EXCEPT ![r] = q], instances' \in [Keys -> Slots],
           UNCHANGED <<rowVars, usage, cache, admin, now, restarts, calls>>
    PROVE  IInv'
<1>1. /\ cache' \in [Tenants \X Slots -> Entry \cup {NoEntry}]
      /\ usage' \subseteq [tenant : Tenants, id : Ids, charged : Ids]
  BY DEF IInv, TypeOK
<1>2. CacheOK'
  BY DEF IInv, CacheOK, rowVars
<1>3. UsageOwned'
  BY DEF IInv, UsageOwned, rowVars
<1> QED
  BY <1>1, <1>2, <1>3, CallsType, RequestStep

LEMMA MakeStep ==
    ASSUME IInv, NEW r \in Requests, FindInstance(r) \/ MakeInstance(r) \/ InstanceMade(r)
    PROVE  IInv'
<1> DEFINE m == [pc |-> "make", tenant |-> req[r].tenant, slot |-> req[r].slot,
                 id |-> req[r].id, key |-> req[r].key, at |-> req[r].at]
<1>1. req[r] \in Creating /\ Served(req[r]) /\ req[r].pc \in {"create", "make"}
  BY RequestFields DEF FindInstance, MakeInstance, InstanceMade, IInv, ReqOK
<1>2. /\ req[r].tenant \in Tenants /\ req[r].slot \in Slots /\ req[r].key \in Keys
      /\ req[r].id \in Ids /\ req[r].at \in 0 .. MaxTime
  BY <1>1 DEF Creating
<1>3. ASSUME NEW inst \in Ids
      PROVE  WithInstance(req[r], inst) \in ReqType /\ Served(WithInstance(req[r], inst))
  <2>1. WithInstance(req[r], inst) \in ReqType
    BY <1>2, <1>3 DEF WithInstance, ReqType, Caching
  <2>2. Served(WithInstance(req[r], inst))
    BY <1>1 DEF WithInstance, Served, CreateOK, CallOK, ListOK
  <2> QED
    BY <2>1, <2>2
<1>4. CASE FindInstance(r)
  <2>1. instances[req[r].key] \in Ids
    BY <1>2, <1>4, InstanceType DEF FindInstance, IInv
  <2>2. /\ req' = [req EXCEPT ![r] = WithInstance(req[r], instances[req[r].key])]
        /\ UNCHANGED <<rowVars, usage, cache, admin, now, restarts, calls>> /\ instances' = instances
    BY <1>4 DEF FindInstance, Goto, serverVars
  <2>3. instances' \in [Keys -> Slots]
    BY <2>2 DEF IInv, TypeOK
  <2> QED
    BY <1>3, <2>1, <2>2, <2>3, FactoryStep
<1>5. CASE MakeInstance(r)
  <2>1. [req[r] EXCEPT !.pc = "make"] = m
    BY <1>1 DEF Creating
  <2>2. m \in ReqType
    BY <1>2 DEF ReqType, Creating
  <2>3. Served(m)
    BY <1>1 DEF Served, CreateOK, CallOK, ListOK
  <2>4. /\ req' = [req EXCEPT ![r] = m] /\ instances' = instances
        /\ UNCHANGED <<rowVars, usage, cache, admin, now, restarts, calls>>
    BY <1>5, <2>1 DEF MakeInstance, Goto, serverVars
  <2>5. instances' \in [Keys -> Slots]
    BY <2>4 DEF IInv, TypeOK
  <2> HIDE DEF m
  <2> QED
    BY <2>2, <2>3, <2>4, <2>5, FactoryStep
<1>6. CASE InstanceMade(r)
  <2>1. instances' \in [Keys -> Slots]
    BY <1>2, <1>6, AddInstanceType DEF InstanceMade, IInv
  <2>2. /\ req' = [req EXCEPT ![r] = WithInstance(req[r], req[r].id)]
        /\ UNCHANGED <<rowVars, usage, cache, admin, now, restarts, calls>>
    BY <1>6 DEF InstanceMade, Goto
  <2> QED
    BY <1>2, <1>3, <2>1, <2>2, FactoryStep
<1> QED
  BY <1>4, <1>5, <1>6

\* The entry starts now; a deleted row that it names is settled only now.
LEMMA SetCacheStep ==
    ASSUME IInv, NEW r \in Requests, SetCache(r)
    PROVE  IInv'
<1> DEFINE t == req[r].tenant
           s == req[r].slot
           inst == req[r].inst
           e == [inst |-> inst, expires |-> now + TTL]
<1>1. req[r] \in Caching /\ Served(req[r]) /\ req[r].pc = "cache"
  BY RequestFields DEF SetCache, IInv, ReqOK
<1>2. t \in Tenants /\ s \in Slots /\ inst \in Ids /\ now \in 0 .. MaxTime
  BY <1>1 DEF Caching, IInv, TypeOK
<1>3. s # 0 => owner[s] = t /\ (s \in live \/ settled[s] = now)
  BY <1>1 DEF Served, CreateOK
<1>4. e \in Entry
  BY <1>2 DEF Entry
<1>5. cache' = [cache EXCEPT ![<<t, s>>] = e] /\ Obtained(r, inst)
  BY DEF SetCache
<1>6. UNCHANGED <<rowVars, usage, admin, now, restarts, calls>> /\ instances' \in [Keys -> Slots]
  BY DEF SetCache, IInv, TypeOK
<1>7. e.expires = now + TTL
  OBVIOUS
<1> HIDE DEF e, inst
<1>8. cache' \in [Tenants \X Slots -> Entry \cup {NoEntry}]
  BY <1>4, <1>5 DEF IInv, TypeOK
<1>9. CacheOK'
  <2> SUFFICES ASSUME NEW u \in Tenants, NEW i \in Ids, cache'[<<u, i>>] # NoEntry
               PROVE  /\ owner'[i] = u
                      /\ cache'[<<u, i>>].expires <= now' + TTL
                      /\ i \in live' \/ cache'[<<u, i>>].expires <= settled'[i] + TTL
    BY DEF CacheOK
  <2>1. CASE u = t /\ i = s
    <3>1. cache'[<<u, i>>] = e
      BY <2>1, <1>5 DEF IInv, TypeOK
    <3> QED
      BY <2>1, <3>1, <1>2, <1>3, <1>6, <1>7 DEF rowVars
  <2>2. CASE ~(u = t /\ i = s)
    <3>1. cache'[<<u, i>>] = cache[<<u, i>>]
      BY <2>2, <1>5 DEF IInv, TypeOK
    <3> QED
      BY <3>1, <1>6 DEF IInv, CacheOK, rowVars
  <2> QED
    BY <2>1, <2>2
<1>10. s # 0 => owner[s] = t /\ (s \in live \/ now <= settled[s] + TTL)
  BY <1>2, <1>3
<1> QED
  BY <1>2, <1>5, <1>6, <1>8, <1>9, <1>10, ObtainedStep

\* What InsertUsage adds belongs to the tenant.
LEMMA UsageStep ==
    ASSUME IInv, NEW t \in Tenants, NEW i \in Ids, NEW inst \in Ids, owner[i] = t,
           InsertUsage(t, i, inst), UNCHANGED rowVars
    PROVE  usage' \subseteq [tenant : Tenants, id : Ids, charged : Ids] /\ UsageOwned'
<1>1. usage \subseteq [tenant : Tenants, id : Ids, charged : Ids]
  BY DEF IInv, TypeOK
<1>2. usage' \subseteq usage \cup {[tenant |-> t, id |-> i, charged |-> inst]}
  BY DEF InsertUsage
<1>3. [tenant |-> t, id |-> i, charged |-> inst] \in usage' \ usage => i \in live
  BY DEF InsertUsage
<1> QED
  BY <1>1, <1>2, <1>3 DEF IInv, UsageOwned, rowVars

\* A call ends: its usage is logged and the request is done.
LEMMA CallEndsStep ==
    ASSUME IInv, NEW r \in Requests, CallEnds(r) \/ AttemptSucceeds(r)
    PROVE  IInv'
<1>1. usage' \subseteq [tenant : Tenants, id : Ids, charged : Ids] /\ UsageOwned'
  <2>1. CASE CallEnds(r)
    <3>1. req[r] \in Calling /\ owner[req[r].slot] = req[r].tenant
      BY <2>1, RequestFields DEF CallEnds, IInv, ReqOK, Served, CallOK
    <3>2. req[r].tenant \in Tenants /\ req[r].slot \in Ids /\ req[r].inst \in Ids
      BY <3>1 DEF Calling
    <3>3. InsertUsage(req[r].tenant, req[r].slot, req[r].inst) /\ UNCHANGED rowVars
      BY <2>1 DEF CallEnds
    <3> QED
      BY <3>1, <3>2, <3>3, UsageStep
  <2>2. CASE AttemptSucceeds(r)
    <3>1. req[r] \in Attempt /\ owner[req[r].id] = req[r].tenant
      BY <2>2, RequestFields DEF AttemptSucceeds, IInv, ReqOK, Served, ListOK
    <3>2. req[r].tenant \in Tenants /\ req[r].id \in Ids /\ req[r].inst \in Ids
      BY <3>1 DEF Attempt
    <3>3. InsertUsage(req[r].tenant, req[r].id, req[r].inst) /\ UNCHANGED rowVars
      BY <2>2 DEF AttemptSucceeds
    <3> QED
      BY <3>1, <3>2, <3>3, UsageStep
  <2> QED
    BY <2>1, <2>2
<1>2. /\ req' = [req EXCEPT ![r] = NoReq] /\ calls' = calls
      /\ UNCHANGED <<rowVars, admin, now, restarts>> /\ UNCHANGED serverVars
  BY DEF CallEnds, AttemptSucceeds, Goto
<1>3. instances' \in [Keys -> Slots] /\ cache' \in [Tenants \X Slots -> Entry \cup {NoEntry}]
  BY <1>2 DEF IInv, TypeOK, serverVars
<1>4. CacheOK'
  BY <1>2 DEF IInv, CacheOK, serverVars, rowVars
<1> QED
  BY <1>1, <1>2, <1>3, <1>4, FreeStates, CallsType, RequestStep

LEMMA StartFallbackStep ==
    ASSUME IInv, NEW r \in Requests, NEW t \in Tenants, StartFallback(r, t)
    PROVE  IInv'
<1> DEFINE T == {[id |-> i, key |-> key[i]] : i \in ActiveOf(t)}
           q == [pc |-> "try", tenant |-> t, defaults |-> dflt, todo |-> T]
<1>1. dflt \in SUBSET Ids /\ T \in SUBSET Config
  <2>1. dflt \in SUBSET Ids /\ ActiveOf(t) \subseteq Ids /\ key \in [Ids -> Keys]
    BY DEF IInv, TypeOK, ActiveOf, RowsOf
  <2>2. ASSUME NEW i \in ActiveOf(t) PROVE [id |-> i, key |-> key[i]] \in Config
    BY <2>1 DEF Config
  <2> QED
    BY <2>1, <2>2
<1>2. \A c \in T : owner[c.id] = t
  BY DEF ActiveOf, RowsOf
<1>3. calls' \in 0 .. MaxCalls
  BY DEF StartFallback, Arrive, IInv, TypeOK
<1>4. req' = [req EXCEPT ![r] = q] /\ UNCHANGED <<rowVars, usage, serverVars, admin, now, restarts>>
  BY DEF StartFallback, Goto
<1> HIDE DEF T
<1>5. q \in ReqType
  BY <1>1 DEF ReqType, Trying
<1>6. Served(q)
  BY <1>2 DEF Served, CreateOK, CallOK, ListOK
<1> HIDE DEF q
<1> QED
  BY <1>3, <1>4, <1>5, <1>6, QuietStep

\* The list goes on with its next provider, c: what is left of it, and c, are the tenant's.
LEMMA TryStep ==
    ASSUME IInv, NEW r \in Requests, Try(r) \/ BuildInstance(r)
    PROVE  IInv'
<1>1. req[r] \in Trying /\ req[r].pc = "try" /\ Served(req[r])
  BY RequestFields DEF Try, BuildInstance, IInv, ReqOK
<1>2. ASSUME NEW c \in req[r].todo
      PROVE  /\ c.id \in Ids /\ c.key \in Keys /\ req[r].tenant \in Tenants
             /\ req[r].defaults \in SUBSET Ids /\ req[r].todo \ {c} \in SUBSET Config
             /\ owner[c.id] = req[r].tenant /\ \A d \in req[r].todo \ {c} : owner[d.id] = req[r].tenant
  BY <1>1, <1>2 DEF Trying, Config, Served, ListOK
<1>3. UNCHANGED <<rowVars, usage, cache, admin, now, restarts, calls>> /\ instances' \in [Keys -> Slots]
  BY DEF Try, BuildInstance, serverVars, IInv, TypeOK
<1>4. CASE Try(r)
  <2>1. PICK c \in req[r].todo :
            Known(c.key) /\ Goto(r, Attempting(req[r], c.id, req[r].todo \ {c}, instances[c.key]))
    BY <1>4 DEF Try
  <2> DEFINE rest == req[r].todo \ {c}
             inst == instances[c.key]
             q == Attempting(req[r], c.id, rest, inst)
  <2>2. inst \in Ids
    BY <1>2, <2>1, InstanceType DEF IInv
  <2>3. rest \in SUBSET Config /\ \A d \in rest : owner[d.id] = req[r].tenant
    BY <1>2
  <2>4. req' = [req EXCEPT ![r] = q]
    BY <2>1 DEF Goto
  <2> HIDE DEF rest, inst
  <2>5. q \in ReqType
    BY <1>2, <2>2, <2>3 DEF Attempting, ReqType, Attempt
  <2>6. Served(q)
    BY <1>2, <2>3 DEF Attempting, Served, CreateOK, CallOK, ListOK
  <2> HIDE DEF q
  <2> QED
    BY <1>3, <2>4, <2>5, <2>6, FactoryStep
<1>5. CASE BuildInstance(r)
  <2>1. PICK c \in req[r].todo :
            Goto(r, [pc |-> "build", tenant |-> req[r].tenant, defaults |-> req[r].defaults,
                     todo |-> req[r].todo \ {c}, id |-> c.id, key |-> c.key])
    BY <1>5 DEF BuildInstance
  <2> DEFINE rest == req[r].todo \ {c}
             q == [pc |-> "build", tenant |-> req[r].tenant, defaults |-> req[r].defaults,
                   todo |-> rest, id |-> c.id, key |-> c.key]
  <2>2. rest \in SUBSET Config /\ \A d \in rest : owner[d.id] = req[r].tenant
    BY <1>2
  <2>3. req' = [req EXCEPT ![r] = q]
    BY <2>1 DEF Goto
  <2> HIDE DEF rest
  <2>4. q \in ReqType
    BY <1>2, <2>2 DEF ReqType, Building
  <2>5. Served(q)
    BY <1>2, <2>2 DEF Served, CreateOK, CallOK, ListOK
  <2> HIDE DEF q
  <2> QED
    BY <1>3, <2>3, <2>4, <2>5, FactoryStep
<1> QED
  BY <1>4, <1>5

LEMMA BuiltStep ==
    ASSUME IInv, NEW r \in Requests, InstanceBuilt(r)
    PROVE  IInv'
<1> DEFINE q == Attempting(req[r], req[r].id, req[r].todo, req[r].id)
<1>1. req[r] \in Building /\ req[r].pc = "build" /\ Served(req[r])
  BY RequestFields DEF InstanceBuilt, IInv, ReqOK
<1>2. /\ req[r].id \in Ids /\ req[r].key \in Keys /\ req[r].tenant \in Tenants
      /\ req[r].defaults \in SUBSET Ids /\ req[r].todo \in SUBSET Config
  BY <1>1 DEF Building
<1>3. q \in ReqType
  BY <1>2 DEF Attempting, ReqType, Attempt
<1>4. Served(q)
  BY <1>1 DEF Attempting, Served, CreateOK, CallOK, ListOK
<1>5. instances' \in [Keys -> Slots]
  BY <1>2, AddInstanceType DEF InstanceBuilt, IInv
<1>6. /\ req' = [req EXCEPT ![r] = q]
      /\ UNCHANGED <<rowVars, usage, cache, admin, now, restarts, calls>>
  BY DEF InstanceBuilt, Goto
<1> HIDE DEF q
<1> QED
  BY <1>3, <1>4, <1>5, <1>6, FactoryStep

LEMMA AttemptFailsStep ==
    ASSUME IInv, NEW r \in Requests, AttemptFails(r)
    PROVE  IInv'
<1> DEFINE q == [pc |-> "try", tenant |-> req[r].tenant, defaults |-> req[r].defaults,
                 todo |-> req[r].todo]
<1>1. req[r] \in Attempt /\ req[r].pc = "attempt" /\ Served(req[r])
  BY RequestFields DEF AttemptFails, IInv, ReqOK
<1>2. q \in ReqType
  BY <1>1 DEF ReqType, Trying, Attempt
<1>3. Served(q)
  BY <1>1 DEF Served, CreateOK, CallOK, ListOK
<1>4. /\ req' = [req EXCEPT ![r] = q] /\ calls' = calls
      /\ UNCHANGED <<rowVars, usage, serverVars, admin, now, restarts>>
  BY DEF AttemptFails, Goto
<1> HIDE DEF q
<1> QED
  BY <1>2, <1>3, <1>4, CallsType, QuietStep
----------------------------------------------------------------------------
\* What an administrative statement does to the rows: a row keeps its owner, and
\* one that is deleted is gone since now.
RowsKept ==
    /\ \A i \in Ids : owner[i] # NoTenant =>
          /\ owner'[i] = owner[i]
          /\ i \in live => i \in live' \/ (gone'[i] = now /\ settled'[i] = now)
          /\ i \notin live => gone'[i] = gone[i] /\ settled'[i] = settled[i]
    /\ \A i \in Ids : gone'[i] \in {gone[i], now} /\ settled'[i] \in {settled[i], now}

RowTypes ==
    /\ owner \in [Ids -> Tenants \cup {NoTenant}]
    /\ live \subseteq Ids /\ active \subseteq live /\ dflt \subseteq live
    /\ key \in [Ids -> Keys]
    /\ gone \in [Ids -> 0 .. MaxTime] /\ settled \in [Ids -> 0 .. MaxTime]
    /\ kept \subseteq Tenants
    /\ admin \in [Admins -> {NoOp} \cup Writing]
    /\ calls \in 0 .. MaxCalls

LEMMA RowStep ==
    ASSUME IInv, RowTypes', RowsKept, UNCHANGED <<serverVars, req, now, restarts>>,
           usage' \subseteq usage, \A u \in usage' : u.id \in live'
    PROVE  IInv'
<1>1. TypeOK'
  BY DEF IInv, TypeOK, RowTypes, serverVars
<1>2. /\ now' = now /\ now \in 0 .. MaxTime /\ req' = req /\ cache' = cache
      /\ settled \in [Ids -> 0 .. MaxTime] /\ settled' \in [Ids -> 0 .. MaxTime]
  BY DEF IInv, TypeOK, RowTypes, serverVars
<1>3. CacheOK'
  <2> SUFFICES ASSUME NEW t \in Tenants, NEW s \in Ids, cache[<<t, s>>] # NoEntry
               PROVE  /\ owner'[s] = t
                      /\ cache[<<t, s>>].expires <= now + TTL
                      /\ s \in live' \/ cache[<<t, s>>].expires <= settled'[s] + TTL
    BY <1>2 DEF CacheOK
  <2>1. /\ owner[s] = t /\ cache[<<t, s>>].expires <= now + TTL
        /\ s \in live \/ cache[<<t, s>>].expires <= settled[s] + TTL
    BY DEF IInv, CacheOK
  <2>2. cache[<<t, s>>].expires \in Int
    BY DEF IInv, TypeOK, Entry
  <2>3. /\ owner'[s] = owner[s]
        /\ s \in live => s \in live' \/ settled'[s] = now
        /\ s \notin live => settled'[s] = settled[s]
    BY <2>1 DEF RowsKept
  <2>4. now \in Int /\ TTL \in Nat
    BY <1>2
  <2>5. settled'[s] = now => cache[<<t, s>>].expires <= settled'[s] + TTL
    BY <2>1, <2>2, <2>4
  <2> QED
    BY <2>1, <2>3, <2>5
<1>4. ReqOK'
  <2> SUFFICES ASSUME NEW r \in Requests PROVE Served(req[r])'
    BY DEF ReqOK
  <2>1. Served(req[r])
    BY DEF IInv, ReqOK
  <2>2. CreateOK(req[r])'
    <3> SUFFICES ASSUME req[r].pc \in {"create", "make", "cache"}
                 PROVE  /\ req[r].at <= now
                        /\ req[r].slot # 0 =>
                             /\ owner'[req[r].slot] = req[r].tenant
                             /\ \/ req[r].slot \in live'
                                \/ req[r].at <= gone'[req[r].slot] /\ settled'[req[r].slot] = now
      BY <1>2 DEF CreateOK
    <3>1. req[r] \in Creating \cup Caching
      BY RequestFields DEF IInv
    <3>2. req[r].tenant \in Tenants /\ req[r].slot \in Slots
      BY <3>1 DEF Creating, Caching
    <3>3. /\ req[r].at <= now
          /\ req[r].slot # 0 =>
               /\ owner[req[r].slot] = req[r].tenant
               /\ \/ req[r].slot \in live
                  \/ req[r].at <= gone[req[r].slot] /\ settled[req[r].slot] = now
      BY <2>1 DEF Served, CreateOK
    <3>4. ASSUME req[r].slot # 0
          PROVE  /\ owner'[req[r].slot] = req[r].tenant
                 /\ \/ req[r].slot \in live'
                    \/ req[r].at <= gone'[req[r].slot] /\ settled'[req[r].slot] = now
      <4>1. req[r].slot \in Ids
        BY <3>2, <3>4
      <4>2. /\ owner'[req[r].slot] = owner[req[r].slot]
            /\ req[r].slot \in live =>
                 \/ req[r].slot \in live'
                 \/ gone'[req[r].slot] = now /\ settled'[req[r].slot] = now
            /\ req[r].slot \notin live =>
                 gone'[req[r].slot] = gone[req[r].slot] /\ settled'[req[r].slot] = settled[req[r].slot]
        BY <3>2, <3>3, <3>4, <4>1 DEF RowsKept
      <4> QED
        BY <3>3, <3>4, <4>2
    <3> QED
      BY <3>3, <3>4
  <2>3. CallOK(req[r])'
    <3> SUFFICES ASSUME req[r].pc = "call"
                 PROVE  /\ req[r].at <= now /\ owner'[req[r].slot] = req[r].tenant
                        /\ req[r].slot \in live' \/ req[r].at <= settled'[req[r].slot] + TTL
      BY <1>2 DEF CallOK
    <3>1. req[r] \in Calling
      BY RequestFields DEF IInv
    <3>2. req[r].tenant \in Tenants /\ req[r].slot \in Ids /\ req[r].at \in Int
      BY <3>1 DEF Calling
    <3>3. /\ req[r].at <= now /\ owner[req[r].slot] = req[r].tenant
          /\ req[r].slot \in live \/ req[r].at <= settled[req[r].slot] + TTL
      BY <2>1 DEF Served, CallOK
    <3>4. /\ owner'[req[r].slot] = owner[req[r].slot]
          /\ req[r].slot \in live => req[r].slot \in live' \/ settled'[req[r].slot] = now
          /\ req[r].slot \notin live => settled'[req[r].slot] = settled[req[r].slot]
      BY <3>2, <3>3 DEF RowsKept
    <3>5. now \in Int /\ TTL \in Nat
      BY <1>2
    <3>6. settled'[req[r].slot] = now => req[r].at <= settled'[req[r].slot] + TTL
      BY <3>2, <3>3, <3>5
    <3> QED
      BY <3>3, <3>4, <3>6
  <2>4. ListOK(req[r])'
    <3>1. ASSUME NEW i \in Ids, owner[i] = req[r].tenant, req[r].tenant \in Tenants
          PROVE  owner'[i] = req[r].tenant
      BY <3>1 DEF RowsKept
    <3>2. ListOK(req[r])
      BY <2>1 DEF Served
    <3>3. req[r].pc \in {"try", "attempt", "build"} =>
            req[r].tenant \in Tenants /\ req[r].todo \subseteq Config
      BY RequestFields DEF IInv, Trying, Attempt, Building
    <3>4. req[r].pc \in {"attempt", "build"} => req[r].id \in Ids
      BY RequestFields DEF IInv, Attempt, Building
    <3>5. \A c \in Config : c.id \in Ids
      BY DEF Config
    <3> QED
      BY <1>2, <3>1, <3>2, <3>3, <3>4, <3>5 DEF ListOK
  <2> QED
    BY <2>2, <2>3, <2>4 DEF Served
<1>5. UsageOwned'
  BY DEF IInv, TypeOK, UsageOwned, RowsKept
<1>6. SettledOK'
  <2> SUFFICES ASSUME NEW i \in Ids PROVE gone'[i] <= now /\ settled'[i] <= now
    BY <1>2 DEF SettledOK
  <2>1. gone[i] <= now /\ settled[i] <= now /\ now <= now
    BY <1>2 DEF IInv, SettledOK
  <2>2. gone'[i] \in {gone[i], now} /\ settled'[i] \in {settled[i], now}
    BY DEF RowsKept
  <2> QED
    BY <2>1, <2>2
<1> QED
  BY <1>1, <1>3, <1>4, <1>5, <1>6 DEF IInv

\* The INSERT takes an id nobody owns; the UPDATE leaves owners and rows alone.
LEMMA WriteRow ==
    ASSUME IInv, NEW t \in Tenants, NEW i \in Ids, NEW k \in Keys, NEW on \in BOOLEAN,
           InsertRow(t, i, k, on) \/ UpdateRow(t, i, k, on), gone' = gone, settled' = settled
    PROVE  /\ owner' \in [Ids -> Tenants \cup {NoTenant}]
           /\ live' \subseteq Ids /\ live \subseteq live' /\ active' \subseteq live' /\ i \in live'
           /\ key' \in [Ids -> Keys]
           /\ RowsKept
<1>1. /\ owner \in [Ids -> Tenants \cup {NoTenant}] /\ live \subseteq Ids
      /\ active \subseteq live /\ key \in [Ids -> Keys]
  BY DEF IInv, TypeOK
<1>2. CASE InsertRow(t, i, k, on)
  <2>1. owner[i] = NoTenant
    BY <1>2 DEF InsertRow, FreshId
  <2>2. owner' = [owner EXCEPT ![i] = t] /\ live' = live \cup {i} /\ key' = [key EXCEPT ![i] = k]
    BY <1>2 DEF InsertRow
  <2>3. active' \subseteq active \cup {i}
    BY <1>2 DEF InsertRow
  <2>4. RowsKept
    BY <1>1, <2>1, <2>2 DEF RowsKept
  <2> QED
    BY <1>1, <2>2, <2>3, <2>4
<1>3. CASE UpdateRow(t, i, k, on)
  <2>1. i \in live /\ owner' = owner /\ live' = live /\ key' = [key EXCEPT ![i] = k]
    BY <1>3 DEF UpdateRow, RowsOf
  <2>2. active' \subseteq active \cup {i}
    BY <1>3 DEF UpdateRow
  <2> QED
    BY <1>1, <2>1, <2>2 DEF RowsKept
<1> QED
  BY <1>2, <1>3

LEMMA ClearDefaultStep ==
    ASSUME IInv, NEW a \in Admins, NEW t \in Tenants, NEW target \in Slots, ClearDefault(a, t, target)
    PROVE  IInv'
<1> DEFINE w == [pc |-> "write", tenant |-> t, target |-> target]
<1>1. w \in Writing
  BY DEF Writing
<1>2. admin' = [admin EXCEPT ![a] = w]
  BY DEF ClearDefault
<1> HIDE DEF w
<1>3. RowTypes'
  <2>1. admin' \in [Admins -> {NoOp} \cup Writing]
    BY <1>1, <1>2 DEF IInv, TypeOK
  <2>2. calls' \in 0 .. MaxCalls
    BY DEF ClearDefault, Arrive, IInv, TypeOK
  <2> QED
    BY <2>1, <2>2 DEF ClearDefault, IInv, TypeOK, RowTypes
<1>4. RowsKept
  BY DEF ClearDefault, RowsKept
<1>5. UNCHANGED <<serverVars, req, now, restarts>> /\ usage' = usage /\ live' = live
  BY DEF ClearDefault
<1>6. \A u \in usage' : u.id \in live'
  BY <1>5 DEF IInv, UsageOwned
<1> QED
  BY <1>3, <1>4, <1>5, <1>6, RowStep

\* NoOp is what admin returns to.
LEMMA AdminDone ==
    ASSUME IInv, NEW a \in Admins, admin' = [admin EXCEPT ![a] = NoOp]
    PROVE  admin' \in [Admins -> {NoOp} \cup Writing]
  BY DEF IInv, TypeOK

LEMMA AdminFields ==
    ASSUME IInv, NEW a \in Admins, admin[a].pc = "write"
    PROVE  admin[a].tenant \in Tenants /\ admin[a].target \in Slots
<1>1. admin[a] \in {NoOp} \cup Writing
  BY DEF IInv, TypeOK
<1> QED
  BY <1>1 DEF NoOp, Writing

LEMMA WriteDefaultStep ==
    ASSUME IInv, NEW a \in Admins, WriteDefault(a)
    PROVE  IInv'
<1>1. admin[a].tenant \in Tenants
  BY AdminFields DEF WriteDefault
<1>2. PICK i \in Ids, k \in Keys, on \in BOOLEAN :
          /\ InsertRow(admin[a].tenant, i, k, on) \/ UpdateRow(admin[a].tenant, i, k, on)
          /\ dflt' = dflt \cup {i}
  BY DEF WriteDefault
<1>3. /\ UNCHANGED <<serverVars, req, now, restarts>> /\ usage' = usage
      /\ gone' = gone /\ settled' = settled
      /\ calls' = calls /\ kept' = kept \cup {admin[a].tenant}
      /\ admin' = [admin EXCEPT ![a] = NoOp]
  BY DEF WriteDefault
<1>4. /\ owner' \in [Ids -> Tenants \cup {NoTenant}]
      /\ live' \subseteq Ids /\ live \subseteq live' /\ active' \subseteq live' /\ i \in live'
      /\ key' \in [Ids -> Keys] /\ RowsKept
  BY <1>1, <1>2, <1>3, WriteRow
<1>5. RowTypes'
  <2>1. admin' \in [Admins -> {NoOp} \cup Writing]
    BY <1>3, AdminDone
  <2>2. dflt' \subseteq live' /\ kept' \subseteq Tenants
    BY <1>1, <1>2, <1>3, <1>4 DEF IInv, TypeOK
  <2>3. gone' \in [Ids -> 0 .. MaxTime] /\ settled' \in [Ids -> 0 .. MaxTime] /\ calls' \in 0 .. MaxCalls
    BY <1>3 DEF IInv, TypeOK
  <2> QED
    BY <1>4, <2>1, <2>2, <2>3 DEF RowTypes
<1>6. \A u \in usage' : u.id \in live'
  BY <1>3, <1>4 DEF IInv, UsageOwned
<1> QED
  BY <1>3, <1>4, <1>5, <1>6, RowStep

LEMMA WriteFailsStep ==
    ASSUME IInv, NEW a \in Admins, WriteFails(a)
    PROVE  IInv'
<1>1. /\ UNCHANGED <<owner, live, active, dflt, key, gone, settled, usage, serverVars, req, now, restarts, calls>>
      /\ kept' \subseteq kept /\ admin' = [admin EXCEPT ![a] = NoOp]
  BY DEF WriteFails
<1>2. admin' \in [Admins -> {NoOp} \cup Writing]
  BY <1>1, AdminDone
<1>3. RowTypes' /\ RowsKept
  BY <1>1, <1>2 DEF IInv, TypeOK, RowTypes, RowsKept
<1>4. \A u \in usage' : u.id \in live'
  BY <1>1 DEF IInv, UsageOwned
<1> QED
  BY <1>1, <1>3, <1>4, RowStep

\* CreateProvider and UpdateProvider without is_default = true.
LEMMA PlainWriteStep ==
    ASSUME IInv, NEW t \in Tenants, CreateProvider(t) \/ UpdateProvider(t)
    PROVE  IInv'
<1>1. PICK i \in Ids, k \in Keys, on \in BOOLEAN :
          InsertRow(t, i, k, on) \/ UpdateRow(t, i, k, on)
  BY DEF CreateProvider, UpdateProvider
<1>2. /\ UNCHANGED <<serverVars, req, now, restarts>> /\ usage' = usage
      /\ gone' = gone /\ settled' = settled
      /\ admin' = admin
  BY DEF CreateProvider, UpdateProvider
<1>3. calls' \in 0 .. MaxCalls
  BY DEF CreateProvider, UpdateProvider, Arrive, IInv, TypeOK
<1>4. dflt' \subseteq dflt /\ kept' \subseteq kept
  BY DEF CreateProvider, UpdateProvider
<1>5. /\ owner' \in [Ids -> Tenants \cup {NoTenant}]
      /\ live' \subseteq Ids /\ live \subseteq live' /\ active' \subseteq live'
      /\ key' \in [Ids -> Keys] /\ RowsKept
  BY <1>1, <1>2, WriteRow
<1>6. RowTypes'
  <2>1. dflt' \subseteq live' /\ kept' \subseteq Tenants
    BY <1>4, <1>5 DEF IInv, TypeOK
  <2>2. gone' \in [Ids -> 0 .. MaxTime] /\ settled' \in [Ids -> 0 .. MaxTime] /\ admin' \in [Admins -> {NoOp} \cup Writing]
    BY <1>2 DEF IInv, TypeOK
  <2> QED
    BY <1>3, <1>5, <2>1, <2>2 DEF RowTypes
<1>7. \A u \in usage' : u.id \in live'
  BY <1>2, <1>5 DEF IInv, UsageOwned
<1> QED
  BY <1>2, <1>5, <1>6, <1>7, RowStep

LEMMA DeleteStep ==
    ASSUME IInv, NEW t \in Tenants, DeleteProvider(t)
    PROVE  IInv'
<1>1. PICK i \in RowsOf(t) :
          /\ live' = live \ {i} /\ active' = active \ {i} /\ dflt' = dflt \ {i}
          /\ gone' = [gone EXCEPT ![i] = now] /\ settled' = [settled EXCEPT ![i] = now]
          /\ kept' \subseteq kept
          /\ usage' = {u \in usage : u.id # i}
  BY DEF DeleteProvider
<1>2. /\ UNCHANGED <<owner, key, serverVars, req, admin, now, restarts>>
      /\ calls' \in 0 .. MaxCalls
  BY DEF DeleteProvider, Arrive, IInv, TypeOK
<1>3. i \in Ids /\ i \in live /\ now \in 0 .. MaxTime
      /\ gone \in [Ids -> 0 .. MaxTime] /\ settled \in [Ids -> 0 .. MaxTime]
  BY DEF IInv, TypeOK, RowsOf
<1>4. RowTypes'
  <2>1. gone' \in [Ids -> 0 .. MaxTime] /\ settled' \in [Ids -> 0 .. MaxTime]
    BY <1>1, <1>3
  <2>2. live' \subseteq Ids /\ active' \subseteq live' /\ dflt' \subseteq live' /\ kept' \subseteq Tenants
    BY <1>1 DEF IInv, TypeOK
  <2> QED
    BY <1>2, <2>1, <2>2 DEF IInv, TypeOK, RowTypes
<1>5. RowsKept
  BY <1>1, <1>2, <1>3 DEF RowsKept
<1>6. usage' \subseteq usage /\ \A u \in usage' : u.id \in live'
  BY <1>1 DEF IInv, UsageOwned
<1> QED
  BY <1>2, <1>4, <1>5, <1>6, RowStep
----------------------------------------------------------------------------
\* Time passes however long a request has been on its way: the row that it brings
\* is settled no earlier than the request is done.
LEMMA TickStep ==
    ASSUME IInv, Tick
    PROVE  IInv'
<1>1. /\ now' = now + 1 /\ now \in 0 .. MaxTime /\ now < MaxTime
      /\ settled' = [i \in Ids |-> IF OnItsWay(i) THEN now + 1 ELSE settled[i]]
      /\ UNCHANGED <<owner, live, active, dflt, key, gone, kept, usage, serverVars, req, admin, restarts, calls>>
  BY DEF Tick, IInv, TypeOK
<1>2. now' \in 0 .. MaxTime /\ now <= now'
  BY <1>1
<1>3. settled' \in [Ids -> 0 .. MaxTime]
  BY <1>1, <1>2 DEF IInv, TypeOK
<1>4. TypeOK'
  BY <1>1, <1>2, <1>3, Zenon DEF IInv, TypeOK, serverVars
<1>5. \A i \in Ids : /\ settled[i] <= settled'[i] /\ settled'[i] <= now'
                     /\ OnItsWay(i) => settled'[i] = now'
  <2> SUFFICES ASSUME NEW i \in Ids
               PROVE  /\ settled[i] <= settled'[i] /\ settled'[i] <= now'
                      /\ OnItsWay(i) => settled'[i] = now'
    OBVIOUS
  <2>1. settled'[i] = IF OnItsWay(i) THEN now + 1 ELSE settled[i]
    BY <1>1
  <2>2. settled[i] \in Int /\ settled[i] <= now
    BY DEF IInv, TypeOK, SettledOK
  <2> QED
    BY <1>1, <2>1, <2>2
<1>6. SettledOK'
  <2> SUFFICES ASSUME NEW i \in Ids PROVE gone'[i] <= now' /\ settled'[i] <= now'
    BY DEF SettledOK
  <2>1. gone' = gone /\ gone[i] \in Int /\ gone[i] <= now
    BY <1>1 DEF IInv, TypeOK, SettledOK
  <2> QED
    BY <1>1, <1>5, <2>1
<1>7. CacheOK'
  <2> SUFFICES ASSUME NEW t \in Tenants, NEW s \in Ids, cache[<<t, s>>] # NoEntry
               PROVE  /\ owner[s] = t
                      /\ cache[<<t, s>>].expires <= now' + TTL
                      /\ s \in live \/ cache[<<t, s>>].expires <= settled'[s] + TTL
    BY <1>1 DEF CacheOK, serverVars
  <2>1. cache[<<t, s>>].expires \in Int /\ settled[s] \in Int /\ settled'[s] \in Int
    BY <1>3 DEF IInv, TypeOK, Entry
  <2>2. /\ owner[s] = t /\ cache[<<t, s>>].expires <= now + TTL
        /\ s \in live \/ cache[<<t, s>>].expires <= settled[s] + TTL
    BY DEF IInv, CacheOK
  <2>3. cache[<<t, s>>].expires <= now' + TTL
    BY <1>1, <2>1, <2>2
  <2>4. s \in live \/ cache[<<t, s>>].expires <= settled'[s] + TTL
    BY <1>5, <2>1, <2>2
  <2> QED
    BY <2>2, <2>3, <2>4
<1>8. ReqOK'
  <2> SUFFICES ASSUME NEW r \in Requests PROVE Served(req[r])'
    BY DEF ReqOK
  <2>1. /\ Served(req[r]) /\ req' = req /\ owner' = owner /\ live' = live /\ gone' = gone
    BY <1>1 DEF IInv, ReqOK
  <2>2. CreateOK(req[r])'
    <3> SUFFICES ASSUME req[r].pc \in {"create", "make", "cache"}
                 PROVE  /\ req[r].at <= now'
                        /\ req[r].slot # 0 =>
                             /\ owner[req[r].slot] = req[r].tenant
                             /\ \/ req[r].slot \in live
                                \/ req[r].at <= gone[req[r].slot] /\ settled'[req[r].slot] = now'
      BY <2>1 DEF CreateOK
    <3>1. req[r] \in Creating \cup Caching
      BY RequestFields DEF IInv
    <3>2. req[r].slot \in Slots /\ req[r].at \in Int
      BY <3>1 DEF Creating, Caching
    <3>3. /\ req[r].at <= now
          /\ req[r].slot # 0 =>
               /\ owner[req[r].slot] = req[r].tenant
               /\ req[r].slot \in live \/ req[r].at <= gone[req[r].slot]
      BY <2>1 DEF Served, CreateOK
    <3>4. req[r].slot # 0 /\ req[r].slot \notin live => OnItsWay(req[r].slot)
      BY <3>3 DEF OnItsWay
    <3>5. req[r].slot # 0 => req[r].slot \in Ids
      BY <3>2
    <3>6. req[r].at <= now'
      BY <1>1, <3>2, <3>3
    <3> QED
      BY <1>5, <3>3, <3>4, <3>5, <3>6
  <2>3. CallOK(req[r])'
    <3> SUFFICES ASSUME req[r].pc = "call"
                 PROVE  /\ req[r].at <= now' /\ owner[req[r].slot] = req[r].tenant
                        /\ req[r].slot \in live \/ req[r].at <= settled'[req[r].slot] + TTL
      BY <2>1 DEF CallOK
    <3>1. req[r] \in Calling
      BY RequestFields DEF IInv
    <3>2. req[r].slot \in Ids /\ req[r].at \in Int
      BY <3>1 DEF Calling
    <3>3. settled[req[r].slot] \in Int /\ settled'[req[r].slot] \in Int
      BY <1>3, <3>2 DEF IInv, TypeOK
    <3>4. /\ req[r].at <= now /\ owner[req[r].slot] = req[r].tenant
          /\ req[r].slot \in live \/ req[r].at <= settled[req[r].slot] + TTL
      BY <2>1 DEF Served, CallOK
    <3>5. req[r].at <= now'
      BY <1>1, <3>2, <3>4
    <3>6. req[r].slot \in live \/ req[r].at <= settled'[req[r].slot] + TTL
      BY <1>5, <3>2, <3>3, <3>4
    <3> QED
      BY <3>4, <3>5, <3>6
  <2>4. ListOK(req[r])'
    BY <2>1 DEF Served, ListOK
  <2> QED
    BY <2>2, <2>3, <2>4 DEF Served
<1>9. UsageOwned'
  BY <1>1 DEF IInv, UsageOwned
<1> QED
  BY <1>4, <1>6, <1>7, <1>8, <1>9 DEF IInv

LEMMA RestartStep ==
    ASSUME IInv, Restart
    PROVE  IInv'
<1>1. \A r \in Requests : req'[r] = NoReq /\ req'[r].pc = "idle"
  BY DEF Restart, NoReq
<1>2. /\ UNCHANGED <<owner, live, active, dflt, key, gone, settled, usage, now, calls>>
      /\ kept' \subseteq kept /\ restarts' \in 0 .. MaxRestarts
  BY DEF Restart, IInv, TypeOK
<1>3. /\ instances' \in [Keys -> Slots] /\ admin' \in [Admins -> {NoOp} \cup Writing]
      /\ cache' \in [Tenants \X Slots -> Entry \cup {NoEntry}]
  BY DEF Restart
<1>4. req' \in [Requests -> ReqType]
  BY DEF Restart, ReqType
<1>5. TypeOK'
  BY <1>2, <1>3, <1>4 DEF IInv, TypeOK, ReqType
<1>6. CacheOK'
  BY DEF Restart, CacheOK
<1>7. ReqOK'
  BY <1>1 DEF ReqOK, Served, CreateOK, CallOK, ListOK
<1>8. UsageOwned' /\ SettledOK'
  BY <1>2 DEF IInv, UsageOwned, SettledOK
<1> QED
  BY <1>5, <1>6, <1>7, <1>8 DEF IInv

LEMMA NextIInv == IInv /\ [Next]_vars => IInv'
<1> SUFFICES ASSUME IInv, [Next]_vars PROVE IInv'
  OBVIOUS
<1>1. ASSUME NEW r \in Requests, NEW t \in Tenants, StartFallback(r, t) PROVE IInv'
  BY <1>1, StartFallbackStep
<1>2. ASSUME NEW r \in Requests, NEW t \in Tenants, NEW slot \in Slots, StartRequest(r, t, slot)
      PROVE  IInv'
  BY <1>2, StartRequestStep
<1>3. ASSUME NEW r \in Requests, CacheHit(r) \/ CacheMiss(r) PROVE IInv'
  BY <1>3, CacheHitStep, CacheMissStep
<1>4. ASSUME NEW r \in Requests, LoadById(r) \/ LoadDefault(r) \/ LoadFirst(r) PROVE IInv'
  BY <1>4, LoadStep
<1>5. ASSUME NEW r \in Requests, NoDefault(r) PROVE IInv'
  BY <1>5, NoDefaultStep
<1>6. ASSUME NEW r \in Requests, LoadFails(r) \/ FallbackAnalysis(r) PROVE IInv'
  BY <1>6, GiveUpStep
<1>7. ASSUME NEW r \in Requests, FindInstance(r) \/ MakeInstance(r) \/ InstanceMade(r) \/ SetCache(r)
      PROVE  IInv'
  BY <1>7, MakeStep, SetCacheStep
<1>8. ASSUME NEW r \in Requests, CallEnds(r) \/ AttemptSucceeds(r) PROVE IInv'
  BY <1>8, CallEndsStep
<1>9. ASSUME NEW r \in Requests, Try(r) \/ BuildInstance(r) \/ InstanceBuilt(r) PROVE IInv'
  BY <1>9, TryStep, BuiltStep
<1>10. ASSUME NEW r \in Requests, AttemptFails(r) PROVE IInv'
  BY <1>10, AttemptFailsStep
<1>11. ASSUME NEW a \in Admins, NEW t \in Tenants, NEW target \in Slots, ClearDefault(a, t, target)
       PROVE  IInv'
  BY <1>11, ClearDefaultStep
<1>12. ASSUME NEW a \in Admins, WriteDefault(a) \/ WriteFails(a) PROVE IInv'
  BY <1>12, WriteDefaultStep, WriteFailsStep
<1>13. ASSUME NEW t \in Tenants, CreateProvider(t) \/ UpdateProvider(t) PROVE IInv'
  BY <1>13, PlainWriteStep
<1>14. ASSUME NEW t \in Tenants, DeleteProvider(t) PROVE IInv'
  BY <1>14, DeleteStep
<1>15. CASE Tick \/ Restart
  BY <1>15, TickStep, RestartStep
<1>16. CASE UNCHANGED vars
  <2>1. TypeOK'
    BY <1>16 DEF IInv, TypeOK, vars
  <2>2. CacheOK' /\ UsageOwned' /\ SettledOK'
    BY <1>16 DEF IInv, CacheOK, UsageOwned, SettledOK, vars
  <2>3. ReqOK'
    BY <1>16 DEF IInv, ReqOK, Served, CreateOK, CallOK, ListOK, vars
  <2> QED
    BY <2>1, <2>2, <2>3 DEF IInv
<1> QED
  BY <1>1, <1>2, <1>3, <1>4, <1>5, <1>6, <1>7, <1>8, <1>9, <1>10, <1>11, <1>12, <1>13, <1>14, <1>15,
     <1>16 DEF Next

\* The inductive invariant: cache entries, rows being cached, calls and lists name
\* rows of their own tenant, and are no fresher than the row and its readers allow.
THEOREM RoutingInvariant == Spec => []IInv
  BY InitIInv, NextIInv, PTL DEF Spec

\* For any tenants, rows and requests, usage is logged under the caller's own rows.
THEOREM UsageIsOwned == Spec => []UsageOwned
<1>1. IInv => UsageOwned
  BY DEF IInv
<1> QED
  BY <1>1, RoutingInvariant, PTL

\* However long the factory keeps requests waiting, a deleted row is handed out for
\* at most one TTL after the last request that had read it has cached it.
THEOREM DeletedProvidersFade == Spec => []RouteFresh
<1>1. IInv => RouteFresh
  BY DEF IInv, ReqOK, Served, CallOK, RouteFresh
<1> QED
  BY <1>1, RoutingInvariant, PTL

\* The state of routing and administration keeps its types.
THEOREM TypeCorrect == Spec => []TypeOK
<1>1. IInv => TypeOK
  BY DEF IInv
<1> QED
  BY <1>1, RoutingInvariant, PTL
----------------------------------------------------------------------------
\* DefaultKept is inductive once the types are known and each step is seen to take
\* the default only from the tenant it works for.
DefaultsStay(t) ==
    \A i \in Ids : i \in dflt /\ i \in live /\ owner[i] = t => i \in dflt' /\ i \in live' /\ owner'[i] = t

LEMMA KeepDefault ==
    ASSUME TypeOK, NEW t, DefaultsStay(t), HasDefault(t)
    PROVE  HasDefault(t)'
  BY DEF TypeOK, DefaultsStay, HasDefault, RowsOf

LEMMA DefaultInit == Init => DefaultKept
  BY DEF Init, DefaultKept

\* Requests for providers, the clock and stuttering touch neither rows nor administrators.
LEMMA DefaultQuiet ==
    ASSUME DefaultKept, UNCHANGED <<owner, live, dflt, kept, admin>>
    PROVE  DefaultKept'
  BY DEF DefaultKept, HasDefault, Switching, RowsOf

LEMMA DefaultClear ==
    ASSUME IInv, DefaultKept, NEW a \in Admins, NEW t \in Tenants, NEW target \in Slots,
           ClearDefault(a, t, target)
    PROVE  DefaultKept'
<1> SUFFICES ASSUME NEW u \in kept PROVE HasDefault(u)' \/ Switching(u)'
  BY DEF DefaultKept, ClearDefault
<1>1. /\ admin' = [admin EXCEPT ![a] = [pc |-> "write", tenant |-> t, target |-> target]]
      /\ admin[a].pc = "idle" /\ dflt' \in {dflt, dflt \ RowsOf(t)}
      /\ owner' = owner /\ live' = live
  BY DEF ClearDefault
<1>2. admin'[a].pc = "write" /\ admin'[a].tenant = t /\ \A b \in Admins \ {a} : admin'[b] = admin[b]
  BY <1>1 DEF IInv, TypeOK
<1>3. CASE u = t
  BY <1>2, <1>3 DEF Switching
<1>4. CASE u # t /\ Switching(u)
  <2>1. PICK b \in Admins : admin[b].pc = "write" /\ admin[b].tenant = u
    BY <1>4 DEF Switching
  <2>2. b # a
    BY <1>1, <2>1
  <2> QED
    BY <1>2, <2>1, <2>2 DEF Switching
<1>5. CASE u # t /\ HasDefault(u)
  <2>1. DefaultsStay(u)
    BY <1>1, <1>5 DEF DefaultsStay, RowsOf
  <2> QED
    BY <1>5, <2>1, KeepDefault DEF IInv
<1> QED
  BY <1>3, <1>4, <1>5 DEF DefaultKept

\* A row that is inserted or updated keeps the defaults there are.
LEMMA WriteKeepsDefaults ==
    ASSUME IInv, NEW t \in Tenants, NEW i \in Ids, NEW k \in Keys, NEW on \in BOOLEAN,
           InsertRow(t, i, k, on) \/ UpdateRow(t, i, k, on), gone' = gone, settled' = settled, NEW u \in Tenants,
           \A j \in dflt : owner[j] = u => j \in dflt'
    PROVE  DefaultsStay(u)
<1>1. live \subseteq live' /\ RowsKept
  BY WriteRow
<1> QED
  BY <1>1 DEF DefaultsStay, RowsKept

LEMMA DefaultWrite ==
    ASSUME IInv, DefaultKept, NEW a \in Admins, WriteDefault(a)
    PROVE  DefaultKept'
<1> SUFFICES ASSUME NEW u \in kept' PROVE HasDefault(u)' \/ Switching(u)'
  BY DEF DefaultKept
<1> DEFINE t == admin[a].tenant
<1>1. t \in Tenants /\ admin[a].pc = "write"
  BY AdminFields DEF WriteDefault
<1>2. PICK i \in Ids, k \in Keys, on \in BOOLEAN :
          /\ InsertRow(t, i, k, on) \/ UpdateRow(t, i, k, on)
          /\ dflt' = dflt \cup {i}
  BY DEF WriteDefault
<1>3. kept' = kept \cup {t} /\ admin' = [admin EXCEPT ![a] = NoOp]
      /\ gone' = gone /\ settled' = settled
  BY DEF WriteDefault
<1>4. CASE u = t
  <2>1. i \in live' /\ owner'[i] = t
    BY <1>2 DEF InsertRow, UpdateRow, RowsOf, IInv, TypeOK
  <2> QED
    BY <1>2, <1>4, <2>1 DEF HasDefault, RowsOf
<1>5. CASE u # t
  <2>1. u \in Tenants /\ u \in kept
    BY <1>3, <1>5 DEF IInv, TypeOK
  <2>2. CASE HasDefault(u)
    <3>1. DefaultsStay(u)
      BY <1>1, <1>2, <1>3, <2>1, WriteKeepsDefaults
    <3> QED
      BY <2>2, <3>1, KeepDefault DEF IInv
  <2>3. CASE Switching(u)
    <3>1. PICK b \in Admins : admin[b].pc = "write" /\ admin[b].tenant = u
      BY <2>3 DEF Switching
    <3>2. b # a /\ admin'[b] = admin[b]
      BY <1>3, <1>5, <3>1 DEF IInv, TypeOK
    <3> QED
      BY <3>1, <3>2 DEF Switching
  <2> QED
    BY <2>1, <2>2, <2>3 DEF DefaultKept
<1> QED
  BY <1>4, <1>5

LEMMA DefaultWriteFails ==
    ASSUME IInv, DefaultKept, NEW a \in Admins, WriteFails(a)
    PROVE  DefaultKept'
<1> SUFFICES ASSUME NEW u \in kept' PROVE HasDefault(u)' \/ Switching(u)'
  BY DEF DefaultKept
<1>1. /\ u \in kept /\ (HasDefault(admin[a].tenant) \/ u # admin[a].tenant)
      /\ admin' = [admin EXCEPT ![a] = NoOp] /\ dflt' = dflt /\ live' = live /\ owner' = owner
  BY DEF WriteFails
<1>2. CASE HasDefault(u)
  BY <1>1, <1>2 DEF HasDefault, RowsOf
<1>3. CASE ~HasDefault(u)
  <2>1. PICK b \in Admins : admin[b].pc = "write" /\ admin[b].tenant = u
    BY <1>1, <1>3 DEF DefaultKept, Switching
  <2>2. b # a /\ admin'[b] = admin[b]
    BY <1>1, <1>3, <2>1 DEF IInv, TypeOK
  <2> QED
    BY <2>1, <2>2 DEF Switching
<1> QED
  BY <1>2, <1>3

\* CreateProvider, UpdateProvider and DeleteProvider: kept shrinks with the default.
LEMMA DefaultPlain ==
    ASSUME IInv, DefaultKept, NEW t \in Tenants,
           CreateProvider(t) \/ UpdateProvider(t) \/ DeleteProvider(t)
    PROVE  DefaultKept'
<1> SUFFICES ASSUME NEW u \in kept' PROVE HasDefault(u)' \/ Switching(u)'
  BY DEF DefaultKept
<1>1. admin' = admin /\ u \in kept /\ u \in Tenants
  BY DEF CreateProvider, UpdateProvider, DeleteProvider, IInv, TypeOK
<1>2. DefaultsStay(u)
  <2>1. CASE CreateProvider(t)
    <3>1. PICK i \in Ids, k \in Keys, on \in BOOLEAN : InsertRow(t, i, k, on)
      BY <2>1 DEF CreateProvider
    <3>2. dflt' = dflt /\ gone' = gone /\ settled' = settled
      BY <2>1 DEF CreateProvider
    <3> QED
      BY <1>1, <3>1, <3>2, WriteKeepsDefaults
  <2>2. CASE UpdateProvider(t)
    <3>1. PICK i \in Ids, k \in Keys, on \in BOOLEAN :
              /\ UpdateRow(t, i, k, on)
              /\ \/ UNCHANGED <<dflt, kept>>
                 \/ dflt' = dflt \ {i} /\ kept' = IF i \in dflt THEN kept \ {t} ELSE kept
      BY <2>2 DEF UpdateProvider
    <3>2. gone' = gone /\ settled' = settled /\ owner[i] = t
      BY <2>2, <3>1 DEF UpdateProvider, UpdateRow, RowsOf
    <3>3. \A j \in dflt : owner[j] = u => j \in dflt'
      BY <3>1, <3>2
    <3> QED
      BY <1>1, <3>1, <3>2, <3>3, WriteKeepsDefaults
  <2>3. CASE DeleteProvider(t)
    <3>1. PICK i \in RowsOf(t) :
              /\ live' = live \ {i} /\ dflt' = dflt \ {i}
              /\ kept' = IF i \in dflt THEN kept \ {t} ELSE kept
      BY <2>3 DEF DeleteProvider
    <3>2. owner' = owner /\ owner[i] = t
      BY <2>3 DEF DeleteProvider, RowsOf
    <3> QED
      BY <3>1, <3>2 DEF DefaultsStay
  <2> QED
    BY <2>1, <2>2, <2>3
<1>3. CASE HasDefault(u)
  BY <1>2, <1>3, KeepDefault DEF IInv
<1>4. CASE Switching(u)
  BY <1>1, <1>4 DEF Switching
<1> QED
  BY <1>1, <1>3, <1>4 DEF DefaultKept

LEMMA DefaultRestart ==
    ASSUME DefaultKept, Restart
    PROVE  DefaultKept'
<1>1. kept' = {t \in kept : HasDefault(t) \/ ~Switching(t)} /\ UNCHANGED <<dflt, live, owner>>
  BY DEF Restart
<1>2. \A t \in kept' : HasDefault(t)
  BY <1>1 DEF DefaultKept
<1> QED
  BY <1>1, <1>2 DEF DefaultKept, HasDefault, RowsOf

LEMMA DefaultNext == IInv /\ DefaultKept /\ [Next]_vars => DefaultKept'
<1> SUFFICES ASSUME IInv, DefaultKept, [Next]_vars PROVE DefaultKept'
  OBVIOUS
<1>1. CASE UNCHANGED <<owner, live, dflt, kept, admin>>
  BY <1>1, DefaultQuiet
<1>2. ASSUME NEW a \in Admins, NEW t \in Tenants, NEW target \in Slots, ClearDefault(a, t, target)
      PROVE  DefaultKept'
  BY <1>2, DefaultClear
<1>3. ASSUME NEW a \in Admins, WriteDefault(a) \/ WriteFails(a) PROVE DefaultKept'
  BY <1>3, DefaultWrite, DefaultWriteFails
<1>4. ASSUME NEW t \in Tenants, CreateProvider(t) \/ UpdateProvider(t) \/ DeleteProvider(t)
      PROVE  DefaultKept'
  BY <1>4, DefaultPlain
<1>5. CASE Restart
  BY <1>5, DefaultRestart
<1>6. ASSUME NEW r \in Requests, NEW t \in Tenants,
             StartFallback(r, t) \/ \E slot \in Slots : StartRequest(r, t, slot)
      PROVE  DefaultKept'
  BY <1>1, <1>6 DEF StartFallback, StartRequest, rowVars
<1>7. ASSUME NEW r \in Requests,
             \/ CacheHit(r) \/ CacheMiss(r) \/ LoadById(r) \/ LoadDefault(r) \/ NoDefault(r)
             \/ LoadFirst(r) \/ LoadFails(r) \/ FindInstance(r) \/ MakeInstance(r) \/ InstanceMade(r)
             \/ SetCache(r) \/ CallEnds(r) \/ Try(r) \/ BuildInstance(r) \/ InstanceBuilt(r)
             \/ AttemptSucceeds(r) \/ AttemptFails(r) \/ FallbackAnalysis(r)
      PROVE  DefaultKept'
  BY <1>1, <1>7 DEF CacheHit, CacheMiss, LoadById, LoadDefault, NoDefault, LoadFirst, LoadFails,
     FindInstance, MakeInstance, InstanceMade, SetCache, CallEnds, Try, BuildInstance, InstanceBuilt, AttemptSucceeds, AttemptFails, FallbackAnalysis, Loaded, rowVars
<1>8. CASE Tick
  BY <1>1, <1>8 DEF Tick
<1>9. CASE UNCHANGED vars
  BY <1>1, <1>9 DEF vars, rowVars
<1> QED
  BY <1>2, <1>3, <1>4, <1>5, <1>6, <1>7, <1>8, <1>9 DEF Next

\* However many administrators switch the default at once, a tenant that was given
\* a default loses it only to a deletion, to is_default = false or to a switch that
\* stopped after its first statement.
THEOREM DefaultsAreKept == Spec => []DefaultKept
  BY DefaultInit, DefaultNext, RoutingInvariant, PTL DEF Spec
=============================================================================
