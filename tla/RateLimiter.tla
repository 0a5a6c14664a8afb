---------------------------- MODULE RateLimiter ----------------------------
(***************************************************************************)
(* The fixed-window limiter of backend/internal/middleware/middleware.go.  *)
(* A key (a signed-in user or a client address) has an entry: the number   *)
(* of requests counted since the entry was made and the instant after      *)
(* which it is replaced.  Allow runs under the limiter's mutex, so one     *)
(* call is one step.                                                       *)
(***************************************************************************)
EXTENDS Integers

CONSTANTS Keys,     \* the strings router.go passes to Allow
          Limit,    \* NewRateLimiter's limit (60 in cmd/server/main.go)
          Window,   \* NewRateLimiter's window (one minute), in clock ticks
          MaxTime,  \* bound: the last instant of the model's clock
          NoKey

ASSUME LimitAssumption  == Limit \in Nat \ {0}
ASSUME WindowAssumption == Window \in Nat \ {0}
ASSUME TimeAssumption   == MaxTime \in Nat /\ MaxTime > Window
ASSUME KeyAssumption    == NoKey \notin Keys

VARIABLES now,      \* time.Now(), in ticks
          items,    \* rl.items; an entry with count 0 is a key not in the map
          verdict,  \* whether the latest call refused, and whom
          cum       \* history: cum[k][t] is the number of requests of k
                    \* admitted at or before instant t

limiterVars == <<now, items, verdict, cum>>

Times == 0 .. MaxTime
Entry == [count : 0 .. Limit, reset : Nat]

\* Instants below Window + 1 are never used, so that every look-back of one
\* or two windows stays inside the domain of cum.
LimiterInit ==
    /\ now = Window + 1
    /\ items = [k \in Keys |-> [count |-> 0, reset |-> 0]]
    /\ verdict = [key |-> NoKey, answer |-> "allow"]
    /\ cum = [k \in Keys |-> [t \in Times |-> 0]]

\* Mutant: the operands of After are swapped.
ExpiredSwapped(k) == items[k].count = 0 \/ now < items[k].reset

\* "!ok || now.After(entry.reset)": the entry is missing or its window is over.
Expired(k) == items[k].count = 0 \/ now > items[k].reset
----------------------------------------------------------------------------
Admit(k) ==
    /\ cum' = [cum EXCEPT ![k] = [t \in Times |-> IF t >= now THEN @[t] + 1 ELSE @[t]]]
    /\ verdict' = [key |-> NoKey, answer |-> "allow"]
    /\ UNCHANGED now

AllowFirst(k) ==
    /\ Expired(k)
    /\ items' = [items EXCEPT ![k] = [count |-> 1, reset |-> now + Window]]
    /\ Admit(k)

\* Mutant: the comparison admits one request too many.
AllowCountedOffByOne(k) ==
    /\ ~Expired(k)
    /\ items[k].count <= Limit
    /\ items' = [items EXCEPT ![k].count = @ + 1]
    /\ Admit(k)

AllowCounted(k) ==
    /\ ~Expired(k)
    /\ items[k].count < Limit
    /\ items' = [items EXCEPT ![k].count = @ + 1]
    /\ Admit(k)

\* Mutant: an expired entry is still held against its key.
DenyStale(k) ==
    /\ items[k].count >= Limit
    /\ verdict' = [key |-> k, answer |-> "deny"]
    /\ UNCHANGED <<now, items, cum>>

Deny(k) ==
    /\ ~Expired(k)
    /\ items[k].count >= Limit
    /\ verdict' = [key |-> k, answer |-> "deny"]
    /\ UNCHANGED <<now, items, cum>>

Tick ==
    /\ now < MaxTime
    /\ now' = now + 1
    /\ verdict' = [key |-> NoKey, answer |-> "allow"]
    /\ UNCHANGED <<items, cum>>

LimiterNext == Tick \/ \E k \in Keys : AllowFirst(k) \/ AllowCounted(k) \/ Deny(k)

LimiterSpec == LimiterInit /\ [][LimiterNext]_limiterVars
----------------------------------------------------------------------------
\* The number of requests of k admitted at the instants a .. b (a >= 1).
Admitted(k, a, b) == cum[k][b] - cum[k][a - 1]

\* The clock, the entries and the history have their types; an entry's count
\* never passes Limit.
LimiterTypeOK ==
    /\ now \in Times /\ now > Window
    /\ items \in [Keys -> Entry]
    /\ verdict \in [key : Keys \cup {NoKey}, answer : {"allow", "deny"}]
    /\ cum \in [Keys -> [Times -> Nat]]

\* What the fixed window of Allow really guarantees: within any Window + 1
\* consecutive instants at most twice Limit requests of one key are admitted,
\* wherever those instants fall relative to the entries' windows.
TwiceLimit ==
    \A k \in Keys : \A t \in 1 .. now :
        Admitted(k, t, IF t + Window < now THEN t + Window ELSE now) <= 2 * Limit

\* Allow refuses a key only after it admitted Limit requests of that key within
\* the last window: nobody is locked out by an entry whose window is over or by
\* another key's requests.
DenyJustified ==
    verdict.answer = "deny" => Admitted(verdict.key, now - Window, now) >= Limit
============================================================================
