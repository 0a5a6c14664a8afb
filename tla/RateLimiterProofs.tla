------------------------- MODULE RateLimiterProofs -------------------------
(***************************************************************************)
(* What Allow guarantees, for every set of keys, limit and window.  The    *)
(* inductive invariant ties an entry to the admission history of its key;  *)
(* the arithmetic is done on one history h (= cum[k]), one count c and one *)
(* reset r at an instant n, and lifted to the state at the end.            *)
(***************************************************************************)
EXTENDS RateLimiter, TLAPS

History == [Times -> Nat]

\* h never decreases and is constant from instant n on.
Cumulative(h, n) ==
    /\ \A s, t \in Times : s <= t => h[s] <= h[t]
    /\ \A t \in Times : t >= n => h[t] = h[n]

\* An entry with count c and reset r, at instant n.  A missing entry (c = 0)
\* means nothing was ever admitted.  Otherwise the entry was made at r - Window
\* in the past, counts exactly what was admitted since, and everything admitted
\* in the Window instants before it fits into Limit; nothing is admitted later
\* than r.
Exact(h, c, r, n) ==
    IF c = 0
    THEN \A t \in Times : h[t] = 0
    ELSE /\ r - Window > Window /\ r - Window <= n
         /\ h[n] - h[r - Window - 1] = c
         /\ h[r - Window - 1] - h[r - Window - Window - 1] <= Limit
         /\ \A t \in Times : t >= r => h[t] = h[n]

\* The history after one more admission at instant n.
Bump(h, n) == [t \in Times |-> IF t >= n THEN h[t] + 1 ELSE h[t]]

\* TwiceLimit for one history.
Twice(h, n) ==
    \A t \in 1 .. n : h[IF t + Window < n THEN t + Window ELSE n] - h[t - 1] <= 2 * Limit

KeyInv(k) ==
    /\ Cumulative(cum[k], now)
    /\ Exact(cum[k], items[k].count, items[k].reset, now)
    /\ Twice(cum[k], now)

IInv == LimiterTypeOK /\ (\A k \in Keys : KeyInv(k)) /\ DenyJustified

USE LimitAssumption, WindowAssumption, TimeAssumption
----------------------------------------------------------------------------
\* One admission keeps a history cumulative.
LEMMA BumpCumulative ==
    ASSUME NEW h \in History, NEW n \in Times, Cumulative(h, n)
    PROVE  Bump(h, n) \in History /\ Cumulative(Bump(h, n), n)
<1>1. Bump(h, n) \in History
  BY DEF Bump, History, Times
<1>2. \A t \in Times : Bump(h, n)[t] = IF t >= n THEN h[t] + 1 ELSE h[t]
  BY DEF Bump
<1>3. ASSUME NEW s \in Times, NEW t \in Times, s <= t PROVE Bump(h, n)[s] <= Bump(h, n)[t]
  <2>1. h[s] <= h[t] /\ h[s] \in Nat /\ h[t] \in Nat
    BY <1>3 DEF Cumulative, History
  <2> QED BY <1>2, <1>3, <2>1 DEF Times
<1>4. ASSUME NEW t \in Times, t >= n PROVE Bump(h, n)[t] = Bump(h, n)[n]
  BY <1>2, <1>4 DEF Cumulative, Times
<1> QED BY <1>1, <1>3, <1>4 DEF Cumulative

\* The entry Allow makes when the old one is missing or expired is exact.
LEMMA FirstExact ==
    ASSUME NEW h \in History, NEW n \in Times, Cumulative(h, n), n > Window,
           NEW c \in 0 .. Limit, NEW r \in Nat, Exact(h, c, r, n), c = 0 \/ n > r
    PROVE  Exact(Bump(h, n), 1, n + Window, n)
<1> DEFINE g == Bump(h, n)
<1>1. /\ n - 1 \in Times /\ n - Window - 1 \in Times
      /\ n - 1 < n /\ n - Window - 1 < n
  BY DEF Times
<1>2. /\ g[n] = h[n] + 1 /\ g[n - 1] = h[n - 1]
      /\ g[n - Window - 1] = h[n - Window - 1]
  BY <1>1 DEF Bump, Times
<1>3. h[n] \in Nat /\ h[n - 1] \in Nat /\ h[n - Window - 1] \in Nat
  BY <1>1 DEF History
<1>4. h[n - 1] = h[n] /\ h[n - 1] - h[n - Window - 1] <= Limit
  <2>1. CASE c = 0
    BY <1>1, <2>1 DEF Exact
  <2>2. CASE c # 0
    <3>1. n - 1 >= r /\ h[n - 1] = h[n]
      BY <1>1, <2>2 DEF Exact, Times
    <3>2. r - Window - 1 \in Times /\ r - Window - 1 <= n - Window - 1
      BY <2>2 DEF Exact, Times
    <3>3. h[r - Window - 1] <= h[n - Window - 1] /\ h[r - Window - 1] \in Nat
      BY <1>1, <3>2 DEF Cumulative, History
    <3>4. h[n] - h[r - Window - 1] = c
      BY <2>2 DEF Exact
    <3> QED BY <1>3, <3>1, <3>3, <3>4
  <2> QED BY <2>1, <2>2
<1>5. \A t \in Times : t >= n + Window => g[t] = g[n]
  BY BumpCumulative DEF Cumulative, Times
<1> HIDE DEF g
<1>6. Exact(g, 1, n + Window, n)
  <2>1. (n + Window) - Window = n /\ n + Window - Window - 1 = n - 1
        /\ n + Window - Window - Window - 1 = n - Window - 1
    BY DEF Times
  <2> QED BY <1>2, <1>3, <1>4, <1>5, <2>1 DEF Exact, Times
<1> QED BY <1>6 DEF g

\* Counting one more request in a live entry keeps the entry exact.
LEMMA CountedExact ==
    ASSUME NEW h \in History, NEW n \in Times, Cumulative(h, n),
           NEW c \in 1 .. Limit, NEW r \in Nat, Exact(h, c, r, n), n <= r
    PROVE  Exact(Bump(h, n), c + 1, r, n)
<1> DEFINE g == Bump(h, n)
           s == r - Window - 1
<1>1. s \in Times /\ s < n /\ s - Window \in Times /\ s - Window < n
  BY DEF Exact, Times
<1>2. g[n] = h[n] + 1 /\ g[s] = h[s] /\ g[s - Window] = h[s - Window]
  BY <1>1 DEF Bump, Times
<1>3. h[n] \in Nat /\ h[s] \in Nat /\ h[s - Window] \in Nat
  BY <1>1 DEF History
<1>4. /\ h[n] - h[s] = c /\ h[s] - h[s - Window] <= Limit
      /\ r - Window > Window /\ r - Window <= n
      /\ s - Window = r - Window - Window - 1
  BY DEF Exact, Times
<1>5. \A t \in Times : t >= r => g[t] = g[n]
  BY BumpCumulative DEF Cumulative, Times
<1> HIDE DEF g
<1>6. g[n] - g[s] = c + 1 /\ g[s] - g[s - Window] <= Limit
  BY <1>2, <1>3, <1>4
<1>7. Exact(g, c + 1, r, n)
  BY <1>4, <1>5, <1>6 DEF Exact
<1> QED BY <1>7 DEF g

\* The passage of time keeps histories and entries as they are.
LEMMA TickExact ==
    ASSUME NEW h \in History, NEW n \in Times, n + 1 \in Times, Cumulative(h, n),
           NEW c \in 0 .. Limit, NEW r \in Nat, Exact(h, c, r, n)
    PROVE  Cumulative(h, n + 1) /\ Exact(h, c, r, n + 1)
<1>1. h[n + 1] = h[n]
  BY DEF Cumulative, Times
<1>2. Cumulative(h, n + 1)
  BY <1>1 DEF Cumulative, Times
<1>3. Exact(h, c, r, n + 1)
  BY <1>1 DEF Exact, Times
<1> QED BY <1>2, <1>3

\* The bound of TwiceLimit, on one history.
LEMMA TwiceExact ==
    ASSUME NEW h \in History, NEW n \in Times, Cumulative(h, n), n > Window,
           NEW c \in 0 .. Limit, NEW r \in Nat, Exact(h, c, r, n),
           NEW t \in 1 .. n, t + Window >= n
    PROVE  h[n] - h[t - 1] <= 2 * Limit
<1>1. t - 1 \in Times /\ h[n] \in Nat /\ h[t - 1] \in Nat
  BY DEF Times, History
<1>2. CASE c = 0
  BY <1>1, <1>2 DEF Exact
<1>3. CASE c # 0
  <2> DEFINE s == r - Window - 1
  <2>1. s \in Times /\ s - Window \in Times /\ h[s] \in Nat /\ h[s - Window] \in Nat
    BY <1>3 DEF Exact, Times, History
  <2>2. h[n] - h[s] <= Limit /\ h[s] - h[s - Window] <= Limit
    BY <1>3, <2>1 DEF Exact, Times
  <2>3. s - Window <= t - 1
    BY <1>3, <2>1 DEF Exact, Times
  <2>4. h[s - Window] <= h[t - 1]
    BY <1>1, <2>1, <2>3 DEF Cumulative
  <2> QED BY <1>1, <2>1, <2>2, <2>4
<1> QED BY <1>2, <1>3

\* An admission at instant n leaves the earlier intervals alone.
LEMMA TwiceBump ==
    ASSUME NEW h \in History, NEW n \in Times, Cumulative(h, n), n > Window, Twice(h, n),
           NEW c \in 0 .. Limit, NEW r \in Nat, Exact(Bump(h, n), c, r, n)
    PROVE  Twice(Bump(h, n), n)
<1> DEFINE g == Bump(h, n)
<1>1. g \in History /\ Cumulative(g, n)
  BY BumpCumulative
<1>2. \A t \in Times : t < n => g[t] = h[t]
  BY DEF Bump, Times
<1> HIDE DEF g
<1>3. Exact(g, c, r, n)
  BY DEF g
<1> SUFFICES ASSUME NEW t \in 1 .. n
             PROVE  g[IF t + Window < n THEN t + Window ELSE n] - g[t - 1] <= 2 * Limit
  BY DEF Twice, g
<1>4. CASE t + Window < n
  <2>1. t + Window \in Times /\ t - 1 \in Times /\ t - 1 < n
    BY <1>4 DEF Times
  <2>2. h[t + Window] - h[t - 1] <= 2 * Limit
    BY <1>4 DEF Twice
  <2> QED BY <1>2, <1>4, <2>1, <2>2
<1>5. CASE ~(t + Window < n)
  <2>1. t + Window >= n
    BY <1>5 DEF Times
  <2>2. g[n] - g[t - 1] <= 2 * Limit
    BY <1>1, <1>3, <2>1, TwiceExact
  <2> QED BY <1>5, <2>2
<1> QED BY <1>4, <1>5

LEMMA TwiceTick ==
    ASSUME NEW h \in History, NEW n \in Times, n + 1 \in Times, n > Window,
           Cumulative(h, n), Twice(h, n),
           NEW c \in 0 .. Limit, NEW r \in Nat, Exact(h, c, r, n)
    PROVE  Twice(h, n + 1)
<1>1. Cumulative(h, n + 1) /\ Exact(h, c, r, n + 1)
  BY TickExact
<1> SUFFICES ASSUME NEW t \in 1 .. n + 1
             PROVE  h[IF t + Window < n + 1 THEN t + Window ELSE n + 1] - h[t - 1] <= 2 * Limit
  BY DEF Twice
<1>2. CASE t + Window < n + 1
  <2>1. t \in 1 .. n /\ (IF t + Window < n THEN t + Window ELSE n) = t + Window
    BY <1>2 DEF Times
  <2> QED BY <1>2, <2>1 DEF Twice
<1>3. CASE ~(t + Window < n + 1)
  <2>1. t + Window >= n + 1 /\ n + 1 > Window
    BY <1>3 DEF Times
  <2>2. h[n + 1] - h[t - 1] <= 2 * Limit
    BY <1>1, <2>1, TwiceExact
  <2> QED BY <1>3, <2>2
<1> QED BY <1>2, <1>3

\* A full, live entry justifies a refusal.
LEMMA FullEntry ==
    ASSUME NEW h \in History, NEW n \in Times, Cumulative(h, n), n > Window,
           NEW c \in 1 .. Limit, NEW r \in Nat, Exact(h, c, r, n), n <= r, c >= Limit
    PROVE  h[n] - h[n - Window - 1] >= Limit
<1> DEFINE s == r - Window - 1
<1>1. s \in Times /\ n - Window - 1 \in Times /\ n - Window - 1 <= s
  BY DEF Exact, Times
<1>2. h[n - Window - 1] <= h[s] /\ h[s] \in Nat /\ h[n - Window - 1] \in Nat /\ h[n] \in Nat
  BY <1>1 DEF Cumulative, History
<1>3. h[n] - h[s] = c
  BY DEF Exact
<1> QED BY <1>2, <1>3
----------------------------------------------------------------------------
LEMMA InitIInv == LimiterInit => IInv
<1> SUFFICES ASSUME LimiterInit PROVE IInv
  OBVIOUS
<1>1. LimiterTypeOK
  BY DEF LimiterInit, LimiterTypeOK, Times, Entry
<1>2. ASSUME NEW k \in Keys PROVE KeyInv(k)
  BY DEF LimiterInit, KeyInv, Cumulative, Exact, Twice, Times
<1> QED BY <1>1, <1>2 DEF IInv, LimiterInit, DenyJustified

\* What the step of one key leaves alone.
LEMMA OtherKeys ==
    ASSUME IInv, NEW k \in Keys, NEW j \in Keys, j # k, now' = now,
           cum'[j] = cum[j], items'[j] = items[j]
    PROVE  KeyInv(j)'
  BY DEF IInv, KeyInv

LEMMA AdmitHistory ==
    ASSUME LimiterTypeOK, NEW k \in Keys, Admit(k)
    PROVE  /\ cum' = [cum EXCEPT ![k] = Bump(cum[k], now)]
           /\ cum[k] \in History
           /\ now' = now /\ now \in Times
           /\ verdict' = [key |-> NoKey, answer |-> "allow"]
  BY DEF Admit, LimiterTypeOK, Bump, History

LEMMA AllowFirstIInv ==
    ASSUME IInv, NEW k \in Keys, AllowFirst(k) PROVE IInv'
<1> DEFINE g == Bump(cum[k], now)
<1>1. /\ cum' = [cum EXCEPT ![k] = g]
      /\ items' = [items EXCEPT ![k] = [count |-> 1, reset |-> now + Window]]
      /\ cum[k] \in History /\ now' = now /\ now \in Times /\ now > Window
      /\ verdict' = [key |-> NoKey, answer |-> "allow"]
  BY AdmitHistory DEF AllowFirst, IInv, LimiterTypeOK
<1>2. items[k].count \in 0 .. Limit /\ items[k].reset \in Nat
  BY DEF IInv, LimiterTypeOK, Entry
<1>3. g \in History /\ Cumulative(g, now)
  BY <1>1, BumpCumulative DEF IInv, KeyInv
<1>4. Exact(g, 1, now + Window, now)
  BY <1>1, <1>2, FirstExact DEF IInv, KeyInv, AllowFirst, Expired
<1>5. Twice(g, now)
  BY <1>1, <1>4, TwiceBump DEF IInv, KeyInv, Times
<1> HIDE DEF g
<1>6. /\ cum'[k] = g /\ items'[k].count = 1 /\ items'[k].reset = now + Window
      /\ \A j \in Keys \ {k} : cum'[j] = cum[j] /\ items'[j] = items[j]
  BY <1>1 DEF IInv, LimiterTypeOK
<1>7. LimiterTypeOK'
  <2>1. [count |-> 1, reset |-> now + Window] \in Entry
    BY <1>1 DEF Entry, Times
  <2>2. items' \in [Keys -> Entry]
    BY <1>1, <2>1 DEF IInv, LimiterTypeOK
  <2>3. cum' \in [Keys -> [Times -> Nat]]
    BY <1>1, <1>3 DEF IInv, LimiterTypeOK, History
  <2> QED BY <1>1, <2>2, <2>3 DEF LimiterTypeOK
<1>8. ASSUME NEW j \in Keys PROVE KeyInv(j)'
  <2>1. CASE j = k
    BY <1>1, <1>3, <1>4, <1>5, <1>6, <2>1 DEF KeyInv
  <2>2. CASE j # k
    BY <1>1, <1>6, <2>2, OtherKeys
  <2> QED BY <2>1, <2>2
<1> QED BY <1>1, <1>7, <1>8 DEF IInv, DenyJustified

LEMMA AllowCountedIInv ==
    ASSUME IInv, NEW k \in Keys, AllowCounted(k) PROVE IInv'
<1> DEFINE g == Bump(cum[k], now)
           c == items[k].count
           r == items[k].reset
<1>1. /\ cum' = [cum EXCEPT ![k] = g]
      /\ items' = [items EXCEPT ![k].count = c + 1]
      /\ cum[k] \in History /\ now' = now /\ now \in Times /\ now > Window
      /\ verdict' = [key |-> NoKey, answer |-> "allow"]
  BY AdmitHistory DEF AllowCounted, IInv, LimiterTypeOK
<1>2. c \in 1 .. Limit /\ c + 1 \in 1 .. Limit /\ r \in Nat /\ now <= r
  BY DEF IInv, LimiterTypeOK, Entry, AllowCounted, Expired, Times
<1>3. g \in History /\ Cumulative(g, now)
  BY <1>1, BumpCumulative DEF IInv, KeyInv
<1>4. Exact(g, c + 1, r, now)
  BY <1>1, <1>2, CountedExact DEF IInv, KeyInv
<1>5. Twice(g, now)
  <2>1. c + 1 \in 0 .. Limit
    BY <1>2
  <2> QED BY <1>1, <1>2, <1>4, <2>1, TwiceBump DEF IInv, KeyInv
<1> HIDE DEF g
<1>6. /\ cum'[k] = g /\ items'[k].count = c + 1 /\ items'[k].reset = r
      /\ \A j \in Keys \ {k} : cum'[j] = cum[j] /\ items'[j] = items[j]
  BY <1>1 DEF IInv, LimiterTypeOK, Entry
<1>7. LimiterTypeOK'
  <2>1. items[k] \in Entry /\ c + 1 \in 0 .. Limit
    BY <1>2 DEF IInv, LimiterTypeOK
  <2>2. [items[k] EXCEPT !.count = c + 1] \in Entry
    BY <2>1 DEF Entry
  <2>3. items' \in [Keys -> Entry]
    BY <1>1, <2>2 DEF IInv, LimiterTypeOK
  <2>4. cum' \in [Keys -> [Times -> Nat]]
    BY <1>1, <1>3 DEF IInv, LimiterTypeOK, History
  <2> QED BY <1>1, <2>3, <2>4 DEF LimiterTypeOK
<1>8. ASSUME NEW j \in Keys PROVE KeyInv(j)'
  <2>1. CASE j = k
    BY <1>1, <1>3, <1>4, <1>5, <1>6, <2>1 DEF KeyInv
  <2>2. CASE j # k
    BY <1>1, <1>6, <2>2, OtherKeys
  <2> QED BY <2>1, <2>2
<1> QED BY <1>1, <1>7, <1>8 DEF IInv, DenyJustified

LEMMA DenyIInv ==
    ASSUME IInv, NEW k \in Keys, Deny(k) PROVE IInv'
<1>1. /\ UNCHANGED <<now, items, cum>>
      /\ verdict' = [key |-> k, answer |-> "deny"]
  BY DEF Deny
<1>2. LimiterTypeOK' /\ \A j \in Keys : KeyInv(j)'
  BY <1>1 DEF IInv, LimiterTypeOK, KeyInv
<1>3. cum[k][now] - cum[k][now - Window - 1] >= Limit
  <2>1. /\ cum[k] \in History /\ now \in Times /\ now > Window
        /\ items[k].count \in 1 .. Limit /\ items[k].reset \in Nat
        /\ now <= items[k].reset /\ items[k].count >= Limit
    BY DEF IInv, LimiterTypeOK, Entry, Deny, Expired, History, Times
  <2>2. Cumulative(cum[k], now) /\ Exact(cum[k], items[k].count, items[k].reset, now)
    BY DEF IInv, KeyInv
  <2> QED BY <2>1, <2>2, FullEntry
<1>4. DenyJustified'
  BY <1>1, <1>3 DEF DenyJustified, Admitted
<1> QED BY <1>2, <1>4 DEF IInv

LEMMA TickIInv ==
    ASSUME IInv, Tick PROVE IInv'
<1>1. /\ now' = now + 1 /\ now + 1 \in Times /\ now \in Times /\ now > Window
      /\ UNCHANGED <<items, cum>> /\ verdict' = [key |-> NoKey, answer |-> "allow"]
  BY DEF Tick, IInv, LimiterTypeOK, Times
<1>2. LimiterTypeOK'
  BY <1>1 DEF IInv, LimiterTypeOK, Times
<1>3. ASSUME NEW k \in Keys PROVE KeyInv(k)'
  <2>1. cum[k] \in History /\ items[k].count \in 0 .. Limit /\ items[k].reset \in Nat
    BY DEF IInv, LimiterTypeOK, Entry, History
  <2>2. KeyInv(k)
    BY DEF IInv
  <2>3. /\ Cumulative(cum[k], now + 1)
        /\ Exact(cum[k], items[k].count, items[k].reset, now + 1)
    BY <1>1, <2>1, <2>2, TickExact DEF KeyInv
  <2>4. Twice(cum[k], now + 1)
    BY <1>1, <2>1, <2>2, TwiceTick DEF KeyInv
  <2> QED BY <1>1, <2>3, <2>4 DEF KeyInv
<1> QED BY <1>1, <1>2, <1>3 DEF IInv, DenyJustified

\* In every reachable state the entry of every key is exact: its count is the
\* number of requests Allow admitted since it made the entry, at most Limit.
THEOREM EntriesExact == LimiterSpec => []IInv
<1>1. IInv /\ [LimiterNext]_limiterVars => IInv'
  <2> SUFFICES ASSUME IInv, [LimiterNext]_limiterVars PROVE IInv'
    OBVIOUS
  <2>1. CASE Tick
    BY <2>1, TickIInv
  <2>2. ASSUME NEW k \in Keys, AllowFirst(k) PROVE IInv'
    BY <2>2, AllowFirstIInv
  <2>3. ASSUME NEW k \in Keys, AllowCounted(k) PROVE IInv'
    BY <2>3, AllowCountedIInv
  <2>4. ASSUME NEW k \in Keys, Deny(k) PROVE IInv'
    BY <2>4, DenyIInv
  <2>5. CASE UNCHANGED limiterVars
    BY <2>5 DEF limiterVars, IInv, LimiterTypeOK, KeyInv, DenyJustified, Admitted
  <2> QED BY <2>1, <2>2, <2>3, <2>4, <2>5 DEF LimiterNext
<1> QED BY InitIInv, <1>1, PTL DEF LimiterSpec

\* Types and the bound of an entry's count.
THEOREM TypeCorrect == LimiterSpec => []LimiterTypeOK
<1>1. IInv => LimiterTypeOK
  BY DEF IInv
<1> QED BY EntriesExact, <1>1, PTL

\* Allow admits at most twice Limit requests of a key within any Window + 1
\* consecutive instants.
THEOREM AtMostTwiceLimit == LimiterSpec => []TwiceLimit
<1>1. IInv => TwiceLimit
  BY DEF IInv, KeyInv, Twice, TwiceLimit, Admitted
<1> QED BY EntriesExact, <1>1, PTL

\* Allow refuses a key only when Limit of its requests were admitted within
\* the last window.
THEOREM RefusalsJustified == LimiterSpec => []DenyJustified
<1>1. IInv => DenyJustified
  BY DEF IInv
<1> QED BY EntriesExact, <1>1, PTL

============================================================================
