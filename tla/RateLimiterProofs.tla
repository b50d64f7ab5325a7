------------------------- MODULE RateLimiterProofs --------------------------
(***************************************************************************)
(* Proofs about check_rate_limit, for every limit, window and life of an   *)
(* entry that outlives the window.                                         *)
(*                                                                         *)
(* The counts of one owner concern neither the other owners nor the state, *)
(* so the invariant is a predicate on numbers and one history, and what a  *)
(* registration and a new ledger do to it is proved first.                 *)
(***************************************************************************)
EXTENDS RateLimiter, StorageProofs

Ledgers == 0..(MaxLedger + 1)

\* The history g of one owner in ledger s: it grows with the ledgers, has nothing
\* beyond this one, and no stretch of a window's length holds twice the limit.
HistoryOK(g, s) ==
    /\ \A a, b \in Ledgers : a <= b => g[a] <= g[b]
    /\ \A a \in Ledgers : a > s => g[a] = g[s + 1]
    /\ \A a, b \in Ledgers :
          a <= b /\ b - a <= RATE_LIMIT_WINDOW => g[b] - g[a] < 2 * RATE_LIMIT_COUNT

\* A stored window with life left and history g: its count is exact and at least
\* one, the registration that opened it; nothing was let through after its end
\* or since the entry was last extended; and before it, as far back as a
\* stretch reaches, fewer registrations than the limit.
WindowOK(start, count, left, g, s) ==
    /\ start \in 0..s
    /\ count \in 1..RATE_LIMIT_COUNT
    /\ count = g[s + 1] - g[start]
    /\ g[start] < g[start + 1]
    /\ \A a \in Ledgers : a >= start + RATE_LIMIT_WINDOW => g[a] = g[s + 1]
    /\ \A a \in Ledgers : a + DEFAULT_TTL > s + left => g[a] = g[s + 1]
    /\ \A a \in Ledgers : a <= start /\ start < a + RATE_LIMIT_WINDOW
                             => g[start] - g[a] < RATE_LIMIT_COUNT

\* An owner without a stored window has had nothing let through for the length
\* of one.
QuietOK(g, s) ==
    \A a \in Ledgers : a + RATE_LIMIT_WINDOW > s => g[a] = g[s + 1]
-----------------------------------------------------------------------------
(* One owner's numbers.                                                    *)

\* The constants are numbers, and a window's entry outlives the window.
LEMMA Numbers ==
    /\ RATE_LIMIT_COUNT \in Nat /\ RATE_LIMIT_COUNT > 0
    /\ RATE_LIMIT_WINDOW \in Nat /\ RATE_LIMIT_WINDOW > 0
    /\ DEFAULT_TTL \in Nat /\ MaxLedger \in Nat
    /\ RATE_LIMIT_WINDOW <= DEFAULT_TTL
  BY RateLimitAssumption

\* The history g with one more registration in ledger s.
Counted(g, s) == [l \in Ledgers |-> IF l > s THEN g[l] + 1 ELSE g[l]]

\* One more registration, where few were let through as far back as a stretch
\* that ends now reaches, takes no stretch to twice the limit.
LEMMA CountedHistory ==
    ASSUME NEW s \in 0..MaxLedger, NEW g \in [Ledgers -> Nat], HistoryOK(g, s),
           \A a \in Ledgers : a <= s /\ s < a + RATE_LIMIT_WINDOW
                                 => g[s + 1] - g[a] < 2 * RATE_LIMIT_COUNT - 1
    PROVE  HistoryOK(Counted(g, s), s) /\ Counted(g, s) \in [Ledgers -> Nat]
<1> DEFINE h == Counted(g, s)
<1>1. /\ \A l \in Ledgers : l \in Int /\ g[l] \in Nat
      /\ s \in Int /\ s + 1 \in Ledgers
      /\ RATE_LIMIT_COUNT \in Nat /\ RATE_LIMIT_COUNT > 0 /\ RATE_LIMIT_WINDOW \in Nat
  BY Numbers DEF Ledgers
<1>2. \A l \in Ledgers : h[l] = IF l > s THEN g[l] + 1 ELSE g[l]
  BY DEF Counted
<1>3. h \in [Ledgers -> Nat]
  BY <1>1 DEF Counted
<1> HIDE DEF h
<1>4. ASSUME NEW a \in Ledgers, NEW b \in Ledgers, a <= b
      PROVE  h[a] <= h[b]
  <2>1. g[a] <= g[b]
    BY <1>4 DEF HistoryOK
  <2>2. QED
    BY <1>1, <1>2, <1>4, <2>1
<1>5. ASSUME NEW a \in Ledgers, a > s
      PROVE  h[a] = h[s + 1]
  <2>1. g[a] = g[s + 1]
    BY <1>5 DEF HistoryOK
  <2>2. QED
    BY <1>1, <1>2, <1>5, <2>1
<1>6. ASSUME NEW a \in Ledgers, NEW b \in Ledgers, a <= b, b - a <= RATE_LIMIT_WINDOW
      PROVE  h[b] - h[a] < 2 * RATE_LIMIT_COUNT
  <2>1. CASE b <= s \/ a > s
    <3>1. g[b] - g[a] < 2 * RATE_LIMIT_COUNT
      BY <1>6 DEF HistoryOK
    <3>2. h[b] - h[a] = g[b] - g[a]
      BY <1>1, <1>2, <1>6, <2>1
    <3>3. QED
      BY <3>1, <3>2
  <2>2. CASE a <= s /\ s < b
    <3>1. s < a + RATE_LIMIT_WINDOW
      BY <1>1, <1>6, <2>2
    <3>2. g[s + 1] - g[a] < 2 * RATE_LIMIT_COUNT - 1
      BY <2>2, <3>1
    <3>3. g[b] = g[s + 1]
      BY <1>1, <2>2 DEF HistoryOK
    <3>4. h[b] = g[b] + 1 /\ h[a] = g[a]
      BY <1>1, <1>2, <2>2
    <3>5. QED
      BY <1>1, <3>2, <3>3, <3>4
  <2>3. QED
    BY <1>1, <2>1, <2>2
<1>7. QED
  BY <1>3, <1>4, <1>5, <1>6 DEF HistoryOK, h

\* The registration that opens a window: the last LIMIT - 1 at most are within
\* reach of a stretch, and none of them is in this ledger.
LEMMA OpensWindow ==
    ASSUME NEW s \in 0..MaxLedger, NEW g \in [Ledgers -> Nat], HistoryOK(g, s),
           NEW left \in Nat, left >= DEFAULT_TTL, g[s] = g[s + 1],
           \A a \in Ledgers : a <= s /\ s < a + RATE_LIMIT_WINDOW
                                 => g[s + 1] - g[a] < RATE_LIMIT_COUNT
    PROVE  /\ HistoryOK(Counted(g, s), s) /\ Counted(g, s) \in [Ledgers -> Nat]
           /\ WindowOK(s, 1, left, Counted(g, s), s)
<1> DEFINE h == Counted(g, s)
<1>1. /\ \A l \in Ledgers : l \in Int /\ g[l] \in Nat
      /\ s \in Int /\ s \in Ledgers /\ s + 1 \in Ledgers
      /\ RATE_LIMIT_COUNT \in Nat /\ RATE_LIMIT_COUNT > 0
      /\ RATE_LIMIT_WINDOW \in Nat /\ RATE_LIMIT_WINDOW > 0 /\ DEFAULT_TTL \in Nat
  BY Numbers DEF Ledgers
<1>2. \A a \in Ledgers : a <= s /\ s < a + RATE_LIMIT_WINDOW
                            => g[s + 1] - g[a] < 2 * RATE_LIMIT_COUNT - 1
  BY <1>1
<1>3. HistoryOK(h, s) /\ h \in [Ledgers -> Nat]
  BY <1>2, CountedHistory
<1>4. \A l \in Ledgers : h[l] = IF l > s THEN g[l] + 1 ELSE g[l]
  BY DEF Counted
<1> HIDE DEF h
<1>5. \A a \in Ledgers : a > s => h[a] = h[s + 1]
  BY <1>3 DEF HistoryOK
<1>6. h[s] = g[s] /\ h[s + 1] = g[s + 1] + 1
  BY <1>1, <1>4
<1>7. s \in 0..s /\ 1 \in 1..RATE_LIMIT_COUNT /\ 1 = h[s + 1] - h[s] /\ h[s] < h[s + 1]
  BY <1>1, <1>6
<1>8. /\ \A a \in Ledgers : a >= s + RATE_LIMIT_WINDOW => h[a] = h[s + 1]
      /\ \A a \in Ledgers : a + DEFAULT_TTL > s + left => h[a] = h[s + 1]
  BY <1>1, <1>5
<1>9. ASSUME NEW a \in Ledgers, a <= s, s < a + RATE_LIMIT_WINDOW
      PROVE  h[s] - h[a] < RATE_LIMIT_COUNT
  <2>1. g[s + 1] - g[a] < RATE_LIMIT_COUNT
    BY <1>9
  <2>2. h[a] = g[a]
    BY <1>1, <1>4, <1>9
  <2>3. QED
    BY <1>6, <2>1, <2>2
<1>10. QED
  BY <1>3, <1>7, <1>8, <1>9 DEF WindowOK, h

\* So does the first registration of an owner without a stored window.
LEMMA OpensQuiet ==
    ASSUME NEW s \in 0..MaxLedger, NEW g \in [Ledgers -> Nat], HistoryOK(g, s),
           QuietOK(g, s), NEW left \in Nat, left >= DEFAULT_TTL
    PROVE  /\ HistoryOK(Counted(g, s), s) /\ Counted(g, s) \in [Ledgers -> Nat]
           /\ WindowOK(s, 1, left, Counted(g, s), s)
<1>1. /\ \A l \in Ledgers : l \in Int /\ g[l] \in Nat
      /\ s \in Int /\ s \in Ledgers /\ s + 1 \in Ledgers
      /\ RATE_LIMIT_COUNT \in Nat /\ RATE_LIMIT_COUNT > 0
      /\ RATE_LIMIT_WINDOW \in Nat /\ RATE_LIMIT_WINDOW > 0
  BY Numbers DEF Ledgers
<1>2. g[s] = g[s + 1]
  BY <1>1 DEF QuietOK
<1>3. \A a \in Ledgers : a <= s /\ s < a + RATE_LIMIT_WINDOW
                            => g[s + 1] - g[a] < RATE_LIMIT_COUNT
  BY <1>1 DEF QuietOK
<1>4. QED
  BY <1>2, <1>3, OpensWindow

\* And the first one after a window's end: a stretch that ends now does not reach
\* back to the ledger in which the old window opened.
LEMMA OpensNext ==
    ASSUME NEW s \in 0..MaxLedger, NEW g \in [Ledgers -> Nat], HistoryOK(g, s),
           NEW start, NEW count, NEW old, WindowOK(start, count, old, g, s),
           s - start >= RATE_LIMIT_WINDOW, NEW left \in Nat, left >= DEFAULT_TTL
    PROVE  /\ HistoryOK(Counted(g, s), s) /\ Counted(g, s) \in [Ledgers -> Nat]
           /\ WindowOK(s, 1, left, Counted(g, s), s)
<1>1. /\ \A l \in Ledgers : l \in Int /\ g[l] \in Nat
      /\ s \in Int /\ s \in Ledgers /\ s + 1 \in Ledgers
      /\ RATE_LIMIT_COUNT \in Nat /\ RATE_LIMIT_COUNT > 0
      /\ RATE_LIMIT_WINDOW \in Nat /\ RATE_LIMIT_WINDOW > 0
  BY Numbers DEF Ledgers
<1>2. start \in 0..s /\ count \in 1..RATE_LIMIT_COUNT
  BY DEF WindowOK
<1>3. start \in Ledgers /\ start + 1 \in Ledgers /\ start \in Int /\ count \in Int
  BY <1>1, <1>2, Numbers DEF Ledgers
<1>4. g[s] = g[s + 1]
  BY <1>1, <1>3 DEF WindowOK
<1>5. ASSUME NEW a \in Ledgers, a <= s, s < a + RATE_LIMIT_WINDOW
      PROVE  g[s + 1] - g[a] < RATE_LIMIT_COUNT
  <2>1. start + 1 <= a
    BY <1>1, <1>3, <1>5
  <2>2. g[start + 1] <= g[a]
    BY <1>3, <2>1 DEF HistoryOK
  <2>3. g[start] < g[start + 1] /\ g[s + 1] - g[start] = count
    BY DEF WindowOK
  <2>4. QED
    BY <1>1, <1>2, <1>3, <2>2, <2>3
<1>6. QED
  BY <1>4, <1>5, OpensWindow

\* A registration inside the window.
LEMMA CountsInside ==
    ASSUME NEW s \in 0..MaxLedger, NEW g \in [Ledgers -> Nat], HistoryOK(g, s),
           NEW start, NEW count, NEW old, WindowOK(start, count, old, g, s),
           s - start < RATE_LIMIT_WINDOW, count < RATE_LIMIT_COUNT,
           NEW left \in Nat, left >= DEFAULT_TTL
    PROVE  /\ HistoryOK(Counted(g, s), s) /\ Counted(g, s) \in [Ledgers -> Nat]
           /\ WindowOK(start, count + 1, left, Counted(g, s), s)
<1> DEFINE h == Counted(g, s)
<1>1. /\ \A l \in Ledgers : l \in Int /\ g[l] \in Nat
      /\ s \in Int /\ s \in Ledgers /\ s + 1 \in Ledgers
      /\ RATE_LIMIT_COUNT \in Nat /\ RATE_LIMIT_COUNT > 0
      /\ RATE_LIMIT_WINDOW \in Nat /\ RATE_LIMIT_WINDOW > 0 /\ DEFAULT_TTL \in Nat
  BY Numbers DEF Ledgers
<1>2. start \in 0..s /\ count \in 1..RATE_LIMIT_COUNT
  BY DEF WindowOK
<1>3. start \in Ledgers /\ start + 1 \in Ledgers /\ start \in Int /\ count \in Int
  BY <1>1, <1>2, Numbers DEF Ledgers
<1>4. g[s + 1] - g[start] = count /\ g[start] < g[start + 1]
  BY DEF WindowOK
<1>5. ASSUME NEW a \in Ledgers, a <= s, s < a + RATE_LIMIT_WINDOW
      PROVE  g[s + 1] - g[a] < 2 * RATE_LIMIT_COUNT - 1
  <2>1. CASE start <= a
    <3>1. g[start] <= g[a]
      BY <1>3, <2>1 DEF HistoryOK
    <3>2. QED
      BY <1>1, <1>3, <1>4, <3>1
  <2>2. CASE a < start
    <3>1. a <= start /\ start < a + RATE_LIMIT_WINDOW
      BY <1>1, <1>2, <1>3, <1>5, <2>2
    <3>2. g[start] - g[a] < RATE_LIMIT_COUNT
      BY <3>1 DEF WindowOK
    <3>3. QED
      BY <1>1, <1>3, <1>4, <3>2
  <2>3. QED
    BY <1>1, <1>3, <2>1, <2>2
<1>6. HistoryOK(h, s) /\ h \in [Ledgers -> Nat]
  BY <1>5, CountedHistory
<1>7. \A l \in Ledgers : h[l] = IF l > s THEN g[l] + 1 ELSE g[l]
  BY DEF Counted
<1> HIDE DEF h
<1>8. \A a \in Ledgers : a > s => h[a] = h[s + 1]
  BY <1>6 DEF HistoryOK
<1>9. h[start] = g[start] /\ h[s + 1] = g[s + 1] + 1
  BY <1>1, <1>2, <1>3, <1>7
<1>10. count + 1 \in 1..RATE_LIMIT_COUNT /\ count + 1 = h[s + 1] - h[start]
  BY <1>1, <1>2, <1>3, <1>4, <1>9
<1>11. h[start] < h[start + 1]
  BY <1>1, <1>3, <1>4, <1>7, <1>9
<1>12. /\ \A a \in Ledgers : a >= start + RATE_LIMIT_WINDOW => h[a] = h[s + 1]
       /\ \A a \in Ledgers : a + DEFAULT_TTL > s + left => h[a] = h[s + 1]
  BY <1>1, <1>3, <1>8
<1>13. ASSUME NEW a \in Ledgers, a <= start, start < a + RATE_LIMIT_WINDOW
       PROVE  h[start] - h[a] < RATE_LIMIT_COUNT
  <2>1. g[start] - g[a] < RATE_LIMIT_COUNT
    BY <1>13 DEF WindowOK
  <2>2. h[a] = g[a]
    BY <1>1, <1>2, <1>3, <1>7, <1>13
  <2>3. QED
    BY <1>9, <2>1, <2>2
<1>14. QED
  BY <1>2, <1>6, <1>10, <1>11, <1>12, <1>13 DEF WindowOK, h

\* A new ledger: the history stays, a window with life left stays, and when an
\* entry lapses its owner has been quiet for the length of a window.
LEMMA NextLedger ==
    ASSUME NEW s \in 0..MaxLedger, s + 1 <= MaxLedger,
           NEW g \in [Ledgers -> Nat], HistoryOK(g, s)
    PROVE  /\ HistoryOK(g, s + 1)
           /\ QuietOK(g, s) => QuietOK(g, s + 1)
           /\ \A start, count : \A left \in Nat :
                 WindowOK(start, count, left, g, s) =>
                    /\ left > 0 => WindowOK(start, count, left - 1, g, s + 1)
                    /\ left = 0 => QuietOK(g, s + 1)
<1>1. /\ \A l \in Ledgers : l \in Int
      /\ s \in Int /\ s + 1 \in Ledgers /\ s + 2 \in Ledgers
      /\ RATE_LIMIT_WINDOW \in Nat /\ DEFAULT_TTL \in Nat
      /\ RATE_LIMIT_WINDOW <= DEFAULT_TTL
  BY Numbers DEF Ledgers
<1>2. g[(s + 1) + 1] = g[s + 1]
  <2>1. (s + 1) + 1 \in Ledgers /\ (s + 1) + 1 > s
    BY <1>1
  <2>2. QED
    BY <2>1 DEF HistoryOK
<1>3. HistoryOK(g, s + 1)
  BY <1>1, <1>2 DEF HistoryOK
<1>4. ASSUME QuietOK(g, s)
      PROVE  QuietOK(g, s + 1)
  BY <1>1, <1>2, <1>4 DEF QuietOK
<1>5. ASSUME NEW start, NEW count, NEW left \in Nat, WindowOK(start, count, left, g, s)
      PROVE  /\ left > 0 => WindowOK(start, count, left - 1, g, s + 1)
             /\ left = 0 => QuietOK(g, s + 1)
  <2>1. \A a \in Ledgers : a + DEFAULT_TTL > s + left => g[a] = g[s + 1]
    BY <1>5 DEF WindowOK
  <2>2. CASE left > 0
    <3>1. (s + 1) + (left - 1) = s + left
      BY <1>1
    <3>2. start \in 0..(s + 1)
      BY <1>1, <1>5 DEF WindowOK
    <3>3. QED
      BY <1>2, <1>5, <2>2, <3>1, <3>2 DEF WindowOK
  <2>3. CASE left = 0
    BY <1>1, <1>2, <2>1, <2>3 DEF QuietOK
  <2>4. QED
    BY <2>2, <2>3
<1>6. QED
  BY <1>3, <1>4, <1>5
-----------------------------------------------------------------------------
(* The state.                                                              *)

Windows == [start : Nat, count : Nat]

\* The numbers of owner o in the tables w and t and the histories g.
OwnerOK(s, w, t, g, o) ==
    /\ HistoryOK(g[o], s)
    /\ o \in DOMAIN w => WindowOK(w[o].start, w[o].count, t[o], g[o], s)
    /\ o \notin DOMAIN w => QuietOK(g[o], s)

\* The invariant, of the ledger, the windows, their lives and the histories.
LimitOK(s, w, t, g) ==
    /\ s \in 0..MaxLedger
    /\ DOMAIN w = DOMAIN t
    /\ IsTable(w, Owners, Windows)
    /\ IsTable(t, Owners, Nat)
    /\ g \in [Owners -> [Ledgers -> Nat]]
    /\ \A o \in Owners : OwnerOK(s, w, t, g, o)

LimitInv == LimitOK(sequence, windows, ttl, granted)

\* The initial state satisfies the invariant: nobody has registered.
LEMMA LimitStarts == Init => LimitInv
<1> SUFFICES ASSUME Init
             PROVE  LimitInv
  OBVIOUS
<1> DEFINE nothing == [l \in Ledgers |-> 0]
<1>1. /\ sequence = 0 /\ windows = NoEntries /\ ttl = NoEntries
      /\ granted = [o \in Owners |-> nothing]
  BY DEF Init, Ledgers
<1>2. nothing \in [Ledgers -> Nat] /\ \A l \in Ledgers : nothing[l] = 0
  OBVIOUS
<1>3. 0 \in 0..MaxLedger /\ 0 + 1 \in Ledgers
  BY Numbers DEF Ledgers
<1> HIDE DEF nothing
<1>4. HistoryOK(nothing, 0)
  BY <1>2, <1>3, Numbers DEF HistoryOK
<1>5. QuietOK(nothing, 0)
  BY <1>2, <1>3 DEF QuietOK
<1>6. \A o \in Owners : granted[o] = nothing
  BY <1>1
<1>7. DOMAIN windows = {} /\ DOMAIN ttl = {}
  BY <1>1 DEF NoEntries
<1>8. IsTable(windows, Owners, Windows) /\ IsTable(ttl, Owners, Nat)
  BY <1>1, <1>7 DEF IsTable, NoEntries
<1>9. ASSUME NEW o \in Owners
      PROVE  OwnerOK(sequence, windows, ttl, granted, o)
  BY <1>1, <1>4, <1>5, <1>6, <1>7 DEF OwnerOK
<1>10. granted \in [Owners -> [Ledgers -> Nat]]
  BY <1>1, <1>2
<1>11. QED
  BY <1>1, <1>3, <1>7, <1>8, <1>9, <1>10 DEF LimitInv, LimitOK

\* What a registration let through leaves in the tables keeps the invariant,
\* whether it opens a window or is counted in one.
LEMMA Registers ==
    ASSUME LimitInv, NEW owner \in Owners, NEW w,
           w = IF owner \in DOMAIN windows THEN windows[owner]
               ELSE [start |-> sequence, count |-> 0],
           window_over(w) \/ w.count < RATE_LIMIT_COUNT
    PROVE  LimitOK(sequence, Put(windows, owner, next_window(w)),
                   Extend(ttl, {owner}, DEFAULT_TTL),
                   [granted EXCEPT ![owner] = one_more(@)])
<1> DEFINE v == next_window(w)
           ws == Put(windows, owner, v)
           ts == Extend(ttl, {owner}, DEFAULT_TTL)
           g == granted[owner]
           h == Counted(g, sequence)
           gs == [granted EXCEPT ![owner] = one_more(@)]
           left == ts[owner]
<1>1. /\ sequence \in 0..MaxLedger /\ DOMAIN windows = DOMAIN ttl
      /\ IsTable(windows, Owners, Windows) /\ IsTable(ttl, Owners, Nat)
      /\ granted \in [Owners -> [Ledgers -> Nat]]
      /\ \A o \in Owners : OwnerOK(sequence, windows, ttl, granted, o)
  BY DEF LimitInv, LimitOK
<1>2. g \in [Ledgers -> Nat] /\ HistoryOK(g, sequence)
  BY <1>1 DEF OwnerOK
<1>3. one_more(g) = h
  BY <1>2 DEF one_more, Counted
<1>4. /\ DOMAIN gs = Owners /\ gs[owner] = h
      /\ \A o \in Owners \ {owner} : gs[o] = granted[o]
  BY <1>1, <1>3
<1>5. DOMAIN ts = DOMAIN ttl \cup {owner} /\ IsTable(ts, Owners, Nat)
  BY <1>1, Numbers, ExtendEffect, ExtendTable
<1>6. left \in Nat /\ left >= DEFAULT_TTL
  <2>1. left \in Nat
    BY <1>5 DEF IsTable
  <2>2. left = AtLeast(IF owner \in DOMAIN ttl THEN ttl[owner] ELSE MIN_TTL, DEFAULT_TTL)
    BY DEF Extend
  <2>3. owner \in DOMAIN ttl => ttl[owner] \in Nat
    BY <1>1 DEF IsTable
  <2>4. QED
    BY <2>1, <2>2, <2>3, Numbers, MinTtlAssumption DEF AtLeast
<1>7. \A o \in DOMAIN windows \ {owner} : ts[o] = ttl[o]
  BY <1>1 DEF Extend
<1>8. /\ DOMAIN ws = DOMAIN windows \cup {owner} /\ ws[owner] = v
      /\ \A o \in DOMAIN windows \ {owner} : ws[o] = windows[o]
  BY DEF Put
<1> DEFINE Goal == /\ v \in Windows
                   /\ HistoryOK(h, sequence) /\ h \in [Ledgers -> Nat]
                   /\ WindowOK(v.start, v.count, left, h, sequence)
<1> HIDE DEF ts, gs, left
<1>9. Goal
  <2>1. sequence \in Nat /\ sequence \in Int
    BY <1>1, Numbers
  <2>2. CASE owner \notin DOMAIN windows
    <3>1. QuietOK(g, sequence)
      BY <1>1, <2>2 DEF OwnerOK
    <3>2. w = [start |-> sequence, count |-> 0]
      BY <2>2
    <3>3. ~window_over(w)
      BY <2>1, <3>2, Numbers DEF window_over
    <3>4. v = [start |-> sequence, count |-> 1]
      BY <3>2, <3>3 DEF next_window
    <3>5. HistoryOK(h, sequence) /\ h \in [Ledgers -> Nat]
          /\ WindowOK(sequence, 1, left, h, sequence)
      BY <1>1, <1>2, <1>6, <3>1, OpensQuiet
    <3>6. v \in Windows /\ v.start = sequence /\ v.count = 1
      BY <2>1, <3>4 DEF Windows
    <3>7. QED
      BY <3>5, <3>6
  <2>3. CASE owner \in DOMAIN windows
    <3>1. w = windows[owner] /\ w \in Windows
      BY <1>1, <2>3 DEF IsTable
    <3>2. w.start \in Nat /\ w.count \in Nat
      BY <3>1 DEF Windows
    <3>3. WindowOK(w.start, w.count, ttl[owner], g, sequence)
      BY <1>1, <2>3, <3>1 DEF OwnerOK
    <3>4. CASE window_over(w)
      <4>1. v = [start |-> sequence, count |-> 1]
        BY <3>4 DEF next_window
      <4>2. sequence - w.start >= RATE_LIMIT_WINDOW
        BY <3>4 DEF window_over
      <4>3. HistoryOK(h, sequence) /\ h \in [Ledgers -> Nat]
            /\ WindowOK(sequence, 1, left, h, sequence)
        BY <1>1, <1>2, <1>6, <3>3, <4>2, OpensNext
      <4>4. v \in Windows /\ v.start = sequence /\ v.count = 1
        BY <2>1, <4>1 DEF Windows
      <4>5. QED
        BY <4>3, <4>4
    <3>5. CASE ~window_over(w)
      <4>1. v = [w EXCEPT !.count = w.count + 1]
        BY <3>5 DEF next_window
      <4>2. sequence - w.start < RATE_LIMIT_WINDOW
        BY <2>1, <3>2, <3>5, Numbers DEF window_over
      <4>3. w.count < RATE_LIMIT_COUNT
        BY <3>5
      <4>4. HistoryOK(h, sequence) /\ h \in [Ledgers -> Nat]
            /\ WindowOK(w.start, w.count + 1, left, h, sequence)
        BY <1>1, <1>2, <1>6, <3>3, <4>2, <4>3, CountsInside
      <4>5. v \in Windows /\ v.start = w.start /\ v.count = w.count + 1
        BY <3>1, <3>2, <4>1 DEF Windows
      <4>6. QED
        BY <4>4, <4>5
    <3>6. QED
      BY <3>4, <3>5
  <2>4. QED
    BY <2>2, <2>3
<1> HIDE DEF v, h, g
<1>10. IsTable(ws, Owners, Windows)
  BY <1>1, <1>9, PutTable
<1> HIDE DEF ws
<1>11. gs \in [Owners -> [Ledgers -> Nat]]
  <2>1. \A o \in Owners : gs[o] \in [Ledgers -> Nat]
    BY <1>1, <1>4, <1>9
  <2>2. gs = [o \in Owners |-> gs[o]]
    BY <1>1 DEF gs
  <2>3. QED
    BY <2>1, <2>2
<1>12. ASSUME NEW o \in Owners
       PROVE  OwnerOK(sequence, ws, ts, gs, o)
  <2>1. CASE o = owner
    BY <1>4, <1>8, <1>9, <2>1 DEF OwnerOK, left
  <2>2. CASE o # owner
    <3>1. OwnerOK(sequence, windows, ttl, granted, o)
      BY <1>1
    <3>2. gs[o] = granted[o] /\ (o \in DOMAIN ws <=> o \in DOMAIN windows)
      BY <1>4, <1>8, <2>2
    <3>3. o \in DOMAIN windows => ws[o] = windows[o] /\ ts[o] = ttl[o]
      BY <1>7, <1>8, <2>2
    <3>4. QED
      BY <3>1, <3>2, <3>3 DEF OwnerOK
  <2>3. QED
    BY <2>1, <2>2
<1>13. LimitOK(sequence, ws, ts, gs)
  BY <1>1, <1>5, <1>8, <1>10, <1>11, <1>12 DEF LimitOK
<1>14. QED
  BY <1>13 DEF ws, ts, gs, v

\* A closing ledger keeps the invariant: the entries that lapse are those of
\* owners who have been quiet.
LEMMA Closes ==
    ASSUME LimitInv, sequence < MaxLedger
    PROVE  LimitOK(sequence + 1, Restrict(windows, Survivors(ttl)), Age(ttl), granted)
<1> DEFINE ws == Restrict(windows, Survivors(ttl))
           ts == Age(ttl)
<1>1. /\ sequence \in 0..MaxLedger /\ DOMAIN windows = DOMAIN ttl
      /\ IsTable(windows, Owners, Windows) /\ IsTable(ttl, Owners, Nat)
      /\ granted \in [Owners -> [Ledgers -> Nat]]
      /\ \A o \in Owners : OwnerOK(sequence, windows, ttl, granted, o)
  BY DEF LimitInv, LimitOK
<1>2. sequence + 1 \in 0..MaxLedger /\ sequence + 1 <= MaxLedger
  BY <1>1, Numbers
<1>3. Survivors(ttl) \subseteq DOMAIN windows /\ DOMAIN ts = Survivors(ttl)
  BY <1>1, AgeEffect
<1>4. DOMAIN ws = Survivors(ttl) /\ \A o \in Survivors(ttl) : ws[o] = windows[o]
  BY RestrictEffect
<1>5. IsTable(ws, Owners, Windows) /\ IsTable(ts, Owners, Nat)
  BY <1>1, <1>3, RestrictTable, AgeTable
<1>6. \A o \in Survivors(ttl) : ts[o] = ttl[o] - 1
  BY DEF Age
<1>7. \A o \in DOMAIN ttl : ttl[o] \in Nat /\ (o \in Survivors(ttl) <=> ttl[o] > 0)
  BY <1>1 DEF IsTable, Survivors
<1> HIDE DEF ws, ts
<1>8. ASSUME NEW o \in Owners
      PROVE  OwnerOK(sequence + 1, ws, ts, granted, o)
  <2> DEFINE g == granted[o]
  <2>1. g \in [Ledgers -> Nat] /\ HistoryOK(g, sequence)
    BY <1>1 DEF OwnerOK
  <2> HIDE DEF g
  <2>2. /\ HistoryOK(g, sequence + 1)
        /\ QuietOK(g, sequence) => QuietOK(g, sequence + 1)
        /\ \A start, count : \A left \in Nat :
              WindowOK(start, count, left, g, sequence) =>
                 /\ left > 0 => WindowOK(start, count, left - 1, g, sequence + 1)
                 /\ left = 0 => QuietOK(g, sequence + 1)
    BY <1>1, <1>2, <2>1, NextLedger
  <2>3. CASE o \notin DOMAIN windows
    <3>1. QuietOK(g, sequence) /\ o \notin DOMAIN ws
      BY <1>1, <1>3, <1>4, <2>3 DEF OwnerOK, g
    <3>2. QED
      BY <2>2, <3>1 DEF OwnerOK, g
  <2>4. CASE o \in DOMAIN windows
    <3>1. WindowOK(windows[o].start, windows[o].count, ttl[o], g, sequence)
      BY <1>1, <2>4 DEF OwnerOK, g
    <3>2. ttl[o] \in Nat
      BY <1>1, <1>7, <2>4
    <3>3. CASE ttl[o] > 0
      <4>1. WindowOK(windows[o].start, windows[o].count, ttl[o] - 1, g, sequence + 1)
        BY <2>2, <3>1, <3>2, <3>3
      <4>2. o \in DOMAIN ws /\ ws[o] = windows[o] /\ ts[o] = ttl[o] - 1
        BY <1>1, <1>4, <1>6, <1>7, <2>4, <3>3
      <4>3. QED
        BY <2>2, <4>1, <4>2 DEF OwnerOK, g
    <3>4. CASE ttl[o] = 0
      <4>1. QuietOK(g, sequence + 1)
        BY <2>2, <3>1, <3>2, <3>4
      <4>2. o \notin DOMAIN ws
        BY <1>1, <1>4, <1>7, <2>4, <3>4
      <4>3. QED
        BY <2>2, <4>1, <4>2 DEF OwnerOK, g
    <3>5. QED
      BY <3>2, <3>3, <3>4
  <2>5. QED
    BY <2>3, <2>4
<1>9. LimitOK(sequence + 1, ws, ts, granted)
  BY <1>1, <1>2, <1>3, <1>4, <1>5, <1>8 DEF LimitOK
<1>10. QED
  BY <1>9 DEF ws, ts

\* Every step keeps the invariant.
LEMMA LimitStep == LimitInv /\ [Next]_vars => LimitInv'
<1> SUFFICES ASSUME LimitInv, [Next]_vars
             PROVE  LimitOK(sequence', windows', ttl', granted')
  BY DEF LimitInv, LimitOK, OwnerOK, HistoryOK, WindowOK, QuietOK
<1>1. ASSUME NEW owner \in Owners, check_rate_limit(owner)
      PROVE  LimitOK(sequence', windows', ttl', granted')
  <2> DEFINE w == IF owner \in DOMAIN windows THEN windows[owner]
                  ELSE [start |-> sequence, count |-> 0]
  <2>1. /\ window_over(w) \/ w.count < RATE_LIMIT_COUNT
        /\ windows' = Put(windows, owner, next_window(w))
        /\ ttl' = Extend(ttl, {owner}, DEFAULT_TTL)
        /\ granted' = [granted EXCEPT ![owner] = one_more(@)]
        /\ sequence' = sequence
    BY <1>1 DEF check_rate_limit
  <2> HIDE DEF w
  <2>2. w = IF owner \in DOMAIN windows THEN windows[owner]
            ELSE [start |-> sequence, count |-> 0]
    BY DEF w
  <2>3. LimitOK(sequence, Put(windows, owner, next_window(w)),
                Extend(ttl, {owner}, DEFAULT_TTL),
                [granted EXCEPT ![owner] = one_more(@)])
    BY <2>1, <2>2, Registers
  <2>4. QED
    BY <2>1, <2>3
<1>2. ASSUME NEW value \in PauseValues, set_paused(value)
      PROVE  LimitOK(sequence', windows', ttl', granted')
  BY <1>2 DEF set_paused, LimitInv
<1>3. ASSUME close_ledger
      PROVE  LimitOK(sequence', windows', ttl', granted')
  BY <1>3, Closes DEF close_ledger
<1>4. CASE UNCHANGED vars
  BY <1>4 DEF vars, LimitInv
<1>5. QED
  BY <1>1, <1>2, <1>3, <1>4 DEF Next

\* The invariant always holds.
LEMMA LimitHolds == Spec => []LimitInv
<1>1. QED
  BY LimitStarts, LimitStep, PTL DEF Spec

\* Whatever the limit and the window, a stored count of check_rate_limit is
\* exact: it is the number of registrations let through since its window began,
\* and never beyond the limit.
THEOREM WindowsExact == Spec => []WindowCountsGrants
<1>1. LimitInv => WindowCountsGrants
  <2> SUFFICES ASSUME LimitInv, NEW o \in DOMAIN windows
               PROVE  /\ windows[o].count = total(o, windows[o].start, sequence)
                      /\ windows[o].count <= RATE_LIMIT_COUNT
    BY DEF WindowCountsGrants
  <2>1. o \in Owners
    BY DEF LimitInv, LimitOK, IsTable
  <2>2. WindowOK(windows[o].start, windows[o].count, ttl[o], granted[o], sequence)
    BY <2>1 DEF LimitInv, LimitOK, OwnerOK
  <2>3. /\ windows[o].count \in 1..RATE_LIMIT_COUNT
        /\ windows[o].count = granted[o][sequence + 1] - granted[o][windows[o].start]
    BY <2>2 DEF WindowOK
  <2>4. QED
    BY <2>3, Numbers DEF total
<1>2. QED
  BY <1>1, LimitHolds, PTL

\* However the windows fall and whenever their entries lapse, no stretch of
\* RATE_LIMIT_WINDOW ledgers sees twice RATE_LIMIT_COUNT registrations of one
\* owner.
THEOREM BurstsAreBounded == Spec => []BurstsBounded
<1>1. LimitInv => BurstsBounded
  <2> DEFINE last(first) == Least(first + RATE_LIMIT_WINDOW - 1, MaxLedger)
  <2> SUFFICES ASSUME LimitInv, NEW o \in Owners, NEW first \in 0..sequence
               PROVE  total(o, first, last(first)) < 2 * RATE_LIMIT_COUNT
    BY DEF BurstsBounded
  <2> DEFINE b == last(first) + 1
  <2>1. sequence \in 0..MaxLedger /\ HistoryOK(granted[o], sequence)
    BY DEF LimitInv, LimitOK, OwnerOK
  <2>2. first \in Int /\ first >= 0 /\ first <= MaxLedger
    BY <2>1, Numbers
  <2>3. /\ first \in Ledgers /\ b \in Ledgers
        /\ first <= b /\ b - first <= RATE_LIMIT_WINDOW
    BY <2>2, Numbers DEF Least, Ledgers
  <2> HIDE DEF last
  <2>4. granted[o][b] - granted[o][first] < 2 * RATE_LIMIT_COUNT
    BY <2>1, <2>3 DEF HistoryOK
  <2>5. QED
    BY <2>4 DEF total
<1>2. QED
  BY <1>1, LimitHolds, PTL
=============================================================================
