------------------------- MODULE AlertClientsProofs -------------------------
(***************************************************************************)
(* What those who read the AlertRegistry contract may rely on, whatever    *)
(* entries have lapsed and for every value of the constants: that the      *)
(* reads agree with one another and with what is stored, that pages make   *)
(* up the lists, that incremental sync and gated reading miss nothing, and *)
(* what a keeper achieves.                                                 *)
(*                                                                         *)
(* A composed system takes steps of the registry and steps of its own that *)
(* leave the registry alone, so that the invariant of AlertRegistryProofs  *)
(* and all it implies hold in it as well.                                  *)
(***************************************************************************)
EXTENDS SyncClient, WatcherGating, Keeper, AlertPropertiesProofs, SequenceTheorems
-----------------------------------------------------------------------------
(* The reads.                                                              *)

\* An owner's list returns as many alerts as the count says, all of them the
\* owner's.
LEMMA OwnerReads ==
    ASSUME IInv, NEW o \in Owners
    PROVE  /\ get_active_alert_count(o) = Len(get_alerts_by_owner(o))
           /\ get_active_alert_count(o) <= Cardinality(owned(o))
<1> DEFINE ids == lookup(owner_index, o)
           out == Keep(ids, DOMAIN alerts)
           I   == Positions(ids, DOMAIN alerts)
<1>1. GoodVec(ids, next_id)
  BY LookupGood DEF IInv, OwnersOK
<1>2. ids \in Seq(Ids) /\ NoRepeats(ids)
  BY <1>1 DEF GoodVec
<1>3. get_alerts_by_owner(o) = out /\ get_active_alert_count(o) = Cardinality(I)
  BY DEF get_alerts_by_owner, configs_for_ids, get_active_alert_count
<1>4. out \in Seq(Ids) /\ Range(out) = Range(ids) \cap DOMAIN alerts /\ NoRepeats(out)
  BY <1>2, KeepFacts
<1>5. Cardinality(I) \in Nat /\ Len(out) = Cardinality(I)
  <2>1. I \subseteq 1..Len(ids) /\ Len(ids) \in Nat
    BY <1>2 DEF Positions
  <2>2. IsFiniteSet(I)
    <3>1. IsFiniteSet(1..Len(ids))
      BY <2>1, FS_Interval
    <3>2. QED
      BY <2>1, <3>1, FS_Subset
  <2>3. Cardinality(I) \in Nat
    BY <2>2, FS_CardinalityType
  <2> DEFINE c == Cardinality(I)
  <2>4. out = [n \in 1..c |-> ids[Nth(I, n)]]
    BY DEF Keep
  <2> HIDE DEF c, I, out
  <2>5. DOMAIN out = 1..c /\ c \in Nat
    BY <2>3, <2>4 DEF c
  <2>6. QED
    BY <1>4, <2>5 DEF c
<1> HIDE DEF out, I
<1>6. IsFiniteSet(Range(out)) /\ Cardinality(Range(out)) = Len(out)
  BY <1>4, RangeCount
<1>7. Range(out) \subseteq owned(o)
  BY <1>4 DEF IInv, OwnersOK, Places, Listed, owner_of, owned
<1>8. IsFiniteSet(owned(o))
  <2>1. next_id \in Nat /\ DOMAIN alerts \subseteq 0..(next_id - 1)
    BY ConstantsAssumption DEF IInv, AlertsOK
  <2>2. IsFiniteSet(0..(next_id - 1))
    BY <2>1, FS_Interval
  <2>3. owned(o) \subseteq 0..(next_id - 1)
    BY <2>1 DEF owned
  <2>4. QED
    BY <2>2, <2>3, FS_Subset
<1>9. Cardinality(Range(out)) <= Cardinality(owned(o))
  BY <1>7, <1>8, FS_Subset
<1>10. QED
  BY <1>3, <1>5, <1>6, <1>9

\* Every read sees what is stored and nothing else.
THEOREM ReadsConsistent == Spec => []ReadsAgree
<1>1. IInv => ReadsAgree
  <2> SUFFICES ASSUME IInv
               PROVE  ReadsAgree
    OBVIOUS
  <2>1. /\ next_id \in Nat /\ DOMAIN alerts \subseteq 0..(next_id - 1)
        /\ \A id \in DOMAIN alerts : alerts[id] \in AlertConfig
    BY ConstantsAssumption DEF IInv, AlertsOK, IsTable
  <2>2. get_alerts_modified_since(0) = DOMAIN alerts
    <3>1. \A id \in DOMAIN alerts : alerts[id].updated_at >= 0
      BY <2>1 DEF AlertConfig
    <3>2. QED
      BY <2>1, <3>1 DEF get_alerts_modified_since, modified
  <2>3. Cardinality(DOMAIN alerts) <= get_alert_count
    <3> DEFINE n == next_id - 1
    <3>1. n \in Int /\ 0 \in Int /\ (IF 0 > n THEN 0 ELSE n - 0 + 1) = next_id
      BY <2>1
    <3> HIDE DEF n
    <3>2. IsFiniteSet(0..n) /\ Cardinality(0..n) = next_id
      BY <3>1, FS_Interval
    <3>3. DOMAIN alerts \subseteq 0..n
      BY <2>1 DEF n
    <3>4. QED
      BY <3>2, <3>3, FS_Subset DEF get_alert_count
  <2>4. QED
    BY <2>2, <2>3, OwnerReads DEF ReadsAgree
<1>2. QED
  BY <1>1, Invariance, PTL
-----------------------------------------------------------------------------
(* Reading a list page by page.                                            *)

\* g[o] is what pages of n leave to read from offset o on: the page there and what
\* is left from the next one on.
Left(g, pages, n, end) ==
    /\ g = [o \in 0..(end + MAX_BATCH_SIZE) |-> g[o]]
    /\ \A o \in 0..(end + MAX_BATCH_SIZE) :
          g[o] = IF o >= end THEN << >> ELSE pages[o] \o g[o + Least(n, MAX_BATCH_SIZE)]

\* A client that pages through a list reads what is left of it.
LEMMA PagesRead ==
    ASSUME MAX_BATCH_SIZE > 0, NEW end \in Nat, NEW n \in Nat, n > 0,
           NEW pages, NEW g, Left(g, pages, n, end), NEW start \in 0..end
    PROVE  all_pages(pages, n, start, end) = g[start]
<1> DEFINE N == end + MAX_BATCH_SIZE
           m == Least(n, MAX_BATCH_SIZE)
           F(f) == [o \in 0..N |-> IF o >= end THEN << >> ELSE pages[o] \o f[o + m]]
           rest == CHOOSE f : f = F(f)
           last == end..N
           next == [o \in 0..N |-> o + m]
<1>1. MAX_BATCH_SIZE \in Nat
  BY ConstantsAssumption
<1>2. N \in Nat /\ end <= N /\ m \in Nat /\ m > 0 /\ m <= MAX_BATCH_SIZE
  BY <1>1 DEF Least
<1>3. \A o \in 0..N : o + m = next[o] /\ (o \in last <=> o >= end)
  BY <1>2
<1>4. \A o \in 0..N : o \notin last => next[o] \in 0..N /\ next[o] > o
  <2>1. \A o \in 0..N : o < end => o + m \in 0..N /\ o + m > o
    BY <1>1, <1>2
  <2>2. QED
    BY <1>2, <1>3, <2>1
<1>5. all_pages(pages, n, start, end) = rest[start]
  BY DEF all_pages
<1> HIDE DEF m, last, next
<1>6. \A o \in 0..N : g[o] = IF o >= end THEN << >> ELSE pages[o] \o g[o + m]
  BY DEF Left, m
<1>7. g = F(g)
  <2>1. g = [o \in 0..N |-> g[o]]
    BY DEF Left
  <2>2. QED
    BY <1>6, <2>1
<1>8. rest = F(rest)
  <2> HIDE DEF F
  <2>1. QED
    BY <1>7
<1> HIDE DEF rest
<1>9. \A o \in 0..N : rest[o] = IF o >= end THEN << >> ELSE pages[o] \o rest[o + m]
  <2> SUFFICES ASSUME NEW o \in 0..N
               PROVE  rest[o] = IF o >= end THEN << >> ELSE pages[o] \o rest[o + m]
    OBVIOUS
  <2>1. F(rest)[o] = IF o >= end THEN << >> ELSE pages[o] \o rest[o + m]
    OBVIOUS
  <2> HIDE DEF F
  <2>2. rest[o] = F(rest)[o]
    BY <1>8
  <2>3. QED
    BY <2>1, <2>2
<1> HIDE DEF N, F
<1>10. Reads(rest, N, last, pages, next)
  BY <1>3, <1>4, <1>9 DEF Reads
<1>11. Reads(g, N, last, pages, next)
  BY <1>3, <1>4, <1>6 DEF Reads
<1>12. \A o \in 0..N : rest[o] = g[o]
  BY <1>2, <1>10, <1>11, SameReading
<1>13. start \in 0..N
  BY <1>2
<1>14. QED
  BY <1>5, <1>12, <1>13

\* The page at an offset inside a list ends where the client goes on.
LEMMA PageEnds ==
    ASSUME MAX_BATCH_SIZE > 0, NEW S, NEW s \in Seq(S), Len(s) <= U32_MAX,
           NEW n \in Nat, n > 0, NEW o \in 0..Len(s), NEW to,
           to = Least(o + Least(n, MAX_BATCH_SIZE), Len(s))
    PROVE  to \in o..Len(s) /\ slice(s, o, n) = SubSeq(s, o + 1, to)
<1> DEFINE L == Len(s)
           m == Least(n, MAX_BATCH_SIZE)
<1>1. L \in Nat /\ MAX_BATCH_SIZE \in Nat /\ U32_MAX \in Nat /\ L <= U32_MAX /\ o \in 0..L
  BY ConstantsAssumption, U32MaxAssumption
<1>2. m \in Nat /\ to = Least(o + m, L)
  BY <1>1 DEF Least
<1>3. slice(s, o, n) = SubSeq(s, Least(o, L) + 1, Least(Least(o + m, U32_MAX), L))
  BY DEF slice
<1> HIDE DEF L, m
<1>4. to \in o..L /\ Least(o, L) = o /\ Least(Least(o + m, U32_MAX), L) = to
  BY <1>1, <1>2 DEF Least
<1>5. QED
  BY <1>3, <1>4 DEF L

\* Pages of a list.
LEMMA ListPages ==
    ASSUME MAX_BATCH_SIZE > 0, NEW S, NEW s \in Seq(S), Len(s) <= U32_MAX,
           NEW n \in Nat, n > 0, NEW start \in 0..Len(s)
    PROVE  all_pages([o \in 0..Len(s) |-> slice(s, o, n)], n, start, Len(s))
             = from(s, start)
<1> DEFINE L == Len(s)
           pages == [o \in 0..L |-> slice(s, o, n)]
           N == L + MAX_BATCH_SIZE
           m == Least(n, MAX_BATCH_SIZE)
           g == [o \in 0..N |-> SubSeq(s, Least(o, L) + 1, L)]
<1>1. L \in Nat /\ MAX_BATCH_SIZE \in Nat /\ N \in Nat /\ m \in Nat /\ m <= MAX_BATCH_SIZE
  BY ConstantsAssumption DEF Least
<1>2. ASSUME NEW o \in 0..N
      PROVE  g[o] = IF o >= L THEN << >> ELSE pages[o] \o g[o + m]
  <2> DEFINE Goal == g[o] = IF o >= L THEN << >> ELSE pages[o] \o g[o + m]
  <2> SUFFICES Goal
    OBVIOUS
  <2>1. CASE o >= L
    <3>1. Least(o, L) = L
      BY <1>1, <2>1 DEF Least
    <3>2. SubSeq(s, L + 1, L) = << >>
      BY <1>1, SubSeqEmpty
    <3>3. QED
      BY <2>1, <3>1, <3>2
  <2>2. CASE o < L
    <3> DEFINE to == Least(o + m, L)
    <3>1. o \in 0..L /\ Least(o, L) = o /\ o + m \in 0..N /\ ~(o >= L)
      BY <1>1, <2>2 DEF Least
    <3>2. to \in o..L /\ slice(s, o, n) = SubSeq(s, o + 1, to)
      BY <3>1, PageEnds
    <3>3. pages[o] = SubSeq(s, o + 1, to)
      BY <3>1, <3>2
    <3>4. g[o] = SubSeq(s, o + 1, L) /\ g[o + m] = SubSeq(s, to + 1, L)
      BY <3>1
    <3> HIDE DEF to
    <3>5. SubSeq(s, o + 1, to) \o SubSeq(s, to + 1, L) = SubSeq(s, o + 1, L)
      BY <3>1, <3>2, Adjacent
    <3>6. QED
      BY <3>1, <3>3, <3>4, <3>5
  <2> HIDE DEF Goal
  <2>3. o >= L \/ o < L
    BY <1>1
  <2>4. QED
    BY <2>1, <2>2, <2>3
<1>3. g = [o \in 0..N |-> g[o]]
  OBVIOUS
<1>4. g[start] = from(s, start)
  <2>1. start \in 0..N /\ Least(start, L) = start
    BY <1>1 DEF Least
  <2>2. QED
    BY <2>1 DEF from
<1> HIDE DEF g, pages
<1>5. Left(g, pages, n, L)
  BY <1>2, <1>3 DEF Left
<1> HIDE DEF L
<1>6. all_pages(pages, n, start, L) = g[start]
  BY <1>1, <1>5, PagesRead DEF L
<1>7. QED
  BY <1>4, <1>6 DEF pages, L

\* Pages of a list whose pages are filtered one by one.
LEMMA FilteredPages ==
    ASSUME MAX_BATCH_SIZE > 0, NEW S, NEW s \in Seq(S), Len(s) <= U32_MAX,
           NEW n \in Nat, n > 0, NEW start \in 0..Len(s), NEW K
    PROVE  all_pages([o \in 0..Len(s) |-> Keep(slice(s, o, n), K)], n, start, Len(s))
             = Keep(from(s, start), K)
<1> DEFINE L == Len(s)
           pages == [o \in 0..L |-> Keep(slice(s, o, n), K)]
           N == L + MAX_BATCH_SIZE
           m == Least(n, MAX_BATCH_SIZE)
           g == [o \in 0..N |-> Keep(SubSeq(s, Least(o, L) + 1, L), K)]
<1>1. L \in Nat /\ MAX_BATCH_SIZE \in Nat /\ N \in Nat /\ m \in Nat /\ m <= MAX_BATCH_SIZE
  BY ConstantsAssumption DEF Least
<1>2. ASSUME NEW o \in 0..N
      PROVE  g[o] = IF o >= L THEN << >> ELSE pages[o] \o g[o + m]
  <2> DEFINE Goal == g[o] = IF o >= L THEN << >> ELSE pages[o] \o g[o + m]
  <2> SUFFICES Goal
    OBVIOUS
  <2>1. CASE o >= L
    <3>1. Least(o, L) = L
      BY <1>1, <2>1 DEF Least
    <3>2. SubSeq(s, L + 1, L) = << >>
      BY <1>1, SubSeqEmpty
    <3>3. Keep(<< >>, K) = << >>
      <4>1. << >> \in Seq(S) /\ Len(<< >>) = 0
        OBVIOUS
      <4>2. Keep(<< >>, K) \in Seq(S) /\ Len(Keep(<< >>, K)) \in Nat
            /\ Len(Keep(<< >>, K)) <= Len(<< >>)
        BY <4>1, KeepFacts, KeepShorter
      <4>3. QED
        BY <4>1, <4>2
    <3>4. QED
      BY <2>1, <3>1, <3>2, <3>3
  <2>2. CASE o < L
    <3> DEFINE to == Least(o + m, L)
               p == SubSeq(s, o + 1, to)
               q == SubSeq(s, to + 1, L)
    <3>1. o \in 0..L /\ Least(o, L) = o /\ o + m \in 0..N /\ ~(o >= L)
      BY <1>1, <2>2 DEF Least
    <3>2. to \in o..L /\ slice(s, o, n) = p
      BY <3>1, PageEnds
    <3>3. pages[o] = Keep(p, K)
      BY <3>1, <3>2
    <3>4. g[o] = Keep(SubSeq(s, o + 1, L), K) /\ g[o + m] = Keep(q, K)
      BY <3>1
    <3> HIDE DEF to
    <3>5. p \o q = SubSeq(s, o + 1, L)
      BY <3>1, <3>2, Adjacent
    <3>6. p \in Seq(S)
      BY <3>1, <3>2, Stretch
    <3>7. q \in Seq(S)
      <4>1. to \in 0..Len(s) /\ L \in to..Len(s)
        BY <1>1, <3>1, <3>2
      <4>2. QED
        BY <4>1, Stretch
    <3> HIDE DEF p, q
    <3>8. Keep(p \o q, K) = Keep(p, K) \o Keep(q, K)
      BY <3>6, <3>7, KeepConcat
    <3>9. QED
      BY <3>1, <3>3, <3>4, <3>5, <3>8
  <2> HIDE DEF Goal
  <2>3. o >= L \/ o < L
    BY <1>1
  <2>4. QED
    BY <2>1, <2>2, <2>3
<1>3. g = [o \in 0..N |-> g[o]]
  OBVIOUS
<1>4. g[start] = Keep(from(s, start), K)
  <2>1. start \in 0..N /\ Least(start, L) = start
    BY <1>1 DEF Least
  <2>2. QED
    BY <2>1 DEF from
<1> HIDE DEF g, pages
<1>5. Left(g, pages, n, L)
  BY <1>2, <1>3 DEF Left
<1> HIDE DEF L
<1>6. all_pages(pages, n, start, L) = g[start]
  BY <1>1, <1>5, PagesRead DEF L
<1>7. QED
  BY <1>4, <1>6 DEF pages, L

\* n entries of s after the first offset, how many they are, and how many are skipped
\* to get there by a loop that stops once it has n.
PageOf(s, offset, n) == SubSeq(s, offset + 1, Least(offset + n, Len(s)))
PageLen(s, offset, n) == IF Len(s) <= offset THEN 0 ELSE Least(n, Len(s) - offset)
SkippedIn(s, offset, n) == IF n = 0 THEN 0 ELSE Least(offset, Len(s))

\* The length and the entries of a page.
LEMMA PageIs ==
    ASSUME NEW S, NEW s \in Seq(S), NEW offset \in Nat, NEW n \in Nat
    PROVE  /\ PageLen(s, offset, n) \in Nat
           /\ PageOf(s, offset, n) \in Seq(S)
           /\ Len(PageOf(s, offset, n)) = PageLen(s, offset, n)
           /\ \A i \in 1..PageLen(s, offset, n) : PageOf(s, offset, n)[i] = s[offset + i]
<1> DEFINE L == Len(s)
           a == offset + 1
           e == Least(offset + n, L)
           c == PageLen(s, offset, n)
<1>1. L \in Nat /\ a \in Int /\ e \in Nat /\ e <= L /\ a = offset + 1
  BY DEF Least
<1>2. \A k \in a..e : s[k] \in S
  <2>1. \A k \in a..e : k \in 1..L
    BY <1>1
  <2>2. QED
    BY <2>1
<1>3. c \in Nat /\ c = IF a <= e THEN e - a + 1 ELSE 0
  BY <1>1 DEF Least, PageLen
<1>4. PageOf(s, offset, n) = SubSeq(s, a, e)
  BY DEF PageOf
<1> HIDE DEF a, e, c
<1>5. /\ SubSeq(s, a, e) \in Seq(S)
      /\ Len(SubSeq(s, a, e)) = IF a <= e THEN e - a + 1 ELSE 0
      /\ \A k \in 1..(e - a + 1) : SubSeq(s, a, e)[k] = s[a + k - 1]
  BY <1>1, <1>2, SubSeqProperties
<1>6. \A k \in 1..c : k \in 1..(e - a + 1) /\ a + k - 1 = offset + k
  BY <1>1, <1>3
<1>7. \A k \in 1..c : SubSeq(s, a, e)[k] = s[offset + k]
  BY <1>5, <1>6
<1>8. QED
  BY <1>3, <1>4, <1>5, <1>7 DEF c

\* What one more entry does to the page and to the number skipped: nothing when
\* the page is full, one more skipped while it has not begun, one more entry
\* otherwise.
LEMMA OneMoreFound ==
    ASSUME NEW S, NEW s \in Seq(S), NEW x \in S, NEW offset \in Nat, NEW n \in Nat,
           NEW p, p = PageOf(s, offset, n), NEW k, k = SkippedIn(s, offset, n),
           NEW q, q = PageOf(Append(s, x), offset, n),
           NEW l, l = SkippedIn(Append(s, x), offset, n)
    PROVE  /\ Len(p) >= n => q = p /\ l = k
           /\ ~(Len(p) >= n) /\ k < offset => q = p /\ l = k + 1
           /\ ~(Len(p) >= n) /\ ~(k < offset) => q = Append(p, x) /\ l = k
<1> DEFINE L == Len(s)
           t == Append(s, x)
           c == PageLen(s, offset, n)
           d == PageLen(t, offset, n)
<1>1. /\ t \in Seq(S) /\ Len(t) = L + 1 /\ L \in Nat
      /\ \A i \in 1..L : t[i] = s[i]
  BY AppendProperties
<1>2. t[L + 1] = x
  BY AppendProperties
<1> HIDE DEF t
<1>3. /\ c = IF Len(s) <= offset THEN 0 ELSE Least(n, Len(s) - offset)
      /\ d = IF Len(t) <= offset THEN 0 ELSE Least(n, Len(t) - offset)
  BY DEF PageLen
<1>4. q = PageOf(t, offset, n) /\ l = SkippedIn(t, offset, n)
  BY DEF t
<1> HIDE DEF c, d, L
<1>5. /\ c \in Nat /\ p \in Seq(S) /\ Len(p) = c
      /\ \A i \in 1..c : p[i] = s[offset + i]
  BY PageIs DEF c
<1>6. /\ d \in Nat /\ q \in Seq(S) /\ Len(q) = d
      /\ \A i \in 1..d : q[i] = t[offset + i]
  <2>1. t \in Seq(S)
    BY <1>1
  <2>2. /\ PageLen(t, offset, n) \in Nat
        /\ PageOf(t, offset, n) \in Seq(S)
        /\ Len(PageOf(t, offset, n)) = PageLen(t, offset, n)
        /\ \A i \in 1..PageLen(t, offset, n) : PageOf(t, offset, n)[i] = t[offset + i]
    BY <2>1, PageIs
  <2>3. QED
    BY <1>4, <2>2 DEF d
<1>7. /\ k = IF n = 0 THEN 0 ELSE Least(offset, L)
      /\ l = IF n = 0 THEN 0 ELSE Least(offset, L + 1)
  BY <1>1, <1>4 DEF SkippedIn, L
<1>8. /\ c = IF L <= offset THEN 0 ELSE Least(n, L - offset)
      /\ d = IF L + 1 <= offset THEN 0 ELSE Least(n, (L + 1) - offset)
  BY <1>1, <1>3 DEF L
<1>9. \A i \in 1..c : offset + i \in 1..L
  BY <1>1, <1>5, <1>8 DEF Least
<1>10. \A i \in 1..c : p[i] = t[offset + i]
  BY <1>1, <1>5, <1>9 DEF L
<1>11. ASSUME d = c
      PROVE  q = p
  <2>1. \A i \in 1..Len(q) : q[i] = p[i]
    BY <1>6, <1>10, <1>11
  <2>2. QED
    BY <1>5, <1>6, <1>11, <2>1, SeqEqual
<1>12. ASSUME Len(p) >= n
      PROVE  q = p /\ l = k
  <2>1. c >= n
    BY <1>5, <1>12
  <2>2. d = c /\ l = k
    BY <1>1, <1>5, <1>7, <1>8, <2>1 DEF Least
  <2>3. QED
    BY <1>11, <2>2
<1>13. ASSUME ~(Len(p) >= n), k < offset
       PROVE  q = p /\ l = k + 1
  <2>1. c < n
    BY <1>5, <1>13
  <2>2. d = c /\ l = k + 1
    BY <1>1, <1>5, <1>7, <1>8, <1>13, <2>1 DEF Least
  <2>3. QED
    BY <1>11, <2>2
<1>14. ASSUME ~(Len(p) >= n), ~(k < offset)
       PROVE  q = Append(p, x) /\ l = k
  <2> DEFINE r == Append(p, x)
  <2>1. c < n
    BY <1>5, <1>14
  <2>2. d = c + 1 /\ offset + (c + 1) = L + 1 /\ l = k
    BY <1>1, <1>5, <1>7, <1>8, <1>14, <2>1 DEF Least
  <2>3. /\ r \in Seq(S) /\ Len(r) = c + 1
        /\ \A i \in 1..c : r[i] = p[i]
    BY <1>5, AppendProperties
  <2>4. r[c + 1] = x
    BY <1>5, AppendProperties
  <2> HIDE DEF r
  <2>5. \A i \in 1..Len(q) : q[i] = r[i]
    <3> SUFFICES ASSUME NEW i \in 1..(c + 1)
                 PROVE  q[i] = r[i]
      BY <1>6, <2>2
    <3>1. q[i] = t[offset + i]
      BY <1>6, <2>2
    <3>2. CASE i \in 1..c
      BY <1>10, <2>3, <3>1, <3>2
    <3>3. CASE i = c + 1
      BY <1>2, <2>2, <2>4, <3>1, <3>3 DEF L
    <3>4. QED
      BY <1>5, <3>2, <3>3
  <2>6. q = r
    BY <1>6, <2>2, <2>3, <2>5, SeqEqual
  <2>7. QED
    BY <2>2, <2>6 DEF r
<1>15. QED
  BY <1>12, <1>13, <1>14

\* The loop of get_alerts_updated_since, entry by entry: after i entries it holds the
\* page of those found among them and has skipped as many as come before it.
LEMMA LoopFinds ==
    ASSUME NEW S, NEW ids \in Seq(S), NEW M, NEW offset \in Nat, NEW n \in Nat,
           NEW i \in 1..Len(ids),
           NEW before, before = Keep(SubSeq(ids, 1, i - 1), M),
           NEW after, after = Keep(SubSeq(ids, 1, i), M),
           NEW p, p = PageOf(before, offset, n), NEW k, k = SkippedIn(before, offset, n),
           NEW q, q = PageOf(after, offset, n), NEW l, l = SkippedIn(after, offset, n)
    PROVE  /\ Len(p) >= n \/ ids[i] \notin M => q = p /\ l = k
           /\ ~(Len(p) >= n \/ ids[i] \notin M) /\ k < offset => q = p /\ l = k + 1
           /\ ~(Len(p) >= n \/ ids[i] \notin M) /\ ~(k < offset) => q = Append(p, ids[i]) /\ l = k
<1> DEFINE s == SubSeq(ids, 1, i - 1)
           x == ids[i]
           one == Keep(<<x>>, M)
<1>1. SubSeq(ids, 1, i) = s \o <<x>>
  <2>1. 1 \in 1..Len(ids) /\ i \in 1..Len(ids)
    OBVIOUS
  <2>2. QED
    BY <2>1, SubSeqRecursiveSecond
<1>2. s \in Seq(S) /\ <<x>> \in Seq(S) /\ x \in S
  <2>1. 0 \in 0..Len(ids) /\ i - 1 \in 0..Len(ids) /\ 0 + 1 = 1
    OBVIOUS
  <2>2. SubSeq(ids, 0 + 1, i - 1) \in Seq(S)
    BY <2>1, Stretch
  <2>3. QED
    BY <2>1, <2>2
<1> HIDE DEF s, x
<1>3. before \in Seq(S) /\ before = Keep(s, M)
  BY <1>2, KeepFacts DEF s
<1>4. after = before \o one
  <2> DEFINE w == <<x>>
  <2>1. w \in Seq(S) /\ SubSeq(ids, 1, i) = s \o w
    BY <1>1, <1>2
  <2> HIDE DEF w
  <2>2. Keep(s \o w, M) = Keep(s, M) \o Keep(w, M)
    BY <1>2, <2>1, KeepConcat
  <2>3. QED
    BY <1>3, <2>1, <2>2 DEF w
<1>5. CASE x \notin M
  <2>1. one = << >>
    <3>1. one \in Seq(S) /\ Range(one) = Range(<<x>>) \cap M
      BY <1>2, KeepFacts
    <3>2. Range(<<x>>) = {x}
      BY DEF Range
    <3>3. Range(one) = {}
      BY <1>5, <3>1, <3>2
    <3>4. QED
      BY <3>1, <3>3, EmptyRange
  <2> HIDE DEF one
  <2>2. after = before
    BY <1>3, <1>4, <2>1, ConcatEmptySeq
  <2>3. q = p /\ l = k
    BY <2>2
  <2>4. QED
    BY <1>5, <2>3 DEF x
<1>6. CASE x \in M
  <2>1. one = <<x>>
    <3>1. one \in Seq(S) /\ Range(one) = Range(<<x>>) \cap M
      BY <1>2, KeepFacts
    <3>2. Range(<<x>>) = {x}
      BY DEF Range
    <3>3. Range(one) = {x}
      BY <1>6, <3>1, <3>2
    <3>4. Len(one) \in Nat /\ Len(one) <= Len(<<x>>)
      BY <1>2, KeepShorter
    <3>5. one # << >>
      BY <3>1, <3>3, EmptyRange
    <3> HIDE DEF one
    <3>6. Len(one) = 1
      BY <3>1, <3>4, <3>5
    <3>7. one[1] = x
      BY <3>1, <3>3, <3>6 DEF Range
    <3>8. QED
      BY <1>2, <3>1, <3>6, <3>7, SeqEqual
  <2> HIDE DEF one
  <2>2. after = Append(before, x)
    BY <1>2, <1>3, <1>4, <2>1, AppendIsConcat
  <2>3. q = PageOf(Append(before, x), offset, n) /\ l = SkippedIn(Append(before, x), offset, n)
    BY <2>2
  <2>4. /\ Len(p) >= n => q = p /\ l = k
        /\ ~(Len(p) >= n) /\ k < offset => q = p /\ l = k + 1
        /\ ~(Len(p) >= n) /\ ~(k < offset) => q = Append(p, x) /\ l = k
    BY <1>2, <1>3, <2>3, OneMoreFound
  <2>5. QED
    BY <1>6, <2>4 DEF x
<1>7. QED
  BY <1>5, <1>6

\* The loop as a whole.
LEMMA LoopReads ==
    ASSUME NEW t, lookup(contract_index, t) \in Seq(Ids), NEW since,
           NEW offset \in Nat, NEW n \in Nat
    PROVE  get_alerts_updated_since(t, since, offset, n)
             = PageOf(Keep(lookup(contract_index, t), modified(since)), offset, n)
<1> DEFINE ids == lookup(contract_index, t)
           M == modified(since)
           L == Len(ids)
           start == [out |-> << >>, skipped |-> 0]
           Step(b, i) == IF Len(b.out) >= n \/ ids[i] \notin M THEN b
                         ELSE IF b.skipped < offset THEN [b EXCEPT !.skipped = @ + 1]
                              ELSE [b EXCEPT !.out = Append(@, ids[i])]
           F(f) == [i \in 0..L |-> IF i = 0 THEN start ELSE Step(f[i - 1], i)]
           scan == CHOOSE f : f = F(f)
           found(i) == Keep(SubSeq(ids, 1, i), M)
           At(i) == [out |-> PageOf(found(i), offset, n),
                     skipped |-> SkippedIn(found(i), offset, n)]
           g == [i \in 0..L |-> At(i)]
<1>1. get_alerts_updated_since(t, since, offset, n) = scan[L].out
  BY DEF get_alerts_updated_since
<1>2. ids \in Seq(Ids) /\ L \in Nat
  OBVIOUS
<1> HIDE DEF ids, M
<1>3. At(0) = start
  <2>1. SubSeq(ids, 1, 0) = << >>
    BY SubSeqEmpty
  <2>2. found(0) = << >>
    <3> DEFINE e == Keep(<< >>, M)
    <3>1. << >> \in Seq(Ids) /\ Len(<< >>) = 0
      OBVIOUS
    <3>2. e \in Seq(Ids) /\ Len(e) \in Nat /\ Len(e) <= 0
      BY <3>1, KeepFacts, KeepShorter
    <3> HIDE DEF e
    <3>3. e = << >>
      BY <3>2
    <3>4. QED
      BY <2>1, <3>3 DEF e
  <2> HIDE DEF found
  <2>3. PageOf(<< >>, offset, n) = << >>
    <3>1. Least(offset + n, Len(<< >>)) = 0
      BY DEF Least
    <3>2. SubSeq(<< >>, offset + 1, 0) = << >>
      BY SubSeqEmpty
    <3>3. QED
      BY <3>1, <3>2 DEF PageOf
  <2>4. SkippedIn(<< >>, offset, n) = 0
    BY DEF SkippedIn, Least
  <2>5. QED
    BY <2>2, <2>3, <2>4
<1>4. ASSUME NEW i \in 1..L
      PROVE  At(i) = Step(At(i - 1), i)
  <2> DEFINE b == At(i - 1)
             p == PageOf(found(i - 1), offset, n)
             k == SkippedIn(found(i - 1), offset, n)
             q == PageOf(found(i), offset, n)
             l == SkippedIn(found(i), offset, n)
  <2>1. /\ Len(p) >= n \/ ids[i] \notin M => q = p /\ l = k
        /\ ~(Len(p) >= n \/ ids[i] \notin M) /\ k < offset => q = p /\ l = k + 1
        /\ ~(Len(p) >= n \/ ids[i] \notin M) /\ ~(k < offset) => q = Append(p, ids[i]) /\ l = k
    BY <1>2, LoopFinds
  <2>2. b = [out |-> p, skipped |-> k] /\ At(i) = [out |-> q, skipped |-> l]
    OBVIOUS
  <2> HIDE DEF p, k, q, l, At, b
  <2>3. b.out = p /\ b.skipped = k
    BY <2>2
  <2>4. CASE Len(p) >= n \/ ids[i] \notin M
    <3>1. At(i) = b
      BY <2>1, <2>2, <2>4
    <3>2. QED
      BY <2>3, <2>4, <3>1 DEF b
  <2>5. CASE ~(Len(p) >= n \/ ids[i] \notin M) /\ k < offset
    <3>1. At(i) = [b EXCEPT !.skipped = b.skipped + 1]
      BY <2>1, <2>2, <2>5
    <3>2. QED
      BY <2>3, <2>5, <3>1 DEF b
  <2>6. CASE ~(Len(p) >= n \/ ids[i] \notin M) /\ ~(k < offset)
    <3> DEFINE y == Append(p, ids[i])
    <3>1. q = y /\ l = k
      BY <2>1, <2>6
    <3> HIDE DEF y
    <3>2. At(i) = [b EXCEPT !.out = y]
      BY <2>2, <3>1
    <3>3. QED
      BY <2>3, <2>6, <3>2 DEF b, y
  <2>7. QED
    BY <2>4, <2>5, <2>6
<1> HIDE DEF L, start, Step, At
<1>5. \A i \in 0..L : g[i] = IF i = 0 THEN start ELSE Step(g[i - 1], i)
  <2> SUFFICES ASSUME NEW i \in 0..L
               PROVE  g[i] = IF i = 0 THEN start ELSE Step(g[i - 1], i)
    OBVIOUS
  <2>1. CASE i = 0
    BY <1>3, <2>1
  <2>2. CASE i # 0
    <3>1. i \in 1..L /\ i - 1 \in 0..L
      BY <1>2, <2>2
    <3>2. g[i] = At(i) /\ g[i - 1] = At(i - 1)
      BY <3>1
    <3>3. QED
      BY <1>4, <2>2, <3>1, <3>2
  <2>3. QED
    BY <2>1, <2>2
<1>6. g = F(g)
  <2>1. g = [i \in 0..L |-> g[i]]
    OBVIOUS
  <2> HIDE DEF g
  <2>2. QED
    BY <1>5, <2>1
<1> HIDE DEF g
<1>7. scan = F(scan)
  <2> HIDE DEF F
  <2>1. QED
    BY <1>6
<1> HIDE DEF scan
<1>8. \A i \in 0..L : scan[i] = IF i = 0 THEN start ELSE Step(scan[i - 1], i)
  <2> SUFFICES ASSUME NEW i \in 0..L
               PROVE  scan[i] = IF i = 0 THEN start ELSE Step(scan[i - 1], i)
    OBVIOUS
  <2>1. F(scan)[i] = IF i = 0 THEN start ELSE Step(scan[i - 1], i)
    OBVIOUS
  <2> HIDE DEF F
  <2>2. scan[i] = F(scan)[i]
    BY <1>7
  <2>3. QED
    BY <2>1, <2>2
<1> HIDE DEF F
<1>9. scan[L] = g[L]
  <2> DEFINE T == {i \in 0..L : scan[i] # g[i]}
  <2> SUFFICES ASSUME T # {}
               PROVE  FALSE
    <3>1. L \in 0..L
      BY <1>2
    <3>2. QED
      BY <3>1
  <2>1. T \in SUBSET Nat
    BY <1>2
  <2>2. PICK i \in T : \A j \in T : i <= j
    BY <2>1, LeastNumber
  <2>3. i \in 0..L /\ scan[i] # g[i]
    BY <2>2
  <2>4. i # 0
    BY <1>5, <1>8, <2>3
  <2>5. i - 1 \in 0..L /\ i - 1 < i
    BY <1>2, <2>3, <2>4
  <2>6. i - 1 \notin T
    BY <1>2, <2>2, <2>3, <2>5
  <2>7. scan[i - 1] = g[i - 1]
    BY <2>5, <2>6
  <2>8. QED
    BY <1>5, <1>8, <2>3, <2>4, <2>7
<1>10. g[L].out = PageOf(Keep(ids, M), offset, n)
  <2>1. SubSeq(ids, 1, L) = ids
    BY <1>2, SubSeqFull DEF L
  <2>2. L \in 0..L
    BY <1>2
  <2>3. QED
    BY <2>1, <2>2 DEF g, At
<1>11. QED
  BY <1>1, <1>9, <1>10 DEF ids, M

\* No Vec is longer than its u32 length can say.
VecsFit == \A t \in Targets : Len(lookup(contract_index, t)) <= U32_MAX

\* Nor is the Vec of an owner.
IndexesFit == VecsFit /\ \A o \in Owners : Len(lookup(owner_index, o)) <= U32_MAX

\* Whatever has lapsed, get_alerts_updated_since returns a page of the alerts modified
\* since: pages of it neither overlap nor leave a gap, for every offset and limit.
THEOREM UpdatesInPages == Spec => []UpdatedSinceIsPage
<1>1. IInv => UpdatedSinceIsPage
  <2> SUFFICES ASSUME IInv, NEW t \in Targets, NEW since \in 0..MaxTime,
                      NEW offset \in 0..U32_MAX, NEW n \in 0..U32_MAX
               PROVE  get_alerts_updated_since(t, since, offset, n)
                        = PageOf(Keep(lookup(contract_index, t), modified(since)), offset, n)
    BY DEF UpdatedSinceIsPage, PageOf
  <2>1. lookup(contract_index, t) \in Seq(Ids)
    BY LookupGood DEF IInv, ContractsOK, GoodVec
  <2>2. offset \in Nat /\ n \in Nat
    BY U32MaxAssumption
  <2>3. QED
    BY <2>1, <2>2, LoopReads
<1>2. QED
  BY <1>1, Invariance, PTL

\* Whatever has lapsed, a client that pages through any of the lists from any offset, with
\* any page size, reads what is left of the list, each live alert once: for every
\* batch bound that lets a page hold anything at all.
THEOREM PagesCover ==
    MAX_BATCH_SIZE > 0 => (Spec => [](IndexesFit => PagesTile))
<1> SUFFICES ASSUME MAX_BATCH_SIZE > 0
             PROVE  Spec => [](IndexesFit => PagesTile)
  OBVIOUS
<1>1. ASSUME IInv, IndexesFit
      PROVE  PagesTile
  <2> DEFINE K == DOMAIN alerts
  <2>1. \A n \in 1..U32_MAX : n \in Nat /\ n > 0
    BY U32MaxAssumption
  <2>2. ASSUME NEW o \in Owners
        PROVE  LET ids     == lookup(owner_index, o)
                   pages(n) == [offset \in 0..Len(ids) |->
                                  get_alerts_by_owner_paginated(o, offset, n)]
               IN  /\ \A n \in 1..U32_MAX, start \in 0..Len(ids) :
                         all_pages(pages(n), n, start, Len(ids))
                           = configs_for_ids(from(ids, start))
                   /\ get_alerts_by_owner(o) = get_alert_ids_by_owner(o)
    <3> DEFINE ids == lookup(owner_index, o)
    <3>1. ids \in Seq(Ids) /\ Len(ids) <= U32_MAX
      BY <1>1, LookupGood DEF IInv, OwnersOK, GoodVec, IndexesFit
    <3>2. ASSUME NEW n \in 1..U32_MAX, NEW start \in 0..Len(ids)
          PROVE  all_pages([offset \in 0..Len(ids) |-> Keep(slice(ids, offset, n), K)],
                           n, start, Len(ids)) = Keep(from(ids, start), K)
      BY <2>1, <3>1, FilteredPages
    <3>3. QED
      BY <3>2 DEF get_alerts_by_owner_paginated, configs_paginated, configs_for_ids,
                  get_alerts_by_owner, get_alert_ids_by_owner, live_ids
  <2>3. ASSUME NEW t \in Targets
        PROVE  LET ids     == lookup(contract_index, t)
                   pages(n) == [offset \in 0..Len(ids) |->
                                  get_contract_alerts_paginated(t, offset, n)]
                   active  == get_active_alerts_for_contract(t)
                   active_page(n) ==
                       [offset \in 0..Len(active) |-> get_active_alerts_paginated(t, offset, n)]
               IN  /\ \A n \in 1..U32_MAX, start \in 0..Len(ids) :
                         all_pages(pages(n), n, start, Len(ids))
                           = configs_for_ids(from(ids, start))
                   /\ \A n \in 1..U32_MAX, start \in 0..Len(active) :
                         all_pages(active_page(n), n, start, Len(active)) = from(active, start)
                   /\ get_alerts_for_contract(t) = get_alert_ids_for_contract(t)
    <3> DEFINE ids == lookup(contract_index, t)
               active == get_active_alerts_for_contract(t)
    <3>1. ids \in Seq(Ids) /\ Len(ids) <= U32_MAX
      BY <1>1, LookupGood DEF IInv, ContractsOK, GoodVec, IndexesFit, VecsFit
    <3>2. active \in Seq(Ids) /\ Len(active) <= U32_MAX
      <4>1. active = Keep(ids, active_ids)
        BY DEF get_active_alerts_for_contract, active_configs_for_ids
      <4> HIDE DEF ids, active
      <4>2. active \in Seq(Ids) /\ Len(active) \in Nat /\ Len(active) <= Len(ids)
        BY <3>1, <4>1, KeepFacts, KeepShorter
      <4>3. Len(ids) \in Nat
        BY <3>1
      <4>4. QED
        BY <3>1, <4>2, <4>3, U32MaxAssumption
    <3>3. ASSUME NEW n \in 1..U32_MAX, NEW start \in 0..Len(ids)
          PROVE  all_pages([offset \in 0..Len(ids) |-> Keep(slice(ids, offset, n), K)],
                           n, start, Len(ids)) = Keep(from(ids, start), K)
      BY <2>1, <3>1, FilteredPages
    <3>4. ASSUME NEW n \in 1..U32_MAX, NEW start \in 0..Len(active)
          PROVE  all_pages([offset \in 0..Len(active) |-> slice(active, offset, n)],
                           n, start, Len(active)) = from(active, start)
      BY <2>1, <3>2, ListPages
    <3>5. QED
      BY <3>3, <3>4
      DEF get_contract_alerts_paginated, configs_paginated, configs_for_ids,
          get_active_alerts_paginated, get_alerts_for_contract,
          get_alert_ids_for_contract, live_ids
  <2>4. QED
    BY <2>2, <2>3 DEF PagesTile
<1>2. IInv => (IndexesFit => PagesTile)
  BY <1>1
<1>3. QED
  BY <1>2, Invariance, PTL
-----------------------------------------------------------------------------
(* Incremental sync.                                                       *)

\* Time does not run backwards.
LEMMA TimeMovesOn ==
    ASSUME IInv, [Next]_vars
    PROVE  timestamp \in Nat /\ timestamp' \in Nat /\ timestamp <= timestamp'
<1>1. timestamp \in Nat /\ LedgerSeconds \in Nat
  BY ConstantsAssumption DEF IInv, SettingsOK
<1>2. ASSUME UNCHANGED timestamp
      PROVE  timestamp' \in Nat /\ timestamp <= timestamp'
  BY <1>1, <1>2
<1>3. CASE close_ledger
  BY <1>1, <1>3 DEF close_ledger
<1>4. CASE owner_call \/ alert_call \/ renewal_call
  BY <1>2, <1>3, <1>4, SettingsUntouched
<1>5. CASE admin_call
  <2>1. ASSUME NEW admin \in Admins, NEW id \in Ids, NEW active \in BOOLEAN,
               set_alert_active_by_admin(admin, id, active)
        PROVE  UNCHANGED timestamp
    BY <2>1 DEF set_alert_active_by_admin, amend
  <2>2. ASSUME NEW admin \in Admins, NEW id \in Ids, remove_alert_by_admin(admin, id)
        PROVE  UNCHANGED timestamp
    BY <2>2 DEF remove_alert_by_admin, remove_alert_record
  <2>3. UNCHANGED timestamp
    BY <1>5, <2>1, <2>2
    DEF admin_call, initialize, transfer_admin, add_admin, remove_admin, set_admins,
        set_per_owner_alert_limit, set_paused, set_watcher_registry
  <2>4. QED
    BY <1>2, <2>3
<1>6. CASE UNCHANGED vars
  BY <1>2, <1>6 DEF vars
<1>7. QED
  BY <1>1, <1>3, <1>4, <1>5, <1>6 DEF Next

\* An alert that a step leaves in storage was there before unchanged, or is stamped
\* with the time of the step.
LEMMA StampedOrKept ==
    ASSUME IInv, [Next]_vars, NEW id \in DOMAIN alerts'
    PROVE  \/ id \in DOMAIN alerts /\ alerts'[id] = alerts[id]
           \/ alerts'[id].updated_at = timestamp
<1>1. CASE id \in DOMAIN alerts
  BY <1>1, StepsEdit DEF Edited
<1>2. CASE id \notin DOMAIN alerts
  <2>1. PICK owner, inputs, tags :
             owner \in Owners /\ Registers(owner, inputs, tags)
    BY <1>2, StepKinds
  <2>2. Adds(owner, inputs, tags)
    BY <2>1, RegisterAdds DEF Registers
  <2>3. alerts'[id] = Registered(owner, inputs[id - next_id + 1], tags, timestamp)
    BY <1>2, <2>2 DEF Adds
  <2>4. QED
    BY <2>3 DEF Registered
<1>3. QED
  BY <1>1, <1>2

\* What has to be known of the node: it never claims a sync in the future.
SyncInv ==
    /\ IInv
    /\ last_sync \in Nat
    /\ last_sync <= timestamp
    /\ NothingMissedByPolling

\* Whatever the registry does between two polls, the next one brings it.
LEMMA RegistryStepSynced ==
    ASSUME SyncInv, [Next]_vars, UNCHANGED client
    PROVE  SyncInv'
<1>1. IInv /\ last_sync \in Nat /\ last_sync <= timestamp /\ NothingMissedByPolling
  BY DEF SyncInv
<1>2. IInv' /\ mirror' = mirror /\ last_sync' = last_sync
  BY <1>1, NextIInv DEF client
<1>3. timestamp \in Nat /\ timestamp' \in Nat /\ timestamp <= timestamp'
  BY <1>1, TimeMovesOn
<1>4. DOMAIN alerts' \subseteq 0..(next_id' - 1)
  BY <1>2 DEF IInv, AlertsOK
<1>5. ASSUME NEW id \in DOMAIN alerts'
      PROVE  in_step(id)' \/ id \in get_alerts_modified_since(last_sync)'
  <2>1. CASE id \in DOMAIN alerts /\ alerts'[id] = alerts[id]
    <3>1. in_step(id) \/ alerts[id].updated_at >= last_sync
      BY <1>1, <2>1 DEF NothingMissedByPolling, get_alerts_modified_since, modified
    <3>2. QED
      BY <1>2, <1>4, <1>5, <2>1, <3>1 DEF in_step, get_alerts_modified_since, modified
  <2>2. CASE alerts'[id].updated_at = timestamp
    <3>1. alerts'[id].updated_at >= last_sync'
      BY <1>1, <1>2, <1>3, <2>2
    <3>2. QED
      BY <1>4, <1>5, <3>1 DEF get_alerts_modified_since, modified
  <2>3. QED
    BY <1>1, <1>5, <2>1, <2>2, StampedOrKept
<1>6. last_sync' <= timestamp'
  BY <1>1, <1>2, <1>3
<1>7. QED
  BY <1>1, <1>2, <1>5, <1>6 DEF SyncInv, NothingMissedByPolling

\* A poll brings the copy up to date.
LEMMA PollSynced ==
    ASSUME SyncInv, poll
    PROVE  SyncInv'
<1> DEFINE received == get_alerts_modified_since(last_sync)
           copy     == mirror'
<1>1. /\ copy = [id \in DOMAIN mirror \cup received |->
                    IF id \in received THEN alerts[id] ELSE mirror[id]]
      /\ last_sync' = timestamp /\ UNCHANGED vars
  BY DEF poll
<1>2. /\ IInv /\ NothingMissedByPolling
      /\ timestamp \in Nat /\ timestamp' = timestamp /\ alerts' = alerts
  BY <1>1 DEF SyncInv, IInv, SettingsOK, vars
<1>3. IInv'
  BY <1>1, <1>2, NextIInv
<1>4. last_sync' \in Nat /\ last_sync' <= timestamp'
  BY <1>1, <1>2
<1>5. ASSUME NEW id \in DOMAIN alerts
      PROVE  id \in DOMAIN copy /\ copy[id] = alerts[id]
  BY <1>1, <1>2, <1>5 DEF NothingMissedByPolling, in_step
<1>6. NothingMissedByPolling'
  BY <1>2, <1>5 DEF NothingMissedByPolling, in_step
<1>7. QED
  BY <1>3, <1>4, <1>6 DEF SyncInv

\* Incremental sync is safe: whenever the node's copy differs from a stored alert
\* the next poll brings that alert, also if it changed after the last poll but in
\* the same ledger, and however many polls are missed.
THEOREM PollingMissesNothing == SyncSpec => []NothingMissedByPolling
<1>1. SyncInit => SyncInv
  <2> SUFFICES ASSUME SyncInit
               PROVE  SyncInv
    OBVIOUS
  <2>1. IInv /\ DOMAIN alerts = {} /\ last_sync = 0 /\ timestamp = 0
    BY InitIInv DEF SyncInit, Init, NoEntries
  <2>2. QED
    BY <2>1 DEF SyncInv, NothingMissedByPolling
<1>2. SyncInv /\ [SyncNext]_sync_vars => SyncInv'
  BY RegistryStepSynced, PollSynced DEF SyncNext, sync_vars
<1>3. SyncInv => NothingMissedByPolling
  BY DEF SyncInv
<1>4. QED
  BY <1>1, <1>2, <1>3, PTL DEF SyncSpec
-----------------------------------------------------------------------------
(* Gated reads.                                                            *)

\* The list the node is reading.
Reading == lookup(contract_index, page.target)

\* What the node holds and what is still ahead of it make up what was due, as long
\* as the list has only grown.
AheadOrSeen ==
    \A id \in due : \/ id \in page.seen
                    \/ \E i \in DOMAIN Reading : page.offset < i /\ Reading[i] = id

ReadingInv ==
    /\ IInv
    /\ AllExact
    /\ page = [target |-> page.target, offset |-> page.offset, seen |-> page.seen]
    /\ page.offset \in Nat
    /\ reader # Idle => page.target \in Targets
    /\ reader # Idle /\ quiet => AheadOrSeen
    /\ reader = Idle /\ quiet => due \subseteq page.seen

\* A page holds every entry from its offset up to its size.
LEMMA SliceHolds ==
    ASSUME MAX_BATCH_SIZE > 0, NEW S, NEW s \in Seq(S), Len(s) <= U32_MAX,
           NEW offset \in Nat, NEW n \in Nat,
           NEW i \in DOMAIN s, offset < i, i <= offset + Least(n, MAX_BATCH_SIZE)
    PROVE  slice(s, offset, n) \in Seq(S) /\ s[i] \in Range(slice(s, offset, n))
<1> DEFINE L == Len(s)
           m == Least(n, MAX_BATCH_SIZE)
           a == Least(offset, L) + 1
           b == Least(Least(offset + m, U32_MAX), L)
           p == SubSeq(s, a, b)
<1>1. L \in Nat /\ MAX_BATCH_SIZE \in Nat /\ U32_MAX \in Nat /\ i \in 1..L
  BY ConstantsAssumption, U32MaxAssumption
<1>2. m \in Nat
  BY <1>1 DEF Least
<1> HIDE DEF L, m
<1>3. L <= U32_MAX /\ i <= offset + m
  BY DEF L, m
<1>4. a = offset + 1 /\ b \in Nat /\ i <= b /\ b <= L
  BY <1>1, <1>2, <1>3 DEF Least
<1>5. slice(s, offset, n) = p
  BY DEF slice, L, m
<1> HIDE DEF a, b, p
<1>6. a \in Int /\ b \in Int /\ \A k \in a..b : s[k] \in S
  <2>1. \A k \in a..b : k \in 1..L
    BY <1>1, <1>4
  <2>2. QED
    BY <1>4, <2>1 DEF L
<1>7. /\ SubSeq(s, a, b) \in Seq(S)
      /\ Len(SubSeq(s, a, b)) = IF a <= b THEN b - a + 1 ELSE 0
      /\ \A k \in 1..(b - a + 1) : SubSeq(s, a, b)[k] = s[a + k - 1]
  BY <1>6, SubSeqProperties
<1>8. i - offset \in 1..(b - a + 1) /\ a + (i - offset) - 1 = i /\ a <= b
  BY <1>1, <1>4
<1>9. p \in Seq(S) /\ i - offset \in DOMAIN p /\ p[i - offset] = s[i]
  <2>1. p \in Seq(S)
    BY <1>7 DEF p
  <2>2. Len(p) = b - a + 1
    BY <1>7, <1>8 DEF p
  <2>3. i - offset \in DOMAIN p
    BY <1>8, <2>1, <2>2
  <2>4. p[i - offset] = s[a + (i - offset) - 1]
    BY <1>7, <1>8 DEF p
  <2>5. QED
    BY <1>8, <2>1, <2>3, <2>4
<1>10. QED
  BY <1>5, <1>9 DEF Range

\* A page of an exact index brings every entry it covers.
LEMMA PageBrings ==
    ASSUME MAX_BATCH_SIZE > 0, IInv, AllExact, VecsFit, NEW t \in Targets,
           NEW offset \in Nat,
           NEW i \in DOMAIN lookup(contract_index, t), offset < i,
           i <= offset + Least(PageSize, MAX_BATCH_SIZE)
    PROVE  lookup(contract_index, t)[i]
              \in Range(get_contract_alerts_paginated(t, offset, PageSize))
<1> DEFINE list == lookup(contract_index, t)
           p    == slice(list, offset, PageSize)
<1>1. list \in Seq(Ids)
  BY LookupGood DEF IInv, ContractsOK, GoodVec
<1>2. PageSize \in Nat /\ Len(list) <= U32_MAX
  BY GatingAssumption, U32MaxAssumption DEF VecsFit
<1>3. p \in Seq(Ids) /\ list[i] \in Range(p)
  BY <1>1, <1>2, SliceHolds
<1>4. list[i] \in DOMAIN alerts
  <2>1. list[i] \in Listed(contract_index, t)
    BY DEF Listed, Range
  <2>2. QED
    BY <2>1 DEF AllExact, Exact, target_of
<1> HIDE DEF p
<1>5. Range(Keep(p, DOMAIN alerts)) = Range(p) \cap DOMAIN alerts
  BY <1>3, KeepFacts
<1>6. QED
  BY <1>3, <1>4, <1>5
  DEF get_contract_alerts_paginated, configs_paginated, configs_for_ids, p

\* The composed system takes steps of the registry.
LEMMA GatingSteps ==
    ASSUME GatingNext
    PROVE  [Next]_vars
<1>1. ASSUME NEW querier, NEW target, begin(querier, target)
      PROVE  UNCHANGED vars
  BY <1>1 DEF begin, alert_vars
<1>2. CASE read_page \/ finish \/ give_up \/ watchers_change
  BY <1>2 DEF read_page, finish, give_up, watchers_change, gated_read, alert_vars
<1>3. CASE others_act \/ ledger_closes
  BY <1>3 DEF others_act, ledger_closes, Next
<1>4. QED
  BY <1>1, <1>2, <1>3 DEF GatingNext

\* A node that begins has everything ahead of it.
LEMMA BeginReading ==
    ASSUME ReadingInv, IInv', AllExact', NEW querier \in Watchers, NEW target \in Targets,
           begin(querier, target)
    PROVE  ReadingInv'
<1> DEFINE list == lookup(contract_index, target)
<1>1. /\ reader' = querier /\ page' = [target |-> target, offset |-> 0, seen |-> {}]
      /\ due' = Range(list) /\ contract_index' = contract_index
  BY DEF begin, no_page, alert_vars, vars, indexes
<1>2. list \in Seq(Ids)
  BY LookupGood DEF ReadingInv, IInv, ContractsOK, GoodVec
<1>3. reader' # Idle
  BY <1>1, GatingAssumption
<1>4. page'.target = target /\ page'.offset = 0 /\ page'.seen = {} /\ Reading' = list
  BY <1>1 DEF Reading, lookup
<1>5. AheadOrSeen'
  <2>1. \A id \in Range(list) : \E i \in DOMAIN list : 0 < i /\ list[i] = id
    BY <1>2 DEF Range
  <2>2. QED
    BY <1>1, <1>4, <2>1 DEF AheadOrSeen
<1>6. QED
  BY <1>1, <1>3, <1>4, <1>5 DEF ReadingInv

\* What a page covers the node has seen after it; the rest is still ahead.
LEMMA ReadPage ==
    ASSUME MAX_BATCH_SIZE > 0, VecsFit, ReadingInv, IInv', AllExact', read_page
    PROVE  ReadingInv'
<1> DEFINE got == get_contract_alerts_paginated(page.target, page.offset, PageSize)
           m   == Least(PageSize, MAX_BATCH_SIZE)
<1>1. /\ reader # Idle /\ UNCHANGED <<reader, due, quiet>> /\ contract_index' = contract_index
      /\ page' = [page EXCEPT !.offset = @ + m, !.seen = @ \cup Range(got)]
  BY DEF read_page, gated_read, alert_vars, vars, indexes
<1>2. /\ page = [target |-> page.target, offset |-> page.offset, seen |-> page.seen]
      /\ page.offset \in Nat /\ page.target \in Targets /\ (quiet => AheadOrSeen)
      /\ IInv /\ AllExact
  BY <1>1 DEF ReadingInv
<1>3. m \in Nat
  BY GatingAssumption, ConstantsAssumption, U32MaxAssumption DEF Least
<1>4. \A i \in DOMAIN Reading :
         page.offset < i /\ i <= page.offset + m => Reading[i] \in Range(got)
  BY <1>2, PageBrings DEF Reading
<1>5. \A i \in DOMAIN Reading : i \in Nat
  <2>1. Reading \in Seq(Ids)
    BY <1>2, LookupGood DEF Reading, IInv, ContractsOK, GoodVec
  <2>2. QED
    BY <2>1
<1> HIDE DEF got, m
<1>6. /\ page' = [target |-> page'.target, offset |-> page'.offset, seen |-> page'.seen]
      /\ page'.target = page.target /\ page'.offset = page.offset + m
      /\ page'.seen = page.seen \cup Range(got)
  BY <1>1, <1>2
<1>7. Reading' = Reading
  BY <1>1, <1>6 DEF Reading, lookup
<1>8. ASSUME quiet
      PROVE  AheadOrSeen'
  <2>1. ASSUME NEW id \in due
        PROVE  \/ id \in page'.seen
               \/ \E i \in DOMAIN Reading : page'.offset < i /\ Reading[i] = id
    <3>1. CASE id \in page.seen
      BY <1>6, <3>1
    <3>2. ASSUME NEW i \in DOMAIN Reading, page.offset < i, Reading[i] = id
          PROVE  \/ id \in page'.seen
                 \/ \E k \in DOMAIN Reading : page'.offset < k /\ Reading[k] = id
      <4>1. CASE i <= page.offset + m
        BY <1>4, <1>6, <3>2, <4>1
      <4>2. CASE ~(i <= page.offset + m)
        <5>1. page'.offset < i
          BY <1>2, <1>3, <1>5, <1>6, <4>2
        <5>2. QED
          BY <3>2, <5>1
      <4>3. QED
        BY <4>1, <4>2
    <3>3. QED
      BY <1>2, <1>8, <2>1, <3>1, <3>2 DEF AheadOrSeen
  <2>2. QED
    BY <1>1, <1>7, <2>1 DEF AheadOrSeen
<1>9. QED
  BY <1>1, <1>2, <1>3, <1>6, <1>8 DEF ReadingInv

\* The empty page means that nothing is ahead.
LEMMA FinishReading ==
    ASSUME MAX_BATCH_SIZE > 0, VecsFit, ReadingInv, IInv', AllExact', finish
    PROVE  ReadingInv'
<1> DEFINE got == get_contract_alerts_paginated(page.target, page.offset, PageSize)
           m   == Least(PageSize, MAX_BATCH_SIZE)
<1>1. reader # Idle /\ got = << >> /\ reader' = Idle /\ UNCHANGED <<page, due, quiet>>
  BY DEF finish
<1>2. /\ page = [target |-> page.target, offset |-> page.offset, seen |-> page.seen]
      /\ page.offset \in Nat /\ page.target \in Targets /\ (quiet => AheadOrSeen)
      /\ IInv /\ AllExact
  BY <1>1 DEF ReadingInv
<1>3. m \in Nat /\ m > 0
  BY GatingAssumption, ConstantsAssumption, U32MaxAssumption DEF Least
<1>4. Reading \in Seq(Ids)
  BY <1>2, LookupGood DEF Reading, IInv, ContractsOK, GoodVec
<1>5. ASSUME NEW i \in DOMAIN Reading, page.offset < i
      PROVE  FALSE
  <2> DEFINE k == page.offset + 1
  <2>1. k \in DOMAIN Reading /\ page.offset < k /\ k <= page.offset + m
    BY <1>2, <1>3, <1>4, <1>5
  <2> HIDE DEF k, m
  <2>2. Reading[k] \in Range(got)
    BY <1>2, <2>1, PageBrings DEF Reading, m
  <2>3. Range(<< >>) = {}
    BY DEF Range
  <2>4. QED
    BY <1>1, <2>2, <2>3
<1>6. quiet => due \subseteq page.seen
  BY <1>2, <1>5 DEF AheadOrSeen
<1>7. QED
  BY <1>1, <1>2, <1>6 DEF ReadingInv

\* A step of others leaves ahead what was ahead, unless the list has not only grown.
LEMMA OthersStep ==
    ASSUME ReadingInv, IInv', AllExact', list_moves
    PROVE  ReadingInv'
<1>1. /\ reader' = reader /\ page' = page
      /\ quiet' => quiet /\ due' = due
      /\ quiet' /\ reader # Idle => only_grown
  BY DEF list_moves, forget
<1>2. ASSUME quiet', reader # Idle
      PROVE  AheadOrSeen'
  <2> DEFINE before == Reading
             after  == Reading'
  <2>1. quiet /\ only_grown /\ AheadOrSeen
    BY <1>1, <1>2 DEF ReadingInv
  <2>2. Len(before) <= Len(after) /\ SubSeq(after, 1, Len(before)) = before
    BY <1>1, <2>1 DEF only_grown, Reading, lookup
  <2>3. before \in Seq(Ids) /\ after \in Seq(Ids)
    <3>1. before \in Seq(Ids)
      BY LookupGood DEF Reading, ReadingInv, IInv, ContractsOK, GoodVec
    <3>2. GoodIndex(contract_index', Targets, next_id')
      BY DEF IInv, ContractsOK
    <3>3. GoodVec(lookup(contract_index', page'.target), next_id')
      BY <3>2, LookupGood
    <3>4. QED
      BY <3>1, <3>3 DEF Reading, lookup, GoodVec
  <2> HIDE DEF before, after
  <2>4. \A i \in DOMAIN before : i \in DOMAIN after /\ after[i] = before[i]
    <3> DEFINE n == Len(before)
    <3>1. n \in Nat /\ Len(after) \in Nat /\ DOMAIN before = 1..n /\ n <= Len(after)
      BY <2>2, <2>3
    <3>2. \A i \in 1..n : i \in 1..Len(after)
      BY <3>1
    <3>3. \A i \in 1..n : after[i] \in Ids
      BY <2>3, <3>2
    <3> HIDE DEF n
    <3>4. \A i \in 1..(n - 1 + 1) : SubSeq(after, 1, n)[i] = after[1 + i - 1]
      BY <3>1, <3>3, SubSeqProperties
    <3>5. \A i \in 1..n : before[i] = after[i]
      <4>1. ASSUME NEW i \in 1..n
            PROVE  i \in 1..(n - 1 + 1) /\ 1 + i - 1 = i
        BY <3>1
      <4>2. QED
        BY <2>2, <3>4, <4>1 DEF n
    <3>6. QED
      BY <2>3, <3>1, <3>2, <3>5
  <2>5. \A id \in due : \/ id \in page.seen
                        \/ \E i \in DOMAIN after : page.offset < i /\ after[i] = id
    BY <2>1, <2>4 DEF AheadOrSeen, before
  <2>6. due' = due /\ page' = page
    BY <1>1, <1>2
  <2>7. QED
    BY <2>5, <2>6 DEF AheadOrSeen, after
<1>3. QED
  BY <1>1, <1>2 DEF ReadingInv

\* Every step of the composed system keeps the invariant.
LEMMA ReadingStep ==
    ASSUME MAX_BATCH_SIZE > 0, ~Archival, VecsFit, ReadingInv, [GatingNext]_gating_vars
    PROVE  ReadingInv'
<1>1. [Next]_vars
  BY GatingSteps DEF gating_vars, alert_vars
<1>2. IInv' /\ AllExact'
  BY <1>1, NextIInv, ExactStep DEF ReadingInv
<1>3. ASSUME NEW querier \in Watchers, NEW target \in Targets, begin(querier, target)
      PROVE  ReadingInv'
  BY <1>2, <1>3, BeginReading
<1>4. CASE read_page
  BY <1>2, <1>4, ReadPage
<1>5. CASE finish
  BY <1>2, <1>5, FinishReading
<1>6. CASE give_up
  BY <1>2, <1>6 DEF give_up, forget, no_page, ReadingInv
<1>7. CASE others_act \/ ledger_closes
  BY <1>2, <1>7, OthersStep DEF others_act, ledger_closes
<1>8. ASSUME UNCHANGED <<vars, reading, quiet>>
      PROVE  ReadingInv'
  <2>1. /\ reader' = reader /\ page' = page /\ due' = due /\ quiet' = quiet
        /\ contract_index' = contract_index
    BY <1>8 DEF vars, indexes, reading
  <2>2. AheadOrSeen => AheadOrSeen'
    BY <2>1 DEF AheadOrSeen, Reading, lookup
  <2>3. QED
    BY <1>2, <2>1, <2>2 DEF ReadingInv
<1>9. CASE watchers_change \/ UNCHANGED gating_vars
  BY <1>8, <1>9 DEF watchers_change, gating_vars, alert_vars
<1>10. QED
  BY <1>3, <1>4, <1>5, <1>6, <1>7, <1>9 DEF GatingNext

\* A node that reads page by page to the empty page holds every alert that was
\* listed when it began, if the list only grew meanwhile and nothing lapsed: for
\* every page size and every batch bound that lets a page hold anything at all.
THEOREM ReadingComplete ==
    MAX_BATCH_SIZE > 0 => (GatingSpec /\ []VecsFit => []PagesMissNothing)
<1> SUFFICES ASSUME MAX_BATCH_SIZE > 0
             PROVE  GatingSpec /\ []VecsFit => []PagesMissNothing
  OBVIOUS
<1>1. CASE Archival
  <2>1. PagesMissNothing
    BY <1>1 DEF PagesMissNothing
  <2>2. QED
    BY <2>1, PTL
<1>2. CASE ~Archival
  <2>1. GatingInit => ReadingInv
    <3> SUFFICES ASSUME GatingInit
                 PROVE  ReadingInv
      OBVIOUS
    <3>1. /\ IInv /\ AllExact
      BY InitIInv, InitExact DEF GatingInit
    <3>2. page.offset = 0 /\ reader = Idle /\ due = {}
          /\ page = [target |-> page.target, offset |-> page.offset, seen |-> page.seen]
      BY DEF GatingInit, no_page
    <3>3. QED
      BY <3>1, <3>2 DEF ReadingInv
  <2>2. ReadingInv /\ VecsFit /\ [GatingNext]_gating_vars => ReadingInv'
    BY <1>2, ReadingStep
  <2>3. ReadingInv => PagesMissNothing
    BY DEF ReadingInv, PagesMissNothing
  <2>4. QED
    BY <2>1, <2>2, <2>3, PTL DEF GatingSpec
<1>3. QED
  BY <1>1, <1>2
-----------------------------------------------------------------------------
(* The keeper.  A call never shortens the life of an entry it keeps, so    *)
(* what the keeper has renewed in this ledger survives its end.            *)

\* From t to u no life gets shorter unless the entry was created anew: every
\* entry of u has a ledger left to live or the life it had in t.
HoldsLives(t, u) ==
    \A k \in DOMAIN u : u[k] > 0 \/ (k \in DOMAIN t /\ u[k] = t[k])

\* extend_ttl holds lives, and what it extends by a ledger or more has one left.
LEMMA ExtendHolds ==
    ASSUME NEW D, NEW t, IsTable(t, D, Nat), NEW K, NEW n \in Nat,
           0 < n \/ K \subseteq DOMAIN t
    PROVE  /\ HoldsLives(t, Extend(t, K, n))
           /\ 0 < n => \A k \in K : Extend(t, K, n)[k] > 0
<1>1. \A k \in DOMAIN t : t[k] \in Nat
  BY DEF IsTable
<1>2. MIN_TTL \in Nat
  BY MinTtlAssumption
<1>3. DOMAIN Extend(t, K, n) = DOMAIN t \cup K
  BY DEF Extend
<1>4. ASSUME NEW k \in DOMAIN t \cup K
      PROVE  /\ Extend(t, K, n)[k] > 0 \/ (k \in DOMAIN t /\ Extend(t, K, n)[k] = t[k])
             /\ 0 < n /\ k \in K => Extend(t, K, n)[k] > 0
  <2>1. Extend(t, K, n)[k] =
           IF k \notin K THEN t[k]
           ELSE AtLeast(IF k \in DOMAIN t THEN t[k] ELSE MIN_TTL, n)
    BY DEF Extend
  <2>2. CASE k \notin K
    BY <2>1, <2>2
  <2>3. CASE k \in K /\ k \in DOMAIN t
    BY <1>1, <2>1, <2>3 DEF AtLeast
  <2>4. CASE k \in K /\ k \notin DOMAIN t
    BY <1>2, <2>1, <2>4 DEF AtLeast
  <2>5. QED
    BY <2>2, <2>3, <2>4
<1>5. QED
  BY <1>3, <1>4 DEF HoldsLives

\* Removing an entry shortens no other life.
LEMMA DropHolds ==
    ASSUME NEW t, NEW k
    PROVE  HoldsLives(t, Drop(t, k))
  BY DropEffect DEF HoldsLives

\* Two calls that hold lives do so one after the other.
LEMMA HoldsTwice ==
    ASSUME NEW t, NEW u, NEW v, HoldsLives(t, u), HoldsLives(u, v)
    PROVE  HoldsLives(t, v)
<1> SUFFICES ASSUME NEW k \in DOMAIN v, ~(v[k] > 0)
             PROVE  k \in DOMAIN t /\ v[k] = t[k]
  BY DEF HoldsLives
<1>1. k \in DOMAIN u /\ v[k] = u[k]
  BY DEF HoldsLives
<1>2. k \in DOMAIN t /\ u[k] = t[k]
  BY <1>1 DEF HoldsLives
<1>3. QED
  BY <1>1, <1>2

\* Writing an index entry back, or deleting it when it is empty, holds lives.
LEMMA StoreTtlHolds ==
    ASSUME 0 < DEFAULT_TTL, NEW Keys, NEW t, IsTable(t, Keys, Nat), NEW key, NEW ids
    PROVE  HoldsLives(t, store_ttl(t, key, ids))
<1>1. DEFAULT_TTL \in Nat
  BY ConstantsAssumption
<1>2. HoldsLives(t, Extend(t, {key}, DEFAULT_TTL))
  BY <1>1, ExtendHolds
<1>3. HoldsLives(t, Drop(t, key))
  BY DropHolds
<1>4. QED
  BY <1>2, <1>3 DEF store_ttl

\* The calls of a ledger hold the lives of all entries, the instance's included,
\* and run only while the instance is live.
LivesHeld ==
    /\ instance_live /\ ttl.instance <= ttl'.instance
    /\ HoldsLives(ttl.alert, ttl'.alert)
    /\ HoldsLives(ttl.active, ttl'.active)
    /\ HoldsLives(ttl.owner, ttl'.owner)
    /\ HoldsLives(ttl.contract, ttl'.contract)

\* An alert that stays in storage keeps its owner or gets one whose index entry
\* survives this ledger, and so for its contract.
HomesHeld ==
    \A id \in DOMAIN alerts \cap DOMAIN alerts' :
        /\ \/ alerts'[id].owner = alerts[id].owner
           \/ ttl'.owner[alerts'[id].owner] > 0
        /\ \/ alerts'[id].target_contract = alerts[id].target_contract
           \/ ttl'.contract[alerts'[id].target_contract] > 0

\* The lives of the four kinds of entries, one by one.
LEMMA LifeFacts ==
    ASSUME IInv
    PROVE  /\ ttl = [alert |-> ttl.alert, active |-> ttl.active, owner |-> ttl.owner,
                     contract |-> ttl.contract, instance |-> ttl.instance]
           /\ IsTable(ttl.alert, Ids, Nat) /\ IsTable(ttl.active, Ids, Nat)
           /\ IsTable(ttl.owner, Owners, Nat) /\ IsTable(ttl.contract, Targets, Nat)
           /\ ttl.instance \in Int
           /\ DOMAIN ttl.alert = DOMAIN alerts /\ DOMAIN ttl.active = DOMAIN alert_active
           /\ DOMAIN ttl.owner = DOMAIN owner_index
           /\ DOMAIN ttl.contract = DOMAIN contract_index
           /\ DEFAULT_TTL \in Nat /\ MAX_TTL \in Nat
  BY ConstantsAssumption DEF IInv, LivesOK, TtlTypeOK, LivesMatchEntries

\* What the calls that only extend lives leave of them.
LEMMA ExtensionsHold ==
    ASSUME IInv, 0 < DEFAULT_TTL
    PROVE  /\ \A K : /\ HoldsLives(ttl.alert, Extend(ttl.alert, K, DEFAULT_TTL))
                     /\ HoldsLives(ttl.active, Extend(ttl.active, K, DEFAULT_TTL))
                     /\ HoldsLives(ttl.owner, Extend(ttl.owner, K, DEFAULT_TTL))
                     /\ HoldsLives(ttl.contract, Extend(ttl.contract, K, DEFAULT_TTL))
           /\ \A t : HoldsLives(t, t)
<1>1. \A t : HoldsLives(t, t)
  BY DEF HoldsLives
<1>2. ASSUME NEW K
      PROVE  /\ HoldsLives(ttl.alert, Extend(ttl.alert, K, DEFAULT_TTL))
             /\ HoldsLives(ttl.active, Extend(ttl.active, K, DEFAULT_TTL))
             /\ HoldsLives(ttl.owner, Extend(ttl.owner, K, DEFAULT_TTL))
             /\ HoldsLives(ttl.contract, Extend(ttl.contract, K, DEFAULT_TTL))
  <2>1. DEFAULT_TTL \in Nat
    BY ConstantsAssumption
  <2>2. HoldsLives(ttl.alert, Extend(ttl.alert, K, DEFAULT_TTL))
    BY <2>1, LifeFacts, ExtendHolds
  <2>3. HoldsLives(ttl.active, Extend(ttl.active, K, DEFAULT_TTL))
    BY <2>1, LifeFacts, ExtendHolds
  <2>4. HoldsLives(ttl.owner, Extend(ttl.owner, K, DEFAULT_TTL))
    BY <2>1, LifeFacts, ExtendHolds
  <2>5. HoldsLives(ttl.contract, Extend(ttl.contract, K, DEFAULT_TTL))
    BY <2>1, LifeFacts, ExtendHolds
  <2>6. QED
    BY <2>2, <2>3, <2>4, <2>5
<1>3. QED
  BY <1>1, <1>2

\* Renewals, whatever life is asked for, change nothing but lives and hold them.
LEMMA RenewalHolds ==
    ASSUME IInv, 0 < DEFAULT_TTL,
           \/ \E id \in Ids, life \in Nat : bump_alert(id, life)
           \/ \E ids \in SUBSET Ids : bulk_renew_ttl(ids)
           \/ \E id \in Ids : get_alert(id)
    PROVE  /\ LivesHeld
           /\ UNCHANGED <<settings, next_id, alerts, alert_active, indexes, timestamp>>
<1>1. UNCHANGED <<settings, next_id, alerts, alert_active, indexes, timestamp>>
  BY DEF bump_alert, bulk_renew_ttl, get_alert
<1>2. ASSUME NEW id \in Ids, NEW life \in Nat, bump_alert(id, life)
      PROVE  LivesHeld
  <2> DEFINE n == IF life <= MAX_TTL THEN life ELSE MAX_TTL
             owner == alerts[id].owner
             target == alerts[id].target_contract
  <2>1. /\ id \in DOMAIN alerts /\ id \in DOMAIN alert_active
        /\ owner \in DOMAIN owner_index /\ target \in DOMAIN contract_index
        /\ instance_live
    BY <1>2 DEF bump_alert, index_keys_live
  <2>2. /\ ttl'.alert = Extend(ttl.alert, {id}, n)
        /\ ttl'.active = Extend(ttl.active, {id}, n)
        /\ ttl'.owner = Extend(ttl.owner, {owner}, n)
        /\ ttl'.contract = Extend(ttl.contract, {target}, n)
        /\ ttl'.instance = AtLeast(ttl.instance, n)
    BY <1>2 DEF bump_alert
  <2>3. n \in Nat
    BY LifeFacts
  <2> HIDE DEF n, owner, target
  <2>4. /\ {id} \subseteq DOMAIN ttl.alert /\ {id} \subseteq DOMAIN ttl.active
        /\ {owner} \subseteq DOMAIN ttl.owner /\ {target} \subseteq DOMAIN ttl.contract
    BY <2>1, LifeFacts
  <2>5. HoldsLives(ttl.alert, ttl'.alert) /\ HoldsLives(ttl.active, ttl'.active)
    BY <2>2, <2>3, <2>4, LifeFacts, ExtendHolds
  <2>6. HoldsLives(ttl.owner, ttl'.owner) /\ HoldsLives(ttl.contract, ttl'.contract)
    BY <2>2, <2>3, <2>4, LifeFacts, ExtendHolds
  <2>7. ttl.instance <= ttl'.instance
    BY <2>2, <2>3, LifeFacts DEF AtLeast
  <2>8. QED
    BY <2>1, <2>5, <2>6, <2>7 DEF LivesHeld
<1>3. ASSUME NEW ids \in SUBSET Ids, bulk_renew_ttl(ids)
      PROVE  LivesHeld
  <2> DEFINE live == ids \cap DOMAIN alerts
             owners == {alerts[id].owner : id \in live}
             targets == {alerts[id].target_contract : id \in live}
  <2>1. /\ ttl'.alert = Extend(ttl.alert, live, DEFAULT_TTL)
        /\ ttl'.active = Extend(ttl.active, live, DEFAULT_TTL)
        /\ ttl'.owner = Extend(ttl.owner, owners, DEFAULT_TTL)
        /\ ttl'.contract = Extend(ttl.contract, targets, DEFAULT_TTL)
        /\ ttl'.instance = ttl.instance /\ instance_live
    BY <1>3, LifeFacts DEF bulk_renew_ttl
  <2> HIDE DEF live, owners, targets
  <2>2. ttl.instance <= ttl'.instance
    BY <2>1, LifeFacts
  <2>3. QED
    BY <2>1, <2>2, ExtensionsHold DEF LivesHeld
<1>4. ASSUME NEW id \in Ids, get_alert(id)
      PROVE  LivesHeld
  <2>1. /\ ttl'.alert = Extend(ttl.alert, {id}, DEFAULT_TTL)
        /\ ttl'.active = ttl.active /\ ttl'.owner = ttl.owner
        /\ ttl'.contract = ttl.contract
        /\ ttl'.instance = ttl.instance /\ instance_live
    BY <1>4, LifeFacts DEF get_alert
  <2>2. ttl.instance <= ttl'.instance
    BY <2>1, LifeFacts
  <2>3. QED
    BY <2>1, <2>2, ExtensionsHold DEF LivesHeld
<1>5. QED
  BY <1>1, <1>2, <1>3, <1>4

\* The calls that rewrite an alert where it is extend it and more.
LEMMA EditHolds ==
    ASSUME IInv, 0 < DEFAULT_TTL, NEW id \in Ids,
           \/ \E admin \in Admins, active \in BOOLEAN :
                 set_alert_active_by_admin(admin, id, active)
           \/ \E caller \in Owners :
                 \/ \E rules \in RuleLists, active \in BOOLEAN :
                       update_alert(caller, id, rules, active)
                 \/ \E hash \in Hashes : update_webhook(caller, id, hash)
                 \/ \E hash \in Hashes : propose_webhook(caller, id, hash)
                 \/ confirm_webhook(caller, id)
                 \/ \E label \in Labels : update_label(caller, id, label)
                 \/ \E tags \in TagLists \cup {None} : update_tags(caller, id, tags)
    PROVE  LivesHeld /\ HomesHeld
<1> DEFINE owner == alerts[id].owner
           target == alerts[id].target_contract
<1>1. CASE \/ \E admin \in Admins, active \in BOOLEAN :
                 set_alert_active_by_admin(admin, id, active)
           \/ \E caller \in Owners, rules \in RuleLists, active \in BOOLEAN :
                 update_alert(caller, id, rules, active)
  <2>1. HomesHeld
    <3>1. PICK active \in BOOLEAN :
             \/ \E admin \in Admins : set_alert_active_by_admin(admin, id, active)
             \/ \E caller \in Owners, rules \in RuleLists :
                   update_alert(caller, id, rules, active)
      BY <1>1
    <3>2. /\ alerts'[id].owner = owner /\ alerts'[id].target_contract = target
          /\ \A k \in DOMAIN alerts \ {id} : alerts'[k] = alerts[k]
      BY <3>1, FlagWrites
    <3>3. QED
      BY <3>2 DEF HomesHeld
  <2>2. CASE \E admin \in Admins, active \in BOOLEAN :
                set_alert_active_by_admin(admin, id, active)
    <3>1. /\ ttl'.alert = Extend(ttl.alert, {id}, DEFAULT_TTL)
          /\ ttl'.active = Extend(ttl.active, {id}, DEFAULT_TTL)
          /\ ttl'.owner = ttl.owner /\ ttl'.contract = ttl.contract
          /\ ttl'.instance = ttl.instance /\ instance_live
      BY <2>2, LifeFacts DEF set_alert_active_by_admin
    <3>2. ttl.instance <= ttl'.instance
      BY <3>1, LifeFacts
    <3>3. QED
      BY <2>1, <3>1, <3>2, ExtensionsHold DEF LivesHeld
  <2>3. CASE \E caller \in Owners, rules \in RuleLists, active \in BOOLEAN :
                update_alert(caller, id, rules, active)
    <3>1. PICK caller \in Owners, rules \in RuleLists, active \in BOOLEAN :
             update_alert(caller, id, rules, active)
      BY <2>3
    <3>2. /\ ttl'.alert = Extend(ttl.alert, {id}, DEFAULT_TTL)
          /\ ttl'.active = Extend(ttl.active, {id}, DEFAULT_TTL)
          /\ ttl'.owner = Extend(ttl.owner, {caller}, DEFAULT_TTL)
          /\ ttl'.contract = Extend(ttl.contract, {target}, DEFAULT_TTL)
          /\ ttl'.instance = ttl.instance /\ instance_live
      BY <3>1, LifeFacts DEF update_alert
    <3>3. ttl.instance <= ttl'.instance
      BY <3>2, LifeFacts
    <3>4. QED
      BY <2>1, <3>2, <3>3, ExtensionsHold DEF LivesHeld
  <2>4. QED
    BY <1>1, <2>2, <2>3
<1>2. CASE \E caller \in Owners :
              \/ \E hash \in Hashes : update_webhook(caller, id, hash)
              \/ \E hash \in Hashes : propose_webhook(caller, id, hash)
              \/ confirm_webhook(caller, id)
              \/ \E label \in Labels : update_label(caller, id, label)
              \/ \E tags \in TagLists \cup {None} : update_tags(caller, id, tags)
  <2>1. HomesHeld
    BY <1>2, PlainEdits DEF HomesHeld
  <2>2. /\ instance_live
        /\ extend_alert_and_indexes(id) \/ extend_alert_only(id)
    BY <1>2 DEF update_webhook, propose_webhook, confirm_webhook, update_label, update_tags
  <2>3. CASE extend_alert_and_indexes(id)
    <3>1. /\ ttl'.alert = Extend(ttl.alert, {id}, DEFAULT_TTL)
          /\ ttl'.active = ttl.active
          /\ ttl'.owner = Extend(ttl.owner, {owner}, DEFAULT_TTL)
          /\ ttl'.contract = Extend(ttl.contract, {target}, DEFAULT_TTL)
          /\ ttl'.instance = ttl.instance
      BY <2>3, LifeFacts DEF extend_alert_and_indexes
    <3>2. ttl.instance <= ttl'.instance
      BY <3>1, LifeFacts
    <3>3. QED
      BY <2>1, <2>2, <3>1, <3>2, ExtensionsHold DEF LivesHeld
  <2>4. CASE extend_alert_only(id)
    <3>1. /\ ttl'.alert = Extend(ttl.alert, {id}, DEFAULT_TTL)
          /\ ttl'.active = ttl.active /\ ttl'.owner = ttl.owner
          /\ ttl'.contract = ttl.contract /\ ttl'.instance = ttl.instance
      BY <2>4, LifeFacts DEF extend_alert_only
    <3>2. ttl.instance <= ttl'.instance
      BY <3>1, LifeFacts
    <3>3. QED
      BY <2>1, <2>2, <3>1, <3>2, ExtensionsHold DEF LivesHeld
  <2>5. QED
    BY <2>2, <2>3, <2>4
<1>3. QED
  BY <1>1, <1>2

\* update_target_contract and transfer_alert_ownership extend the index entry
\* the alert moves to.
LEMMA MoveHolds ==
    ASSUME IInv, 0 < DEFAULT_TTL, NEW caller \in Owners, NEW id \in Ids,
           NEW target \in Targets, NEW owner \in Owners,
           Relocates(caller, id, target, owner)
    PROVE  LivesHeld /\ HomesHeld
<1>1. /\ id \in DOMAIN alerts /\ alerts'[id].owner = owner
      /\ alerts'[id].target_contract = target
      /\ \A k \in DOMAIN alerts \ {id} : alerts'[k] = alerts[k]
  <2>1. Relocated(id, target, owner)
    BY Moves
  <2>2. QED
    BY <2>1 DEF Relocated
<1>2. DEFAULT_TTL \in Nat
  BY LifeFacts
<1>3. CASE update_target_contract(caller, id, target) /\ owner = caller
  <2> DEFINE old == alerts[id].target_contract
             removed == remove_from_index_ttl(ttl.contract, contract_index, old, id)
  <2>1. /\ ttl'.alert = Extend(ttl.alert, {id}, DEFAULT_TTL)
        /\ ttl'.active = ttl.active /\ ttl'.owner = ttl.owner
        /\ ttl'.contract = Extend(removed, {target}, DEFAULT_TTL)
        /\ ttl'.instance = ttl.instance /\ instance_live
        /\ alerts[id].owner = caller
    BY <1>3, LifeFacts DEF update_target_contract, assert_owner
  <2>2. old \in Targets
    BY <1>1, AlertFacts
  <2>3. IsTable(removed, Targets, Nat)
    BY <2>2, LifeFacts, RemoveTtlTable
  <2>4. HoldsLives(ttl.contract, removed)
    BY LifeFacts, StoreTtlHolds DEF remove_from_index_ttl
  <2> HIDE DEF removed
  <2>5. HoldsLives(removed, ttl'.contract) /\ ttl'.contract[target] > 0
    BY <1>2, <2>1, <2>3, ExtendHolds
  <2>6. HoldsLives(ttl.contract, ttl'.contract)
    BY <2>4, <2>5, HoldsTwice
  <2>7. ttl.instance <= ttl'.instance
    BY <2>1, LifeFacts
  <2>8. LivesHeld
    BY <2>1, <2>6, <2>7, ExtensionsHold DEF LivesHeld
  <2>9. QED
    BY <1>1, <1>3, <2>1, <2>5, <2>8 DEF HomesHeld
<1>4. CASE /\ transfer_alert_ownership(caller, id, owner)
           /\ target = alerts[id].target_contract
  <2> DEFINE pruned == pruned_ttl(owner)
             removed == remove_from_index_ttl(pruned, pruned_index(owner), caller, id)
  <2>1. /\ ttl'.alert = Extend(ttl.alert, {id}, DEFAULT_TTL)
        /\ ttl'.active = ttl.active /\ ttl'.contract = ttl.contract
        /\ ttl'.owner = Extend(removed, {owner}, DEFAULT_TTL)
        /\ ttl'.instance = ttl.instance /\ instance_live
    BY <1>4, LifeFacts DEF transfer_alert_ownership
  <2>2. IsTable(pruned, Owners, Nat)
    BY PruneFacts
  <2>3. HoldsLives(ttl.owner, pruned)
    BY LifeFacts, StoreTtlHolds, ExtensionsHold DEF pruned_ttl
  <2> HIDE DEF pruned
  <2>4. IsTable(removed, Owners, Nat)
    BY <2>2, RemoveTtlTable
  <2>5. HoldsLives(pruned, removed)
    BY <2>2, StoreTtlHolds DEF remove_from_index_ttl
  <2> HIDE DEF removed
  <2>6. HoldsLives(removed, ttl'.owner) /\ ttl'.owner[owner] > 0
    BY <1>2, <2>1, <2>4, ExtendHolds
  <2>7. HoldsLives(ttl.owner, ttl'.owner)
    BY <2>3, <2>5, <2>6, HoldsTwice
  <2>8. ttl.instance <= ttl'.instance
    BY <2>1, LifeFacts
  <2>9. LivesHeld
    BY <2>1, <2>7, <2>8, ExtensionsHold DEF LivesHeld
  <2>10. QED
    BY <1>1, <1>4, <2>6, <2>9 DEF HomesHeld
<1>5. QED
  BY <1>3, <1>4 DEF Relocates

\* The removal of one alert leaves the lives of the others' entries alone.
LEMMA RemoveHolds ==
    ASSUME IInv, 0 < DEFAULT_TTL, NEW id \in DOMAIN alerts, instance_live,
           remove_alert_record(id)
    PROVE  LivesHeld /\ HomesHeld
<1> DEFINE owner == alerts[id].owner
           target == alerts[id].target_contract
<1>1. /\ ttl'.alert = Drop(ttl.alert, id) /\ ttl'.active = Drop(ttl.active, id)
      /\ ttl'.owner = remove_from_index_ttl(ttl.owner, owner_index, owner, id)
      /\ ttl'.contract = remove_from_index_ttl(ttl.contract, contract_index, target, id)
      /\ ttl'.instance = ttl.instance
  BY LifeFacts DEF remove_alert_record
<1>2. HoldsLives(ttl.alert, ttl'.alert) /\ HoldsLives(ttl.active, ttl'.active)
  BY <1>1, DropHolds
<1>3. HoldsLives(ttl.owner, ttl'.owner) /\ HoldsLives(ttl.contract, ttl'.contract)
  <2>1. \A ids : /\ HoldsLives(ttl.owner, store_ttl(ttl.owner, owner, ids))
                 /\ HoldsLives(ttl.contract, store_ttl(ttl.contract, target, ids))
    BY LifeFacts, StoreTtlHolds
  <2>2. QED
    BY <1>1, <2>1 DEF remove_from_index_ttl
<1>4. ttl.instance <= ttl'.instance
  BY <1>1, LifeFacts
<1>5. LivesHeld
  BY <1>2, <1>3, <1>4 DEF LivesHeld
<1>6. alerts' = Drop(alerts, id)
  BY DEF remove_alert_record
<1>7. \A k \in DOMAIN alerts' : alerts'[k] = alerts[k]
  BY <1>6 DEF Drop, Restrict
<1>8. QED
  BY <1>5, <1>7 DEF HomesHeld

\* A registration gives all it writes, and the instance, a full life.
LEMMA RegisterHolds ==
    ASSUME IInv, 0 < DEFAULT_TTL, NEW owner \in Owners, NEW inputs, NEW tags,
           Registers(owner, inputs, tags), instance_live
    PROVE  LivesHeld /\ HomesHeld
<1>1. Adds(owner, inputs, tags)
  BY RegisterAdds DEF Registers
<1>2. HomesHeld
  <2>1. \A id \in DOMAIN alerts : alerts'[id] = alerts[id]
    BY <1>1 DEF Adds
  <2>2. QED
    BY <2>1 DEF HomesHeld
<1>3. HoldsLives(ttl.alert, ttl'.alert) /\ HoldsLives(ttl.active, ttl'.active)
  BY <1>1, ExtensionsHold DEF Adds
<1> DEFINE pruned == pruned_ttl(owner)
<1>4. /\ \E K : ttl'.contract = Extend(ttl.contract, K, DEFAULT_TTL)
      /\ ttl'.owner = pruned \/ ttl'.owner = Extend(pruned, {owner}, DEFAULT_TTL)
      /\ \/ ttl'.instance = ttl.instance
         \/ ttl'.instance = AtLeast(ttl.instance, DEFAULT_TTL)
  BY DEF Registers, register
<1>5. IsTable(pruned, Owners, Nat)
  BY PruneFacts
<1>6. HoldsLives(ttl.owner, pruned)
  BY LifeFacts, StoreTtlHolds, ExtensionsHold DEF pruned_ttl
<1> HIDE DEF pruned
<1>7. HoldsLives(ttl.owner, ttl'.owner)
  <2>1. DEFAULT_TTL \in Nat
    BY LifeFacts
  <2>2. HoldsLives(pruned, Extend(pruned, {owner}, DEFAULT_TTL))
    BY <1>5, <2>1, ExtendHolds
  <2>3. QED
    BY <1>4, <1>6, <2>2, HoldsTwice
<1>8. HoldsLives(ttl.contract, ttl'.contract)
  BY <1>4, ExtensionsHold
<1>9. ttl.instance <= ttl'.instance
  BY <1>4, LifeFacts DEF AtLeast
<1>10. QED
  BY <1>2, <1>3, <1>7, <1>8, <1>9 DEF LivesHeld

\* deactivate_all_alerts extends the alerts it switches off and their flags.
LEMMA DeactivateHolds ==
    ASSUME IInv, 0 < DEFAULT_TTL, NEW caller \in Owners, deactivate_all_alerts(caller)
    PROVE  LivesHeld /\ HomesHeld
<1> DEFINE off == {id \in Range(lookup(owner_index, caller)) \cap DOMAIN alerts :
                      alerts[id].active}
<1>1. /\ ttl'.alert = Extend(ttl.alert, off, DEFAULT_TTL)
      /\ ttl'.active = Extend(ttl.active, off, DEFAULT_TTL)
      /\ ttl'.owner = ttl.owner /\ ttl'.contract = ttl.contract
      /\ ttl'.instance = ttl.instance /\ instance_live
  BY LifeFacts DEF deactivate_all_alerts
<1>2. \A id \in DOMAIN alerts :
         \/ alerts'[id] = alerts[id]
         \/ alerts'[id] = [alerts[id] EXCEPT !.active = FALSE, !.updated_at = timestamp]
  BY DEF deactivate_all_alerts
<1> HIDE DEF off
<1>3. ttl.instance <= ttl'.instance
  BY <1>1, LifeFacts
<1>4. LivesHeld
  BY <1>1, <1>3, ExtensionsHold DEF LivesHeld
<1>5. ASSUME NEW id \in DOMAIN alerts
      PROVE  /\ alerts'[id].owner = alerts[id].owner
             /\ alerts'[id].target_contract = alerts[id].target_contract
  <2>1. alerts[id] \in AlertConfig
    BY AlertFacts
  <2>2. QED
    BY <1>2, <2>1 DEF AlertConfig
<1>6. QED
  BY <1>4, <1>5 DEF HomesHeld

\* An alert leaves storage between two ledgers only by being removed.
OnlyRemoved ==
    \A id \in DOMAIN alerts \ DOMAIN alerts' :
        \/ remove_alert(alerts[id].owner, id)
        \/ \E admin \in Admins : remove_alert_by_admin(admin, id)

\* Every call of an owner or admin holds the lives of what it leaves stored, and
\* takes away no alert it was not asked to.
LEMMA CallsHold ==
    ASSUME IInv, 0 < DEFAULT_TTL, admin_call \/ owner_call \/ alert_call \/ renewal_call
    PROVE  LivesHeld /\ HomesHeld /\ OnlyRemoved
<1> DEFINE Goal == LivesHeld /\ HomesHeld /\ OnlyRemoved
<1> SUFFICES Goal
  OBVIOUS
<1>1. ASSUME LivesHeld, UNCHANGED alerts
      PROVE  Goal
  BY <1>1 DEF HomesHeld, OnlyRemoved
<1>2. ASSUME LivesHeld, HomesHeld, DOMAIN alerts \subseteq DOMAIN alerts'
      PROVE  Goal
  BY <1>2 DEF OnlyRemoved
<1>3. ASSUME NEW id \in DOMAIN alerts, instance_live, remove_alert_record(id),
             \/ remove_alert(alerts[id].owner, id)
             \/ \E admin \in Admins : remove_alert_by_admin(admin, id)
      PROVE  Goal
  <2>1. LivesHeld /\ HomesHeld
    BY <1>3, RemoveHolds
  <2>2. DOMAIN alerts' = DOMAIN alerts \ {id}
    BY <1>3 DEF remove_alert_record, Drop, Restrict
  <2>3. \A k \in DOMAIN alerts \ DOMAIN alerts' : k = id
    BY <2>2
  <2>4. OnlyRemoved
    BY <1>3, <2>3 DEF OnlyRemoved
  <2>5. QED
    BY <2>1, <2>4
<1> HIDE DEF Goal
<1>4. CASE renewal_call
  <2>1. LivesHeld /\ UNCHANGED alerts
    BY <1>4, RenewalHolds, ConstantsAssumption DEF renewal_call
  <2>2. QED
    BY <1>1, <2>1
<1>5. CASE admin_call
  <2>1. PICK admin \in Admins :
           \/ \/ initialize(admin)
              \/ \E other \in Admins :
                    \/ transfer_admin(admin, other)
                    \/ add_admin(admin, other)
                    \/ remove_admin(admin, other)
              \/ \E n \in Limits : set_per_owner_alert_limit(admin, n)
              \/ \E value \in PauseValues : set_paused(admin, value)
              \/ \E registry \in Registries : set_watcher_registry(admin, registry)
           \/ \E id \in Ids, active \in BOOLEAN :
                 set_alert_active_by_admin(admin, id, active)
           \/ \E id \in Ids : remove_alert_by_admin(admin, id)
    BY <1>5 DEF admin_call
  <2>2. CASE \/ initialize(admin)
             \/ \E other \in Admins :
                   \/ transfer_admin(admin, other)
                   \/ add_admin(admin, other)
                   \/ remove_admin(admin, other)
             \/ \E n \in Limits : set_per_owner_alert_limit(admin, n)
             \/ \E value \in PauseValues : set_paused(admin, value)
             \/ \E registry \in Registries : set_watcher_registry(admin, registry)
    <3>1. instance_live /\ ttl' = ttl /\ UNCHANGED alerts
      BY <2>2 DEF initialize, transfer_admin, add_admin, remove_admin, set_admins,
         set_per_owner_alert_limit, set_paused, set_watcher_registry
    <3>2. ttl.instance <= ttl.instance
      BY LifeFacts
    <3>3. LivesHeld
      BY <3>1, <3>2, ExtensionsHold DEF LivesHeld
    <3>4. QED
      BY <1>1, <3>1, <3>3
  <2>3. CASE \E id \in Ids, active \in BOOLEAN :
                set_alert_active_by_admin(admin, id, active)
    <3>1. PICK id \in Ids, active \in BOOLEAN : set_alert_active_by_admin(admin, id, active)
      BY <2>3
    <3>2. LivesHeld /\ HomesHeld
      BY <3>1, EditHolds
    <3>3. DOMAIN alerts' = DOMAIN alerts
      BY <3>1, FlagWrites
    <3>4. QED
      BY <1>2, <3>2, <3>3
  <2>4. CASE \E id \in Ids : remove_alert_by_admin(admin, id)
    <3>1. PICK id \in Ids : remove_alert_by_admin(admin, id)
      BY <2>4
    <3>2. id \in DOMAIN alerts /\ instance_live /\ remove_alert_record(id)
      BY <3>1 DEF remove_alert_by_admin
    <3>3. QED
      BY <1>3, <3>1, <3>2
  <2>5. QED
    BY <2>1, <2>2, <2>3, <2>4
<1>6. CASE owner_call
  <2>1. PICK caller \in Owners :
           \/ \/ \E input \in AlertInput, tags \in TagLists \cup {None} :
                    register_alert(caller, input, tags)
              \/ \E n \in BatchSizes : \E inputs \in [1..n -> AlertInput] :
                    batch_register_alerts(caller, inputs)
           \/ deactivate_all_alerts(caller)
    BY <1>6 DEF owner_call
  <2>2. CASE deactivate_all_alerts(caller)
    <3>1. LivesHeld /\ HomesHeld
      BY <2>2, DeactivateHolds
    <3>2. DOMAIN alerts' = DOMAIN alerts
      BY <2>2 DEF deactivate_all_alerts
    <3>3. QED
      BY <1>2, <3>1, <3>2
  <2>3. CASE \/ \E input \in AlertInput, tags \in TagLists \cup {None} :
                   register_alert(caller, input, tags)
             \/ \E n \in BatchSizes : \E inputs \in [1..n -> AlertInput] :
                   batch_register_alerts(caller, inputs)
    <3>1. PICK inputs, tags : Registers(caller, inputs, tags)
      BY <2>3, RegisterEntryPoints
    <3>2. instance_live
      BY <2>3 DEF register_alert, batch_register_alerts
    <3>3. LivesHeld /\ HomesHeld
      BY <3>1, <3>2, RegisterHolds
    <3>4. Adds(caller, inputs, tags)
      BY <3>1, RegisterAdds DEF Registers
    <3>5. DOMAIN alerts \subseteq DOMAIN alerts'
      BY <3>4 DEF Adds
    <3>6. QED
      BY <1>2, <3>3, <3>5
  <2>4. QED
    BY <2>1, <2>2, <2>3
<1>7. CASE alert_call
  <2>1. PICK caller \in Owners, id \in Ids :
           \/ \E rules \in RuleLists, active \in BOOLEAN :
                 update_alert(caller, id, rules, active)
           \/ \/ \E hash \in Hashes : update_webhook(caller, id, hash)
              \/ \E hash \in Hashes : propose_webhook(caller, id, hash)
              \/ confirm_webhook(caller, id)
              \/ \E label \in Labels : update_label(caller, id, label)
              \/ \E tags \in TagLists \cup {None} : update_tags(caller, id, tags)
           \/ \E target \in Targets : update_target_contract(caller, id, target)
           \/ \E other \in Owners : transfer_alert_ownership(caller, id, other)
           \/ remove_alert(caller, id)
    BY <1>7 DEF alert_call
  <2>2. CASE \E rules \in RuleLists, active \in BOOLEAN :
                update_alert(caller, id, rules, active)
    <3>1. LivesHeld /\ HomesHeld
      BY <2>2, EditHolds
    <3>2. DOMAIN alerts' = DOMAIN alerts
      BY <2>2, FlagWrites
    <3>3. QED
      BY <1>2, <3>1, <3>2
  <2>3. CASE \/ \E hash \in Hashes : update_webhook(caller, id, hash)
             \/ \E hash \in Hashes : propose_webhook(caller, id, hash)
             \/ confirm_webhook(caller, id)
             \/ \E label \in Labels : update_label(caller, id, label)
             \/ \E tags \in TagLists \cup {None} : update_tags(caller, id, tags)
    <3>1. LivesHeld /\ HomesHeld
      BY <2>3, EditHolds
    <3>2. DOMAIN alerts' = DOMAIN alerts
      BY <2>3, PlainEdits
    <3>3. QED
      BY <1>2, <3>1, <3>2
  <2>4. ASSUME NEW target \in Targets, NEW owner \in Owners,
               Relocates(caller, id, target, owner)
        PROVE  Goal
    <3>1. LivesHeld /\ HomesHeld
      BY <2>4, MoveHolds
    <3>2. Relocated(id, target, owner)
      BY <2>4, Moves
    <3>3. DOMAIN alerts' = DOMAIN alerts
      BY <3>2 DEF Relocated
    <3>4. QED
      BY <1>2, <3>1, <3>3
  <2>5. CASE \E target \in Targets : update_target_contract(caller, id, target)
    BY <2>4, <2>5 DEF Relocates
  <2>6. CASE \E other \in Owners : transfer_alert_ownership(caller, id, other)
    <3>1. id \in DOMAIN alerts
      BY <2>6 DEF transfer_alert_ownership, assert_owner
    <3>2. alerts[id].target_contract \in Targets
      BY <3>1, AlertFacts
    <3>3. QED
      BY <2>4, <2>6, <3>2 DEF Relocates
  <2>7. CASE remove_alert(caller, id)
    <3>1. /\ id \in DOMAIN alerts /\ alerts[id].owner = caller
          /\ instance_live /\ remove_alert_record(id)
      BY <2>7 DEF remove_alert, assert_owner
    <3>2. QED
      BY <1>3, <2>7, <3>1
  <2>8. QED
    BY <2>1, <2>2, <2>3, <2>5, <2>6, <2>7
<1>8. QED
  BY <1>4, <1>5, <1>6, <1>7

\* All four entries of an alert survive the end of this ledger.
Lasts(id) ==
    /\ ttl.alert[id] > 0 /\ ttl.active[id] > 0
    /\ ttl.owner[alerts[id].owner] > 0
    /\ ttl.contract[alerts[id].target_contract] > 0

\* While the instance is live nothing has lapsed, and what the keeper has renewed
\* in this ledger will not.
KeptInv ==
    instance_live =>
        /\ AllExact
        /\ renewed \subseteq 0..(next_id - 1)
        /\ \A id \in renewed \cap DOMAIN alerts : Lasts(id)

\* In a registry that is never paused the keeper's bump_alert also keeps the
\* instance, which bulk_renew_ttl does not extend, and exactness outlives even an
\* instance that lapses, since that happens to empty registries only.
UnpausedInv ==
    /\ AllExact
    /\ ~paused
    /\ DOMAIN alerts # {} => instance_live
    /\ renewed \cap DOMAIN alerts # {} => ttl.instance > 0

\* With exact indexes and all flags in place a stored alert is never refused.
LEMMA ExactNotRefused ==
    ASSUME IInv, AllExact, instance_live, NEW id \in DOMAIN alerts
    PROVE  ~refused(id)
<1> DEFINE o == alerts[id].owner
           t == alerts[id].target_contract
<1>1. o \in Owners /\ t \in Targets
  BY AlertFacts
<1>2. id \in Listed(owner_index, o) /\ id \in Listed(contract_index, t)
  BY <1>1 DEF AllExact, Exact, owner_of, target_of
<1>3. o \in DOMAIN owner_index /\ t \in DOMAIN contract_index
  BY <1>2, ListedEntry
<1>4. QED
  BY <1>3 DEF refused, index_keys_live, AllExact

\* Where every alert lasts so does every index entry: none is empty, and an exact
\* index lists nothing but alerts.
LEMMA AllLast ==
    ASSUME IInv, AllExact, \A id \in DOMAIN alerts : Lasts(id)
    PROVE  EntriesLast
<1>1. Survivors(ttl.alert) = DOMAIN ttl.alert
  BY LifeFacts DEF Survivors, Lasts
<1>2. Survivors(ttl.active) = DOMAIN ttl.active
  BY LifeFacts DEF Survivors, Lasts, AllExact
<1>3. ASSUME NEW ids \in Seq(Ids), ids # << >>
      PROVE  \E id : id \in Range(ids)
  <2>1. 1 \in DOMAIN ids
    BY <1>3
  <2>2. QED
    BY <2>1 DEF Range
<1>4. ASSUME NEW o \in DOMAIN owner_index
      PROVE  ttl.owner[o] > 0
  <2>1. o \in Owners /\ owner_index[o] \in Seq(Ids) /\ owner_index[o] # << >>
    BY DEF IInv, OwnersOK, GoodIndex, GoodVec, IsTable
  <2>2. PICK id : id \in Range(owner_index[o])
    BY <1>3, <2>1
  <2>3. id \in Listed(owner_index, o)
    BY <2>2, ListedEntry
  <2>4. id \in DOMAIN alerts /\ alerts[id].owner = o
    BY <2>1, <2>3 DEF AllExact, Exact, owner_of
  <2>5. QED
    BY <2>4 DEF Lasts
<1>5. ASSUME NEW t \in DOMAIN contract_index
      PROVE  ttl.contract[t] > 0
  <2>1. t \in Targets /\ contract_index[t] \in Seq(Ids) /\ contract_index[t] # << >>
    BY DEF IInv, ContractsOK, GoodIndex, GoodVec, IsTable
  <2>2. PICK id : id \in Range(contract_index[t])
    BY <1>3, <2>1
  <2>3. id \in Listed(contract_index, t)
    BY <2>2, ListedEntry
  <2>4. id \in DOMAIN alerts /\ alerts[id].target_contract = t
    BY <2>1, <2>3 DEF AllExact, Exact, target_of
  <2>5. QED
    BY <2>4 DEF Lasts
<1>6. Survivors(ttl.owner) = DOMAIN ttl.owner
  BY <1>4, LifeFacts DEF Survivors
<1>7. Survivors(ttl.contract) = DOMAIN ttl.contract
  BY <1>5, LifeFacts DEF Survivors
<1>8. QED
  BY <1>1, <1>2, <1>6, <1>7 DEF EntriesLast

\* What lasts goes on lasting through calls that hold lives and homes.
LEMMA StillLasts ==
    ASSUME IInv, IInv', AllExact', LivesHeld, HomesHeld,
           NEW id \in DOMAIN alerts, id \in DOMAIN alerts', Lasts(id)
    PROVE  Lasts(id)'
<1> DEFINE o == alerts'[id].owner
           t == alerts'[id].target_contract
<1>1. /\ DOMAIN ttl'.alert = DOMAIN alerts' /\ DOMAIN ttl'.active = DOMAIN alert_active'
      /\ DOMAIN ttl'.owner = DOMAIN owner_index'
      /\ DOMAIN ttl'.contract = DOMAIN contract_index'
      /\ DOMAIN alert_active' = DOMAIN alerts'
  BY DEF IInv, LivesOK, LivesMatchEntries, AllExact
<1>2. o \in DOMAIN owner_index' /\ t \in DOMAIN contract_index'
  <2>1. o \in Owners /\ t \in Targets
    BY DEF IInv, AlertsOK, IsTable, AlertConfig
  <2>2. id \in Listed(owner_index', o) /\ id \in Listed(contract_index', t)
    <3>1. /\ \A k \in Owners : Listed(owner_index', k) = {x \in DOMAIN owner_of' : owner_of'[x] = k}
          /\ \A k \in Targets : Listed(contract_index', k) = {x \in DOMAIN target_of' : target_of'[x] = k}
      BY DEF AllExact, Exact
    <3>2. /\ id \in DOMAIN owner_of' /\ owner_of'[id] = o
          /\ id \in DOMAIN target_of' /\ target_of'[id] = t
      BY DEF owner_of, target_of
    <3>3. QED
      BY <2>1, <3>1, <3>2
  <2>3. QED
    BY <2>2, ListedEntry
<1>3. ttl'.alert[id] > 0 /\ ttl'.active[id] > 0
  BY <1>1 DEF LivesHeld, HoldsLives, Lasts
<1>4. ttl'.owner[o] > 0
  BY <1>1, <1>2 DEF LivesHeld, HomesHeld, HoldsLives, Lasts
<1>5. ttl'.contract[t] > 0
  BY <1>1, <1>2 DEF LivesHeld, HomesHeld, HoldsLives, Lasts
<1>6. QED
  BY <1>3, <1>4, <1>5 DEF Lasts

\* One renewal by the keeper: bump_alert, or bulk_renew_ttl while paused.
LEMMA KeepAliveStep ==
    ASSUME IInv, KeptInv, 0 < DEFAULT_TTL, 0 < MAX_TTL,
           NEW id \in DOMAIN alerts, keep_alive(id)
    PROVE  /\ IInv' /\ KeptInv' /\ LivesHeld
           /\ UNCHANGED <<paused, alerts>>
           /\ ~paused => ttl'.instance > 0
<1> DEFINE o == alerts[id].owner
           t == alerts[id].target_contract
<1>1. /\ id \in Ids /\ id \in 0..(next_id - 1)
      /\ DEFAULT_TTL \in Nat /\ MAX_TTL \in Nat
  BY AlertFacts, LifeFacts
<1>2. /\ ~paused => bump_alert(id, DEFAULT_TTL)
      /\ paused => bulk_renew_ttl({id})
      /\ renewed' = renewed \cup {id}
  BY DEF keep_alive
<1>3. \/ \E k \in Ids, life \in Nat : bump_alert(k, life)
      \/ \E ids \in SUBSET Ids : bulk_renew_ttl(ids)
  BY <1>1, <1>2
<1>4. /\ IInv' /\ LivesHeld
      /\ UNCHANGED <<settings, next_id, alerts, alert_active, indexes, timestamp>>
  BY <1>3, RenewalCalls, RenewalHolds
<1>5. \E n \in Nat : /\ 0 < n
                     /\ ttl'.alert = Extend(ttl.alert, {id}, n)
                     /\ ttl'.active = Extend(ttl.active, {id}, n)
                     /\ ttl'.owner = Extend(ttl.owner, {o}, n)
                     /\ ttl'.contract = Extend(ttl.contract, {t}, n)
                     /\ ~paused => ttl'.instance = AtLeast(ttl.instance, n)
  <2>1. CASE ~paused
    <3> DEFINE n == IF DEFAULT_TTL <= MAX_TTL THEN DEFAULT_TTL ELSE MAX_TTL
    <3>1. n \in Nat /\ 0 < n
      BY <1>1
    <3>2. bump_alert(id, DEFAULT_TTL)
      BY <1>2, <2>1
    <3>3. ttl' = [alert    |-> Extend(ttl.alert, {id}, n),
                  active   |-> Extend(ttl.active, {id}, n),
                  owner    |-> Extend(ttl.owner, {o}, n),
                  contract |-> Extend(ttl.contract, {t}, n),
                  instance |-> AtLeast(ttl.instance, n)]
      BY <3>2 DEF bump_alert
    <3> HIDE DEF n
    <3>4. QED
      BY <3>1, <3>3
  <2>2. CASE paused
    <3>1. bulk_renew_ttl({id})
      BY <1>2, <2>2
    <3>2. /\ {id} \cap DOMAIN alerts = {id}
          /\ {alerts[k].owner : k \in {id}} = {o}
          /\ {alerts[k].target_contract : k \in {id}} = {t}
      OBVIOUS
    <3>3. /\ ttl'.alert = Extend(ttl.alert, {id}, DEFAULT_TTL)
          /\ ttl'.active = Extend(ttl.active, {id}, DEFAULT_TTL)
          /\ ttl'.owner = Extend(ttl.owner, {o}, DEFAULT_TTL)
          /\ ttl'.contract = Extend(ttl.contract, {t}, DEFAULT_TTL)
      BY <3>1, <3>2, LifeFacts DEF bulk_renew_ttl
    <3>4. QED
      BY <1>1, <2>2, <3>3
  <2>3. QED
    BY <2>1, <2>2
<1>6. PICK n \in Nat : /\ 0 < n
                       /\ ttl'.alert = Extend(ttl.alert, {id}, n)
                       /\ ttl'.active = Extend(ttl.active, {id}, n)
                       /\ ttl'.owner = Extend(ttl.owner, {o}, n)
                       /\ ttl'.contract = Extend(ttl.contract, {t}, n)
                       /\ ~paused => ttl'.instance = AtLeast(ttl.instance, n)
  BY <1>5
<1>7. /\ ttl'.alert[id] > 0 /\ ttl'.active[id] > 0
      /\ ttl'.owner[o] > 0 /\ ttl'.contract[t] > 0
  BY <1>6, LifeFacts, ExtendHolds
<1>8. Lasts(id)'
  BY <1>4, <1>7 DEF Lasts
<1>9. ~paused => ttl'.instance > 0
  BY <1>6, LifeFacts DEF AtLeast
<1>10. KeptInv'
  <2>1. instance_live
    BY <1>4 DEF LivesHeld
  <2>2. AllExact'
    <3>1. owner_of' = owner_of /\ target_of' = target_of
      BY <1>4 DEF owner_of, target_of
    <3>2. QED
      BY <1>4, <2>1, <3>1 DEF KeptInv, AllExact, indexes
  <2>3. renewed' \subseteq 0..(next_id' - 1)
    BY <1>1, <1>2, <1>4, <2>1 DEF KeptInv
  <2>4. HomesHeld
    BY <1>4 DEF HomesHeld
  <2>5. ASSUME NEW k \in renewed' \cap DOMAIN alerts'
        PROVE  Lasts(k)'
    <3>1. CASE k = id
      BY <1>8, <3>1
    <3>2. CASE k # id
      <4>1. k \in DOMAIN alerts /\ k \in DOMAIN alerts' /\ Lasts(k)
        BY <1>2, <1>4, <2>1, <2>5, <3>2 DEF KeptInv
      <4>2. QED
        BY <1>4, <2>2, <2>4, <4>1, StillLasts
    <3>3. QED
      BY <3>1, <3>2
  <2>6. QED
    BY <2>2, <2>3, <2>5 DEF KeptInv
<1>11. QED
  BY <1>4, <1>9, <1>10 DEF settings

\* A call of an owner or admin between two renewals.
LEMMA UsersStep ==
    ASSUME IInv, KeptInv, 0 < DEFAULT_TTL, users_act
    PROVE  /\ IInv' /\ KeptInv' /\ LivesHeld /\ OnlyRemoved
           /\ renewed \cap DOMAIN alerts' \subseteq DOMAIN alerts
<1>1. admin_call \/ owner_call \/ alert_call \/ renewal_call
  BY DEF users_act
<1>2. LivesHeld /\ HomesHeld /\ OnlyRemoved
  BY <1>1, CallsHold
<1>3. [Next]_vars
  BY <1>1 DEF Next
<1>4. IInv'
  BY <1>3, NextIInv
<1>5. instance_live
  BY <1>2 DEF LivesHeld
<1>6. ~close_ledger
  <2> SUFFICES ASSUME close_ledger
               PROVE  FALSE
    OBVIOUS
  <2>1. ttl'.instance = ttl.instance - 1
    BY <1>5 DEF close_ledger, instance_live
  <2>2. QED
    BY <1>2, <2>1, LifeFacts DEF LivesHeld
<1>7. AllExact'
  BY <1>3, <1>4, <1>5, <1>6, ExactCall DEF KeptInv
<1>8. /\ next_id <= next_id' /\ next_id \in Nat /\ next_id' \in Nat
      /\ \A id \in DOMAIN alerts' : id \in DOMAIN alerts \/ next_id <= id
  <2>1. next_id \in Nat /\ next_id' \in Nat
    BY <1>4 DEF IInv, AlertsOK
  <2>2. CASE \E owner, inputs, tags : owner \in Owners /\ Registers(owner, inputs, tags)
    <3>1. PICK owner, inputs, tags : owner \in Owners /\ Registers(owner, inputs, tags)
      BY <2>2
    <3>2. Adds(owner, inputs, tags) /\ Len(inputs) \in Nat
      BY <3>1, RegisterAdds DEF Registers
    <3>3. next_id <= next_id' /\ DOMAIN alerts' = DOMAIN alerts \cup NewIds
      BY <2>1, <3>2 DEF Adds
    <3>4. QED
      BY <2>1, <3>3 DEF NewIds
  <2>3. CASE next_id' = next_id /\ DOMAIN alerts' \subseteq DOMAIN alerts
    BY <2>1, <2>3
  <2>4. QED
    BY <1>3, <2>2, <2>3, StepKinds
<1>9. renewed' = renewed /\ renewed \subseteq 0..(next_id - 1)
  BY <1>5 DEF users_act, KeptInv
<1>10. renewed \cap DOMAIN alerts' \subseteq DOMAIN alerts
  <2> SUFFICES ASSUME NEW id \in renewed, id \in DOMAIN alerts'
               PROVE  id \in DOMAIN alerts
    OBVIOUS
  <2>1. id \in 0..(next_id - 1) /\ next_id \in Nat
    BY <1>8, <1>9
  <2>2. ~(next_id <= id)
    BY <2>1
  <2>3. QED
    BY <1>8, <2>2
<1>11. KeptInv'
  <2>1. renewed' \subseteq 0..(next_id' - 1)
    <3> DEFINE m == next_id'
    <3>1. next_id <= m /\ next_id \in Nat /\ m \in Nat
      BY <1>8
    <3> HIDE DEF m
    <3>2. 0..(next_id - 1) \subseteq 0..(m - 1)
      BY <3>1
    <3>3. QED
      BY <1>9, <3>2 DEF m
  <2>2. ASSUME NEW id \in renewed' \cap DOMAIN alerts'
        PROVE  Lasts(id)'
    <3>1. id \in DOMAIN alerts /\ id \in DOMAIN alerts' /\ Lasts(id)
      BY <1>5, <1>9, <1>10, <2>2 DEF KeptInv
    <3>2. QED
      BY <1>2, <1>4, <1>7, <3>1, StillLasts
  <2>3. QED
    BY <1>7, <2>1, <2>2 DEF KeptInv
<1>12. QED
  BY <1>2, <1>4, <1>10, <1>11

\* The end of a ledger: while the instance survives it, nothing else lapses.
LEMMA RoundStep ==
    ASSUME IInv, KeptInv, round_ends
    PROVE  /\ IInv' /\ KeptInv'
           /\ instance_live => DOMAIN alerts \subseteq renewed
           /\ instance_live' => UNCHANGED alerts
<1>1. close_ledger /\ renewed' = {}
  BY DEF round_ends
<1>2. IInv'
  BY <1>1, CloseLedger
<1>3. ASSUME instance_live
      PROVE  DOMAIN alerts \subseteq renewed
  BY <1>3, ExactNotRefused DEF round_ends, KeptInv
<1>4. ASSUME instance_live'
      PROVE  UNCHANGED <<alerts, alert_active, indexes, next_id, limit>>
  <2>1. ttl.instance > 0 /\ instance_live
    BY <1>1, <1>4, LifeFacts DEF close_ledger, instance_live
  <2>2. AllExact /\ \A id \in DOMAIN alerts : Lasts(id)
    BY <1>3, <2>1 DEF KeptInv
  <2>3. EntriesLast
    BY <2>2, AllLast
  <2>4. QED
    BY <1>1, <2>3, NothingLapses
<1>5. ASSUME instance_live'
      PROVE  AllExact'
  <2>1. UNCHANGED <<alerts, alert_active, indexes>>
    BY <1>4, <1>5
  <2>2. owner_of' = owner_of /\ target_of' = target_of
    BY <2>1 DEF owner_of, target_of
  <2>3. AllExact
    BY <1>1, <1>5, LifeFacts DEF close_ledger, instance_live, KeptInv
  <2>4. QED
    BY <2>1, <2>2, <2>3 DEF AllExact, indexes
<1>6. KeptInv'
  BY <1>1, <1>5 DEF KeptInv
<1>7. QED
  BY <1>2, <1>3, <1>4, <1>6

\* A registry just deployed satisfies both invariants.
LEMMA KeeperStarts == KeeperInit => IInv /\ KeptInv /\ UnpausedInv
<1> SUFFICES ASSUME KeeperInit
             PROVE  IInv /\ KeptInv /\ UnpausedInv
  OBVIOUS
<1>1. IInv /\ AllExact /\ renewed = {}
  BY InitIInv, InitExact DEF KeeperInit
<1>2. ~paused /\ DOMAIN alerts = {}
  BY DEF KeeperInit, Init, NoEntries
<1>3. QED
  BY <1>1, <1>2 DEF KeptInv, UnpausedInv

\* The end of a ledger in a registry that is never paused takes no entry away.
LEMMA UnpausedRound ==
    ASSUME IInv, KeptInv, UnpausedInv, round_ends
    PROVE  UNCHANGED <<alerts, alert_active, indexes, next_id, limit>> /\ AllExact'
<1>1. close_ledger
  BY DEF round_ends
<1>2. ASSUME NEW id \in DOMAIN alerts
      PROVE  Lasts(id)
  <2>1. instance_live /\ id \in renewed
    BY RoundStep DEF UnpausedInv
  <2>2. QED
    BY <2>1 DEF KeptInv
<1>3. EntriesLast
  BY <1>2, AllLast DEF UnpausedInv
<1>4. UNCHANGED <<alerts, alert_active, indexes, next_id, limit>>
  BY <1>1, <1>3, NothingLapses
<1>5. owner_of' = owner_of /\ target_of' = target_of
  BY <1>4 DEF owner_of, target_of
<1>6. AllExact'
  BY <1>4, <1>5 DEF AllExact, UnpausedInv, indexes
<1>7. QED
  BY <1>4, <1>6

\* Every step of the composed system keeps them, and takes away an alert only if
\* it removes it or the instance is gone.
LEMMA KeeperStep ==
    ASSUME IInv, KeptInv, 0 < DEFAULT_TTL, 0 < MAX_TTL, [KeeperNext]_<<vars, renewed>>
    PROVE  /\ IInv' /\ KeptInv'
           /\ instance_live' => OnlyRemoved
<1>1. CASE UNCHANGED <<vars, renewed>>
  <2>1. UNCHANGED vars /\ UNCHANGED renewed
    BY <1>1
  <2>2. UNCHANGED <<next_id, alerts, alert_active, indexes, ttl>>
    BY <2>1 DEF vars
  <2>3. IInv'
    BY <2>1, NextIInv
  <2>4. owner_of' = owner_of /\ target_of' = target_of
    BY <2>2 DEF owner_of, target_of
  <2>5. AllExact => AllExact'
    BY <2>2, <2>4 DEF AllExact, indexes
  <2>6. KeptInv'
    BY <2>1, <2>2, <2>5 DEF KeptInv, instance_live, Lasts
  <2>7. QED
    BY <2>2, <2>3, <2>6 DEF OnlyRemoved
<1>2. CASE \E id \in DOMAIN alerts \ renewed : keep_alive(id)
  <2>1. IInv' /\ KeptInv' /\ UNCHANGED alerts
    BY <1>2, KeepAliveStep
  <2>2. QED
    BY <2>1 DEF OnlyRemoved
<1>3. CASE users_act
  BY <1>3, UsersStep
<1>4. CASE round_ends
  <2>1. IInv' /\ KeptInv' /\ (instance_live' => UNCHANGED alerts)
    BY <1>4, RoundStep
  <2>2. QED
    BY <2>1 DEF OnlyRemoved
<1>5. QED
  BY <1>1, <1>2, <1>3, <1>4 DEF KeeperNext

\* In a registry that no admin pauses a stored alert never sees the end of the
\* instance.
LEMMA UnpausedStep ==
    ASSUME IInv, KeptInv, UnpausedInv, 0 < DEFAULT_TTL, 0 < MAX_TTL,
           TRUE \notin PauseValues, [KeeperNext]_<<vars, renewed>>
    PROVE  UnpausedInv' /\ OnlyRemoved
<1>1. ttl.instance \in Int
  BY LifeFacts
<1>2. CASE UNCHANGED <<vars, renewed>>
  <2>1. UNCHANGED vars /\ UNCHANGED renewed
    BY <1>2
  <2>2. UNCHANGED <<paused, alerts, alert_active, indexes, ttl>>
    BY <2>1 DEF vars, settings
  <2>3. owner_of' = owner_of /\ target_of' = target_of
    BY <2>2 DEF owner_of, target_of
  <2>4. AllExact'
    BY <2>2, <2>3 DEF AllExact, UnpausedInv, indexes
  <2>5. QED
    BY <2>1, <2>2, <2>4 DEF UnpausedInv, instance_live, OnlyRemoved
<1>3. CASE \E id \in DOMAIN alerts \ renewed : keep_alive(id)
  <2>1. /\ IInv' /\ KeptInv' /\ UNCHANGED <<paused, alerts>>
        /\ ~paused => ttl'.instance > 0
    BY <1>3, KeepAliveStep
  <2>2. ~paused' /\ ttl'.instance > 0
    BY <2>1 DEF UnpausedInv
  <2>3. instance_live'
    <3>1. ttl'.instance \in Int
      BY <2>1 DEF IInv, LivesOK, TtlTypeOK
    <3>2. QED
      BY <2>2, <3>1 DEF instance_live
  <2>4. AllExact'
    BY <2>1, <2>3 DEF KeptInv
  <2>5. QED
    BY <2>1, <2>2, <2>3, <2>4 DEF UnpausedInv, OnlyRemoved
<1>4. CASE users_act
  <2>1. /\ IInv' /\ KeptInv' /\ LivesHeld /\ OnlyRemoved
        /\ renewed \cap DOMAIN alerts' \subseteq DOMAIN alerts
    BY <1>4, UsersStep
  <2>2. ~paused'
    <3>1. admin_call \/ owner_call \/ alert_call \/ renewal_call
      BY <1>4 DEF users_act
    <3>2. CASE owner_call \/ alert_call \/ renewal_call
      <4>1. UNCHANGED settings
        BY <3>2, SettingsUntouched
      <4>2. QED
        BY <4>1 DEF settings, UnpausedInv
    <3>3. CASE admin_call
      <4>1. PICK admin \in Admins :
               \/ \/ initialize(admin)
                  \/ \E other \in Admins :
                        \/ transfer_admin(admin, other)
                        \/ add_admin(admin, other)
                        \/ remove_admin(admin, other)
                  \/ \E n \in Limits : set_per_owner_alert_limit(admin, n)
                  \/ \E registry \in Registries : set_watcher_registry(admin, registry)
               \/ \E value \in PauseValues : set_paused(admin, value)
               \/ \E id \in Ids, active \in BOOLEAN :
                     set_alert_active_by_admin(admin, id, active)
               \/ \E id \in Ids : remove_alert_by_admin(admin, id)
        BY <3>3 DEF admin_call
      <4>2. CASE \/ initialize(admin)
                 \/ \E other \in Admins :
                       \/ transfer_admin(admin, other)
                       \/ add_admin(admin, other)
                       \/ remove_admin(admin, other)
                 \/ \E n \in Limits : set_per_owner_alert_limit(admin, n)
                 \/ \E registry \in Registries : set_watcher_registry(admin, registry)
        <5>1. paused' = paused
          BY <4>2 DEF initialize, transfer_admin, add_admin, remove_admin, set_admins,
             set_per_owner_alert_limit, set_watcher_registry
        <5>2. QED
          BY <5>1 DEF UnpausedInv
      <4>3. CASE \E value \in PauseValues : set_paused(admin, value)
        <5>1. paused' \in PauseValues
          BY <4>3 DEF set_paused
        <5>2. PauseValues \subseteq BOOLEAN
          BY ConstantsAssumption
        <5>3. QED
          BY <5>1, <5>2
      <4>4. CASE \/ \E id \in Ids, active \in BOOLEAN :
                       set_alert_active_by_admin(admin, id, active)
                 \/ \E id \in Ids : remove_alert_by_admin(admin, id)
        <5>1. UNCHANGED settings
          BY <4>4, SettingsUntouched
        <5>2. QED
          BY <5>1 DEF settings, UnpausedInv
      <4>5. QED
        BY <4>1, <4>2, <4>3, <4>4
    <3>4. QED
      BY <3>1, <3>2, <3>3
  <2>3. ttl'.instance \in Int /\ ttl.instance >= 0 /\ ttl.instance <= ttl'.instance
    BY <2>1 DEF LivesHeld, instance_live, IInv, LivesOK, TtlTypeOK
  <2>4. instance_live'
    BY <1>1, <2>3 DEF instance_live
  <2>5. renewed' = renewed
    BY <1>4 DEF users_act
  <2>6. renewed' \cap DOMAIN alerts' # {} => ttl'.instance > 0
    <3>1. renewed' \cap DOMAIN alerts' # {} => renewed \cap DOMAIN alerts # {}
      BY <2>1, <2>5
    <3>2. QED
      BY <1>1, <2>3, <3>1 DEF UnpausedInv
  <2>7. AllExact'
    BY <2>1, <2>4 DEF KeptInv
  <2>8. QED
    BY <2>1, <2>2, <2>4, <2>6, <2>7 DEF UnpausedInv
<1>5. CASE round_ends
  <2>1. /\ close_ledger /\ renewed' = {}
        /\ instance_live => DOMAIN alerts \subseteq renewed
        /\ UNCHANGED alerts /\ AllExact'
    BY <1>5, RoundStep, UnpausedRound DEF round_ends
  <2>2. ~paused'
    BY <2>1 DEF close_ledger, settings, UnpausedInv
  <2>3. ASSUME DOMAIN alerts # {}
        PROVE  instance_live'
    <3>1. renewed \cap DOMAIN alerts # {}
      BY <2>1, <2>3 DEF UnpausedInv
    <3>2. ttl.instance > 0
      BY <3>1 DEF UnpausedInv
    <3>3. QED
      BY <1>1, <2>1, <3>2 DEF close_ledger, instance_live
  <2>4. OnlyRemoved
    BY <2>1 DEF OnlyRemoved
  <2>5. QED
    BY <2>1, <2>2, <2>3, <2>4 DEF UnpausedInv
<1>6. QED
  BY <1>2, <1>3, <1>4, <1>5 DEF KeeperNext

\* The keeper's bump_alert and bulk_renew_ttl never trap while the instance is
\* live, whether or not the registry is paused, although no other call extends
\* all four entries of an alert.
THEOREM KeeperRuns ==
    0 < DEFAULT_TTL /\ 0 < MAX_TTL
        => (KeeperSpec => [](instance_live => KeeperNeverTraps))
<1> SUFFICES ASSUME 0 < DEFAULT_TTL, 0 < MAX_TTL
             PROVE  KeeperSpec => [](instance_live => KeeperNeverTraps)
  OBVIOUS
<1>1. KeeperInit => IInv /\ KeptInv
  BY KeeperStarts
<1>2. IInv /\ KeptInv /\ [KeeperNext]_<<vars, renewed>> => (IInv /\ KeptInv)'
  BY KeeperStep
<1>3. IInv /\ KeptInv => (instance_live => KeeperNeverTraps)
  BY ExactNotRefused DEF KeptInv, KeeperNeverTraps
<1>4. QED
  BY <1>1, <1>2, <1>3, PTL DEF KeeperSpec

\* As long as the instance lives, pauses or not, no ledger that closes takes an
\* alert away: only remove_alert and remove_alert_by_admin do.
THEOREM KeptWhileLive ==
    0 < DEFAULT_TTL /\ 0 < MAX_TTL
        => (KeeperSpec => [][instance_live' => OnlyRemoved]_<<vars, renewed>>)
<1> SUFFICES ASSUME 0 < DEFAULT_TTL, 0 < MAX_TTL
             PROVE  KeeperSpec => [][instance_live' => OnlyRemoved]_<<vars, renewed>>
  OBVIOUS
<1>1. KeeperInit => IInv /\ KeptInv
  BY KeeperStarts
<1>2. IInv /\ KeptInv /\ [KeeperNext]_<<vars, renewed>>
         => (IInv /\ KeptInv)' /\ [instance_live' => OnlyRemoved]_<<vars, renewed>>
  BY KeeperStep
<1>3. QED
  BY <1>1, <1>2, PTL DEF KeeperSpec

\* Where no admin pauses the registry bump_alert keeps the instance as well, and
\* the keeper's calls never trap.
THEOREM KeeperSafe ==
    0 < DEFAULT_TTL /\ 0 < MAX_TTL /\ TRUE \notin PauseValues
        => (KeeperSpec => []KeeperNeverTraps)
<1> SUFFICES ASSUME 0 < DEFAULT_TTL, 0 < MAX_TTL, TRUE \notin PauseValues
             PROVE  KeeperSpec => []KeeperNeverTraps
  OBVIOUS
<1>1. KeeperInit => IInv /\ KeptInv /\ UnpausedInv
  BY KeeperStarts
<1>2. IInv /\ KeptInv /\ UnpausedInv /\ [KeeperNext]_<<vars, renewed>>
         => (IInv /\ KeptInv /\ UnpausedInv)'
  BY KeeperStep, UnpausedStep
<1>3. IInv /\ KeptInv /\ UnpausedInv => KeeperNeverTraps
  <2> SUFFICES ASSUME IInv, KeptInv, UnpausedInv, NEW id \in DOMAIN alerts
               PROVE  ~refused(id)
    BY DEF KeeperNeverTraps
  <2>1. instance_live
    BY DEF UnpausedInv
  <2>2. QED
    BY <2>1, ExactNotRefused DEF KeptInv
<1>4. QED
  BY <1>1, <1>2, <1>3, PTL DEF KeeperSpec

\* And an alert disappears only because its owner or an admin removes it.
THEOREM KeeperKeeps ==
    0 < DEFAULT_TTL /\ 0 < MAX_TTL /\ TRUE \notin PauseValues
        => (KeeperSpec => KeptUntilRemoved)
<1> SUFFICES ASSUME 0 < DEFAULT_TTL, 0 < MAX_TTL, TRUE \notin PauseValues
             PROVE  KeeperSpec => KeptUntilRemoved
  OBVIOUS
<1>1. KeeperInit => IInv /\ KeptInv /\ UnpausedInv
  BY KeeperStarts
<1>2. IInv /\ KeptInv /\ UnpausedInv /\ [KeeperNext]_<<vars, renewed>>
         => (IInv /\ KeptInv /\ UnpausedInv)' /\ [OnlyRemoved]_<<vars, renewed>>
  BY KeeperStep, UnpausedStep
<1>3. KeeperSpec => [][OnlyRemoved]_<<vars, renewed>>
  BY <1>1, <1>2, PTL DEF KeeperSpec
<1>4. QED
  BY <1>3 DEF KeptUntilRemoved, OnlyRemoved

\* Every step of the composed system is a step of the book, or none, and keeps the
\* limit: renewals leave the alerts alone, and so does a ledger that closes.
LEMMA KeeperBookStep ==
    ASSUME IInv, KeptInv, UnpausedInv, 0 < DEFAULT_TTL, 0 < MAX_TTL,
           [KeeperNext]_<<vars, renewed>>
    PROVE  (Book!Next \/ UNCHANGED <<book, next_id, limit>>) /\ WithinLimit
<1>1. ASSUME UNCHANGED <<alerts, next_id, limit>>
      PROVE  UNCHANGED <<book, next_id, limit>> /\ WithinLimit
  BY <1>1 DEF book, owned, WithinLimit
<1>2. CASE UNCHANGED <<vars, renewed>>
  <2>1. UNCHANGED vars
    BY <1>2
  <2>2. QED
    BY <1>1, <2>1 DEF vars, settings
<1>3. CASE \E id \in DOMAIN alerts \ renewed : keep_alive(id)
  <2>1. UNCHANGED <<alerts, next_id, limit>>
    BY <1>3 DEF keep_alive, bump_alert, bulk_renew_ttl, settings
  <2>2. QED
    BY <1>1, <2>1
<1>4. CASE round_ends
  BY <1>1, <1>4, UnpausedRound
<1>5. CASE users_act
  <2>1. LivesHeld
    BY <1>5, UsersStep
  <2>2. [Next]_vars
    BY <1>5 DEF users_act, Next
  <2>3. ~close_ledger
    <3> SUFFICES ASSUME close_ledger
                 PROVE  FALSE
      OBVIOUS
    <3>1. ttl'.instance = ttl.instance - 1
      BY <2>1 DEF LivesHeld, close_ledger, instance_live
    <3>2. QED
      BY <2>1, <3>1, LifeFacts DEF LivesHeld
  <2>4. QED
    BY <2>2, <2>3, BookStep, LimitStep DEF UnpausedInv
<1>6. QED
  BY <1>2, <1>3, <1>4, <1>5 DEF KeeperNext

\* With a keeper that bumps once a ledger both indexes stay exact, although every
\* entry may lapse on its own.
THEOREM KeeperExact ==
    0 < DEFAULT_TTL /\ 0 < MAX_TTL /\ TRUE \notin PauseValues
        => (KeeperSpec => []IndexesExact)
<1> SUFFICES ASSUME 0 < DEFAULT_TTL, 0 < MAX_TTL, TRUE \notin PauseValues
             PROVE  KeeperSpec => []IndexesExact
  OBVIOUS
<1>1. KeeperInit => IInv /\ KeptInv /\ UnpausedInv
  BY KeeperStarts
<1>2. IInv /\ KeptInv /\ UnpausedInv /\ [KeeperNext]_<<vars, renewed>>
         => (IInv /\ KeptInv /\ UnpausedInv)'
  BY KeeperStep, UnpausedStep
<1>3. UnpausedInv => IndexesExact
  BY ExactListings DEF UnpausedInv
<1>4. QED
  BY <1>1, <1>2, <1>3, PTL DEF KeeperSpec

\* And the contract, its users and its keeper implement the book of alerts.
THEOREM KeeperImplementsBook ==
    0 < DEFAULT_TTL /\ 0 < MAX_TTL /\ TRUE \notin PauseValues
        => (KeeperSpec => ImplementsAlertBook)
<1> SUFFICES ASSUME 0 < DEFAULT_TTL, 0 < MAX_TTL, TRUE \notin PauseValues
             PROVE  KeeperSpec => ImplementsAlertBook
  OBVIOUS
<1>1. KeeperInit => IInv /\ KeptInv /\ UnpausedInv
  BY KeeperStarts
<1>2. IInv /\ KeptInv /\ UnpausedInv /\ [KeeperNext]_<<vars, renewed>>
         => (IInv /\ KeptInv /\ UnpausedInv)' /\ [Book!Next]_<<book, next_id, limit>>
  BY KeeperStep, UnpausedStep, KeeperBookStep
<1>3. KeeperInit => Book!Init
  BY BookStarts DEF KeeperInit
<1>4. QED
  BY <1>1, <1>2, <1>3, PTL DEF KeeperSpec, ImplementsAlertBook, Book!Spec

\* And no registration, batch or transfer takes an owner past the limit: the
\* owner's index that assert_per_owner_limit_for counts has not lapsed.
THEOREM KeeperKeepsLimit ==
    0 < DEFAULT_TTL /\ 0 < MAX_TTL /\ TRUE \notin PauseValues
        => (KeeperSpec => LimitRespected)
<1> SUFFICES ASSUME 0 < DEFAULT_TTL, 0 < MAX_TTL, TRUE \notin PauseValues
             PROVE  KeeperSpec => LimitRespected
  OBVIOUS
<1>1. KeeperInit => IInv /\ KeptInv /\ UnpausedInv
  BY KeeperStarts
<1>2. IInv /\ KeptInv /\ UnpausedInv /\ [KeeperNext]_<<vars, renewed>>
         => (IInv /\ KeptInv /\ UnpausedInv)' /\ [WithinLimit]_vars
  BY KeeperStep, UnpausedStep, KeeperBookStep
<1>3. KeeperSpec => [][WithinLimit]_vars
  BY <1>1, <1>2, PTL DEF KeeperSpec
<1>4. QED
  BY <1>3 DEF LimitRespected, WithinLimit
=============================================================================
