--------------------------- MODULE StorageProofs ----------------------------
(***************************************************************************)
(* What the operations all modules share return and preserve: the filter   *)
(* loops over a Vec (module Vectors), then the host's storage operations   *)
(* (module LedgerStorage).                                                 *)
(***************************************************************************)
EXTENDS Vectors, LedgerStorage, FiniteSetTheorems, SequenceTheorems, TLAPS
-----------------------------------------------------------------------------
(* Keep(s, K) is a sequence over the same elements, holds exactly the      *)
(* elements of s that are in K, and repeats none if s repeats none.        *)

\* Two members of a finite set of numbers have the same rank only if they are
\* the same.
LEMMA RankInjective ==
    ASSUME NEW I \in SUBSET Nat, IsFiniteSet(I),
           NEW i \in I, NEW j \in I, Rank(I, i) = Rank(I, j)
    PROVE  i = j
<1>1. ASSUME NEW a \in I, NEW b \in I, a < b, Rank(I, a) = Rank(I, b)
      PROVE  FALSE
  <2> DEFINE A == {k \in I : k <= a}
             B == {k \in I : k <= b}
  <2>1. A \subseteq B
    <3>1. a \in Nat /\ b \in Nat /\ \A k \in I : k \in Nat
      OBVIOUS
    <3>2. \A k \in I : k <= a => k <= b
      BY <1>1, <3>1
    <3>3. QED
      BY <3>2
  <2>2. IsFiniteSet(B)
    <3>1. B \in SUBSET I
      OBVIOUS
    <3>2. QED
      BY <3>1, FS_Subset
  <2>3. Cardinality(A) = Cardinality(B)
    BY <1>1 DEF Rank
  <2>4. A = B
    <3> HIDE DEF A, B
    <3>1. QED
      BY <2>1, <2>2, <2>3, FS_Subset
  <2>5. b \in B /\ b \notin A
    BY <1>1
  <2>6. QED
    BY <2>4, <2>5
<1>2. i < j \/ j < i \/ i = j
  OBVIOUS
<1>3. QED
  BY <1>1, <1>2

\* Every rank from 1 to the size of the set is taken, so Nth is defined.
LEMMA NthFacts ==
    ASSUME NEW I \in SUBSET Nat, IsFiniteSet(I), NEW n \in 1..Cardinality(I)
    PROVE  Nth(I, n) \in I /\ Rank(I, Nth(I, n)) = n
<1> DEFINE c == Cardinality(I)
           r == [i \in I |-> Rank(I, i)]
<1>1. c \in Nat
  BY FS_CardinalityType
<1>2. ASSUME NEW i \in I
      PROVE  Rank(I, i) \in 1..c
  <2> DEFINE A == {k \in I : k <= i}
  <2>1. A \in SUBSET I /\ i \in A
    OBVIOUS
  <2> HIDE DEF A
  <2>2. IsFiniteSet(A) /\ Cardinality(A) <= c
    BY <2>1, FS_Subset
  <2>3. Cardinality(A) \in Nat /\ Cardinality(A) # 0
    BY <2>1, <2>2, FS_CardinalityType, FS_EmptySet
  <2>4. Rank(I, i) = Cardinality(A)
    BY DEF Rank, A
  <2>5. QED
    BY <1>1, <2>2, <2>3, <2>4
<1>3. r \in Injection(I, 1..c)
  <2>1. r \in [I -> 1..c]
    BY <1>2
  <2>2. \A i, j \in I : r[i] = r[j] => i = j
    BY RankInjective
  <2>3. QED
    BY <2>1, <2>2 DEF Injection, IsInjective
<1>4. IsFiniteSet(1..c) /\ Cardinality(1..c) = c
  BY <1>1, FS_Interval
<1>5. r \in Surjection(I, 1..c)
  <2> HIDE DEF r
  <2>1. QED
    BY <1>3, <1>4, FS_Injection
<1>6. \E i \in I : Rank(I, i) = n
  BY <1>5 DEF Surjection
<1>7. QED
  BY <1>6 DEF Nth

\* The facts about Keep that the proofs about the contracts use.
THEOREM KeepFacts ==
    ASSUME NEW S, NEW s \in Seq(S), NEW K
    PROVE  /\ Keep(s, K) \in Seq(S)
           /\ Range(Keep(s, K)) = Range(s) \cap K
           /\ NoRepeats(s) => NoRepeats(Keep(s, K))
<1> DEFINE I == Positions(s, K)
           c == Cardinality(I)
           t == [n \in 1..c |-> s[Nth(I, n)]]
<1>1. I \in SUBSET Nat /\ I \subseteq DOMAIN s /\ IsFiniteSet(I)
  <2>1. I \in SUBSET (1..Len(s)) /\ Len(s) \in Nat /\ DOMAIN s = 1..Len(s)
    BY DEF Positions
  <2>2. IsFiniteSet(1..Len(s))
    BY <2>1, FS_Interval
  <2> HIDE DEF I
  <2>3. IsFiniteSet(I)
    BY <2>1, <2>2, FS_Subset
  <2>4. QED
    BY <2>1, <2>3
<1>2. c \in Nat
  BY <1>1, FS_CardinalityType
<1>3. Keep(s, K) = t
  BY DEF Keep
<1>4. ASSUME NEW n \in 1..c
      PROVE  Nth(I, n) \in I /\ Rank(I, Nth(I, n)) = n
  <2> HIDE DEF I
  <2>1. QED
    BY <1>1, NthFacts
<1>5. \A i \in DOMAIN s : s[i] \in S
  OBVIOUS
<1>6. t \in Seq(S)
  <2>1. t \in [1..c -> S]
    BY <1>1, <1>4, <1>5
  <2>2. QED
    BY <1>2, <2>1
<1>7. ASSUME NEW i \in I
      PROVE  Rank(I, i) \in 1..c /\ Nth(I, Rank(I, i)) = i
  <2>1. Rank(I, i) \in 1..c
    <3> DEFINE A == {k \in I : k <= i}
    <3>1. A \in SUBSET I /\ i \in A
      BY <1>1
    <3> HIDE DEF A, I
    <3>2. IsFiniteSet(A) /\ Cardinality(A) <= c
      BY <1>1, <3>1, FS_Subset
    <3>3. Cardinality(A) \in Nat /\ Cardinality(A) # 0
      BY <3>1, <3>2, FS_CardinalityType, FS_EmptySet
    <3>4. Rank(I, i) = Cardinality(A)
      BY DEF Rank, A
    <3>5. QED
      BY <1>2, <3>2, <3>3, <3>4
  <2>2. Nth(I, Rank(I, i)) \in I /\ Rank(I, Nth(I, Rank(I, i))) = Rank(I, i)
    BY <1>4, <2>1
  <2> DEFINE j == Nth(I, Rank(I, i))
  <2>3. j \in I /\ Rank(I, j) = Rank(I, i)
    BY <2>2
  <2> HIDE DEF I, j
  <2>4. i = j
    BY <1>1, <2>3, RankInjective
  <2>5. QED
    BY <2>1, <2>4 DEF j
<1>8. Range(t) = Range(s) \cap K
  <2>1. ASSUME NEW x \in Range(t)
        PROVE  x \in Range(s) \cap K
    <3>1. PICK n \in 1..c : x = s[Nth(I, n)]
      BY DEF Range
    <3>2. QED
      BY <3>1, <1>4 DEF Positions, Range
  <2>2. ASSUME NEW x \in Range(s) \cap K
        PROVE  x \in Range(t)
    <3>1. PICK i \in DOMAIN s : x = s[i]
      BY DEF Range
    <3>2. i \in I
      BY <3>1 DEF Positions
    <3>3. Rank(I, i) \in 1..c /\ t[Rank(I, i)] = x
      BY <1>7, <3>1, <3>2
    <3>4. QED
      BY <3>3 DEF Range
  <2>3. QED
    BY <2>1, <2>2
<1>9. ASSUME NoRepeats(s)
      PROVE  NoRepeats(t)
  <2>1. SUFFICES ASSUME NEW m \in 1..c, NEW n \in 1..c, t[m] = t[n]
                 PROVE  m = n
    BY DEF NoRepeats
  <2>2. Nth(I, m) = Nth(I, n)
    BY <1>1, <1>4, <1>9, <2>1 DEF NoRepeats
  <2>3. QED
    BY <1>4, <2>2
<1>10. QED
  BY <1>3, <1>6, <1>8, <1>9

\* The sequence that lists nothing is the empty one.
LEMMA EmptyRange ==
    ASSUME NEW S, NEW s \in Seq(S)
    PROVE  s = << >> <=> Range(s) = {}
<1>1. s = << >> => Range(s) = {}
  BY DEF Range
<1>2. ASSUME s # << >>
      PROVE  Range(s) # {}
  <2>1. 1 \in DOMAIN s
    BY <1>2
  <2>2. s[1] \in Range(s)
    BY <2>1 DEF Range
  <2>3. QED
    BY <2>2
<1>3. QED
  BY <1>1, <1>2

\* The removal loops drop the given element and nothing else.
LEMMA WithoutFacts ==
    ASSUME NEW S, NEW s \in Seq(S), NEW x
    PROVE  /\ Without(s, x) \in Seq(S)
           /\ Range(Without(s, x)) = Range(s) \ {x}
           /\ NoRepeats(s) => NoRepeats(Without(s, x))
<1> DEFINE K == Range(s) \ {x}
<1>1. Without(s, x) = Keep(s, K)
  BY DEF Without
<1>2. Range(s) \cap K = Range(s) \ {x}
  OBVIOUS
<1> HIDE DEF K
<1>3. QED
  BY <1>1, <1>2, KeepFacts

\* A batch of ids joined to the end of a Vec that lists none of them.
LEMMA ConcatFacts ==
    ASSUME NEW S, NEW s \in Seq(S), NEW t \in Seq(S)
    PROVE  /\ s \o t \in Seq(S)
           /\ Range(s \o t) = Range(s) \cup Range(t)
           /\ NoRepeats(s) /\ NoRepeats(t) /\ Range(s) \cap Range(t) = {}
                => NoRepeats(s \o t)
<1> DEFINE u == s \o t
           m == Len(s)
           n == Len(t)
<1>1. /\ m \in Nat /\ n \in Nat
      /\ DOMAIN s = 1..m /\ DOMAIN t = 1..n /\ DOMAIN u = 1..(m + n)
      /\ u \in Seq(S)
  OBVIOUS
<1>2. /\ \A i \in 1..m : i \in 1..(m + n) /\ u[i] = s[i]
      /\ \A i \in 1..n : m + i \in 1..(m + n) /\ u[m + i] = t[i]
  OBVIOUS
<1>3. \A i \in 1..(m + n) : i \in 1..m \/ (i - m \in 1..n /\ i = m + (i - m))
  BY <1>1
<1> HIDE DEF u, m, n
<1>4. \A i \in 1..(m + n) :
         (i \in 1..m /\ u[i] = s[i]) \/ (i - m \in 1..n /\ u[i] = t[i - m])
  BY <1>1, <1>2, <1>3
<1>5. Range(u) = Range(s) \cup Range(t)
  <2>1. Range(u) \subseteq Range(s) \cup Range(t)
    BY <1>1, <1>4 DEF Range
  <2>2. Range(s) \subseteq Range(u)
    BY <1>1, <1>2 DEF Range
  <2>3. Range(t) \subseteq Range(u)
    BY <1>1, <1>2 DEF Range
  <2>4. QED
    BY <2>1, <2>2, <2>3
<1>6. ASSUME NoRepeats(s), NoRepeats(t), Range(s) \cap Range(t) = {}
      PROVE  NoRepeats(u)
  <2>1. SUFFICES ASSUME NEW i \in 1..(m + n), NEW j \in 1..(m + n), u[i] = u[j]
                 PROVE  i = j
    BY <1>1 DEF NoRepeats
  <2>2. \A a \in 1..m, b \in 1..n : s[a] # t[b]
    BY <1>1, <1>6 DEF Range
  <2>3. CASE i \in 1..m /\ j \in 1..m
    BY <1>1, <1>2, <1>6, <2>1, <2>3 DEF NoRepeats
  <2>4. CASE i - m \in 1..n /\ u[i] = t[i - m] /\ j - m \in 1..n /\ u[j] = t[j - m]
    <3>1. i - m = j - m
      BY <1>1, <1>6, <2>1, <2>4 DEF NoRepeats
    <3>2. QED
      BY <1>1, <3>1
  <2>5. QED
    BY <1>4, <2>1, <2>2, <2>3, <2>4
<1>7. QED
  BY <1>1, <1>5, <1>6 DEF u

\* push_back of an id a Vec does not list.
LEMMA AppendFacts ==
    ASSUME NEW S, NEW s \in Seq(S), NEW x \in S
    PROVE  /\ Append(s, x) \in Seq(S)
           /\ Append(s, x) # << >>
           /\ Range(Append(s, x)) = Range(s) \cup {x}
           /\ NoRepeats(s) /\ x \notin Range(s) => NoRepeats(Append(s, x))
<1> DEFINE t == <<x>>
           u == Append(s, x)
<1>1. t \in Seq(S) /\ Range(t) = {x} /\ NoRepeats(t)
  BY DEF Range, NoRepeats
<1>2. u = s \o t
  OBVIOUS
<1>3. x \notin Range(s) => Range(s) \cap {x} = {}
  OBVIOUS
<1> HIDE DEF t, u
<1>4. /\ u \in Seq(S)
      /\ Range(u) = Range(s) \cup {x}
      /\ NoRepeats(s) /\ x \notin Range(s) => NoRepeats(u)
  BY <1>1, <1>2, <1>3, ConcatFacts
<1>5. u # << >>
  BY <1>4, EmptyRange
<1>6. QED
  BY <1>4, <1>5 DEF u

\* A Vec without repetition is as long as the set of its elements is large.
LEMMA RangeCount ==
    ASSUME NEW S, NEW s \in Seq(S), NoRepeats(s)
    PROVE  IsFiniteSet(Range(s)) /\ Cardinality(Range(s)) = Len(s)
<1> DEFINE D == 1..Len(s)
<1>1. Len(s) \in Nat /\ DOMAIN s = D
  OBVIOUS
<1>2. IsFiniteSet(D) /\ Cardinality(D) = Len(s)
  BY <1>1, FS_Interval
<1>3. s \in [D -> Range(s)] /\ \A y \in Range(s) : \E i \in D : s[i] = y
  BY <1>1 DEF Range
<1>4. \A i, j \in D : s[i] = s[j] => i = j
  BY <1>1 DEF NoRepeats
<1> HIDE DEF D
<1>5. s \in Surjection(D, Range(s)) /\ s \in Injection(D, Range(s))
  BY <1>3, <1>4 DEF Surjection, Injection, IsInjective
<1>6. QED
  BY <1>2, <1>5, FS_Surjection

\* A filter returns as many elements as pass; it never makes a Vec longer, and
\* makes it shorter if it drops anything.
LEMMA KeepShorter ==
    ASSUME NEW S, NEW s \in Seq(S), NEW K
    PROVE  /\ Len(Keep(s, K)) \in Nat /\ Len(Keep(s, K)) <= Len(s)
           /\ Len(Keep(s, K)) = Cardinality(Positions(s, K))
           /\ Len(Keep(s, K)) = Len(s) => Range(s) \subseteq K
<1> DEFINE I == Positions(s, K)
           D == 1..Len(s)
<1>1. Len(s) \in Nat /\ DOMAIN s = D
  OBVIOUS
<1>2. IsFiniteSet(D) /\ Cardinality(D) = Len(s)
  BY <1>1, FS_Interval
<1>3. I \in SUBSET D /\ \A i \in D : i \in I <=> s[i] \in K
  BY <1>1 DEF Positions
<1> HIDE DEF I, D
<1>4. IsFiniteSet(I) /\ Cardinality(I) <= Len(s) /\ (Cardinality(I) = Len(s) => I = D)
  BY <1>2, <1>3, FS_Subset
<1>5. Cardinality(I) \in Nat
  BY <1>4, FS_CardinalityType
<1>6. Len(Keep(s, K)) = Cardinality(I)
  <2> DEFINE c == Cardinality(I)
  <2>1. Keep(s, K) = [n \in 1..c |-> s[Nth(I, n)]]
    BY DEF Keep, I
  <2>2. Keep(s, K) \in Seq(S) /\ c \in Nat
    BY <1>5, KeepFacts
  <2> HIDE DEF c
  <2>3. DOMAIN Keep(s, K) = 1..c
    BY <2>1
  <2>4. Len(Keep(s, K)) = c
    BY <2>2, <2>3
  <2>5. QED
    BY <2>4 DEF c
<1>7. I = D => Range(s) \subseteq K
  BY <1>1, <1>3 DEF Range
<1>8. Len(Keep(s, K)) = Cardinality(Positions(s, K))
  BY <1>6 DEF I
<1>9. QED
  BY <1>4, <1>5, <1>6, <1>7, <1>8

\* A Vec has at least as many entries as elements.
LEMMA RangeBound ==
    ASSUME NEW S, NEW s \in Seq(S)
    PROVE  /\ IsFiniteSet(Range(s)) /\ Cardinality(Range(s)) \in Nat
           /\ Cardinality(Range(s)) <= Len(s)
<1> DEFINE D == 1..Len(s)
<1>1. Len(s) \in Nat /\ DOMAIN s = D
  OBVIOUS
<1>2. IsFiniteSet(D) /\ Cardinality(D) = Len(s)
  BY <1>1, FS_Interval
<1>3. s \in [D -> Range(s)] /\ \A y \in Range(s) : \E i \in D : s[i] = y
  BY <1>1 DEF Range
<1> HIDE DEF D
<1>4. s \in Surjection(D, Range(s))
  BY <1>3 DEF Surjection
<1>5. IsFiniteSet(Range(s)) /\ Cardinality(Range(s)) <= Len(s)
  BY <1>2, <1>4, FS_Surjection
<1>6. QED
  BY <1>5, FS_CardinalityType

\* A removal loop shortens a Vec that has the element.
LEMMA WithoutShorter ==
    ASSUME NEW S, NEW s \in Seq(S), NEW x \in Range(s)
    PROVE  Len(Without(s, x)) \in Nat /\ Len(Without(s, x)) < Len(s)
<1> DEFINE K == Range(s) \ {x}
<1>1. Without(s, x) = Keep(s, K) /\ ~(Range(s) \subseteq K)
  BY DEF Without
<1> HIDE DEF K
<1>2. Len(s) \in Nat
  OBVIOUS
<1>3. QED
  BY <1>1, <1>2, KeepShorter

\* remove_admin's LastAdmin check suffices: more than one entry of a Vec
\* without repetitions means that another admin remains.
LEMMA AnotherRemains ==
    ASSUME NEW S, NEW s \in Seq(S), NoRepeats(s), Len(s) > 1, NEW x
    PROVE  Without(s, x) # << >>
<1>1. 1 \in DOMAIN s /\ 2 \in DOMAIN s
  OBVIOUS
<1>2. s[1] \in Range(s) /\ s[2] \in Range(s) /\ s[1] # s[2]
  <2>1. s[1] # s[2]
    BY <1>1 DEF NoRepeats
  <2>2. QED
    BY <1>1, <2>1 DEF Range
<1>3. Range(s) \ {x} # {}
  BY <1>2
<1>4. Without(s, x) \in Seq(S) /\ Range(Without(s, x)) = Range(s) \ {x}
  BY WithoutFacts
<1>5. QED
  BY <1>3, <1>4, EmptyRange
-----------------------------------------------------------------------------
(* Reading in pages.  Two functions that satisfy the same recursion are    *)
(* equal because they cannot differ at a first place; the least number of  *)
(* a set stands for induction.                                             *)

\* A set of numbers has a least one.
LEMMA LeastNumber ==
    ASSUME NEW T \in SUBSET Nat, T # {}
    PROVE  \E x \in T : \A y \in T : x <= y
<1>1. PICK x \in T : \A y \in T : ~(<<y, x>> \in OpToRel(<, Nat))
  BY NatLessThanWellFounded, WFMin
<1>2. \A y \in T : ~(y < x)
  BY <1>1 DEF OpToRel
<1>3. QED
  BY <1>2

\* f reads pages: from an offset that is not among the last, the page there and
\* what is read from the next offset on, a later one.
Reads(f, N, last, page, next) ==
    /\ \A o \in 0..N : o \notin last => next[o] \in 0..N /\ next[o] > o
    /\ \A o \in 0..N : f[o] = IF o \in last THEN << >> ELSE page[o] \o f[next[o]]

\* There is only one way to read the same pages: where two readings differed last,
\* they would differ later.
LEMMA SameReading ==
    ASSUME NEW N \in Nat, NEW last, NEW page, NEW next, NEW f, NEW g,
           Reads(f, N, last, page, next), Reads(g, N, last, page, next)
    PROVE  \A o \in 0..N : f[o] = g[o]
<1> DEFINE T == {d \in Nat : N - d \in 0..N /\ f[N - d] # g[N - d]}
<1> SUFFICES ASSUME NEW o \in 0..N, f[o] # g[o]
             PROVE  FALSE
  OBVIOUS
<1>1. N - (N - o) = o /\ N - o \in Nat
  OBVIOUS
<1>2. T # {} /\ T \in SUBSET Nat
  BY <1>1
<1>3. PICK d \in T : \A e \in T : d <= e
  BY <1>2, LeastNumber
<1> DEFINE p == N - d
<1>4. d \in Nat /\ p \in 0..N /\ f[p] # g[p]
  BY <1>3
<1>5. p \notin last
  BY <1>4 DEF Reads
<1>6. next[p] \in 0..N /\ next[p] > p
  BY <1>4, <1>5 DEF Reads
<1>7. N - next[p] \in Nat /\ N - next[p] < d /\ N - (N - next[p]) = next[p]
  BY <1>4, <1>6
<1>8. N - next[p] \notin T
  BY <1>3, <1>4, <1>7
<1>9. f[next[p]] = g[next[p]]
  BY <1>6, <1>7, <1>8
<1>10. f[p] = page[p] \o f[next[p]] /\ g[p] = page[p] \o g[next[p]]
  BY <1>4, <1>5 DEF Reads
<1>11. QED
  BY <1>4, <1>9, <1>10

\* A stretch of a sequence.
LEMMA Stretch ==
    ASSUME NEW S, NEW s \in Seq(S), NEW i \in 0..Len(s), NEW j \in i..Len(s)
    PROVE  /\ SubSeq(s, i + 1, j) \in Seq(S)
           /\ Len(SubSeq(s, i + 1, j)) = j - i
           /\ SubSeq(s, i + 1, j) = << >> <=> i = j
<1> DEFINE t == SubSeq(s, i + 1, j)
           m == i + 1
<1>1. Len(s) \in Nat /\ i \in Int /\ j \in Int /\ i <= j /\ m \in Int /\ m = i + 1
  OBVIOUS
<1>2. \A k \in m..j : s[k] \in S
  BY <1>1
<1> HIDE DEF m
<1>3. /\ SubSeq(s, m, j) \in Seq(S)
      /\ Len(SubSeq(s, m, j)) = IF m <= j THEN j - m + 1 ELSE 0
  BY <1>1, <1>2, SubSeqProperties
<1>4. t \in Seq(S) /\ Len(t) = j - i
  BY <1>1, <1>3
<1> HIDE DEF t
<1>5. t = << >> <=> Len(t) = 0
  BY <1>4
<1>6. t = << >> <=> i = j
  BY <1>1, <1>4, <1>5
<1>7. QED
  BY <1>4, <1>6 DEF t

\* A stretch and the one that follows it.
LEMMA Adjacent ==
    ASSUME NEW S, NEW s \in Seq(S), NEW i \in 0..Len(s), NEW j \in i..Len(s)
    PROVE  SubSeq(s, i + 1, j) \o SubSeq(s, j + 1, Len(s)) = SubSeq(s, i + 1, Len(s))
<1>1. /\ i + 1 \in 1..(Len(s) + 1) /\ j \in ((i + 1) - 1)..Len(s)
      /\ Len(s) \in j..Len(s)
  OBVIOUS
<1>2. QED
  BY <1>1, ConcatAdjacentSubSeq

\* The positions of a sequence's elements in K are a finite set of numbers.
LEMMA PositionsFinite ==
    ASSUME NEW S, NEW s \in Seq(S), NEW K
    PROVE  /\ Positions(s, K) \in SUBSET Nat /\ IsFiniteSet(Positions(s, K))
           /\ Cardinality(Positions(s, K)) \in Nat
           /\ \A i : i \in Positions(s, K) <=> i \in 1..Len(s) /\ s[i] \in K
<1> DEFINE I == Positions(s, K)
<1>1. I \in SUBSET (1..Len(s)) /\ Len(s) \in Nat /\ DOMAIN s = 1..Len(s)
  BY DEF Positions
<1>2. \A i : i \in I <=> i \in 1..Len(s) /\ s[i] \in K
  BY <1>1 DEF Positions
<1>3. IsFiniteSet(1..Len(s))
  BY <1>1, FS_Interval
<1> HIDE DEF I
<1>4. IsFiniteSet(I) /\ Cardinality(I) \in Nat
  BY <1>1, <1>3, FS_Subset, FS_CardinalityType
<1>5. QED
  BY <1>1, <1>2, <1>4 DEF I

\* As many numbers as before, when each grows by a.
LEMMA Shifted ==
    ASSUME NEW J \in SUBSET Nat, IsFiniteSet(J), NEW a \in Nat,
           NEW T, \A k : k \in T <=> \E j \in J : k = a + j
    PROVE  IsFiniteSet(T) /\ Cardinality(T) = Cardinality(J)
<1> DEFINE f == [j \in J |-> a + j]
<1>1. f \in [J -> T]
  OBVIOUS
<1>2. \A i, j \in J : f[i] = f[j] => i = j
  OBVIOUS
<1>3. \A k \in T : \E j \in J : f[j] = k
  OBVIOUS
<1>4. f \in Injection(J, T) /\ f \in Surjection(J, T)
  BY <1>1, <1>2, <1>3 DEF Injection, IsInjective, Surjection
<1>5. ExistsBijection(J, T)
  BY <1>4 DEF ExistsBijection, Bijection
<1>6. QED
  BY <1>5, FS_Bijection

\* Filtering two sequences one after the other is filtering the two in one.
LEMMA KeepConcat ==
    ASSUME NEW S, NEW s \in Seq(S), NEW t \in Seq(S), NEW K
    PROVE  Keep(s \o t, K) = Keep(s, K) \o Keep(t, K)
<1> DEFINE u == s \o t
           a == Len(s)
           I == Positions(s, K)
           J == Positions(t, K)
           P == Positions(u, K)
           c == Cardinality(I)
           d == Cardinality(J)
<1>1. /\ u \in Seq(S) /\ Len(u) = a + Len(t)
      /\ \A i \in 1..(a + Len(t)) : u[i] = IF i <= a THEN s[i] ELSE t[i - a]
  BY ConcatProperties
<1>2. a \in Nat /\ Len(t) \in Nat
  OBVIOUS
<1> HIDE DEF u
<1>3. /\ I \in SUBSET Nat /\ IsFiniteSet(I) /\ c \in Nat
      /\ \A i : i \in I <=> i \in 1..a /\ s[i] \in K
  BY PositionsFinite
<1>4. /\ J \in SUBSET Nat /\ IsFiniteSet(J) /\ d \in Nat
      /\ \A i : i \in J <=> i \in 1..Len(t) /\ t[i] \in K
  BY PositionsFinite
<1>5. /\ P \in SUBSET Nat /\ IsFiniteSet(P) /\ Cardinality(P) \in Nat
      /\ \A i : i \in P <=> i \in 1..Len(u) /\ u[i] \in K
  BY <1>1, PositionsFinite
<1> HIDE DEF I, J, P, a, c, d
<1>6. \A i \in I : i \in P /\ i <= a /\ u[i] = s[i]
  BY <1>1, <1>2, <1>3, <1>5
<1>7. \A j \in J : a + j \in P /\ a + j > a /\ u[a + j] = t[j]
  <2>1. \A j \in J : j \in 1..Len(t) /\ t[j] \in K
    BY <1>4
  <2>2. \A j \in 1..Len(t) : a + j \in 1..Len(u) /\ a + j > a /\ (a + j) - a = j
    BY <1>1, <1>2
  <2>3. \A j \in 1..Len(t) : u[a + j] = t[j]
    BY <1>1, <1>2, <2>2
  <2>4. QED
    BY <1>5, <2>1, <2>2, <2>3
<1>8. \A k \in P : k \in I \/ \E j \in J : k = a + j
  <2> SUFFICES ASSUME NEW k \in P, k \notin I
               PROVE  \E j \in J : k = a + j
    OBVIOUS
  <2>1. k \in 1..(a + Len(t)) /\ u[k] \in K
    BY <1>1, <1>5
  <2>2. k > a /\ u[k] = t[k - a]
    BY <1>1, <1>2, <1>3, <2>1
  <2>3. k - a \in 1..Len(t) /\ k = a + (k - a)
    BY <1>2, <2>1, <2>2
  <2>4. k - a \in J
    BY <1>4, <2>1, <2>2, <2>3
  <2>5. QED
    BY <2>3, <2>4
<1>9. ASSUME NEW i \in I
      PROVE  Rank(P, i) = Rank(I, i)
  <2>1. \A k \in P : k <= i => k \in I
    BY <1>2, <1>3, <1>4, <1>6, <1>7, <1>8
  <2>2. {k \in P : k <= i} = {k \in I : k <= i}
    BY <1>6, <2>1
  <2>3. QED
    BY <2>2 DEF Rank
<1>10. ASSUME NEW j \in Nat
       PROVE  /\ Cardinality({k \in J : k <= j}) \in Nat
              /\ Cardinality({k \in P : k <= a + j}) = c + Cardinality({k \in J : k <= j})
  <2> DEFINE B == {k \in J : k <= j}
             T == {a + k : k \in B}
             Q == {k \in P : k <= a + j}
  <2>1. B \in SUBSET J
    OBVIOUS
  <2>2. Q = I \cup T
    <3>1. \A k \in I : k \in Q
      BY <1>2, <1>3, <1>6
    <3>2. \A k \in B : a + k \in Q
      BY <1>2, <1>4, <1>7
    <3>3. ASSUME NEW k \in Q, k \notin I
          PROVE  k \in T
      <4>1. PICK l \in J : k = a + l
        BY <1>8, <3>3
      <4>2. l <= j
        BY <1>2, <1>4, <4>1
      <4>3. QED
        BY <4>1, <4>2
    <3>4. QED
      BY <3>1, <3>2, <3>3
  <2>3. I \cap T = {}
    BY <1>2, <1>3, <1>4, <1>6, <1>7
  <2>4. \A k : k \in T <=> \E l \in B : k = a + l
    OBVIOUS
  <2> HIDE DEF B, T, Q
  <2>5. IsFiniteSet(B) /\ B \in SUBSET Nat /\ Cardinality(B) \in Nat
    BY <1>4, <2>1, FS_Subset, FS_CardinalityType
  <2>6. IsFiniteSet(T) /\ Cardinality(T) = Cardinality(B)
    BY <1>2, <2>4, <2>5, Shifted
  <2>7. Cardinality(Q) = Cardinality(I) + Cardinality(T) - Cardinality({})
    BY <1>3, <2>2, <2>3, <2>6, FS_Union
  <2>8. Cardinality({}) = 0
    BY FS_EmptySet
  <2>9. Cardinality(Q) = c + Cardinality(B)
    BY <1>3, <2>5, <2>6, <2>7, <2>8 DEF c
  <2>10. QED
    BY <2>5, <2>9 DEF Q, B
<1>11. Cardinality(P) = c + d
  <2> DEFINE b == Len(t)
  <2>1. {k \in J : k <= b} = J
    BY <1>2, <1>4
  <2>2. {k \in P : k <= a + b} = P
    BY <1>1, <1>2, <1>5
  <2>3. b \in Nat
    BY <1>2
  <2> HIDE DEF b
  <2>4. QED
    BY <1>10, <2>1, <2>2, <2>3 DEF d
<1>12. ASSUME NEW n \in 1..(c + d)
       PROVE  u[Nth(P, n)] = IF n <= c THEN s[Nth(I, n)] ELSE t[Nth(J, n - c)]
  <2>1. Nth(P, n) \in P /\ Rank(P, Nth(P, n)) = n
    BY <1>5, <1>11, NthFacts
  <2>2. CASE n <= c
    <3>1. n \in 1..Cardinality(I)
      BY <1>3, <1>4, <2>2 DEF c
    <3>2. Nth(I, n) \in I /\ Rank(I, Nth(I, n)) = n
      BY <1>3, <3>1, NthFacts
    <3>3. Nth(I, n) \in P /\ Rank(P, Nth(I, n)) = n
      BY <1>6, <1>9, <3>2
    <3>4. Nth(P, n) = Nth(I, n)
      BY <1>5, <2>1, <3>3, RankInjective
    <3>5. QED
      BY <1>6, <2>2, <3>2, <3>4
  <2>3. CASE n > c
    <3> DEFINE m == n - c
               j == Nth(J, m)
    <3>1. m \in 1..Cardinality(J) /\ n = c + m /\ ~(n <= c)
      BY <1>3, <1>4, <2>3 DEF d
    <3> HIDE DEF m
    <3>2. j \in J /\ Rank(J, j) = m
      BY <1>4, <3>1, NthFacts
    <3> HIDE DEF j
    <3>3. a + j \in P /\ j \in Nat /\ u[a + j] = t[j]
      BY <1>4, <1>7, <3>2
    <3>4. Rank(P, a + j) = n
      BY <1>10, <3>1, <3>2, <3>3 DEF Rank
    <3>5. Nth(P, n) = a + j
      BY <1>5, <2>1, <3>3, <3>4, RankInjective
    <3>6. QED
      BY <3>1, <3>3, <3>5 DEF j, m
  <2>4. QED
    BY <1>3, <1>4, <2>2, <2>3
<1>13. /\ Keep(s, K) \in Seq(S) /\ Len(Keep(s, K)) = c
       /\ \A n \in 1..c : Keep(s, K)[n] = s[Nth(I, n)]
  BY <1>3, KeepFacts, KeepShorter DEF Keep, I, c
<1>14. /\ Keep(t, K) \in Seq(S) /\ Len(Keep(t, K)) = d
       /\ \A n \in 1..d : Keep(t, K)[n] = t[Nth(J, n)]
  BY <1>4, KeepFacts, KeepShorter DEF Keep, J, d
<1>15. /\ Keep(u, K) \in Seq(S) /\ Len(Keep(u, K)) = c + d
       /\ \A n \in 1..(c + d) : Keep(u, K)[n] = u[Nth(P, n)]
  BY <1>1, <1>5, <1>11, KeepFacts, KeepShorter DEF Keep, P
<1> DEFINE v == Keep(s, K) \o Keep(t, K)
<1>16. /\ v \in Seq(S) /\ Len(v) = c + d
       /\ \A n \in 1..(c + d) : v[n] = IF n <= c THEN Keep(s, K)[n] ELSE Keep(t, K)[n - c]
  BY <1>13, <1>14, ConcatProperties
<1> HIDE DEF v
<1>17. \A n \in 1..(c + d) : Keep(u, K)[n] = v[n]
  <2> SUFFICES ASSUME NEW n \in 1..(c + d)
               PROVE  Keep(u, K)[n] = v[n]
    OBVIOUS
  <2>1. CASE n <= c
    <3>1. n \in 1..c
      BY <1>3, <1>4, <2>1
    <3>2. QED
      BY <1>12, <1>13, <1>15, <1>16, <2>1, <3>1
  <2>2. CASE n > c
    <3>1. n - c \in 1..d /\ ~(n <= c)
      BY <1>3, <1>4, <2>2
    <3>2. QED
      BY <1>12, <1>14, <1>15, <1>16, <3>1
  <2>3. QED
    BY <1>3, <1>4, <2>1, <2>2
<1>18. Keep(u, K) = v
  BY <1>15, <1>16, <1>17, SeqEqual
<1>19. QED
  BY <1>18 DEF u, v
-----------------------------------------------------------------------------
(* What each storage operation does to the domain and to the values of a   *)
(* table of entries (the *Effect lemmas), and that the result is still a   *)
(* table of the same type (the *Table lemmas).                             *)

\* set() creates or overwrites one entry and leaves the others alone.
LEMMA PutEffect ==
    ASSUME NEW f, NEW k, NEW v
    PROVE  /\ DOMAIN Put(f, k, v) = DOMAIN f \cup {k}
           /\ Put(f, k, v)[k] = v
           /\ \A x \in DOMAIN f \ {k} : Put(f, k, v)[x] = f[x]
BY DEF Put

\* set() of a value of the right type keeps a table well typed.
LEMMA PutTable ==
    ASSUME NEW D, NEW S, NEW f, IsTable(f, D, S), NEW k \in D, NEW v \in S
    PROVE  IsTable(Put(f, k, v), D, S)
BY DEF IsTable, Put

\* Entries that lapse or are removed take nothing else with them.
LEMMA RestrictEffect ==
    ASSUME NEW f, NEW K
    PROVE  /\ DOMAIN Restrict(f, K) = K
           /\ \A x \in K : Restrict(f, K)[x] = f[x]
BY DEF Restrict

\* The entries that remain keep their types.
LEMMA RestrictTable ==
    ASSUME NEW D, NEW S, NEW f, IsTable(f, D, S), NEW K, K \subseteq DOMAIN f
    PROVE  IsTable(Restrict(f, K), D, S)
BY DEF IsTable, Restrict

\* remove() deletes one entry and leaves the others alone.
LEMMA DropEffect ==
    ASSUME NEW f, NEW k
    PROVE  /\ DOMAIN Drop(f, k) = DOMAIN f \ {k}
           /\ \A x \in DOMAIN f \ {k} : Drop(f, k)[x] = f[x]
BY RestrictEffect DEF Drop

\* remove() keeps a table well typed.
LEMMA DropTable ==
    ASSUME NEW D, NEW S, NEW f, IsTable(f, D, S), NEW k
    PROVE  IsTable(Drop(f, k), D, S)
<1>1. DOMAIN f \ {k} \subseteq DOMAIN f
  OBVIOUS
<1>2. QED
  BY <1>1, RestrictTable DEF Drop

\* extend_ttl() gives a life to the keys it is called for and to no other.
LEMMA ExtendEffect ==
    ASSUME NEW t, NEW K, NEW n
    PROVE  DOMAIN Extend(t, K, n) = DOMAIN t \cup K
BY DEF Extend

\* extend_ttl() keeps lives natural numbers.
LEMMA ExtendTable ==
    ASSUME NEW D, NEW t, IsTable(t, D, Nat), NEW K \in SUBSET D, NEW n \in Nat
    PROVE  IsTable(Extend(t, K, n), D, Nat)
<1>1. \A k \in DOMAIN t : t[k] \in Nat
  BY DEF IsTable
<1>2. \A k \in DOMAIN t \cup K : Extend(t, K, n)[k] \in Nat
  BY <1>1, MinTtlAssumption DEF Extend, AtLeast
<1>3. DOMAIN Extend(t, K, n) = DOMAIN t \cup K
  BY DEF Extend
<1>4. Extend(t, K, n) = [k \in DOMAIN t \cup K |-> Extend(t, K, n)[k]]
  BY DEF Extend
<1>5. Extend(t, K, n) \in [DOMAIN t \cup K -> Nat]
  BY <1>2, <1>4
<1>6. QED
  BY <1>3, <1>5 DEF IsTable

\* Extending no key changes nothing.
LEMMA ExtendNothing ==
    ASSUME NEW D, NEW t, IsTable(t, D, Nat), NEW n
    PROVE  Extend(t, {}, n) = t
<1>1. DOMAIN t \cup {} = DOMAIN t
  OBVIOUS
<1>2. Extend(t, {}, n) = [k \in DOMAIN t |-> t[k]]
  BY <1>1 DEF Extend
<1>3. t = [k \in DOMAIN t |-> t[k]]
  BY DEF IsTable
<1>4. QED
  BY <1>2, <1>3

\* When a ledger closes exactly the entries with a life left keep one.
LEMMA AgeEffect ==
    ASSUME NEW t
    PROVE  /\ DOMAIN Age(t) = Survivors(t)
           /\ Survivors(t) \subseteq DOMAIN t
BY DEF Age, Survivors

\* The lives that are left are natural numbers.
LEMMA AgeTable ==
    ASSUME NEW D, NEW t, IsTable(t, D, Nat)
    PROVE  IsTable(Age(t), D, Nat)
<1>1. \A k \in DOMAIN t : t[k] \in Nat
  BY DEF IsTable
<1>2. \A k \in Survivors(t) : t[k] - 1 \in Nat
  BY <1>1 DEF Survivors
<1>3. Age(t) \in [Survivors(t) -> Nat] /\ DOMAIN Age(t) = Survivors(t)
  BY <1>2 DEF Age
<1>4. QED
  BY <1>3, AgeEffect DEF IsTable
=============================================================================
