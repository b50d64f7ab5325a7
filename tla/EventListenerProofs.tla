------------------------ MODULE EventListenerProofs ------------------------
(***************************************************************************)
(* Proofs about the event listener, for logs of any length, any page size  *)
(* and any number of crashes.                                              *)
(*                                                                         *)
(* That the cursor moves past no unhandled event is not inductive: it has  *)
(* to be known what the fetched page holds.  PageOK says that the page is  *)
(* what follows the cursor without a gap, also when the log has grown      *)
(* since the page was fetched; OrderOK that the next event to be handled   *)
(* is later than the last one unless a crash is still unaccounted for.     *)
(* Of StorageProofs only the lemmas about sequences are used.              *)
(***************************************************************************)
EXTENDS EventListener, StorageProofs

Increasing(s) == \A i, j \in DOMAIN s : i < j => s[i] < s[j]

PageOK ==
    /\ pc \in {"handle", "advance"} <=> page # << >>
    /\ \A i \in DOMAIN page : cursor < page[i]
    /\ Increasing(page)
    /\ \A i \in DOMAIN page : \A e \in matching :
          e <= page[i] => e <= cursor \/ \E j \in 1..i : page[j] = e

\* The places where s steps back.
StepsBack(s) == {i \in 1..(Len(s) - 1) : s[i + 1] <= s[i]}

OrderOK ==
    /\ pc = "advance" => handled # << >> /\ handled[Len(handled)] = page[1]
    /\ Cardinality(StepsBack(handled)) <= crashes
    /\ \/ Cardinality(StepsBack(handled)) < crashes
       \/ handled = << >>
       \/ pc = "advance"
       \/ pc # "down" /\ handled[Len(handled)] <= cursor

IInv == TypeOK /\ NoneSkipped /\ PageOK /\ OrderOK
-----------------------------------------------------------------------------
(* Pages and places.                                                       *)

\* Ranks grow with the members, so the n-th smallest member grows with n.
LEMMA NthIncreasing ==
    ASSUME NEW I \in SUBSET Nat, IsFiniteSet(I),
           NEW m \in 1..Cardinality(I), NEW n \in 1..Cardinality(I), m < n
    PROVE  Nth(I, m) < Nth(I, n)
<1> DEFINE a == Nth(I, m)
           b == Nth(I, n)
           A == {j \in I : j <= a}
           B == {j \in I : j <= b}
<1>1. /\ a \in I /\ b \in I /\ a \in Nat /\ b \in Nat
      /\ Cardinality(A) = m /\ Cardinality(B) = n
  BY NthFacts DEF Rank
<1>2. IsFiniteSet(A) /\ IsFiniteSet(B)
  BY FS_Subset
<1>3. Cardinality(I) \in Nat
  BY FS_CardinalityType
<1> HIDE DEF a, b
<1>4. ASSUME b <= a
      PROVE  FALSE
  <2>1. B \subseteq A
    <3>1. \A j \in I : j <= b => j <= a
      BY <1>1, <1>4
    <3>2. QED
      BY <3>1
  <2>2. Cardinality(B) <= Cardinality(A)
    BY <1>2, <2>1, FS_Subset
  <2>3. QED
    BY <1>1, <1>3, <2>2
<1>5. QED
  BY <1>1, <1>4 DEF a, b

\* Every member up to the n-th smallest one is the k-th smallest for a k up to n.
LEMMA NthCovers ==
    ASSUME NEW I \in SUBSET Nat, IsFiniteSet(I), NEW n \in 1..Cardinality(I),
           NEW e \in I, e <= Nth(I, n)
    PROVE  \E k \in 1..n : Nth(I, k) = e
<1> DEFINE b == Nth(I, n)
           E == {j \in I : j <= e}
           B == {j \in I : j <= b}
           k == Cardinality(E)
<1>1. b \in I /\ b \in Nat /\ Cardinality(B) = n /\ e \in Nat /\ e <= b
  BY NthFacts DEF Rank
<1>2. IsFiniteSet(E) /\ IsFiniteSet(B) /\ Cardinality(I) \in Nat
  BY FS_Subset, FS_CardinalityType
<1> HIDE DEF b
<1>3. E \subseteq B /\ E \subseteq I /\ e \in E
  <2>1. \A j \in I : j <= e => j <= b
    BY <1>1
  <2>2. e <= e
    BY <1>1
  <2>3. E \subseteq B
    BY <2>1
  <2>4. QED
    BY <2>2, <2>3
<1>4. k \in Nat /\ k <= n
  BY <1>1, <1>2, <1>3, FS_Subset, FS_CardinalityType
<1>5. k # 0
  BY <1>2, <1>3, FS_EmptySet
<1>6. k \in 1..n /\ k \in 1..Cardinality(I) /\ Rank(I, e) = k
  BY <1>2, <1>4, <1>5 DEF Rank
<1> HIDE DEF k
<1>7. Nth(I, k) \in I /\ Rank(I, Nth(I, k)) = k
  BY <1>6, NthFacts
<1>8. Nth(I, k) = e
  BY <1>6, <1>7, RankInjective
<1>9. QED
  BY <1>6, <1>8

\* getEvents returns matching events after the cursor, in ledger order, and leaves
\* none out up to its last one.
LEMMA PageFetched ==
    ASSUME TypeOK
    PROVE  /\ getEvents \in Seq(1..Len(log))
           /\ \A i \in DOMAIN getEvents : cursor < getEvents[i]
           /\ Increasing(getEvents)
           /\ \A i \in DOMAIN getEvents : \A e \in matching :
                 e <= getEvents[i] => e <= cursor \/ \E j \in 1..i : getEvents[j] = e
<1> DEFINE after == {e \in matching : e > cursor}
           c     == Cardinality(after)
           D     == {j \in 1..PageLimit : j <= c}
           m     == IF PageLimit <= c THEN PageLimit ELSE c
           g     == [i \in D |-> Nth(after, i)]
<1>1. Len(log) \in Nat /\ cursor \in Nat /\ PageLimit \in Nat
  BY ListenerAssumption DEF TypeOK
<1>2. after \subseteq 1..Len(log) /\ after \in SUBSET Nat /\ matching \in SUBSET Nat
  BY <1>1 DEF matching
<1>3. IsFiniteSet(after)
  <2>1. IsFiniteSet(1..Len(log))
    BY <1>1, FS_Interval
  <2>2. QED
    BY <1>2, <2>1, FS_Subset
<1>4. c \in Nat
  BY <1>3, FS_CardinalityType
<1>5. g = getEvents
  BY DEF getEvents
<1>6. \A e \in after : cursor < e
  BY <1>1, <1>2
<1>7. \A e \in matching : e > cursor => e \in after
  OBVIOUS
<1> HIDE DEF after, c
<1>8. D = 1..m /\ m \in Nat /\ D \subseteq 1..c
  BY <1>1, <1>4
<1> HIDE DEF m
<1>9. \A i \in D : Nth(after, i) \in after
  BY <1>2, <1>3, <1>8, NthFacts DEF c
<1>10. g \in Seq(1..Len(log))
  <2>1. g = [i \in 1..m |-> Nth(after, i)] /\ \A i \in 1..m : Nth(after, i) \in 1..Len(log)
    BY <1>2, <1>8, <1>9
  <2> HIDE DEF g
  <2>2. QED
    BY <1>8, <2>1
<1>11. \A i \in DOMAIN g : cursor < g[i]
  BY <1>6, <1>9
<1>12. Increasing(g)
  BY <1>2, <1>3, <1>8, NthIncreasing DEF Increasing, c
<1>13. ASSUME NEW i \in DOMAIN g, NEW e \in matching, e <= g[i]
       PROVE  e <= cursor \/ \E j \in 1..i : g[j] = e
  <2>1. CASE e <= cursor
    BY <2>1
  <2>2. CASE ~(e <= cursor)
    <3>1. e \in after
      BY <1>1, <1>2, <1>7, <2>2
    <3>2. PICK k \in 1..i : Nth(after, k) = e
      BY <1>2, <1>3, <1>8, <1>13, <3>1, NthCovers DEF c
    <3>3. k \in D
      BY <1>8
    <3>4. QED
      BY <3>2, <3>3
  <2>3. QED
    BY <2>1, <2>2
<1>14. QED
  BY <1>5, <1>10, <1>11, <1>12, <1>13

\* Handling one more event steps back at most once, and not at all if the event is
\* later than the last one handled.
LEMMA StepsBackGrow ==
    ASSUME NEW s \in Seq(Nat), NEW x \in Nat
    PROVE  /\ Cardinality(StepsBack(s)) \in Nat
           /\ Cardinality(StepsBack(Append(s, x))) \in Nat
           /\ Cardinality(StepsBack(Append(s, x))) <= Cardinality(StepsBack(s)) + 1
           /\ s = << >> \/ s[Len(s)] < x =>
                 Cardinality(StepsBack(Append(s, x))) = Cardinality(StepsBack(s))
<1> DEFINE t == Append(s, x)
           n == Len(s)
           A == StepsBack(s)
           B == StepsBack(t)
<1>1. /\ n \in Nat /\ Len(t) = n + 1 /\ t[n + 1] = x
      /\ \A i \in 1..n : t[i] = s[i] /\ s[i] \in Nat
  OBVIOUS
<1>2. s = << >> <=> n = 0
  OBVIOUS
<1> HIDE DEF t, n
<1>3. A = {i \in 1..(n - 1) : s[i + 1] <= s[i]}
  BY DEF StepsBack, n
<1>4. B = {i \in 1..n : t[i + 1] <= t[i]}
  BY <1>1 DEF StepsBack
<1> HIDE DEF A, B
<1>5. A \subseteq B /\ B \subseteq A \cup {n}
  <2>1. \A i \in 1..(n - 1) : i \in 1..n /\ i + 1 \in 1..n
    BY <1>1
  <2>2. \A i \in 1..n : i # n => i \in 1..(n - 1)
    BY <1>1
  <2>3. \A i \in 1..(n - 1) : t[i + 1] = s[i + 1] /\ t[i] = s[i]
    BY <1>1, <2>1
  <2>4. A \subseteq B
    BY <1>3, <1>4, <2>1, <2>3
  <2>5. B \subseteq A \cup {n}
    BY <1>3, <1>4, <2>2, <2>3
  <2>6. QED
    BY <2>4, <2>5
<1>6. n \notin A
  BY <1>1, <1>3
<1>7. IsFiniteSet(A)
  <2>1. IsFiniteSet(1..(n - 1))
    BY <1>1, FS_Interval
  <2>2. QED
    BY <1>3, <2>1, FS_Subset
<1>8. IsFiniteSet(A \cup {n}) /\ Cardinality(A \cup {n}) = Cardinality(A) + 1
  BY <1>6, <1>7, FS_AddElement
<1>9. IsFiniteSet(B) /\ Cardinality(B) <= Cardinality(A) + 1
  BY <1>5, <1>8, FS_Subset
<1>10. Cardinality(A) \in Nat /\ Cardinality(B) \in Nat
  BY <1>7, <1>9, FS_CardinalityType
<1>11. ASSUME n = 0 \/ s[n] < x
       PROVE  B = A
  <2>1. n \notin B
    <3>1. CASE n = 0
      BY <1>4, <3>1
    <3>2. CASE n # 0
      <4>1. n \in 1..n /\ t[n + 1] = x /\ t[n] = s[n] /\ s[n] \in Nat
        BY <1>1, <3>2
      <4>2. ~(t[n + 1] <= t[n])
        BY <1>11, <3>2, <4>1
      <4>3. QED
        BY <1>4, <4>2
    <3>3. QED
      BY <3>1, <3>2
  <2>2. QED
    BY <1>5, <2>1
<1>12. QED
  BY <1>2, <1>9, <1>10, <1>11 DEF A, B, t, n
-----------------------------------------------------------------------------
(* The steps.                                                              *)

\* An event emitted while a page is being handled comes after the page.
LEMMA Emit ==
    ASSUME IInv, NEW topic \in {"register", "other"}, emit(topic)
    PROVE  IInv'
<1> DEFINE L == Len(log)
           new == log'
<1>1. TypeOK /\ NoneSkipped /\ PageOK /\ OrderOK
  BY DEF IInv
<1>2. new = Append(log, topic) /\ UNCHANGED <<cursor, page, pc, handled, crashes>>
  BY DEF emit
<1>3. /\ log \in Seq({"register", "other"}) /\ L \in Nat /\ cursor \in 0..L
      /\ page \in Seq(1..L) /\ handled \in Seq(1..L)
  BY <1>1 DEF TypeOK
<1>4. /\ new \in Seq({"register", "other"}) /\ Len(new) = L + 1
      /\ \A e \in 1..L : new[e] = log[e]
  BY <1>2, <1>3
<1> HIDE DEF L, new
<1>5. cursor \in 0..(L + 1) /\ page \in Seq(1..(L + 1)) /\ handled \in Seq(1..(L + 1))
  BY <1>3
<1>6. TypeOK'
  BY <1>1, <1>2, <1>4, <1>5 DEF TypeOK, new
<1>7. \A e \in matching' : e \in Nat /\ (e <= L => e \in matching)
  <2>1. matching' = {e \in 1..(L + 1) : new[e] = "register"}
    BY <1>4 DEF matching, new
  <2>2. matching = {e \in 1..L : log[e] = "register"}
    BY DEF matching, L
  <2>3. \A e \in 1..(L + 1) : e \in Nat /\ (e <= L => e \in 1..L)
    BY <1>3
  <2>4. QED
    BY <1>4, <2>1, <2>2, <2>3
<1>8. NoneSkipped'
  <2>1. \A e \in matching' : e <= cursor => e <= L
    BY <1>3, <1>7
  <2>2. QED
    BY <1>1, <1>2, <1>7, <2>1 DEF NoneSkipped
<1>9. PageOK'
  <2>1. \A i \in DOMAIN page : page[i] \in 1..L
    BY <1>3
  <2>2. \A i \in DOMAIN page : \A e \in matching' : e <= page[i] => e \in matching
    BY <1>3, <1>7, <2>1
  <2>3. QED
    BY <1>1, <1>2, <2>2 DEF PageOK, Increasing
<1>10. OrderOK'
  BY <1>1, <1>2 DEF OrderOK, StepsBack
<1>11. QED
  BY <1>6, <1>8, <1>9, <1>10 DEF IInv

\* poll fetches what follows the cursor.
LEMMA Poll ==
    ASSUME IInv, poll
    PROVE  IInv'
<1> DEFINE new == page'
<1>1. TypeOK /\ NoneSkipped /\ PageOK /\ OrderOK
  BY DEF IInv
<1>2. /\ pc = "poll" /\ new = getEvents /\ pc' = IF new = << >> THEN "poll" ELSE "handle"
      /\ UNCHANGED <<log, cursor, handled, crashes>>
  BY DEF poll
<1>3. /\ new \in Seq(1..Len(log))
      /\ \A i \in DOMAIN new : cursor < new[i]
      /\ Increasing(new)
      /\ \A i \in DOMAIN new : \A e \in matching :
            e <= new[i] => e <= cursor \/ \E j \in 1..i : new[j] = e
  BY <1>1, <1>2, PageFetched
<1> HIDE DEF new
<1>4. matching' = matching
  BY <1>2 DEF matching
<1>5. TypeOK'
  BY <1>1, <1>2, <1>3 DEF TypeOK, new
<1>6. NoneSkipped'
  BY <1>1, <1>2, <1>4 DEF NoneSkipped
<1>7. PageOK'
  BY <1>2, <1>3, <1>4 DEF PageOK, Increasing, new
<1>8. OrderOK'
  BY <1>1, <1>2 DEF OrderOK, StepsBack
<1>9. QED
  BY <1>5, <1>6, <1>7, <1>8 DEF IInv

\* The event handled next is later than the last one, unless a crash came between.
LEMMA Handle ==
    ASSUME IInv, handle
    PROVE  IInv'
<1> DEFINE new == handled'
           x   == page[1]
<1>1. TypeOK /\ NoneSkipped /\ PageOK /\ OrderOK
  BY DEF IInv
<1>2. /\ pc = "handle" /\ new = Append(handled, Head(page)) /\ pc' = "advance"
      /\ UNCHANGED <<log, cursor, page, crashes>>
  BY DEF handle
<1>3. page # << >> /\ page \in Seq(1..Len(log)) /\ handled \in Seq(1..Len(log))
      /\ cursor \in Nat /\ crashes \in Nat /\ Len(log) \in Nat
  BY <1>1, <1>2, ListenerAssumption DEF PageOK, TypeOK
<1>4. Head(page) = x /\ x \in 1..Len(log) /\ 1 \in DOMAIN page /\ x \in Nat
      /\ handled \in Seq(Nat)
  BY <1>3
<1>5. /\ new \in Seq(1..Len(log)) /\ new # << >> /\ new[Len(new)] = x
      /\ Range(new) = Range(handled) \cup {x}
  <2>1. new = Append(handled, x)
    BY <1>2, <1>4
  <2>2. Append(handled, x) \in Seq(1..Len(log)) /\ Range(Append(handled, x)) = Range(handled) \cup {x}
    BY <1>3, <1>4, AppendFacts
  <2>3. Append(handled, x) # << >> /\ Append(handled, x)[Len(Append(handled, x))] = x
    <3> HIDE DEF x
    <3>1. Len(handled) \in Nat /\ Len(Append(handled, x)) = Len(handled) + 1
      BY <1>3
    <3>2. Append(handled, x)[Len(handled) + 1] = x
      BY <1>3, <3>1
    <3>3. Append(handled, x) # << >>
      BY <1>3, <1>4, AppendFacts
    <3>4. QED
      BY <3>1, <3>2, <3>3
  <2>4. QED
    BY <2>1, <2>2, <2>3
<1>6. cursor < x
  BY <1>1, <1>4 DEF PageOK
<1>7. /\ Cardinality(StepsBack(handled)) \in Nat /\ Cardinality(StepsBack(new)) \in Nat
      /\ Cardinality(StepsBack(new)) <= Cardinality(StepsBack(handled)) + 1
      /\ handled = << >> \/ handled[Len(handled)] < x =>
            Cardinality(StepsBack(new)) = Cardinality(StepsBack(handled))
  BY <1>2, <1>4, StepsBackGrow
<1> HIDE DEF new, x
<1>8. handled # << >> => handled[Len(handled)] \in Nat
  BY <1>3
<1>9. Cardinality(StepsBack(new)) <= crashes
  <2>1. CASE Cardinality(StepsBack(handled)) < crashes
    BY <1>3, <1>7, <2>1
  <2>2. CASE handled = << >> \/ handled[Len(handled)] <= cursor
    <3>1. handled = << >> \/ handled[Len(handled)] < x
      BY <1>3, <1>4, <1>6, <1>8, <2>2
    <3>2. QED
      BY <1>1, <1>7, <3>1 DEF OrderOK
  <2>3. QED
    BY <1>1, <1>2, <2>1, <2>2 DEF OrderOK
<1>10. matching' = matching
  BY <1>2 DEF matching
<1>11. TypeOK'
  BY <1>1, <1>2, <1>5 DEF TypeOK, new
<1>12. NoneSkipped'
  BY <1>1, <1>2, <1>5, <1>10 DEF NoneSkipped, new
<1>13. PageOK'
  BY <1>1, <1>2, <1>3, <1>10 DEF PageOK, Increasing
<1>14. OrderOK'
  BY <1>2, <1>5, <1>9 DEF OrderOK, new, x
<1>15. QED
  BY <1>11, <1>12, <1>13, <1>14 DEF IInv

\* The cursor moves past the event just handled: nothing lies between the two.
LEMMA Advance ==
    ASSUME IInv, advance
    PROVE  IInv'
<1> DEFINE new == page'
           x   == page[1]
<1>1. TypeOK /\ NoneSkipped /\ PageOK /\ OrderOK
  BY DEF IInv
<1>2. /\ pc = "advance" /\ new = Tail(page) /\ cursor' = Head(page)
      /\ pc' = IF new = << >> THEN "poll" ELSE "handle"
      /\ UNCHANGED <<log, handled, crashes>>
  BY DEF advance
<1>3. /\ page # << >> /\ page \in Seq(1..Len(log)) /\ handled \in Seq(1..Len(log))
      /\ cursor \in Nat /\ Len(log) \in Nat
      /\ handled # << >> /\ handled[Len(handled)] = x
  BY <1>1, <1>2 DEF PageOK, OrderOK, TypeOK
<1>4. /\ cursor' = x /\ x \in 1..Len(log) /\ 1 \in DOMAIN page
      /\ new \in Seq(1..Len(log))
      /\ \A i \in DOMAIN new : i \in Nat /\ i + 1 \in DOMAIN page /\ new[i] = page[i + 1]
  <2> DEFINE n == Len(page)
  <2>1. n \in Nat /\ n > 0 /\ DOMAIN page = 1..n
    BY <1>3
  <2>2. cursor' = x /\ x \in 1..Len(log)
    BY <1>2, <1>3, <2>1
  <2>3. Tail(page) \in Seq(1..Len(log)) /\ DOMAIN Tail(page) = 1..(n - 1)
    BY <1>3, <2>1
  <2>4. \A i \in 1..(n - 1) : i \in Nat /\ i + 1 \in 1..n /\ Tail(page)[i] = page[i + 1]
    BY <1>3, <2>1
  <2>5. QED
    BY <1>2, <2>1, <2>2, <2>3, <2>4
<1>5. cursor < x /\ x \in Nat
  BY <1>1, <1>4 DEF PageOK
<1>6. x \in Range(handled)
  BY <1>3 DEF Range
<1>7. matching' = matching /\ matching \in SUBSET Nat
  BY <1>2, <1>3 DEF matching
<1> HIDE DEF new, x
<1>8. TypeOK'
  BY <1>1, <1>2, <1>3, <1>4 DEF TypeOK, new
<1>9. \A e \in matching : e <= x => e <= cursor \/ e = x
  BY <1>1, <1>4 DEF PageOK, x
<1>10. NoneSkipped'
  BY <1>1, <1>2, <1>4, <1>6, <1>7, <1>9 DEF NoneSkipped
<1>11. PageOK'
  <2>1. \A i \in DOMAIN new : x < new[i]
    BY <1>1, <1>4 DEF PageOK, Increasing, x
  <2>2. Increasing(new)
    BY <1>1, <1>4 DEF PageOK, Increasing
  <2>3. ASSUME NEW i \in DOMAIN new, NEW e \in matching, e <= new[i]
        PROVE  e <= x \/ \E j \in 1..i : new[j] = e
    <3>1. i + 1 \in DOMAIN page /\ e <= page[i + 1] /\ i \in Nat /\ e \in Nat
      BY <1>4, <1>7, <2>3
    <3>2. e <= cursor \/ \E j \in 1..(i + 1) : page[j] = e
      BY <1>1, <3>1 DEF PageOK
    <3>3. CASE e <= cursor
      BY <1>3, <1>5, <3>1, <3>3
    <3>4. ASSUME NEW j \in 1..(i + 1), page[j] = e
          PROVE  e <= x \/ \E k \in 1..i : new[k] = e
      <4>1. CASE j = 1
        BY <1>5, <3>4, <4>1 DEF x
      <4>2. CASE j # 1
        <5>1. j - 1 \in 1..i
          BY <3>1, <4>2
        <5>2. i \in DOMAIN new /\ DOMAIN new = 1..Len(new) /\ Len(new) \in Nat
          BY <1>4, <2>3
        <5>3. j - 1 \in DOMAIN new /\ (j - 1) + 1 = j
          BY <3>1, <5>1, <5>2
        <5>4. new[j - 1] = e
          BY <1>4, <3>4, <5>3
        <5>5. QED
          BY <5>1, <5>4
      <4>3. QED
        BY <4>1, <4>2
    <3>5. QED
      BY <3>2, <3>3, <3>4
  <2>4. pc' \in {"handle", "advance"} <=> new # << >>
    BY <1>2
  <2>5. /\ \A i \in DOMAIN new : cursor' < new[i]
        /\ \A i \in DOMAIN new : \A e \in matching' :
              e <= new[i] => e <= cursor' \/ \E j \in 1..i : new[j] = e
    BY <1>4, <1>7, <2>1, <2>3
  <2>6. QED
    BY <2>2, <2>4, <2>5 DEF PageOK, Increasing, new
<1>12. OrderOK'
  <2>1. handled'[Len(handled')] <= cursor' /\ pc' # "down" /\ pc' # "advance"
    BY <1>2, <1>3, <1>4, <1>5
  <2>2. QED
    BY <1>1, <1>2, <2>1 DEF OrderOK
<1>13. QED
  BY <1>8, <1>10, <1>11, <1>12 DEF IInv

\* A crash accounts for one step back later.
LEMMA Crash ==
    ASSUME IInv, crash
    PROVE  IInv'
<1>1. TypeOK /\ NoneSkipped /\ PageOK /\ OrderOK
  BY DEF IInv
<1>2. /\ pc' = "down" /\ page' = << >> /\ crashes < MaxCrashes /\ crashes' = crashes + 1
      /\ UNCHANGED <<log, cursor, handled>>
  BY DEF crash
<1>3. crashes \in Nat /\ MaxCrashes \in Nat /\ handled \in Seq(Nat)
  BY <1>1, ListenerAssumption DEF TypeOK
<1>4. TypeOK'
  BY <1>1, <1>2, <1>3 DEF TypeOK
<1>5. NoneSkipped'
  BY <1>1, <1>2 DEF NoneSkipped, matching
<1>6. PageOK'
  BY <1>2 DEF PageOK, Increasing
<1>7. OrderOK'
  <2>1. Cardinality(StepsBack(handled)) \in Nat
    BY <1>3, StepsBackGrow
  <2>2. QED
    BY <1>1, <1>2, <1>3, <2>1 DEF OrderOK
<1>8. QED
  BY <1>4, <1>5, <1>6, <1>7 DEF IInv

\* The new process starts from the beginning, with the crash still unaccounted for.
LEMMA Restart ==
    ASSUME IInv, restart
    PROVE  IInv'
<1>1. TypeOK /\ NoneSkipped /\ PageOK /\ OrderOK
  BY DEF IInv
<1>2. /\ pc = "down" /\ pc' = "poll" /\ cursor' = 0
      /\ UNCHANGED <<log, page, handled, crashes>>
  BY DEF restart
<1>3. page = << >> /\ Len(log) \in Nat
  BY <1>1, <1>2 DEF PageOK, TypeOK
<1>4. TypeOK'
  BY <1>1, <1>2, <1>3 DEF TypeOK
<1>5. NoneSkipped'
  <2>1. \A e \in matching' : ~(e <= 0)
    BY <1>2, <1>3 DEF matching
  <2>2. QED
    BY <1>2, <2>1 DEF NoneSkipped
<1>6. PageOK'
  BY <1>2, <1>3 DEF PageOK, Increasing
<1>7. OrderOK'
  BY <1>1, <1>2 DEF OrderOK
<1>8. QED
  BY <1>4, <1>5, <1>6, <1>7 DEF IInv
-----------------------------------------------------------------------------
(* The theorems.                                                           *)

\* The listener starts in a state that satisfies the invariant.
LEMMA InitIInv == Init => IInv
<1> SUFFICES ASSUME Init
             PROVE  IInv
  OBVIOUS
<1>1. TypeOK
  BY ListenerAssumption DEF Init, TypeOK
<1>2. matching = {}
  BY DEF Init, matching
<1>3. NoneSkipped /\ PageOK
  BY <1>2 DEF Init, NoneSkipped, PageOK, Increasing
<1>4. OrderOK
  <2>1. StepsBack(handled) = {}
    BY DEF Init, StepsBack
  <2>2. Cardinality({}) = 0
    BY FS_EmptySet
  <2>3. QED
    BY <2>1, <2>2 DEF Init, OrderOK
<1>5. QED
  BY <1>1, <1>3, <1>4 DEF IInv

\* Every step keeps the invariant, whatever the process was doing before it.
LEMMA Invariance == Spec => []IInv
<1>1. IInv /\ [Next]_vars => IInv'
  <2> SUFFICES ASSUME IInv, [Next]_vars
               PROVE  IInv'
    OBVIOUS
  <2>1. CASE UNCHANGED vars
    BY <2>1 DEF vars, IInv, TypeOK, NoneSkipped, PageOK, OrderOK, matching,
                Increasing, StepsBack
  <2>2. QED
    BY <2>1, Emit, Poll, Handle, Advance, Crash, Restart DEF Next
<1>2. QED
  BY <1>1, InitIInv, PTL DEF Spec

\* Cursor, page and handled events stay on the log.
THEOREM ListenerTypes == Spec => []TypeOK
<1>1. IInv => TypeOK
  BY DEF IInv
<1>2. QED
  BY <1>1, Invariance, PTL

\* No crash, at whatever point of handling a page, makes the listener move past a
\* register event it has not handled.
THEOREM NoEventSkipped == Spec => []NoneSkipped
<1>1. IInv => NoneSkipped
  BY DEF IInv
<1>2. QED
  BY <1>1, Invariance, PTL

\* Register events are handled in ledger order, with at most one step back for
\* each crash.
THEOREM OrderKept == Spec => []HandledInOrder
<1>1. IInv => HandledInOrder
  BY DEF IInv, OrderOK, StepsBack, HandledInOrder
<1>2. QED
  BY <1>1, Invariance, PTL
=============================================================================
