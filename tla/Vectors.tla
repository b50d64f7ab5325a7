------------------------------ MODULE Vectors ------------------------------
(***************************************************************************)
(* Vec<u64> values of the contracts, as sequences.  Every filter loop of   *)
(* the source (copy the elements that pass a test into a new Vec, in       *)
(* order) is Keep(s, K): the elements of s that are members of K.          *)
(*                                                                         *)
(* Keep is written by rank rather than with SelectSeq so that its facts    *)
(* can be proved without induction over sequences (module StorageProofs);  *)
(* MCAlertRegistry compares the two definitions on short sequences.        *)
(***************************************************************************)
EXTENDS Naturals, Sequences, FiniteSets, Functions

\* The positions of s whose element is in K.
Positions(s, K) == {i \in DOMAIN s : s[i] \in K}

\* The number of members of I up to and including i.
Rank(I, i) == Cardinality({j \in I : j <= i})

\* The n-th smallest member of a finite set I of numbers.
Nth(I, n) == CHOOSE i \in I : Rank(I, i) = n

Keep(s, K) ==
    LET I == Positions(s, K)
    IN  [n \in 1..Cardinality(I) |-> s[Nth(I, n)]]

\* s without any occurrence of x.
Without(s, x) == Keep(s, Range(s) \ {x})

\* No element occurs twice.
NoRepeats(s) == \A i, j \in DOMAIN s : s[i] = s[j] => i = j
=============================================================================
