-------------------------- MODULE MCAlertRegistry --------------------------
(***************************************************************************)
(* Values for the constants of AlertRegistry that a configuration file     *)
(* cannot write.                                                           *)
(***************************************************************************)
EXTENDS AlertRegistry, TLC

\* Keep is the filter loop: it agrees with SelectSeq on every sequence of up to
\* four of three values.
ASSUME KeepIsFilter ==
    \A n \in 0..4 : \A s \in [1..n -> 1..3] : \A K \in SUBSET (1..3) :
        Keep(s, K) = SelectSeq(s, LAMBDA x : x \in K)

OneRuleList == {<<"rule:all">>}

\* Valid, empty, repeated and unknown descriptors.
SomeRuleLists ==
    {<<"rule:all">>, <<"rule:mint", "rule:transfer">>, << >>,
     <<"rule:all", "rule:all">>, <<"rule:other">>}

\* At and one past each of the two bounds on tags.
SomeTagLists ==
    {[i \in 1..MAX_TAGS |-> MAX_TAG_BYTES], [i \in 1..(MAX_TAGS + 1) |-> 1],
     <<MAX_TAG_BYTES + 1>>}

OwnerSymmetry == Permutations(Owners)
OwnerTargetSymmetry == Permutations(Owners) \cup Permutations(Targets)
=============================================================================
