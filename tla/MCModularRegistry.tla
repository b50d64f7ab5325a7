------------------------- MODULE MCModularRegistry -------------------------
(***************************************************************************)
(* Values for the constants of ModularRegistry that a configuration file   *)
(* cannot write.                                                           *)
(***************************************************************************)
EXTENDS ModularRegistry, TLC

\* An empty list is accepted, an unknown descriptor is not.
SomeRuleLists == {<< >>, <<"rule:all">>}

PartySymmetry ==
    Permutations(Owners) \cup Permutations(Targets) \cup Permutations(Admins)
=============================================================================
