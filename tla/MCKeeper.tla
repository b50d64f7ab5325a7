------------------------------ MODULE MCKeeper ------------------------------
(***************************************************************************)
(* Values for the constants of Keeper that a configuration file cannot     *)
(* write.                                                                  *)
(***************************************************************************)
EXTENDS Keeper, AlertRefinement, TLC

OneRuleList == {<<"rule:all">>}
OwnerTargetSymmetry == Permutations(Owners) \cup Permutations(Targets)
=============================================================================
