-------------------------- MODULE MCWatcherGating --------------------------
(***************************************************************************)
(* Values for the constants of WatcherGating that a configuration file     *)
(* cannot write.                                                           *)
(***************************************************************************)
EXTENDS WatcherGating, TLC

OneRuleList == {<<"rule:all">>}
=============================================================================
