---------------------------- MODULE MCSyncClient ----------------------------
(***************************************************************************)
(* Values for the constants of SyncClient that a configuration file cannot *)
(* write.                                                                  *)
(***************************************************************************)
EXTENDS SyncClient

OneRuleList == {<<"rule:all">>}
=============================================================================
