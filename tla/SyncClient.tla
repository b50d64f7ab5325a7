----------------------------- MODULE SyncClient -----------------------------
(***************************************************************************)
(* A watcher node that keeps a copy of the registry by incremental sync,   *)
(* as the comment of get_alerts_modified_since describes it: on each       *)
(* polling cycle it passes the ledger timestamp of its last sync and takes *)
(* over the configs it gets.  The node is not in the repository; the       *)
(* contract it polls is AlertQueries.                                      *)
(***************************************************************************)
EXTENDS AlertQueries

VARIABLES
    mirror,      \* the node's copy: id -> AlertConfig
    last_sync    \* ledger timestamp of its last poll

client     == <<mirror, last_sync>>
sync_vars  == <<vars, client>>

SyncInit == Init /\ mirror = NoEntries /\ last_sync = 0

poll ==
    LET received == get_alerts_modified_since(last_sync)
    IN  /\ instance_live
        /\ mirror' = [id \in DOMAIN mirror \cup received |->
                         IF id \in received THEN alerts[id] ELSE mirror[id]]
        /\ last_sync' = timestamp
        /\ UNCHANGED vars

SyncNext ==
    \/ Next /\ UNCHANGED client
    \/ poll

SyncSpec == SyncInit /\ [][SyncNext]_sync_vars

\* The node keeps polling.
FairSyncSpec == SyncSpec /\ WF_sync_vars(poll)
-----------------------------------------------------------------------------
in_step(id) == id \in DOMAIN mirror /\ mirror[id] = alerts[id]

\* The copy differs from a live alert only if the next poll brings that alert:
\* a change made in the very ledger of the last poll, after it, is not missed
\* (the bound of get_alerts_modified_since is inclusive and every change is
\* stamped).
NothingMissedByPolling ==
    \A id \in DOMAIN alerts : in_step(id) \/ id \in get_alerts_modified_since(last_sync)

\* Each alert reaches the copy, or is removed or lapses first, as long as the
\* registry can be called at all.
AlertsReachMirror ==
    \A id \in Ids :
        (id \in DOMAIN alerts) ~>
            (id \notin DOMAIN alerts \/ in_step(id) \/ ~instance_live)
=============================================================================
