------------------------------- MODULE Keeper -------------------------------
(***************************************************************************)
(* A keeper service as docs/storage-recovery.md and docs/ttl.md advise: in *)
(* every ledger it calls bump_alert for each stored alert, and while the   *)
(* registry is paused, when bump_alert is refused, bulk_renew_ttl instead. *)
(* Owners and admins go on using the registry of AlertRegistry meanwhile.  *)
(* The keeper is not in the repository.  A ledger does not wait for calls  *)
(* that the contract refuses.                                              *)
(***************************************************************************)
EXTENDS AlertRegistry

VARIABLE renewed   \* the alerts the keeper has renewed in this ledger

KeeperInit == Init /\ renewed = {}

keep_alive(id) ==
    /\ IF paused THEN bulk_renew_ttl({id}) ELSE bump_alert(id, DEFAULT_TTL)
    /\ renewed' = renewed \cup {id}

users_act ==
    /\ admin_call \/ owner_call \/ alert_call \/ renewal_call
    /\ UNCHANGED renewed

\* A renewal traps if the alert's flag or one of its index entries is gone, and
\* every call fails once the instance is archived.
refused(id) ==
    \/ ~instance_live
    \/ id \notin DOMAIN alert_active
    \/ ~index_keys_live(id)

round_ends ==
    /\ \A id \in DOMAIN alerts \ renewed : refused(id)
    /\ close_ledger
    /\ renewed' = {}

KeeperNext ==
    \/ \E id \in DOMAIN alerts \ renewed : keep_alive(id)
    \/ users_act
    \/ round_ends

KeeperSpec == KeeperInit /\ [][KeeperNext]_<<vars, renewed>>
-----------------------------------------------------------------------------
\* The keeper's calls never trap: although alerts, flags and index entries have
\* lives of their own and most calls extend only some of them, a stored alert
\* always has its flag and both its index entries, and the instance is there.
KeeperNeverTraps == \A id \in DOMAIN alerts : ~refused(id)

\* With the keeper at work an alert disappears only because its owner or an
\* admin removes it, never because a ledger closes.
KeptUntilRemoved ==
    [][\A id \in DOMAIN alerts \ DOMAIN alerts' :
          \/ remove_alert(alerts[id].owner, id)
          \/ \E admin \in Admins : remove_alert_by_admin(admin, id)]_<<vars, renewed>>
=============================================================================
