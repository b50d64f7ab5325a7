----------------------- MODULE AlertPropertiesProofs -----------------------
(***************************************************************************)
(* More proofs about the AlertRegistry contract, on top of the inductive   *)
(* invariant of AlertRegistryProofs: its administrators, the payloads it   *)
(* stores, what a call may change of an alert, the active flags, how the   *)
(* two indexes follow the alerts, exactly while nothing lapses, and that   *)
(* the contract then implements AlertBook and keeps the limit.             *)
(***************************************************************************)
EXTENDS AlertRefinement, AlertRegistryProofs
-----------------------------------------------------------------------------
(* Administrators.                                                         *)

\* The calls that concern alerts or entries leave the settings alone, and so does
\* a ledger that closes, which alone moves the time.
LEMMA SettingsUntouched ==
    ASSUME \/ owner_call \/ alert_call \/ renewal_call \/ close_ledger
           \/ \E admin \in Admins, id \in Ids, active \in BOOLEAN :
                 set_alert_active_by_admin(admin, id, active)
           \/ \E admin \in Admins, id \in Ids : remove_alert_by_admin(admin, id)
    PROVE  UNCHANGED settings /\ (close_ledger \/ UNCHANGED timestamp)
<1>1. CASE owner_call
  <2>1. ASSUME NEW owner, NEW inputs, NEW tags, register(owner, inputs, tags)
        PROVE  UNCHANGED <<settings, timestamp>>
    BY <2>1 DEF register
  <2>2. ASSUME NEW owner, deactivate_all_alerts(owner)
        PROVE  UNCHANGED <<settings, timestamp>>
    BY <2>2 DEF deactivate_all_alerts
  <2>3. QED
    BY <1>1, <2>1, <2>2 DEF owner_call, register_alert, batch_register_alerts
<1>2. CASE alert_call
  <2>1. ASSUME NEW id, NEW config, amend(id, config)
        PROVE  UNCHANGED <<settings, timestamp>>
    BY <2>1 DEF amend
  <2>2. ASSUME NEW id, remove_alert_record(id)
        PROVE  UNCHANGED <<settings, timestamp>>
    BY <2>2 DEF remove_alert_record
  <2>3. PICK caller \in Owners, id \in Ids :
           \/ \E rules \in RuleLists, active \in BOOLEAN :
                 update_alert(caller, id, rules, active)
           \/ \E hash \in Hashes : update_webhook(caller, id, hash)
           \/ \E hash \in Hashes : propose_webhook(caller, id, hash)
           \/ confirm_webhook(caller, id)
           \/ \E label \in Labels : update_label(caller, id, label)
           \/ \E tags \in TagLists \cup {None} : update_tags(caller, id, tags)
           \/ \E target \in Targets : update_target_contract(caller, id, target)
           \/ \E other \in Owners : transfer_alert_ownership(caller, id, other)
           \/ remove_alert(caller, id)
    BY <1>2 DEF alert_call
  <2>4. CASE \E rules \in RuleLists, active \in BOOLEAN :
                update_alert(caller, id, rules, active)
    BY <2>1, <2>4 DEF update_alert
  <2>5. CASE \E hash \in Hashes : update_webhook(caller, id, hash)
    BY <2>1, <2>5 DEF update_webhook
  <2>6. CASE \E hash \in Hashes : propose_webhook(caller, id, hash)
    BY <2>1, <2>6 DEF propose_webhook
  <2>7. CASE confirm_webhook(caller, id)
    BY <2>1, <2>7 DEF confirm_webhook
  <2>8. CASE \E label \in Labels : update_label(caller, id, label)
    BY <2>1, <2>8 DEF update_label
  <2>9. CASE \E tags \in TagLists \cup {None} : update_tags(caller, id, tags)
    BY <2>1, <2>9 DEF update_tags
  <2>10. CASE \E target \in Targets : update_target_contract(caller, id, target)
    BY <2>1, <2>10 DEF update_target_contract
  <2>11. CASE \E other \in Owners : transfer_alert_ownership(caller, id, other)
    BY <2>1, <2>11 DEF transfer_alert_ownership
  <2>12. CASE remove_alert(caller, id)
    BY <2>2, <2>12 DEF remove_alert
  <2>13. QED
    BY <2>3, <2>4, <2>5, <2>6, <2>7, <2>8, <2>9, <2>10, <2>11, <2>12
<1>3. CASE renewal_call
  BY <1>3 DEF renewal_call, bump_alert, bulk_renew_ttl, get_alert
<1>4. CASE close_ledger
  BY <1>4 DEF close_ledger
<1>5. CASE \/ \E admin \in Admins, id \in Ids, active \in BOOLEAN :
                 set_alert_active_by_admin(admin, id, active)
           \/ \E admin \in Admins, id \in Ids : remove_alert_by_admin(admin, id)
  <2>1. ASSUME NEW admin, NEW id, NEW active, set_alert_active_by_admin(admin, id, active)
        PROVE  UNCHANGED <<settings, timestamp>>
    BY <2>1 DEF set_alert_active_by_admin, amend
  <2>2. ASSUME NEW admin, NEW id, remove_alert_by_admin(admin, id)
        PROVE  UNCHANGED <<settings, timestamp>>
    BY <2>2 DEF remove_alert_by_admin, remove_alert_record
  <2>3. QED
    BY <1>5, <2>1, <2>2
<1>6. QED
  BY <1>1, <1>2, <1>3, <1>4, <1>5

\* Every call leaves an initialised registry with an admin, and no admin twice.
LEMMA AdminsStep ==
    ASSUME IInv, AdminsNeverEmpty, [Next]_vars
    PROVE  AdminsNeverEmpty'
<1>1. admins \in Seq(Admins) /\ initialized \in BOOLEAN /\ NoRepeats(admins)
  BY DEF IInv, SettingsOK, AdminsNeverEmpty
<1>2. ASSUME UNCHANGED <<initialized, admins>>
      PROVE  AdminsNeverEmpty'
  BY <1>2 DEF AdminsNeverEmpty
<1>3. ASSUME NEW admin \in Admins
      PROVE  <<admin>> # << >> /\ NoRepeats(<<admin>>)
  BY DEF NoRepeats
<1>4. ASSUME NEW admin \in Admins, initialize(admin)
      PROVE  AdminsNeverEmpty'
  BY <1>3, <1>4 DEF initialize, AdminsNeverEmpty
<1>5. ASSUME NEW admin \in Admins, initialized, UNCHANGED initialized,
             NoRepeats(admins'), admins' # << >>
      PROVE  AdminsNeverEmpty'
  BY <1>5 DEF AdminsNeverEmpty
<1>6. ASSUME NEW admin \in Admins, NEW other \in Admins,
             \/ transfer_admin(admin, other)
             \/ add_admin(admin, other)
             \/ remove_admin(admin, other)
      PROVE  AdminsNeverEmpty'
  <2>1. initialized /\ UNCHANGED initialized
    BY <1>6 DEF transfer_admin, add_admin, remove_admin, assert_admin, set_admins
  <2>2. CASE transfer_admin(admin, other)
    <3>1. admins' = <<other>>
      BY <2>2 DEF transfer_admin, set_admins
    <3>2. QED
      BY <1>3, <1>5, <2>1, <3>1
  <2>3. CASE add_admin(admin, other)
    <3>1. admins' = Append(admins, other) /\ other \notin Range(admins)
      BY <2>3 DEF add_admin, set_admins
    <3>2. Append(admins, other) # << >> /\ NoRepeats(Append(admins, other))
      BY <1>1, <3>1, AppendFacts
    <3>3. QED
      BY <1>5, <2>1, <3>1, <3>2
  <2>4. CASE remove_admin(admin, other)
    <3>1. admins' = Without(admins, other) /\ Len(admins) > 1
      BY <2>4 DEF remove_admin, set_admins
    <3>2. Without(admins, other) # << >> /\ NoRepeats(Without(admins, other))
      BY <1>1, <3>1, AnotherRemains, WithoutFacts
    <3>3. QED
      BY <1>5, <2>1, <3>1, <3>2
  <2>5. QED
    BY <1>6, <2>2, <2>3, <2>4
<1>7. CASE admin_call
  <2>1. PICK admin \in Admins :
           \/ initialize(admin)
           \/ \E other \in Admins :
                 \/ transfer_admin(admin, other)
                 \/ add_admin(admin, other)
                 \/ remove_admin(admin, other)
           \/ \E n \in Limits : set_per_owner_alert_limit(admin, n)
           \/ \E value \in PauseValues : set_paused(admin, value)
           \/ \E registry \in Registries : set_watcher_registry(admin, registry)
           \/ \E id \in Ids, active \in BOOLEAN :
                 set_alert_active_by_admin(admin, id, active)
           \/ \E id \in Ids : remove_alert_by_admin(admin, id)
    BY <1>7 DEF admin_call
  <2>2. CASE \/ \E n \in Limits : set_per_owner_alert_limit(admin, n)
             \/ \E value \in PauseValues : set_paused(admin, value)
             \/ \E registry \in Registries : set_watcher_registry(admin, registry)
    BY <1>2, <2>2 DEF set_per_owner_alert_limit, set_paused, set_watcher_registry
  <2>3. CASE \/ \E id \in Ids, active \in BOOLEAN :
                   set_alert_active_by_admin(admin, id, active)
             \/ \E id \in Ids : remove_alert_by_admin(admin, id)
    BY <1>2, <2>3, SettingsUntouched DEF settings
  <2>4. QED
    BY <1>4, <1>6, <2>1, <2>2, <2>3
<1>8. CASE owner_call \/ alert_call \/ renewal_call \/ close_ledger
  BY <1>2, <1>8, SettingsUntouched DEF settings
<1>9. CASE UNCHANGED vars
  BY <1>2, <1>9 DEF vars, settings
<1>10. QED
  BY <1>7, <1>8, <1>9 DEF Next

\* Once initialised, the registry can never be left without an admin or list
\* one twice, whatever initialize, transfer_admin, add_admin and remove_admin do.
THEOREM AdminsRemain == Spec => []AdminsNeverEmpty
<1>1. Init => AdminsNeverEmpty
  BY DEF Init, AdminsNeverEmpty, NoRepeats
<1>2. IInv /\ AdminsNeverEmpty /\ [Next]_vars => AdminsNeverEmpty'
  BY AdminsStep
<1>3. QED
  BY <1>1, <1>2, Invariance, PTL DEF Spec
-----------------------------------------------------------------------------
(* What one call may make of an alert.                                     *)

\* old becomes new in one call: the facts about payload, stamps, rotation and
\* pause switch that hold of every entry point.
Edited(old, new) ==
    /\ new.created_at = old.created_at
    /\ new # old => new.updated_at = timestamp
    /\ validate_label(old.label) => validate_label(new.label)
    /\ validate_rules(old.rules) => validate_rules(new.rules)
    /\ validate_tags(old.tags) => validate_tags(new.tags)
    /\ new.webhook_hash # old.webhook_hash
          => valid_hash(new.webhook_hash) \/ new.webhook_hash = old.pending_webhook_hash
    /\ old.pending_webhook_hash # None /\ new.pending_webhook_hash = None
          => new.webhook_hash = old.pending_webhook_hash
    /\ paused => new = [old EXCEPT !.active = new.active,
                                   !.webhook_hash = new.webhook_hash,
                                   !.pending_webhook_hash = new.pending_webhook_hash,
                                   !.updated_at = new.updated_at]

\* An alert that is left alone is edited in this sense too.
LEMMA EditedNot ==
    ASSUME NEW old \in AlertConfig
    PROVE  Edited(old, old)
<1>1. old = [old EXCEPT !.active = old.active,
                        !.webhook_hash = old.webhook_hash,
                        !.pending_webhook_hash = old.pending_webhook_hash,
                        !.updated_at = old.updated_at]
  BY DEF AlertConfig
<1>2. QED
  BY <1>1 DEF Edited

\* Switching an alert on or off: pause_alert, unpause_alert, deactivate_all_alerts.
LEMMA EditedFlag ==
    ASSUME IInv, NEW old \in AlertConfig, NEW active \in BOOLEAN
    PROVE  Edited(old, [old EXCEPT !.active = active, !.updated_at = timestamp])
<1> DEFINE new == [old EXCEPT !.active = active, !.updated_at = timestamp]
<1>1. /\ new.created_at = old.created_at /\ new.updated_at = timestamp
      /\ new.label = old.label /\ new.rules = old.rules /\ new.tags = old.tags
      /\ new.webhook_hash = old.webhook_hash
      /\ new.pending_webhook_hash = old.pending_webhook_hash
      /\ new.active = active
      /\ new = [old EXCEPT !.active = new.active,
                           !.webhook_hash = new.webhook_hash,
                           !.pending_webhook_hash = new.pending_webhook_hash,
                           !.updated_at = new.updated_at]
  BY DEF AlertConfig
<1> HIDE DEF new
<1>2. Edited(old, new)
  BY <1>1 DEF Edited
<1>3. QED
  BY <1>2 DEF new

\* Every call that rewrites one alert edits it.
LEMMA AmendedIsEdited ==
    ASSUME IInv, NEW id \in Ids,
           \/ \E admin \in Admins, active \in BOOLEAN :
                 set_alert_active_by_admin(admin, id, active)
           \/ \E caller \in Owners :
                 \/ \E rules \in RuleLists, active \in BOOLEAN :
                       update_alert(caller, id, rules, active)
                 \/ \E hash \in Hashes : update_webhook(caller, id, hash)
                 \/ \E hash \in Hashes : propose_webhook(caller, id, hash)
                 \/ confirm_webhook(caller, id)
                 \/ \E label \in Labels : update_label(caller, id, label)
                 \/ \E tags \in TagLists \cup {None} : update_tags(caller, id, tags)
                 \/ \E target \in Targets : update_target_contract(caller, id, target)
                 \/ \E other \in Owners : transfer_alert_ownership(caller, id, other)
    PROVE  /\ DOMAIN alerts' = DOMAIN alerts
           /\ \A k \in DOMAIN alerts : Edited(alerts[k], alerts'[k])
<1> DEFINE Goal == /\ DOMAIN alerts' = DOMAIN alerts
                   /\ \A k \in DOMAIN alerts : Edited(alerts[k], alerts'[k])
<1>1. ASSUME NEW config, id \in DOMAIN alerts, amend(id, config),
             Edited(alerts[id], config)
      PROVE  Goal
  <2>1. /\ DOMAIN alerts' = DOMAIN alerts
        /\ \A k \in DOMAIN alerts : alerts'[k] = IF k = id THEN config ELSE alerts[k]
    BY <1>1 DEF amend
  <2>2. \A k \in DOMAIN alerts : Edited(alerts[k], alerts[k])
    BY AlertFacts, EditedNot
  <2>3. QED
    BY <1>1, <2>1, <2>2
<1> HIDE DEF Goal
<1>2. id \in DOMAIN alerts => alerts[id] \in AlertConfig
  BY AlertFacts
<1>3. ASSUME NEW admin \in Admins, NEW active \in BOOLEAN,
             set_alert_active_by_admin(admin, id, active)
      PROVE  Goal
  BY <1>1, <1>2, <1>3, EditedFlag DEF set_alert_active_by_admin
<1>4. ASSUME NEW caller \in Owners, NEW rules \in RuleLists, NEW active \in BOOLEAN,
             update_alert(caller, id, rules, active)
      PROVE  Goal
  <2> DEFINE config == [alerts[id] EXCEPT !.rules = rules, !.active = active,
                                          !.updated_at = timestamp]
  <2>1. id \in DOMAIN alerts /\ amend(id, config) /\ ~paused /\ validate_rules(rules)
    BY <1>4 DEF update_alert, assert_owner, assert_not_paused
  <2>2. /\ config.created_at = alerts[id].created_at /\ config.updated_at = timestamp
        /\ config.label = alerts[id].label /\ config.rules = rules
        /\ config.tags = alerts[id].tags
        /\ config.webhook_hash = alerts[id].webhook_hash
        /\ config.pending_webhook_hash = alerts[id].pending_webhook_hash
    BY <1>2, <2>1 DEF AlertConfig
  <2> HIDE DEF config
  <2>3. Edited(alerts[id], config)
    BY <2>1, <2>2 DEF Edited
  <2>4. QED
    BY <1>1, <2>1, <2>3
<1>5. ASSUME NEW caller \in Owners, NEW hash \in Hashes, update_webhook(caller, id, hash)
      PROVE  Goal
  <2> DEFINE config == [alerts[id] EXCEPT !.webhook_hash = hash, !.updated_at = timestamp]
  <2>1. id \in DOMAIN alerts /\ amend(id, config) /\ ~paused /\ valid_hash(hash)
    BY <1>5 DEF update_webhook, assert_owner, assert_not_paused
  <2>2. /\ config.created_at = alerts[id].created_at /\ config.updated_at = timestamp
        /\ config.label = alerts[id].label /\ config.rules = alerts[id].rules
        /\ config.tags = alerts[id].tags
        /\ config.webhook_hash = hash
        /\ config.pending_webhook_hash = alerts[id].pending_webhook_hash
    BY <1>2, <2>1 DEF AlertConfig
  <2> HIDE DEF config
  <2>3. Edited(alerts[id], config)
    BY <2>1, <2>2 DEF Edited
  <2>4. QED
    BY <1>1, <2>1, <2>3
<1>6. ASSUME NEW caller \in Owners, NEW hash \in Hashes, propose_webhook(caller, id, hash)
      PROVE  Goal
  <2> DEFINE config == [alerts[id] EXCEPT !.pending_webhook_hash = hash,
                                          !.updated_at = timestamp]
  <2>1. id \in DOMAIN alerts /\ amend(id, config) /\ hash # None
    BY <1>6, ConstantsAssumption DEF propose_webhook, assert_owner
  <2>2. /\ config.created_at = alerts[id].created_at /\ config.updated_at = timestamp
        /\ config.label = alerts[id].label /\ config.rules = alerts[id].rules
        /\ config.tags = alerts[id].tags
        /\ config.webhook_hash = alerts[id].webhook_hash
        /\ config.pending_webhook_hash = hash
        /\ config = [alerts[id] EXCEPT
                        !.active = config.active,
                        !.webhook_hash = config.webhook_hash,
                        !.pending_webhook_hash = config.pending_webhook_hash,
                        !.updated_at = config.updated_at]
    BY <1>2, <2>1 DEF AlertConfig
  <2> HIDE DEF config
  <2>3. Edited(alerts[id], config)
    BY <2>1, <2>2 DEF Edited
  <2>4. QED
    BY <1>1, <2>1, <2>3
<1>7. ASSUME NEW caller \in Owners, confirm_webhook(caller, id)
      PROVE  Goal
  <2> DEFINE config == [alerts[id] EXCEPT
                           !.webhook_hash = alerts[id].pending_webhook_hash,
                           !.pending_webhook_hash = None,
                           !.updated_at = timestamp]
  <2>1. id \in DOMAIN alerts /\ amend(id, config)
    BY <1>7 DEF confirm_webhook, assert_owner
  <2>2. /\ config.created_at = alerts[id].created_at /\ config.updated_at = timestamp
        /\ config.label = alerts[id].label /\ config.rules = alerts[id].rules
        /\ config.tags = alerts[id].tags
        /\ config.webhook_hash = alerts[id].pending_webhook_hash
        /\ config = [alerts[id] EXCEPT
                        !.active = config.active,
                        !.webhook_hash = config.webhook_hash,
                        !.pending_webhook_hash = config.pending_webhook_hash,
                        !.updated_at = config.updated_at]
    BY <1>2, <2>1 DEF AlertConfig
  <2> HIDE DEF config
  <2>3. Edited(alerts[id], config)
    BY <2>1, <2>2 DEF Edited
  <2>4. QED
    BY <1>1, <2>1, <2>3
<1>8. ASSUME NEW caller \in Owners, NEW label \in Labels, update_label(caller, id, label)
      PROVE  Goal
  <2> DEFINE config == [alerts[id] EXCEPT !.label = label, !.updated_at = timestamp]
  <2>1. id \in DOMAIN alerts /\ amend(id, config) /\ ~paused /\ validate_label(label)
    BY <1>8 DEF update_label, assert_owner, assert_not_paused
  <2>2. /\ config.created_at = alerts[id].created_at /\ config.updated_at = timestamp
        /\ config.label = label /\ config.rules = alerts[id].rules
        /\ config.tags = alerts[id].tags
        /\ config.webhook_hash = alerts[id].webhook_hash
        /\ config.pending_webhook_hash = alerts[id].pending_webhook_hash
    BY <1>2, <2>1 DEF AlertConfig
  <2> HIDE DEF config
  <2>3. Edited(alerts[id], config)
    BY <2>1, <2>2 DEF Edited
  <2>4. QED
    BY <1>1, <2>1, <2>3
<1>9. ASSUME NEW caller \in Owners, NEW tags \in TagLists \cup {None},
             update_tags(caller, id, tags)
      PROVE  Goal
  <2> DEFINE config == [alerts[id] EXCEPT !.tags = tags, !.updated_at = timestamp]
  <2>1. id \in DOMAIN alerts /\ amend(id, config) /\ ~paused /\ validate_tags(tags)
    BY <1>9 DEF update_tags, assert_owner, assert_not_paused
  <2>2. /\ config.created_at = alerts[id].created_at /\ config.updated_at = timestamp
        /\ config.label = alerts[id].label /\ config.rules = alerts[id].rules
        /\ config.tags = tags
        /\ config.webhook_hash = alerts[id].webhook_hash
        /\ config.pending_webhook_hash = alerts[id].pending_webhook_hash
    BY <1>2, <2>1 DEF AlertConfig
  <2> HIDE DEF config
  <2>3. Edited(alerts[id], config)
    BY <2>1, <2>2 DEF Edited
  <2>4. QED
    BY <1>1, <2>1, <2>3
<1>10. ASSUME NEW caller \in Owners, NEW target \in Targets,
              update_target_contract(caller, id, target)
       PROVE  Goal
  <2> DEFINE config == [alerts[id] EXCEPT !.target_contract = target,
                                          !.updated_at = timestamp]
  <2>1. id \in DOMAIN alerts /\ amend(id, config) /\ ~paused
    BY <1>10 DEF update_target_contract, assert_owner, assert_not_paused
  <2>2. /\ config.created_at = alerts[id].created_at /\ config.updated_at = timestamp
        /\ config.label = alerts[id].label /\ config.rules = alerts[id].rules
        /\ config.tags = alerts[id].tags
        /\ config.webhook_hash = alerts[id].webhook_hash
        /\ config.pending_webhook_hash = alerts[id].pending_webhook_hash
    BY <1>2, <2>1 DEF AlertConfig
  <2> HIDE DEF config
  <2>3. Edited(alerts[id], config)
    BY <2>1, <2>2 DEF Edited
  <2>4. QED
    BY <1>1, <2>1, <2>3
<1>11. ASSUME NEW caller \in Owners, NEW other \in Owners,
              transfer_alert_ownership(caller, id, other)
       PROVE  Goal
  <2> DEFINE config == [alerts[id] EXCEPT !.owner = other, !.updated_at = timestamp]
  <2>1. id \in DOMAIN alerts /\ amend(id, config) /\ ~paused
    BY <1>11 DEF transfer_alert_ownership, assert_owner, assert_not_paused
  <2>2. /\ config.created_at = alerts[id].created_at /\ config.updated_at = timestamp
        /\ config.label = alerts[id].label /\ config.rules = alerts[id].rules
        /\ config.tags = alerts[id].tags
        /\ config.webhook_hash = alerts[id].webhook_hash
        /\ config.pending_webhook_hash = alerts[id].pending_webhook_hash
    BY <1>2, <2>1 DEF AlertConfig
  <2> HIDE DEF config
  <2>3. Edited(alerts[id], config)
    BY <2>1, <2>2 DEF Edited
  <2>4. QED
    BY <1>1, <2>1, <2>3
<1>12. Goal
  BY <1>3, <1>4, <1>5, <1>6, <1>7, <1>8, <1>9, <1>10, <1>11
<1>13. QED
  BY <1>12 DEF Goal

\* The alert a registration at time now makes of an input: new_config with the
\* time as a parameter.
Registered(owner, input, tags, now) ==
    [label |-> input.label, webhook_hash |-> input.webhook_hash,
     rules |-> input.rules, owner |-> owner,
     target_contract |-> input.target_contract,
     created_at |-> now, updated_at |-> now, active |-> TRUE,
     pending_webhook_hash |-> None, tags |-> tags]

\* The ids a step takes from the counter.
NewIds == next_id..(next_id' - 1)

\* A registration gives its inputs the next ids, in order, and touches no
\* other alert and no other flag.
Adds(owner, inputs, tags) ==
    /\ next_id' = next_id + Len(inputs)
    /\ NewIds \cap DOMAIN alerts = {} /\ NewIds \cap DOMAIN alert_active = {}
    /\ \A id \in NewIds : id - next_id + 1 \in DOMAIN inputs
    /\ alerts' = [id \in DOMAIN alerts \cup NewIds |->
                     IF id \in NewIds
                     THEN Registered(owner, inputs[id - next_id + 1], tags, timestamp)
                     ELSE alerts[id]]
    /\ alert_active' = [id \in DOMAIN alert_active \cup NewIds |->
                           IF id \in NewIds THEN TRUE ELSE alert_active[id]]
    /\ ttl'.alert = Extend(ttl.alert, NewIds, DEFAULT_TTL)
    /\ ttl'.active = Extend(ttl.active, NewIds, DEFAULT_TTL)

\* So does the common body of register_alert and batch_register_alerts.
LEMMA RegisterAdds ==
    ASSUME IInv, NEW owner \in Owners, NEW inputs \in Seq(AlertInput), NEW tags,
           register(owner, inputs, tags)
    PROVE  Adds(owner, inputs, tags)
<1> DEFINE count == Len(inputs)
           new == [i \in 1..count |-> next_id + i - 1]
           input == [id \in Range(new) |-> inputs[id - next_id + 1]]
<1>1. /\ next_id \in Nat /\ count \in Nat /\ DOMAIN inputs = 1..count
      /\ DOMAIN alerts \subseteq 0..(next_id - 1)
      /\ DOMAIN alert_active \subseteq 0..(next_id - 1)
  BY DEF IInv, AlertsOK
<1>2. /\ next_id' = next_id + count
      /\ alerts' = [id \in DOMAIN alerts \cup Range(new) |->
                        IF id \in Range(new)
                        THEN Registered(owner, input[id], tags, timestamp)
                        ELSE alerts[id]]
      /\ alert_active' = [id \in DOMAIN alert_active \cup Range(new) |->
                              IF id \in Range(new) THEN TRUE
                              ELSE alert_active[id]]
      /\ ttl'.alert = Extend(ttl.alert, Range(new), DEFAULT_TTL)
      /\ ttl'.active = Extend(ttl.active, Range(new), DEFAULT_TTL)
  BY DEF register, next_id_after, new_config, Registered
<1> HIDE DEF count
<1>3. Range(new) = NewIds
  <2>1. Range(new) \subseteq next_id..(next_id' - 1)
    BY <1>1, <1>2 DEF Range
  <2>2. ASSUME NEW id \in next_id..(next_id' - 1)
        PROVE  id \in Range(new)
    <3>1. id - next_id + 1 \in 1..count /\ new[id - next_id + 1] = id
      BY <1>1, <1>2
    <3>2. QED
      BY <3>1 DEF Range
  <2>3. QED
    BY <2>1, <2>2 DEF NewIds
<1>4. \A id \in Range(new) : input[id] = inputs[id - next_id + 1]
  OBVIOUS
<1> HIDE DEF new, input
<1>5. \A id \in NewIds : id - next_id + 1 \in DOMAIN inputs
  BY <1>1, <1>2 DEF NewIds
<1>6. \A id \in 0..(next_id - 1) : id \notin NewIds
  BY <1>1, <1>2 DEF NewIds
<1>7. next_id' = next_id + Len(inputs)
  BY <1>2 DEF count
<1>8. NewIds \cap DOMAIN alerts = {} /\ NewIds \cap DOMAIN alert_active = {}
  BY <1>1, <1>6
<1>9. alerts' = [id \in DOMAIN alerts \cup NewIds |->
                    IF id \in NewIds
                    THEN Registered(owner, inputs[id - next_id + 1], tags, timestamp)
                    ELSE alerts[id]]
  BY <1>2, <1>3, <1>4
<1>10. QED
  BY <1>2, <1>3, <1>5, <1>7, <1>8, <1>9 DEF Adds

\* A call that registers: who calls, with which inputs and tags.
Registers(owner, inputs, tags) ==
    /\ inputs \in Seq(AlertInput)
    /\ tags \in TagLists \cup {None}
    /\ ~paused
    /\ \A i \in DOMAIN inputs : validate_input(inputs[i])
    /\ validate_tags(tags)
    /\ register(owner, inputs, tags)

\* Both entry points that register validate all they store.
LEMMA RegisterEntryPoints ==
    ASSUME NEW owner \in Owners,
           \/ \E input \in AlertInput, tags \in TagLists \cup {None} :
                 register_alert(owner, input, tags)
           \/ \E n \in BatchSizes : \E inputs \in [1..n -> AlertInput] :
                 batch_register_alerts(owner, inputs)
    PROVE  \E inputs, tags : /\ Registers(owner, inputs, tags)
                             /\ Len(inputs) \in BatchSizes \cup {1}
<1>1. ASSUME NEW input \in AlertInput, NEW tags \in TagLists \cup {None},
             register_alert(owner, input, tags)
      PROVE  Registers(owner, <<input>>, tags) /\ Len(<<input>>) = 1
  <2> DEFINE inputs == <<input>>
  <2>1. /\ inputs \in Seq(AlertInput) /\ Len(inputs) = 1
        /\ \A i \in DOMAIN inputs : inputs[i] = input
    OBVIOUS
  <2>2. /\ ~paused /\ validate_input(input) /\ validate_tags(tags)
        /\ register(owner, inputs, tags)
    BY <1>1 DEF register_alert, assert_not_paused
  <2> HIDE DEF inputs
  <2>3. Registers(owner, inputs, tags)
    BY <2>1, <2>2 DEF Registers
  <2>4. QED
    BY <2>1, <2>3 DEF inputs
<1>2. ASSUME NEW n \in BatchSizes, NEW inputs \in [1..n -> AlertInput],
             batch_register_alerts(owner, inputs)
      PROVE  Registers(owner, inputs, None) /\ Len(inputs) = n
  <2>1. inputs \in Seq(AlertInput) /\ Len(inputs) = n
    <3>1. n \in Nat
      BY ConstantsAssumption
    <3>2. QED
      BY <3>1
  <2>2. validate_tags(None)
    BY DEF validate_tags
  <2>3. QED
    BY <1>2, <2>1, <2>2 DEF batch_register_alerts, assert_not_paused, Registers
<1>3. QED
  BY <1>1, <1>2

\* Every step edits the alerts that survive it; only unpaused calls and closing
\* ledgers take alerts away.
LEMMA StepKinds ==
    ASSUME IInv, [Next]_vars
    PROVE  \/ \E owner, inputs, tags :
                 /\ owner \in Owners
                 /\ Registers(owner, inputs, tags)
                 /\ Len(inputs) \in BatchSizes \cup {1}
           \/ /\ next_id' = next_id
              /\ DOMAIN alerts' \subseteq DOMAIN alerts
              /\ paused => Survivors(ttl.alert) \subseteq DOMAIN alerts'
              /\ \A id \in DOMAIN alerts' : Edited(alerts[id], alerts'[id])
<1> DEFINE Other == /\ next_id' = next_id
                    /\ DOMAIN alerts' \subseteq DOMAIN alerts
                    /\ paused => Survivors(ttl.alert) \subseteq DOMAIN alerts'
                    /\ \A id \in DOMAIN alerts' : Edited(alerts[id], alerts'[id])
<1>1. CASE \E owner \in Owners :
              \/ \E input \in AlertInput, tags \in TagLists \cup {None} :
                    register_alert(owner, input, tags)
              \/ \E n \in BatchSizes : \E inputs \in [1..n -> AlertInput] :
                    batch_register_alerts(owner, inputs)
  BY <1>1, RegisterEntryPoints
<1>2. CASE ~ \E owner \in Owners :
                \/ \E input \in AlertInput, tags \in TagLists \cup {None} :
                      register_alert(owner, input, tags)
                \/ \E n \in BatchSizes : \E inputs \in [1..n -> AlertInput] :
                      batch_register_alerts(owner, inputs)
  <2> SUFFICES Other
    OBVIOUS
  <2>1. next_id' = next_id /\ DOMAIN alerts' \subseteq DOMAIN alerts
    BY <1>2, OthersAddNone
  <2>2. Survivors(ttl.alert) \subseteq DOMAIN alerts
    BY DEF IInv, LivesOK, LivesMatchEntries, Survivors
  <2>3. \A id \in DOMAIN alerts : alerts[id] \in AlertConfig /\ Edited(alerts[id], alerts[id])
    BY AlertFacts, EditedNot
  <2>4. ASSUME UNCHANGED alerts PROVE Other
    BY <2>1, <2>2, <2>3, <2>4
  <2>5. ASSUME /\ DOMAIN alerts' = DOMAIN alerts
               /\ \A k \in DOMAIN alerts : Edited(alerts[k], alerts'[k])
        PROVE  Other
    BY <2>1, <2>2, <2>5
  <2>6. ASSUME NEW id \in DOMAIN alerts, remove_alert_record(id), ~paused PROVE Other
    <3>1. /\ DOMAIN alerts' = DOMAIN alerts \ {id}
          /\ \A k \in DOMAIN alerts' : alerts'[k] = alerts[k]
      BY <2>6, DropEffect DEF remove_alert_record
    <3>2. QED
      BY <2>1, <2>3, <2>6, <3>1
  <2> HIDE DEF Other
  <2>7. CASE UNCHANGED vars
    BY <2>4, <2>7 DEF vars
  <2>8. CASE admin_call
    <3>1. PICK admin \in Admins :
             \/ \/ initialize(admin)
                \/ \E other \in Admins :
                      \/ transfer_admin(admin, other)
                      \/ add_admin(admin, other)
                      \/ remove_admin(admin, other)
                \/ \E n \in Limits : set_per_owner_alert_limit(admin, n)
                \/ \E value \in PauseValues : set_paused(admin, value)
                \/ \E registry \in Registries : set_watcher_registry(admin, registry)
             \/ \E id \in Ids, active \in BOOLEAN :
                   set_alert_active_by_admin(admin, id, active)
             \/ \E id \in Ids : remove_alert_by_admin(admin, id)
      BY <2>8 DEF admin_call
    <3>2. CASE \/ initialize(admin)
               \/ \E other \in Admins :
                     \/ transfer_admin(admin, other)
                     \/ add_admin(admin, other)
                     \/ remove_admin(admin, other)
               \/ \E n \in Limits : set_per_owner_alert_limit(admin, n)
               \/ \E value \in PauseValues : set_paused(admin, value)
               \/ \E registry \in Registries : set_watcher_registry(admin, registry)
      <4>1. UNCHANGED alerts
        BY <3>2 DEF initialize, transfer_admin, add_admin, remove_admin, set_admins,
           set_per_owner_alert_limit, set_paused, set_watcher_registry
      <4>2. QED
        BY <2>4, <4>1
    <3>3. CASE \E id \in Ids, active \in BOOLEAN :
                  set_alert_active_by_admin(admin, id, active)
      BY <2>5, <3>3, AmendedIsEdited
    <3>4. CASE \E id \in Ids : remove_alert_by_admin(admin, id)
      BY <2>6, <3>4 DEF remove_alert_by_admin, assert_not_paused
    <3>5. QED
      BY <3>1, <3>2, <3>3, <3>4
  <2>9. CASE owner_call
    <3>1. PICK caller \in Owners : deactivate_all_alerts(caller)
      BY <1>2, <2>9 DEF owner_call
    <3>2. /\ DOMAIN alerts' = DOMAIN alerts
          /\ \A id \in DOMAIN alerts :
                \/ alerts'[id] = alerts[id]
                \/ alerts'[id] = [alerts[id] EXCEPT !.active = FALSE,
                                                    !.updated_at = timestamp]
      BY <3>1 DEF deactivate_all_alerts
    <3>3. \A id \in DOMAIN alerts : Edited(alerts[id], alerts'[id])
      BY <2>3, <3>2, EditedFlag
    <3>4. QED
      BY <2>5, <3>2, <3>3
  <2>10. CASE alert_call
    <3>1. PICK caller \in Owners, id \in Ids :
             \/ \/ \E rules \in RuleLists, active \in BOOLEAN :
                      update_alert(caller, id, rules, active)
                \/ \E hash \in Hashes : update_webhook(caller, id, hash)
                \/ \E hash \in Hashes : propose_webhook(caller, id, hash)
                \/ confirm_webhook(caller, id)
                \/ \E label \in Labels : update_label(caller, id, label)
                \/ \E tags \in TagLists \cup {None} : update_tags(caller, id, tags)
                \/ \E target \in Targets : update_target_contract(caller, id, target)
                \/ \E other \in Owners : transfer_alert_ownership(caller, id, other)
             \/ remove_alert(caller, id)
      BY <2>10 DEF alert_call
    <3>2. CASE remove_alert(caller, id)
      BY <2>6, <3>2 DEF remove_alert, assert_owner, assert_not_paused
    <3>3. CASE ~remove_alert(caller, id)
      <4>1. /\ DOMAIN alerts' = DOMAIN alerts
            /\ \A k \in DOMAIN alerts : Edited(alerts[k], alerts'[k])
        BY <3>1, <3>3, AmendedIsEdited
      <4>2. QED
        BY <2>5, <4>1
    <3>4. QED
      BY <3>2, <3>3
  <2>11. CASE renewal_call
    BY <2>4, <2>11 DEF renewal_call, bump_alert, bulk_renew_ttl, get_alert
  <2>12. CASE close_ledger
    <3>1. alerts' = Restrict(alerts, Survivors(ttl.alert))
      BY <2>12 DEF close_ledger
    <3>2. /\ DOMAIN alerts' = Survivors(ttl.alert)
          /\ \A id \in DOMAIN alerts' : alerts'[id] = alerts[id]
      BY <3>1, RestrictEffect
    <3>3. QED
      BY <2>1, <2>2, <2>3, <3>2 DEF Other
  <2>13. QED
    BY <2>7, <2>8, <2>9, <2>10, <2>11, <2>12 DEF Next
<1>3. QED
  BY <1>1, <1>2

\* Whatever entry point wrote them last, the label, rules and tags of a stored
\* alert passed the validators: register_alert, the batch and the updates all
\* validate, and nothing else writes a payload.
THEOREM PayloadsValid == Spec => []StoredPayloadsValid
<1>1. Init => StoredPayloadsValid
  BY DEF Init, NoEntries, StoredPayloadsValid
<1>2. IInv /\ StoredPayloadsValid /\ [Next]_vars => StoredPayloadsValid'
  <2> SUFFICES ASSUME IInv, StoredPayloadsValid, [Next]_vars
               PROVE  StoredPayloadsValid'
    OBVIOUS
  <2> DEFINE Valid(config) == /\ validate_label(config.label)
                              /\ validate_rules(config.rules)
                              /\ validate_tags(config.tags)
  <2>1. SUFFICES \A id \in DOMAIN alerts' : Valid(alerts'[id])
    BY DEF StoredPayloadsValid, validate_label, validate_rules, validate_tags
  <2>2. \A id \in DOMAIN alerts : Valid(alerts[id])
    BY DEF StoredPayloadsValid
  <2>3. CASE \E owner, inputs, tags :
             owner \in Owners /\ Registers(owner, inputs, tags)
    <3>1. PICK owner, inputs, tags :
               owner \in Owners /\ Registers(owner, inputs, tags)
      BY <2>3
    <3>2. /\ inputs \in Seq(AlertInput) /\ register(owner, inputs, tags)
          /\ \A i \in DOMAIN inputs : validate_input(inputs[i])
          /\ validate_tags(tags)
      BY <3>1 DEF Registers
    <3>3. ASSUME NEW i \in DOMAIN inputs
          PROVE  Valid(Registered(owner, inputs[i], tags, timestamp))
      BY <3>2 DEF Registered, validate_input
    <3> HIDE DEF Valid
    <3>4. Adds(owner, inputs, tags)
      BY <3>1, <3>2, RegisterAdds
    <3>5. QED
      BY <2>2, <3>3, <3>4 DEF Adds
  <2>4. CASE /\ DOMAIN alerts' \subseteq DOMAIN alerts
             /\ \A id \in DOMAIN alerts' : Edited(alerts[id], alerts'[id])
    BY <2>2, <2>4 DEF Edited
  <2>5. QED
    BY <2>3, <2>4, StepKinds
<1>3. QED
  BY <1>1, <1>2, Invariance, PTL DEF Spec

\* Every step edits the alerts that are there before and after it.
LEMMA StepsEdit ==
    ASSUME IInv, [Next]_vars
    PROVE  \A id \in DOMAIN alerts \cap DOMAIN alerts' : Edited(alerts[id], alerts'[id])
<1>1. CASE \E owner, inputs, tags :
           owner \in Owners /\ Registers(owner, inputs, tags)
  <2>1. PICK owner, inputs, tags :
             owner \in Owners /\ Registers(owner, inputs, tags)
    BY <1>1
  <2>2. Adds(owner, inputs, tags)
    BY <2>1, RegisterAdds DEF Registers
  <2>3. \A id \in DOMAIN alerts : Edited(alerts[id], alerts[id])
    BY AlertFacts, EditedNot
  <2>4. QED
    BY <2>2, <2>3 DEF Adds
<1>2. QED
  BY <1>1, StepKinds

\* Every change of an alert carries the time of its ledger, so a client that
\* polls get_alerts_modified_since sees it, and created_at never moves.
THEOREM ChangesStamped == Spec => ChangesAreStamped
<1> DEFINE A == \A id \in DOMAIN alerts \cap DOMAIN alerts' :
                   /\ alerts'[id].created_at = alerts[id].created_at
                   /\ alerts'[id] # alerts[id] => alerts'[id].updated_at = timestamp
<1>1. IInv /\ [Next]_vars => [A]_vars
  BY StepsEdit DEF Edited
<1>2. QED
  BY <1>1, Invariance, PTL DEF Spec, ChangesAreStamped

\* propose_webhook and confirm_webhook: no call loses a pending hash or makes a
\* hash live that was neither pending nor of the right length.
THEOREM RotationsKept == Spec => WebhookRotationKept
<1> DEFINE A == \A id \in DOMAIN alerts \cap DOMAIN alerts' :
                  LET hash       == alerts[id].webhook_hash
                      pending    == alerts[id].pending_webhook_hash
                      new_hash   == alerts'[id].webhook_hash
                  IN  /\ new_hash # hash => valid_hash(new_hash) \/ new_hash = pending
                      /\ pending # None /\ alerts'[id].pending_webhook_hash = None
                            => new_hash = pending
<1>1. IInv /\ [Next]_vars => [A]_vars
  BY StepsEdit DEF Edited
<1>2. QED
  BY <1>1, Invariance, PTL DEF Spec, WebhookRotationKept

\* The pause switch: while it is on no alert appears, none goes before its life
\* has run out, and owner, target, label, rules and tags stay as they are.
THEOREM PauseHolds == Spec => PausedKeepsAlerts
<1> DEFINE A == paused /\ paused' =>
          /\ DOMAIN alerts' \subseteq DOMAIN alerts
          /\ Survivors(ttl.alert) \subseteq DOMAIN alerts'
          /\ \A id \in DOMAIN alerts' :
                alerts'[id] = [alerts[id] EXCEPT
                    !.active = alerts'[id].active,
                    !.webhook_hash = alerts'[id].webhook_hash,
                    !.pending_webhook_hash = alerts'[id].pending_webhook_hash,
                    !.updated_at = alerts'[id].updated_at]
<1>1. IInv /\ [Next]_vars => [A]_vars
  <2> SUFFICES ASSUME IInv, [Next]_vars, paused
               PROVE  A
    OBVIOUS
  <2>1. /\ DOMAIN alerts' \subseteq DOMAIN alerts
        /\ Survivors(ttl.alert) \subseteq DOMAIN alerts'
        /\ \A id \in DOMAIN alerts' : Edited(alerts[id], alerts'[id])
    BY StepKinds DEF Registers
  <2>2. QED
    BY <2>1 DEF Edited
<1>2. QED
  BY <1>1, Invariance, PTL DEF Spec, PausedKeepsAlerts
-----------------------------------------------------------------------------
(* The active flags.                                                       *)

\* A step that writes the flags of K beside the alerts, extends these and at
\* least the alerts of K to the same life n, and leaves the other flags and the
\* state of their alerts alone, keeps flags and alerts in agreement.
LEMMA FlagStep ==
    ASSUME IInv, ActiveFlagAgrees, NEW n \in Nat, NEW K, NEW X,
           K \subseteq X, X \subseteq DOMAIN alerts',
           DOMAIN alerts \subseteq DOMAIN alerts',
           \A id \in K : id \notin DOMAIN alert_active => MIN_TTL <= n,
           ttl'.alert = Extend(ttl.alert, X, n),
           ttl'.active = Extend(ttl.active, K, n),
           DOMAIN alert_active' = DOMAIN alert_active \cup K,
           \A id \in K : alert_active'[id] = alerts'[id].active,
           \A id \in DOMAIN alert_active \ K :
              /\ alert_active'[id] = alert_active[id]
              /\ alerts'[id].active = alerts[id].active
    PROVE  ActiveFlagAgrees'
<1> DEFINE A == ttl.alert
           F == ttl.active
<1>1. /\ DOMAIN A = DOMAIN alerts /\ DOMAIN F = DOMAIN alert_active
      /\ \A id \in DOMAIN A : A[id] \in Nat
      /\ \A id \in DOMAIN F : F[id] \in Nat
  BY DEF IInv, LivesOK, LivesMatchEntries, TtlTypeOK, IsTable
<1>2. \A id \in DOMAIN F : id \in DOMAIN A /\ F[id] <= A[id]
  BY <1>1 DEF ActiveFlagAgrees
<1>3. MIN_TTL \in Nat
  BY MinTtlAssumption
<1>4. ASSUME NEW id \in DOMAIN alert_active'
      PROVE  /\ id \in DOMAIN alerts'
             /\ alert_active'[id] = alerts'[id].active
  BY DEF ActiveFlagAgrees
<1> HIDE DEF A, F
<1>5. ASSUME NEW id \in DOMAIN alert_active'
      PROVE  Extend(F, K, n)[id] <= Extend(A, X, n)[id]
  <2>1. id \in DOMAIN F \cup K
    BY <1>1
  <2>2. CASE id \in K
    <3>1. /\ Extend(F, K, n)[id] = AtLeast(IF id \in DOMAIN F THEN F[id] ELSE MIN_TTL, n)
          /\ Extend(A, X, n)[id] = AtLeast(IF id \in DOMAIN A THEN A[id] ELSE MIN_TTL, n)
      BY <2>2 DEF Extend
    <3>2. CASE id \in DOMAIN F
      BY <1>1, <1>2, <1>3, <3>1, <3>2 DEF AtLeast
    <3>3. CASE id \notin DOMAIN F
      <4>1. MIN_TTL <= n
        BY <1>1, <2>2, <3>3
      <4>2. QED
        BY <1>1, <1>3, <3>1, <3>3, <4>1 DEF AtLeast
    <3>4. QED
      BY <3>2, <3>3
  <2>3. CASE id \notin K
    <3>1. id \in DOMAIN F /\ id \in DOMAIN A
      BY <1>2, <2>1, <2>3
    <3>2. Extend(F, K, n)[id] = F[id]
      BY <2>3, <3>1 DEF Extend
    <3>3. Extend(A, X, n)[id] = IF id \in X THEN AtLeast(A[id], n) ELSE A[id]
      BY <3>1 DEF Extend
    <3>4. QED
      BY <1>1, <1>2, <3>1, <3>2, <3>3 DEF AtLeast
  <2>4. QED
    BY <2>2, <2>3
<1>6. ASSUME NEW id \in DOMAIN alert_active'
      PROVE  ttl'.active[id] <= ttl'.alert[id]
  BY <1>5 DEF A, F
<1>7. QED
  BY <1>4, <1>6 DEF ActiveFlagAgrees

\* The edits that leave owner, target and state of an alert alone touch neither
\* flag nor index, and extend the alert.
LEMMA PlainEdits ==
    ASSUME IInv, NEW caller \in Owners, NEW id \in Ids,
           \/ \E hash \in Hashes : update_webhook(caller, id, hash)
           \/ \E hash \in Hashes : propose_webhook(caller, id, hash)
           \/ confirm_webhook(caller, id)
           \/ \E label \in Labels : update_label(caller, id, label)
           \/ \E tags \in TagLists \cup {None} : update_tags(caller, id, tags)
    PROVE  /\ id \in DOMAIN alerts /\ DOMAIN alerts' = DOMAIN alerts
           /\ \A k \in DOMAIN alerts :
                 /\ alerts'[k].active = alerts[k].active
                 /\ alerts'[k].owner = alerts[k].owner
                 /\ alerts'[k].target_contract = alerts[k].target_contract
           /\ UNCHANGED <<alert_active, indexes>>
           /\ ttl'.alert = Extend(ttl.alert, {id}, DEFAULT_TTL)
           /\ ttl'.active = ttl.active
<1> DEFINE Goal ==
           /\ id \in DOMAIN alerts /\ DOMAIN alerts' = DOMAIN alerts
           /\ \A k \in DOMAIN alerts :
                 /\ alerts'[k].active = alerts[k].active
                 /\ alerts'[k].owner = alerts[k].owner
                 /\ alerts'[k].target_contract = alerts[k].target_contract
           /\ UNCHANGED <<alert_active, indexes>>
           /\ ttl'.alert = Extend(ttl.alert, {id}, DEFAULT_TTL)
           /\ ttl'.active = ttl.active
<1> SUFFICES Goal
  OBVIOUS
<1>1. ttl = [alert |-> ttl.alert, active |-> ttl.active, owner |-> ttl.owner,
             contract |-> ttl.contract, instance |-> ttl.instance]
  BY DEF IInv, LivesOK, TtlTypeOK
<1>2. id \in DOMAIN alerts => alerts[id] \in AlertConfig
  BY AlertFacts
<1>3. ASSUME NEW config, id \in DOMAIN alerts, amend(id, config),
             config.active = alerts[id].active, config.owner = alerts[id].owner,
             config.target_contract = alerts[id].target_contract,
             extend_alert_and_indexes(id) \/ extend_alert_only(id)
      PROVE  Goal
  <2>1. /\ DOMAIN alerts' = DOMAIN alerts
        /\ \A k \in DOMAIN alerts : alerts'[k] = IF k = id THEN config ELSE alerts[k]
    BY <1>3 DEF amend
  <2>2. /\ UNCHANGED <<alert_active, indexes>>
        /\ ttl'.alert = Extend(ttl.alert, {id}, DEFAULT_TTL)
        /\ ttl'.active = ttl.active
    <3>1. CASE extend_alert_and_indexes(id)
      BY <1>1, <3>1 DEF extend_alert_and_indexes
    <3>2. CASE extend_alert_only(id)
      BY <1>1, <3>2 DEF extend_alert_only
    <3>3. QED
      BY <1>3, <3>1, <3>2
  <2>3. QED
    BY <1>3, <2>1, <2>2
<1> HIDE DEF Goal
<1>4. ASSUME NEW hash \in Hashes, update_webhook(caller, id, hash)
      PROVE  Goal
  <2> DEFINE config == [alerts[id] EXCEPT !.webhook_hash = hash, !.updated_at = timestamp]
  <2>1. id \in DOMAIN alerts /\ amend(id, config) /\ extend_alert_and_indexes(id)
    BY <1>4 DEF update_webhook, assert_owner
  <2>2. /\ config.active = alerts[id].active /\ config.owner = alerts[id].owner
        /\ config.target_contract = alerts[id].target_contract
    BY <1>2, <2>1 DEF AlertConfig
  <2> HIDE DEF config
  <2>3. QED
    BY <1>3, <2>1, <2>2
<1>5. ASSUME NEW hash \in Hashes, propose_webhook(caller, id, hash)
      PROVE  Goal
  <2> DEFINE config == [alerts[id] EXCEPT !.pending_webhook_hash = hash,
                                          !.updated_at = timestamp]
  <2>1. id \in DOMAIN alerts /\ amend(id, config) /\ extend_alert_only(id)
    BY <1>5 DEF propose_webhook, assert_owner
  <2>2. /\ config.active = alerts[id].active /\ config.owner = alerts[id].owner
        /\ config.target_contract = alerts[id].target_contract
    BY <1>2, <2>1 DEF AlertConfig
  <2> HIDE DEF config
  <2>3. QED
    BY <1>3, <2>1, <2>2
<1>6. ASSUME confirm_webhook(caller, id)
      PROVE  Goal
  <2> DEFINE config == [alerts[id] EXCEPT
                           !.webhook_hash = alerts[id].pending_webhook_hash,
                           !.pending_webhook_hash = None,
                           !.updated_at = timestamp]
  <2>1. id \in DOMAIN alerts /\ amend(id, config) /\ extend_alert_only(id)
    BY <1>6 DEF confirm_webhook, assert_owner
  <2>2. /\ config.active = alerts[id].active /\ config.owner = alerts[id].owner
        /\ config.target_contract = alerts[id].target_contract
    BY <1>2, <2>1 DEF AlertConfig
  <2> HIDE DEF config
  <2>3. QED
    BY <1>3, <2>1, <2>2
<1>7. ASSUME NEW label \in Labels, update_label(caller, id, label)
      PROVE  Goal
  <2> DEFINE config == [alerts[id] EXCEPT !.label = label, !.updated_at = timestamp]
  <2>1. id \in DOMAIN alerts /\ amend(id, config) /\ extend_alert_and_indexes(id)
    BY <1>7 DEF update_label, assert_owner
  <2>2. /\ config.active = alerts[id].active /\ config.owner = alerts[id].owner
        /\ config.target_contract = alerts[id].target_contract
    BY <1>2, <2>1 DEF AlertConfig
  <2> HIDE DEF config
  <2>3. QED
    BY <1>3, <2>1, <2>2
<1>8. ASSUME NEW tags \in TagLists \cup {None}, update_tags(caller, id, tags)
      PROVE  Goal
  <2> DEFINE config == [alerts[id] EXCEPT !.tags = tags, !.updated_at = timestamp]
  <2>1. id \in DOMAIN alerts /\ amend(id, config) /\ extend_alert_only(id)
    BY <1>8 DEF update_tags, assert_owner
  <2>2. /\ config.active = alerts[id].active /\ config.owner = alerts[id].owner
        /\ config.target_contract = alerts[id].target_contract
    BY <1>2, <2>1 DEF AlertConfig
  <2> HIDE DEF config
  <2>3. QED
    BY <1>3, <2>1, <2>2
<1>9. QED
  BY <1>4, <1>5, <1>6, <1>7, <1>8

\* An alert gets the watched contract target and the owner owner, one of them new.
Relocates(caller, id, target, owner) ==
    \/ update_target_contract(caller, id, target) /\ owner = caller
    \/ /\ transfer_alert_ownership(caller, id, owner)
       /\ target = alerts[id].target_contract

Relocated(id, target, owner) ==
    /\ id \in DOMAIN alerts /\ DOMAIN alerts' = DOMAIN alerts
    /\ alerts'[id].owner = owner /\ alerts'[id].target_contract = target
    /\ alerts'[id].active = alerts[id].active
    /\ \A k \in DOMAIN alerts \ {id} : alerts'[k] = alerts[k]
    /\ UNCHANGED alert_active
    /\ ttl'.alert = Extend(ttl.alert, {id}, DEFAULT_TTL)
    /\ ttl'.active = ttl.active

\* update_target_contract and transfer_alert_ownership change one field of an
\* alert, and extend it without touching its flag.
LEMMA Moves ==
    ASSUME IInv, NEW caller \in Owners, NEW id \in Ids,
           NEW target \in Targets, NEW owner \in Owners,
           Relocates(caller, id, target, owner)
    PROVE  Relocated(id, target, owner)
<1>1. ttl = [alert |-> ttl.alert, active |-> ttl.active, owner |-> ttl.owner,
             contract |-> ttl.contract, instance |-> ttl.instance]
  BY DEF IInv, LivesOK, TtlTypeOK
<1>2. id \in DOMAIN alerts => alerts[id] \in AlertConfig
  BY AlertFacts
<1>3. CASE update_target_contract(caller, id, target) /\ owner = caller
  <2> DEFINE config == [alerts[id] EXCEPT !.target_contract = target,
                                          !.updated_at = timestamp]
  <2>1. /\ id \in DOMAIN alerts /\ alerts[id].owner = caller
        /\ amend(id, config) /\ UNCHANGED alert_active
        /\ ttl'.alert = Extend(ttl.alert, {id}, DEFAULT_TTL)
        /\ ttl'.active = ttl.active
    BY <1>1, <1>3 DEF update_target_contract, assert_owner
  <2>2. /\ config.active = alerts[id].active /\ config.owner = owner
        /\ config.target_contract = target
    BY <1>2, <1>3, <2>1 DEF AlertConfig
  <2> HIDE DEF config
  <2>3. QED
    BY <2>1, <2>2 DEF amend, Relocated
<1>4. CASE /\ transfer_alert_ownership(caller, id, owner)
           /\ target = alerts[id].target_contract
  <2> DEFINE config == [alerts[id] EXCEPT !.owner = owner, !.updated_at = timestamp]
  <2>1. /\ id \in DOMAIN alerts /\ amend(id, config) /\ UNCHANGED alert_active
        /\ ttl'.alert = Extend(ttl.alert, {id}, DEFAULT_TTL)
        /\ ttl'.active = ttl.active
    BY <1>1, <1>4 DEF transfer_alert_ownership, assert_owner
  <2>2. /\ config.active = alerts[id].active /\ config.owner = owner
        /\ config.target_contract = target
    BY <1>2, <1>4, <2>1 DEF AlertConfig
  <2> HIDE DEF config
  <2>3. QED
    BY <2>1, <2>2 DEF amend, Relocated
<1>5. QED
  BY <1>3, <1>4 DEF Relocates

\* The calls that rewrite one alert and leave the flags alone extend the alert
\* and do not change whether it is active.
LEMMA EditsKeepActive ==
    ASSUME IInv, NEW caller \in Owners, NEW id \in Ids,
           \/ \E hash \in Hashes : update_webhook(caller, id, hash)
           \/ \E hash \in Hashes : propose_webhook(caller, id, hash)
           \/ confirm_webhook(caller, id)
           \/ \E label \in Labels : update_label(caller, id, label)
           \/ \E tags \in TagLists \cup {None} : update_tags(caller, id, tags)
           \/ \E target \in Targets : update_target_contract(caller, id, target)
           \/ \E other \in Owners : transfer_alert_ownership(caller, id, other)
    PROVE  /\ id \in DOMAIN alerts /\ DOMAIN alerts' = DOMAIN alerts
           /\ \A k \in DOMAIN alerts : alerts'[k].active = alerts[k].active
           /\ UNCHANGED alert_active
           /\ ttl'.alert = Extend(ttl.alert, {id}, DEFAULT_TTL)
           /\ ttl'.active = ttl.active
<1>1. CASE \E target \in Targets : update_target_contract(caller, id, target)
  <2>1. PICK target \in Targets : update_target_contract(caller, id, target)
    BY <1>1
  <2>2. Relocated(id, target, caller)
    BY <2>1, Moves DEF Relocates
  <2>3. QED
    BY <2>2 DEF Relocated
<1>2. CASE \E other \in Owners : transfer_alert_ownership(caller, id, other)
  <2>1. id \in DOMAIN alerts
    BY <1>2 DEF transfer_alert_ownership, assert_owner
  <2>2. alerts[id].target_contract \in Targets
    BY <2>1, AlertFacts
  <2>3. PICK other \in Owners : transfer_alert_ownership(caller, id, other)
    BY <1>2
  <2>4. Relocated(id, alerts[id].target_contract, other)
    BY <2>2, <2>3, Moves DEF Relocates
  <2>5. QED
    BY <2>4 DEF Relocated
<1>3. QED
  BY <1>1, <1>2, PlainEdits

\* The calls that write the flag of one alert: pause_alert, unpause_alert and
\* update_alert write the alert and its flag together.
LEMMA FlagWrites ==
    ASSUME IInv, NEW id \in Ids, NEW active \in BOOLEAN,
           \/ \E admin \in Admins : set_alert_active_by_admin(admin, id, active)
           \/ \E caller \in Owners, rules \in RuleLists :
                 update_alert(caller, id, rules, active)
    PROVE  /\ id \in DOMAIN alerts /\ DOMAIN alerts' = DOMAIN alerts
           /\ alerts'[id].active = active
           /\ alerts'[id].owner = alerts[id].owner
           /\ alerts'[id].target_contract = alerts[id].target_contract
           /\ \A k \in DOMAIN alerts \ {id} : alerts'[k] = alerts[k]
           /\ alert_active' = Put(alert_active, id, active)
           /\ ttl'.alert = Extend(ttl.alert, {id}, DEFAULT_TTL)
           /\ ttl'.active = Extend(ttl.active, {id}, DEFAULT_TTL)
           /\ UNCHANGED indexes
<1> DEFINE Goal ==
           /\ id \in DOMAIN alerts /\ DOMAIN alerts' = DOMAIN alerts
           /\ alerts'[id].active = active
           /\ alerts'[id].owner = alerts[id].owner
           /\ alerts'[id].target_contract = alerts[id].target_contract
           /\ \A k \in DOMAIN alerts \ {id} : alerts'[k] = alerts[k]
           /\ alert_active' = Put(alert_active, id, active)
           /\ ttl'.alert = Extend(ttl.alert, {id}, DEFAULT_TTL)
           /\ ttl'.active = Extend(ttl.active, {id}, DEFAULT_TTL)
           /\ UNCHANGED indexes
<1> SUFFICES Goal
  OBVIOUS
<1>1. ttl = [alert |-> ttl.alert, active |-> ttl.active, owner |-> ttl.owner,
             contract |-> ttl.contract, instance |-> ttl.instance]
  BY DEF IInv, LivesOK, TtlTypeOK
<1>2. id \in DOMAIN alerts => alerts[id] \in AlertConfig
  BY AlertFacts
<1>3. ASSUME NEW config, id \in DOMAIN alerts, amend(id, config),
             config.active = active, config.owner = alerts[id].owner,
             config.target_contract = alerts[id].target_contract,
             set_active_flag(id, active),
             ttl'.alert = Extend(ttl.alert, {id}, DEFAULT_TTL),
             ttl'.active = Extend(ttl.active, {id}, DEFAULT_TTL),
             UNCHANGED indexes
      PROVE  Goal
  <2>1. /\ DOMAIN alerts' = DOMAIN alerts
        /\ \A k \in DOMAIN alerts : alerts'[k] = IF k = id THEN config ELSE alerts[k]
    BY <1>3 DEF amend
  <2>2. QED
    BY <1>3, <2>1 DEF set_active_flag
<1> HIDE DEF Goal
<1>4. ASSUME NEW admin \in Admins, set_alert_active_by_admin(admin, id, active)
      PROVE  Goal
  <2> DEFINE config == [alerts[id] EXCEPT !.active = active, !.updated_at = timestamp]
  <2>1. /\ id \in DOMAIN alerts /\ amend(id, config) /\ set_active_flag(id, active)
        /\ UNCHANGED indexes
    BY <1>4 DEF set_alert_active_by_admin
  <2>2. /\ ttl'.alert = Extend(ttl.alert, {id}, DEFAULT_TTL)
        /\ ttl'.active = Extend(ttl.active, {id}, DEFAULT_TTL)
    BY <1>1, <1>4 DEF set_alert_active_by_admin
  <2>3. /\ config.active = active /\ config.owner = alerts[id].owner
        /\ config.target_contract = alerts[id].target_contract
    BY <1>2, <2>1 DEF AlertConfig
  <2> HIDE DEF config
  <2>4. QED
    BY <1>3, <2>1, <2>2, <2>3
<1>5. ASSUME NEW caller \in Owners, NEW rules \in RuleLists,
             update_alert(caller, id, rules, active)
      PROVE  Goal
  <2> DEFINE config == [alerts[id] EXCEPT !.rules = rules, !.active = active,
                                          !.updated_at = timestamp]
  <2>1. /\ id \in DOMAIN alerts /\ amend(id, config) /\ set_active_flag(id, active)
        /\ UNCHANGED indexes
    BY <1>5 DEF update_alert, assert_owner
  <2>2. /\ ttl'.alert = Extend(ttl.alert, {id}, DEFAULT_TTL)
        /\ ttl'.active = Extend(ttl.active, {id}, DEFAULT_TTL)
    BY <1>1, <1>5 DEF update_alert
  <2>3. /\ config.active = active /\ config.owner = alerts[id].owner
        /\ config.target_contract = alerts[id].target_contract
    BY <1>2, <2>1 DEF AlertConfig
  <2> HIDE DEF config
  <2>4. QED
    BY <1>3, <2>1, <2>2, <2>3
<1>6. QED
  BY <1>4, <1>5

\* Every step keeps the flags in agreement with the alerts, provided a new entry
\* does not start with a longer life than the contract asks for.
LEMMA FlagsStep ==
    ASSUME MIN_TTL <= DEFAULT_TTL, IInv, ActiveFlagAgrees, [Next]_vars
    PROVE  ActiveFlagAgrees'
<1>1. /\ ttl = [alert |-> ttl.alert, active |-> ttl.active, owner |-> ttl.owner,
                contract |-> ttl.contract, instance |-> ttl.instance]
      /\ IsTable(ttl.alert, Ids, Nat) /\ IsTable(ttl.active, Ids, Nat)
      /\ DOMAIN ttl.alert = DOMAIN alerts /\ DOMAIN ttl.active = DOMAIN alert_active
  BY DEF IInv, LivesOK, LivesMatchEntries, TtlTypeOK
<1>2. DEFAULT_TTL \in Nat /\ MAX_TTL \in Nat /\ BumpTtls \subseteq Nat
  BY ConstantsAssumption
<1>3. ASSUME UNCHANGED <<alerts, alert_active, ttl>>
      PROVE  ActiveFlagAgrees'
  BY <1>3 DEF ActiveFlagAgrees
<1>4. \A n : Extend(ttl.active, {}, n) = ttl.active
  BY <1>1, ExtendNothing
<1>5. ASSUME NEW id \in DOMAIN alerts, DOMAIN alerts' = DOMAIN alerts,
             \A k \in DOMAIN alerts : alerts'[k].active = alerts[k].active,
             UNCHANGED alert_active,
             ttl'.alert = Extend(ttl.alert, {id}, DEFAULT_TTL),
             ttl'.active = ttl.active
      PROVE  ActiveFlagAgrees'
  <2> DEFINE K == {}
             X == {id}
  <2>1. /\ K \subseteq X /\ X \subseteq DOMAIN alerts'
        /\ DOMAIN alert_active' = DOMAIN alert_active \cup K
        /\ \A k \in K : FALSE
    BY <1>5
  <2>2. ttl'.active = Extend(ttl.active, K, DEFAULT_TTL)
    BY <1>4, <1>5
  <2>3. \A k \in DOMAIN alert_active : k \in DOMAIN alerts
    BY DEF ActiveFlagAgrees
  <2>4. /\ DOMAIN alerts \subseteq DOMAIN alerts'
        /\ ttl'.alert = Extend(ttl.alert, X, DEFAULT_TTL)
        /\ \A k \in DOMAIN alert_active \ K :
              alert_active'[k] = alert_active[k] /\ alerts'[k].active = alerts[k].active
    BY <1>5, <2>3
  <2> HIDE DEF K, X
  <2>5. QED
    BY <1>2, <2>1, <2>2, <2>4, FlagStep
<1>6. ASSUME NEW id \in Ids, NEW active \in BOOLEAN,
             \/ \E admin \in Admins : set_alert_active_by_admin(admin, id, active)
             \/ \E caller \in Owners, rules \in RuleLists :
                   update_alert(caller, id, rules, active)
      PROVE  ActiveFlagAgrees'
  <2> DEFINE K == {id}
  <2>1. /\ id \in DOMAIN alerts /\ DOMAIN alerts' = DOMAIN alerts
        /\ alerts'[id].active = active
        /\ \A k \in DOMAIN alerts \ {id} : alerts'[k] = alerts[k]
        /\ alert_active' = Put(alert_active, id, active)
        /\ ttl'.alert = Extend(ttl.alert, K, DEFAULT_TTL)
        /\ ttl'.active = Extend(ttl.active, K, DEFAULT_TTL)
    BY <1>6, FlagWrites
  <2>2. /\ DOMAIN alert_active' = DOMAIN alert_active \cup K
        /\ alert_active'[id] = active
        /\ \A k \in DOMAIN alert_active \ {id} : alert_active'[k] = alert_active[k]
    BY <2>1 DEF Put
  <2>3. \A k \in DOMAIN alert_active : k \in DOMAIN alerts
    BY DEF ActiveFlagAgrees
  <2>4. /\ K \subseteq K /\ K \subseteq DOMAIN alerts'
        /\ DOMAIN alerts \subseteq DOMAIN alerts'
        /\ \A k \in K : alert_active'[k] = alerts'[k].active
        /\ \A k \in DOMAIN alert_active \ K :
              alert_active'[k] = alert_active[k] /\ alerts'[k].active = alerts[k].active
    BY <2>1, <2>2, <2>3
  <2> HIDE DEF K
  <2>5. QED
    BY <1>2, <2>1, <2>2, <2>4, FlagStep
<1>7. ASSUME NEW id \in DOMAIN alerts, remove_alert_record(id)
      PROVE  ActiveFlagAgrees'
  <2>1. /\ alerts' = Drop(alerts, id) /\ alert_active' = Drop(alert_active, id)
        /\ ttl'.alert = Drop(ttl.alert, id) /\ ttl'.active = Drop(ttl.active, id)
    BY <1>1, <1>7 DEF remove_alert_record
  <2>2. /\ DOMAIN alerts' = DOMAIN alerts \ {id}
        /\ DOMAIN alert_active' = DOMAIN alert_active \ {id}
        /\ \A k \in DOMAIN alerts \ {id} :
              alerts'[k] = alerts[k] /\ ttl'.alert[k] = ttl.alert[k]
        /\ \A k \in DOMAIN alert_active \ {id} :
              alert_active'[k] = alert_active[k] /\ ttl'.active[k] = ttl.active[k]
    BY <1>1, <2>1 DEF Drop, Restrict
  <2>3. QED
    BY <2>2 DEF ActiveFlagAgrees
<1>8. CASE \E owner, inputs, tags :
           owner \in Owners /\ Registers(owner, inputs, tags)
  <2>1. PICK owner, inputs, tags :
             owner \in Owners /\ Registers(owner, inputs, tags)
    BY <1>8
  <2>2. Adds(owner, inputs, tags)
    BY <2>1, RegisterAdds DEF Registers
  <2>3. \A input, now : Registered(owner, input, tags, now).active = TRUE
    BY DEF Registered
  <2>4. /\ NewIds \subseteq DOMAIN alerts' /\ DOMAIN alerts \subseteq DOMAIN alerts'
        /\ DOMAIN alert_active' = DOMAIN alert_active \cup NewIds
        /\ \A k \in NewIds : alert_active'[k] = alerts'[k].active
        /\ ttl'.alert = Extend(ttl.alert, NewIds, DEFAULT_TTL)
        /\ ttl'.active = Extend(ttl.active, NewIds, DEFAULT_TTL)
    BY <2>2, <2>3 DEF Adds
  <2>5. \A k \in DOMAIN alert_active \ NewIds :
           alert_active'[k] = alert_active[k] /\ alerts'[k].active = alerts[k].active
    BY <2>2 DEF Adds, ActiveFlagAgrees
  <2>6. NewIds \subseteq NewIds
    OBVIOUS
  <2>7. QED
    BY <1>2, <2>4, <2>5, <2>6, FlagStep
<1>9. ASSUME NEW caller \in Owners, deactivate_all_alerts(caller)
      PROVE  ActiveFlagAgrees'
  <2> DEFINE off == {id \in Range(lookup(owner_index, caller)) \cap DOMAIN alerts :
                        alerts[id].active}
  <2>1. /\ off \subseteq DOMAIN alerts /\ off \subseteq off
        /\ \A id \in off : alerts[id] \in AlertConfig
    BY AlertFacts
  <2>2. /\ alerts' = [id \in DOMAIN alerts |->
                        IF id \in off
                        THEN [alerts[id] EXCEPT !.active = FALSE, !.updated_at = timestamp]
                        ELSE alerts[id]]
        /\ alert_active' = [id \in DOMAIN alert_active \cup off |->
                              IF id \in off THEN FALSE ELSE alert_active[id]]
        /\ ttl'.alert = Extend(ttl.alert, off, DEFAULT_TTL)
        /\ ttl'.active = Extend(ttl.active, off, DEFAULT_TTL)
    BY <1>1, <1>9 DEF deactivate_all_alerts
  <2> HIDE DEF off
  <2>3. \A id \in off :
           [alerts[id] EXCEPT !.active = FALSE, !.updated_at = timestamp].active = FALSE
    BY <2>1 DEF AlertConfig
  <2>4. /\ DOMAIN alerts' = DOMAIN alerts
        /\ DOMAIN alert_active' = DOMAIN alert_active \cup off
        /\ \A k \in off : alert_active'[k] = alerts'[k].active
        /\ \A k \in DOMAIN alert_active \ off :
              alert_active'[k] = alert_active[k] /\ alerts'[k].active = alerts[k].active
    BY <2>1, <2>2, <2>3 DEF ActiveFlagAgrees
  <2>5. off \subseteq DOMAIN alerts' /\ DOMAIN alerts \subseteq DOMAIN alerts'
    BY <2>1, <2>4
  <2>6. QED
    BY <1>2, <2>1, <2>2, <2>4, <2>5, FlagStep
<1>10. ASSUME NEW n \in Nat, NEW K, K \subseteq DOMAIN alerts,
              \A id \in K : id \in DOMAIN alert_active,
              UNCHANGED <<alerts, alert_active>>,
              ttl'.alert = Extend(ttl.alert, K, n),
              ttl'.active = Extend(ttl.active, K, n)
       PROVE  ActiveFlagAgrees'
  <2>1. /\ DOMAIN alert_active' = DOMAIN alert_active \cup K
        /\ K \subseteq K
        /\ \A id \in K : alert_active'[id] = alerts'[id].active
    BY <1>10 DEF ActiveFlagAgrees
  <2>2. QED
    BY <1>10, <2>1, FlagStep
<1>11. CASE renewal_call
  <2>1. ASSUME NEW id \in Ids, NEW life \in BumpTtls, bump_alert(id, life)
        PROVE  ActiveFlagAgrees'
    <3> DEFINE n == IF life <= MAX_TTL THEN life ELSE MAX_TTL
    <3>1. /\ n \in Nat /\ {id} \subseteq DOMAIN alerts
          /\ \A k \in {id} : k \in DOMAIN alert_active
          /\ UNCHANGED <<alerts, alert_active>>
          /\ ttl'.alert = Extend(ttl.alert, {id}, n)
          /\ ttl'.active = Extend(ttl.active, {id}, n)
      BY <1>2, <2>1 DEF bump_alert
    <3> HIDE DEF n
    <3>2. QED
      BY <1>10, <3>1
  <2>2. ASSUME NEW ids \in SUBSET Ids, bulk_renew_ttl(ids)
        PROVE  ActiveFlagAgrees'
    <3> DEFINE live == ids \cap DOMAIN alerts
    <3>1. /\ live \subseteq DOMAIN alerts
          /\ \A k \in live : k \in DOMAIN alert_active
          /\ UNCHANGED <<alerts, alert_active>>
          /\ ttl'.alert = Extend(ttl.alert, live, DEFAULT_TTL)
          /\ ttl'.active = Extend(ttl.active, live, DEFAULT_TTL)
      BY <1>1, <2>2 DEF bulk_renew_ttl
    <3> HIDE DEF live
    <3>2. QED
      BY <1>2, <1>10, <3>1
  <2>3. ASSUME NEW id \in Ids, get_alert(id)
        PROVE  ActiveFlagAgrees'
    <3>1. /\ id \in DOMAIN alerts /\ UNCHANGED <<alerts, alert_active>>
          /\ ttl'.alert = Extend(ttl.alert, {id}, DEFAULT_TTL)
          /\ ttl'.active = ttl.active
      BY <1>1, <2>3 DEF get_alert
    <3>2. QED
      BY <1>5, <3>1
  <2>4. QED
    BY <1>11, <2>1, <2>2, <2>3 DEF renewal_call
<1>12. CASE close_ledger
  <2>1. /\ alerts' = Restrict(alerts, Survivors(ttl.alert))
        /\ alert_active' = Restrict(alert_active, Survivors(ttl.active))
        /\ ttl'.alert = Age(ttl.alert) /\ ttl'.active = Age(ttl.active)
    BY <1>12 DEF close_ledger
  <2>2. /\ \A id \in DOMAIN ttl.alert : ttl.alert[id] \in Nat
        /\ \A id \in DOMAIN ttl.active : ttl.active[id] \in Nat
    BY <1>1 DEF IsTable
  <2>3. ASSUME NEW id \in Survivors(ttl.active)
        PROVE  /\ id \in Survivors(ttl.alert)
               /\ alert_active[id] = alerts[id].active
               /\ ttl.active[id] - 1 <= ttl.alert[id] - 1
    BY <1>1, <2>2 DEF ActiveFlagAgrees, Survivors
  <2>4. /\ DOMAIN alerts' = Survivors(ttl.alert)
        /\ DOMAIN alert_active' = Survivors(ttl.active)
        /\ \A id \in Survivors(ttl.alert) :
              alerts'[id] = alerts[id] /\ ttl'.alert[id] = ttl.alert[id] - 1
        /\ \A id \in Survivors(ttl.active) :
              alert_active'[id] = alert_active[id] /\ ttl'.active[id] = ttl.active[id] - 1
    BY <2>1 DEF Restrict, Age
  <2>5. QED
    BY <2>3, <2>4 DEF ActiveFlagAgrees
<1>13. CASE admin_call
  <2>1. PICK admin \in Admins :
           \/ \/ initialize(admin)
              \/ \E other \in Admins :
                    \/ transfer_admin(admin, other)
                    \/ add_admin(admin, other)
                    \/ remove_admin(admin, other)
              \/ \E n \in Limits : set_per_owner_alert_limit(admin, n)
              \/ \E value \in PauseValues : set_paused(admin, value)
              \/ \E registry \in Registries : set_watcher_registry(admin, registry)
           \/ \E id \in Ids, active \in BOOLEAN :
                 set_alert_active_by_admin(admin, id, active)
           \/ \E id \in Ids : remove_alert_by_admin(admin, id)
    BY <1>13 DEF admin_call
  <2>2. CASE \/ initialize(admin)
             \/ \E other \in Admins :
                   \/ transfer_admin(admin, other)
                   \/ add_admin(admin, other)
                   \/ remove_admin(admin, other)
             \/ \E n \in Limits : set_per_owner_alert_limit(admin, n)
             \/ \E value \in PauseValues : set_paused(admin, value)
             \/ \E registry \in Registries : set_watcher_registry(admin, registry)
    <3>1. UNCHANGED <<alerts, alert_active, ttl>>
      BY <2>2 DEF initialize, transfer_admin, add_admin, remove_admin, set_admins,
         set_per_owner_alert_limit, set_paused, set_watcher_registry
    <3>2. QED
      BY <1>3, <3>1
  <2>3. CASE \E id \in Ids, active \in BOOLEAN :
                set_alert_active_by_admin(admin, id, active)
    BY <1>6, <2>3
  <2>4. CASE \E id \in Ids : remove_alert_by_admin(admin, id)
    BY <1>7, <2>4 DEF remove_alert_by_admin
  <2>5. QED
    BY <2>1, <2>2, <2>3, <2>4
<1>14. CASE owner_call
  <2>1. PICK caller \in Owners :
           \/ \/ \E input \in AlertInput, tags \in TagLists \cup {None} :
                    register_alert(caller, input, tags)
              \/ \E n \in BatchSizes : \E inputs \in [1..n -> AlertInput] :
                    batch_register_alerts(caller, inputs)
           \/ deactivate_all_alerts(caller)
    BY <1>14 DEF owner_call
  <2>2. QED
    BY <1>8, <1>9, <2>1, RegisterEntryPoints
<1>15. CASE alert_call
  <2>1. PICK caller \in Owners, id \in Ids :
           \/ \E rules \in RuleLists, active \in BOOLEAN :
                 update_alert(caller, id, rules, active)
           \/ \/ \E hash \in Hashes : update_webhook(caller, id, hash)
              \/ \E hash \in Hashes : propose_webhook(caller, id, hash)
              \/ confirm_webhook(caller, id)
              \/ \E label \in Labels : update_label(caller, id, label)
              \/ \E tags \in TagLists \cup {None} : update_tags(caller, id, tags)
              \/ \E target \in Targets : update_target_contract(caller, id, target)
              \/ \E other \in Owners : transfer_alert_ownership(caller, id, other)
           \/ remove_alert(caller, id)
    BY <1>15 DEF alert_call
  <2>2. CASE \E rules \in RuleLists, active \in BOOLEAN :
                update_alert(caller, id, rules, active)
    BY <1>6, <2>2
  <2>3. CASE remove_alert(caller, id)
    BY <1>7, <2>3 DEF remove_alert, assert_owner
  <2>4. CASE \/ \E hash \in Hashes : update_webhook(caller, id, hash)
             \/ \E hash \in Hashes : propose_webhook(caller, id, hash)
             \/ confirm_webhook(caller, id)
             \/ \E label \in Labels : update_label(caller, id, label)
             \/ \E tags \in TagLists \cup {None} : update_tags(caller, id, tags)
             \/ \E target \in Targets : update_target_contract(caller, id, target)
             \/ \E other \in Owners : transfer_alert_ownership(caller, id, other)
    <3>1. /\ id \in DOMAIN alerts /\ DOMAIN alerts' = DOMAIN alerts
          /\ \A k \in DOMAIN alerts : alerts'[k].active = alerts[k].active
          /\ UNCHANGED alert_active
          /\ ttl'.alert = Extend(ttl.alert, {id}, DEFAULT_TTL)
          /\ ttl'.active = ttl.active
      BY <2>4, EditsKeepActive
    <3>2. QED
      BY <1>5, <3>1
  <2>5. QED
    BY <2>1, <2>2, <2>3, <2>4
<1>16. CASE UNCHANGED vars
  BY <1>3, <1>16 DEF vars
<1>17. QED
  BY <1>11, <1>12, <1>13, <1>14, <1>15, <1>16 DEF Next

\* AlertActive(id) never contradicts or outlives the alert it stands for, on
\* every network that starts an entry with no more life than DEFAULT_TTL.
THEOREM FlagsAgree == MIN_TTL <= DEFAULT_TTL => (Spec => []ActiveFlagAgrees)
<1> SUFFICES ASSUME MIN_TTL <= DEFAULT_TTL
             PROVE  Spec => []ActiveFlagAgrees
  OBVIOUS
<1>1. Init => ActiveFlagAgrees
  BY DEF Init, NoEntries, ActiveFlagAgrees
<1>2. IInv /\ ActiveFlagAgrees /\ [Next]_vars => ActiveFlagAgrees'
  BY FlagsStep
<1>3. QED
  BY <1>1, <1>2, Invariance, PTL DEF Spec
-----------------------------------------------------------------------------
(* The indexes follow the alerts.                                          *)

\* From (index, home) to (next, new) in one step: what is listed under its home
\* stays listed, what has come to a new home is listed there, and what is still
\* listed was listed before or is live, and has not just been removed.
Follows(index, next, home, new, Keys) ==
    \A k \in Keys :
        /\ \A id \in Listed(index, k) :
              id \in DOMAIN new /\ new[id] = k => id \in Listed(next, k)
        /\ \A id \in DOMAIN new :
              new[id] = k /\ (id \in DOMAIN home => home[id] # k) => id \in Listed(next, k)
        /\ \A id \in Listed(next, k) :
              /\ id \in Listed(index, k) \/ id \in DOMAIN new
              /\ id \in DOMAIN home => id \in DOMAIN new

\* An index lists exactly the ids whose home is the key.
Exact(index, home, Keys) ==
    \A k \in Keys : Listed(index, k) = {id \in DOMAIN home : home[id] = k}

\* An exact index that follows the alerts stays exact.
LEMMA ExactFollows ==
    ASSUME NEW index, NEW next, NEW home, NEW new, NEW Keys,
           Exact(index, home, Keys), Follows(index, next, home, new, Keys),
           Places(next, Keys, new)
    PROVE  Exact(next, new, Keys)
<1> SUFFICES ASSUME NEW k \in Keys
             PROVE  Listed(next, k) = {id \in DOMAIN new : new[id] = k}
  BY DEF Exact
<1>1. Listed(index, k) = {id \in DOMAIN home : home[id] = k}
  BY DEF Exact
<1>2. ASSUME NEW id \in Listed(next, k)
      PROVE  id \in DOMAIN new /\ new[id] = k
  BY <1>1 DEF Follows, Places
<1>3. ASSUME NEW id \in DOMAIN new, new[id] = k
      PROVE  id \in Listed(next, k)
  BY <1>1, <1>3 DEF Follows
<1>4. QED
  BY <1>2, <1>3

\* What the lazy pruning of assert_per_owner_limit_for (#205) leaves of an index.
Prunes(index, pruned, home) ==
    \A k : /\ Listed(pruned, k) \subseteq Listed(index, k)
           /\ Listed(index, k) \cap DOMAIN home \subseteq Listed(pruned, k)

\* A step that touches neither the index nor the homes.
LEMMA FollowsSame ==
    ASSUME NEW index, NEW home, NEW Keys
    PROVE  Follows(index, index, home, home, Keys)
BY DEF Follows

\* An alert that moves leaves its old home's entry and joins its new one's.
LEMMA FollowsMove ==
    ASSUME NEW Keys, NEW n, NEW index, NEW pruned, GoodIndex(pruned, Keys, n),
           NEW home, NEW new, Places(index, Keys, home), Prunes(index, pruned, home),
           NEW id \in Ids, id \in DOMAIN home, home[id] \in Keys, NEW key \in Keys,
           DOMAIN new = DOMAIN home, new[id] = key,
           \A x \in DOMAIN home \ {id} : new[x] = home[x]
    PROVE  Follows(index, push_index(remove_from_index(pruned, home[id], id), key, id),
                   home, new, Keys)
<1> DEFINE removed == remove_from_index(pruned, home[id], id)
           next == push_index(removed, key, id)
<1>1. GoodIndex(removed, Keys, n)
  BY RemoveGood
<1>2. ASSUME NEW k \in Keys
      PROVE  /\ k = home[id] => Listed(removed, k) = Listed(pruned, k) \ {id}
             /\ k # home[id] => Listed(removed, k) = Listed(pruned, k)
  BY RemoveEffect
<1> HIDE DEF removed
<1>3. ASSUME NEW k \in Keys
      PROVE  /\ k = key => Listed(next, k) = Listed(removed, k) \cup {id}
             /\ k # key => Listed(next, k) = Listed(removed, k)
  BY <1>1, PushEffect
<1> HIDE DEF next
<1>4. ASSUME NEW k \in Keys
      PROVE  /\ Listed(pruned, k) \subseteq Listed(index, k)
             /\ Listed(index, k) \cap DOMAIN home \subseteq Listed(pruned, k)
  BY DEF Prunes
<1>5. Follows(index, next, home, new, Keys)
  BY <1>2, <1>3, <1>4 DEF Follows
<1>6. QED
  BY <1>5 DEF next, removed

\* A removed alert leaves its home's entry.
LEMMA FollowsRemove ==
    ASSUME NEW Keys, NEW n, NEW index, GoodIndex(index, Keys, n),
           NEW home, NEW new, Places(index, Keys, home),
           NEW id, id \in DOMAIN home,
           DOMAIN new = DOMAIN home \ {id},
           \A x \in DOMAIN new : new[x] = home[x]
    PROVE  Follows(index, remove_from_index(index, home[id], id), home, new, Keys)
<1> DEFINE next == remove_from_index(index, home[id], id)
<1>1. ASSUME NEW k \in Keys
      PROVE  /\ k = home[id] => Listed(next, k) = Listed(index, k) \ {id}
             /\ k # home[id] => Listed(next, k) = Listed(index, k)
  BY RemoveEffect
<1> HIDE DEF next
<1>2. \A k \in Keys : id \in Listed(index, k) => k = home[id]
  BY DEF Places
<1>3. Follows(index, next, home, new, Keys)
  BY <1>1, <1>2 DEF Follows
<1>4. QED
  BY <1>3 DEF next

\* New alerts N join the entries of their homes.
Joined(index, pruned, next, home, new, N, Keys) ==
    /\ Prunes(index, pruned, home)
    /\ N \cap DOMAIN home = {}
    /\ \A k \in Keys : Listed(index, k) \cap N = {}
    /\ DOMAIN new = DOMAIN home \cup N
    /\ \A x \in DOMAIN home : new[x] = home[x]
    /\ \A k \in Keys : Listed(next, k) = Listed(pruned, k) \cup {id \in N : new[id] = k}

LEMMA FollowsAdd ==
    ASSUME NEW Keys, NEW index, NEW pruned, NEW next, NEW home, NEW new, NEW N,
           Joined(index, pruned, next, home, new, N, Keys)
    PROVE  Follows(index, next, home, new, Keys)
<1>1. ASSUME NEW k \in Keys
      PROVE  /\ Listed(pruned, k) \subseteq Listed(index, k)
             /\ Listed(index, k) \cap DOMAIN home \subseteq Listed(pruned, k)
  BY DEF Joined, Prunes
<1>2. QED
  BY <1>1 DEF Follows, Joined

\* The pruning of an owner's entry drops dead ids only.
LEMMA PruneListed ==
    ASSUME IInv, NEW owner \in Owners
    PROVE  Prunes(owner_index, pruned_index(owner), owner_of)
<1> DEFINE old == lookup(owner_index, owner)
           ids == live_ids(old)
           pruned == pruned_index(owner)
<1>1. DOMAIN owner_of = DOMAIN alerts
  BY DEF owner_of
<1>2. \A k : Listed(pruned, k) \subseteq Listed(owner_index, k)
  BY PruneFacts
<1>3. ASSUME NEW k
      PROVE  Listed(owner_index, k) \cap DOMAIN alerts \subseteq Listed(pruned, k)
  <2>1. CASE ~prunes(owner)
    BY <2>1 DEF pruned_index
  <2>2. CASE prunes(owner)
    <3>1. pruned = store(owner_index, owner, ids)
      BY <2>2 DEF pruned_index
    <3>2. old \in Seq(Ids)
      BY LookupGood DEF IInv, OwnersOK, GoodVec
    <3>3. Range(ids) = Range(old) \cap DOMAIN alerts
      BY <3>2, KeepFacts DEF live_ids
    <3>4. Range(old) = Listed(owner_index, owner)
      BY DEF Listed
    <3> HIDE DEF old, ids, pruned
    <3>5. /\ k = owner => lookup(pruned, k) = ids
          /\ k # owner => lookup(pruned, k) = lookup(owner_index, k)
      BY <3>1, StoreLookup
    <3>6. QED
      BY <3>3, <3>4, <3>5 DEF Listed
  <2>3. QED
    BY <2>1, <2>2
<1> HIDE DEF pruned
<1>4. Prunes(owner_index, pruned, owner_of)
  BY <1>1, <1>2, <1>3 DEF Prunes
<1>5. QED
  BY <1>4 DEF pruned

\* A registration lists its ids under the owner, in an entry that may have been
\* pruned, and each under the contract of its input.
LEMMA RegisterListed ==
    ASSUME IInv, NEW owner \in Owners, NEW inputs \in Seq(AlertInput), NEW tags,
           register(owner, inputs, tags)
    PROVE  /\ \A k \in Owners : Listed(owner_index', k)
                 = Listed(pruned_index(owner), k) \cup (IF k = owner THEN NewIds ELSE {})
           /\ \A t \in Targets : Listed(contract_index', t)
                 = Listed(contract_index, t)
                      \cup {id \in NewIds : inputs[id - next_id + 1].target_contract = t}
<1> DEFINE count == Len(inputs)
           new == [i \in 1..count |-> next_id + i - 1]
           input == [id \in Range(new) |-> inputs[id - next_id + 1]]
           targets == {input[id].target_contract : id \in Range(new)}
           for(t) == {id \in Range(new) : input[id].target_contract = t}
           pruned == pruned_index(owner)
<1>1. /\ next_id' = next_id + count
      /\ next_id + count <= U64_MAX
      /\ owner_index' = IF count = 0 THEN pruned
                        ELSE Put(pruned, owner, lookup(pruned, owner) \o new)
      /\ contract_index' = [t \in DOMAIN contract_index \cup targets |->
                              lookup(contract_index, t) \o Keep(new, for(t))]
  BY DEF register, next_id_after
<1>2. /\ GoodIndex(pruned, Owners, next_id)
      /\ GoodIndex(contract_index, Targets, next_id)
      /\ next_id \in Nat /\ U64_MAX \in Nat
  BY PruneFacts, ConstantsAssumption DEF IInv, ContractsOK, AlertsOK
<1>3. count \in Nat
  OBVIOUS
<1> HIDE DEF count
<1>4. new \in Seq(Ids) /\ Range(new) = NewIds
  <2>1. /\ DOMAIN new = 1..count
        /\ \A i \in 1..count : new[i] = next_id + i - 1 /\ new[i] \in Ids
    BY <1>1, <1>2, <1>3 DEF Ids
  <2>2. new \in Seq(Ids)
    <3>1. new \in [1..count -> Ids]
      BY <2>1
    <3>2. QED
      BY <1>3, <3>1
  <2>3. Range(new) \subseteq NewIds
    BY <1>1, <1>2, <1>3, <2>1 DEF Range, NewIds
  <2>4. ASSUME NEW id \in NewIds
        PROVE  id \in Range(new)
    <3>1. id - next_id + 1 \in 1..count /\ id = next_id + (id - next_id + 1) - 1
      BY <1>1, <1>2, <1>3 DEF NewIds
    <3>2. new[id - next_id + 1] = id
      BY <2>1, <3>1
    <3>3. QED
      BY <2>1, <3>1, <3>2 DEF Range
  <2>5. QED
    BY <2>2, <2>3, <2>4
<1>5. \A t : for(t) = {id \in NewIds : inputs[id - next_id + 1].target_contract = t}
  BY <1>4
<1>6. count = 0 => NewIds = {}
  BY <1>1, <1>2 DEF NewIds
<1> HIDE DEF new, input, pruned
<1>7. ASSUME NEW k \in Owners
      PROVE  Listed(owner_index', k)
                = Listed(pruned, k) \cup (IF k = owner THEN NewIds ELSE {})
  <2>1. CASE count = 0
    BY <1>1, <1>6, <2>1
  <2>2. CASE count # 0
    <3> DEFINE old == lookup(pruned, owner)
               ids == old \o new
    <3>1. old \in Seq(Ids) /\ Range(old) = Listed(pruned, owner)
      BY <1>2, LookupGood DEF Listed, GoodVec
    <3>2. Range(ids) = Range(old) \cup NewIds
      BY <1>4, <3>1, ConcatFacts
    <3>3. owner_index' = Put(pruned, owner, ids)
      BY <1>1, <2>2
    <3> HIDE DEF ids, old
    <3>4. /\ k = owner => lookup(owner_index', k) = ids
          /\ k # owner => lookup(owner_index', k) = lookup(pruned, k)
      BY <3>3 DEF Put, lookup
    <3>5. QED
      BY <3>1, <3>2, <3>4 DEF Listed
  <2>3. QED
    BY <2>1, <2>2
<1>8. ASSUME NEW t \in Targets
      PROVE  Listed(contract_index', t) = Listed(contract_index, t) \cup for(t)
  <2> DEFINE old == lookup(contract_index, t)
             more == Keep(new, for(t))
             ids == old \o more
  <2>1. old \in Seq(Ids) /\ Range(old) = Listed(contract_index, t)
    BY <1>2, LookupGood DEF Listed, GoodVec
  <2>2. for(t) \subseteq NewIds
    BY <1>4
  <2>3. t \in targets <=> for(t) # {}
    OBVIOUS
  <2>4. t \in DOMAIN contract_index \cup targets => contract_index'[t] = ids
    BY <1>1
  <2>5. DOMAIN contract_index' = DOMAIN contract_index \cup targets
    BY <1>1
  <2> HIDE DEF for, targets
  <2>6. more \in Seq(Ids) /\ Range(more) = for(t)
    <3>1. more \in Seq(Ids) /\ Range(more) = Range(new) \cap for(t)
      BY <1>4, KeepFacts
    <3>2. QED
      BY <1>4, <2>2, <3>1
  <2> HIDE DEF old, more
  <2>7. Range(ids) = Range(old) \cup for(t)
    BY <2>1, <2>6, ConcatFacts
  <2> HIDE DEF ids
  <2>8. CASE t \in DOMAIN contract_index \cup targets
    <3>1. Listed(contract_index', t) = Range(ids)
      BY <2>4, <2>5, <2>8, ListedEntry
    <3>2. QED
      BY <2>1, <2>7, <3>1
  <2>9. CASE t \notin DOMAIN contract_index \cup targets
    <3>1. Listed(contract_index', t) = {} /\ Listed(contract_index, t) = {}
      BY <2>5, <2>9, ListedEntry
    <3>2. QED
      BY <2>3, <2>9, <3>1
  <2>10. QED
    BY <2>8, <2>9
<1> HIDE DEF for
<1>9. QED
  BY <1>5, <1>7, <1>8 DEF pruned

OwnersFollow == Follows(owner_index, owner_index', owner_of, owner_of', Owners)
TargetsFollow == Follows(contract_index, contract_index', target_of, target_of', Targets)

\* A step that leaves the indexes and the homes of the alerts alone.
LEMMA FollowsKept ==
    ASSUME DOMAIN alerts' = DOMAIN alerts, UNCHANGED indexes,
           \A id \in DOMAIN alerts :
              /\ alerts'[id].owner = alerts[id].owner
              /\ alerts'[id].target_contract = alerts[id].target_contract
    PROVE  OwnersFollow /\ TargetsFollow
<1>1. owner_of' = owner_of /\ target_of' = target_of
  BY DEF owner_of, target_of
<1>2. owner_index' = owner_index /\ contract_index' = contract_index
  BY DEF indexes
<1>3. QED
  BY <1>1, <1>2, FollowsSame DEF OwnersFollow, TargetsFollow

\* Both indexes follow the alerts through a registration.
LEMMA RegisterFollows ==
    ASSUME IInv, NEW owner \in Owners, NEW inputs, NEW tags,
           Registers(owner, inputs, tags)
    PROVE  OwnersFollow /\ TargetsFollow
<1> DEFINE pruned == pruned_index(owner)
<1>1. inputs \in Seq(AlertInput) /\ register(owner, inputs, tags)
  BY DEF Registers
<1>2. Adds(owner, inputs, tags)
  BY <1>1, RegisterAdds
<1>3. /\ \A k \in Owners : Listed(owner_index', k)
            = Listed(pruned, k) \cup (IF k = owner THEN NewIds ELSE {})
      /\ \A t \in Targets : Listed(contract_index', t)
            = Listed(contract_index, t)
                \cup {id \in NewIds : inputs[id - next_id + 1].target_contract = t}
  BY <1>1, RegisterListed
<1>4. Prunes(owner_index, pruned, owner_of)
  BY PruneListed
<1>5. NewIds \cap 0..(next_id - 1) = {}
  BY <1>2 DEF Adds, NewIds, IInv, AlertsOK
<1>6. \A k : Listed(owner_index, k) \cap NewIds = {} /\ Listed(contract_index, k) \cap NewIds = {}
  <2>1. ASSUME NEW k
        PROVE  Listed(owner_index, k) \subseteq 0..(next_id - 1)
    BY LookupGood DEF IInv, OwnersOK, Listed, GoodVec
  <2>2. ASSUME NEW k
        PROVE  Listed(contract_index, k) \subseteq 0..(next_id - 1)
    BY LookupGood DEF IInv, ContractsOK, Listed, GoodVec
  <2>3. QED
    BY <1>5, <2>1, <2>2
<1>7. /\ DOMAIN owner_of = DOMAIN alerts /\ DOMAIN target_of = DOMAIN alerts
      /\ NewIds \cap DOMAIN alerts = {}
      /\ DOMAIN owner_of' = DOMAIN alerts \cup NewIds
      /\ DOMAIN target_of' = DOMAIN alerts \cup NewIds
  BY <1>2 DEF owner_of, target_of, Adds
<1>8. /\ \A x \in DOMAIN alerts : (owner_of')[x] = owner_of[x]
      /\ \A x \in DOMAIN alerts : (target_of')[x] = target_of[x]
  BY <1>2 DEF owner_of, target_of, Adds
<1>9. ASSUME NEW x \in NewIds
      PROVE  /\ (owner_of')[x] = owner
             /\ (target_of')[x] = inputs[x - next_id + 1].target_contract
  <2>1. alerts'[x] = Registered(owner, inputs[x - next_id + 1], tags, timestamp)
    BY <1>2 DEF Adds
  <2>2. x \in DOMAIN alerts'
    BY <1>2 DEF Adds
  <2>3. QED
    BY <2>1, <2>2 DEF owner_of, target_of, Registered
<1> DEFINE O == owner_of'
           T == target_of'
<1>10. OwnersFollow
  <2>1. \A k \in Owners : Listed(owner_index', k)
           = Listed(pruned, k) \cup {id \in NewIds : O[id] = k}
    BY <1>3, <1>9
  <2>2. DOMAIN O = DOMAIN owner_of \cup NewIds /\ \A x \in DOMAIN owner_of : O[x] = owner_of[x]
    BY <1>7, <1>8
  <2> HIDE DEF O, pruned
  <2>3. NewIds \cap DOMAIN owner_of = {}
    BY <1>7
  <2>4. Joined(owner_index, pruned, owner_index', owner_of, O, NewIds, Owners)
    BY <1>4, <1>6, <2>1, <2>2, <2>3 DEF Joined
  <2>5. Follows(owner_index, owner_index', owner_of, O, Owners)
    BY <2>4, FollowsAdd
  <2>6. QED
    BY <2>5 DEF OwnersFollow, O
<1>11. TargetsFollow
  <2>1. \A k \in Targets : Listed(contract_index', k)
           = Listed(contract_index, k) \cup {id \in NewIds : T[id] = k}
    BY <1>3, <1>9
  <2>2. /\ DOMAIN T = DOMAIN target_of \cup NewIds
        /\ \A x \in DOMAIN target_of : T[x] = target_of[x]
    BY <1>7, <1>8
  <2>3. Prunes(contract_index, contract_index, target_of)
    BY DEF Prunes
  <2> HIDE DEF T
  <2>4. NewIds \cap DOMAIN target_of = {}
    BY <1>7
  <2>5. Joined(contract_index, contract_index, contract_index', target_of, T, NewIds, Targets)
    BY <1>6, <2>1, <2>2, <2>3, <2>4 DEF Joined
  <2>6. Follows(contract_index, contract_index', target_of, T, Targets)
    BY <2>5, FollowsAdd
  <2>7. QED
    BY <2>6 DEF TargetsFollow, T
<1>12. QED
  BY <1>10, <1>11

\* ... through a change of the watched contract or of the owner ...
LEMMA MoveFollows ==
    ASSUME IInv, NEW caller \in Owners, NEW id \in Ids,
           NEW target \in Targets, NEW owner \in Owners,
           Relocates(caller, id, target, owner)
    PROVE  OwnersFollow /\ TargetsFollow
<1>1. /\ id \in DOMAIN alerts /\ DOMAIN alerts' = DOMAIN alerts
      /\ alerts'[id].owner = owner /\ alerts'[id].target_contract = target
      /\ \A k \in DOMAIN alerts \ {id} : alerts'[k] = alerts[k]
  <2>1. Relocated(id, target, owner)
    BY Moves
  <2>2. QED
    BY <2>1 DEF Relocated
<1>2. /\ alerts[id].owner = caller /\ alerts[id].target_contract \in Targets
  BY <1>1, AlertFacts DEF Relocates, update_target_contract, transfer_alert_ownership,
     assert_owner
<1>3. /\ GoodIndex(contract_index, Targets, next_id)
      /\ Places(owner_index, Owners, owner_of)
      /\ Places(contract_index, Targets, target_of)
  BY DEF IInv, OwnersOK, ContractsOK
<1>4. /\ DOMAIN owner_of = DOMAIN alerts /\ owner_of[id] = caller
      /\ DOMAIN target_of = DOMAIN alerts
      /\ target_of[id] = alerts[id].target_contract
  BY <1>1, <1>2 DEF owner_of, target_of
<1> DEFINE O == owner_of'
           T == target_of'
<1>5. /\ DOMAIN O = DOMAIN alerts /\ O[id] = owner
      /\ \A x \in DOMAIN alerts \ {id} : O[x] = owner_of[x]
  BY <1>1 DEF owner_of
<1>6. /\ DOMAIN T = DOMAIN alerts /\ T[id] = target
      /\ \A x \in DOMAIN alerts \ {id} : T[x] = target_of[x]
  BY <1>1 DEF target_of
<1>7. CASE update_target_contract(caller, id, target) /\ owner = caller
  <2>1. owner_index' = owner_index
    BY <1>7 DEF update_target_contract
  <2>2. owner_of' = owner_of
    BY <1>1, <1>2, <1>7 DEF owner_of
  <2>3. OwnersFollow
    BY <2>1, <2>2, FollowsSame DEF OwnersFollow
  <2>4. contract_index'
           = push_index(remove_from_index(contract_index, target_of[id], id), target, id)
    BY <1>4, <1>7 DEF update_target_contract
  <2>5. Prunes(contract_index, contract_index, target_of)
    BY DEF Prunes
  <2> HIDE DEF T
  <2>6. Follows(contract_index, contract_index', target_of, T, Targets)
    BY <1>1, <1>2, <1>3, <1>4, <1>6, <2>4, <2>5, FollowsMove
  <2>7. QED
    BY <2>3, <2>6 DEF TargetsFollow, T
<1>8. CASE transfer_alert_ownership(caller, id, owner) /\ target = alerts[id].target_contract
  <2> DEFINE pruned == pruned_index(owner)
  <2>1. contract_index' = contract_index
    BY <1>8 DEF transfer_alert_ownership
  <2>2. target_of' = target_of
    BY <1>1, <1>8 DEF target_of
  <2>3. TargetsFollow
    BY <2>1, <2>2, FollowsSame DEF TargetsFollow
  <2>4. owner_index' = push_index(remove_from_index(pruned, owner_of[id], id), owner, id)
    BY <1>4, <1>8 DEF transfer_alert_ownership
  <2>5. GoodIndex(pruned, Owners, next_id) /\ Prunes(owner_index, pruned, owner_of)
    BY PruneFacts, PruneListed
  <2> HIDE DEF O, pruned
  <2>6. Follows(owner_index, owner_index', owner_of, O, Owners)
    BY <1>1, <1>3, <1>4, <1>5, <2>4, <2>5, FollowsMove
  <2>7. QED
    BY <2>3, <2>6 DEF OwnersFollow, O
<1>9. QED
  BY <1>7, <1>8 DEF Relocates

\* ... and through a removal.
LEMMA RemoveFollows ==
    ASSUME IInv, NEW id \in DOMAIN alerts, remove_alert_record(id)
    PROVE  OwnersFollow /\ TargetsFollow
<1> DEFINE O == owner_of'
           T == target_of'
<1>1. /\ DOMAIN owner_of = DOMAIN alerts /\ owner_of[id] = alerts[id].owner
      /\ DOMAIN target_of = DOMAIN alerts
      /\ target_of[id] = alerts[id].target_contract
  BY DEF owner_of, target_of
<1>2. /\ alerts' = Drop(alerts, id)
      /\ owner_index' = remove_from_index(owner_index, owner_of[id], id)
      /\ contract_index' = remove_from_index(contract_index, target_of[id], id)
  BY <1>1 DEF remove_alert_record
<1>3. /\ DOMAIN alerts' = DOMAIN alerts \ {id}
      /\ \A x \in DOMAIN alerts' : alerts'[x] = alerts[x]
  BY <1>2, DropEffect
<1>4. /\ DOMAIN O = DOMAIN alerts \ {id} /\ \A x \in DOMAIN O : O[x] = owner_of[x]
      /\ DOMAIN T = DOMAIN alerts \ {id} /\ \A x \in DOMAIN T : T[x] = target_of[x]
  BY <1>3 DEF owner_of, target_of
<1>5. /\ GoodIndex(owner_index, Owners, next_id)
      /\ GoodIndex(contract_index, Targets, next_id)
      /\ Places(owner_index, Owners, owner_of)
      /\ Places(contract_index, Targets, target_of)
  BY DEF IInv, OwnersOK, ContractsOK
<1> HIDE DEF O, T
<1>6. Follows(owner_index, owner_index', owner_of, O, Owners)
  BY <1>1, <1>2, <1>4, <1>5, FollowsRemove
<1>7. Follows(contract_index, contract_index', target_of, T, Targets)
  BY <1>1, <1>2, <1>4, <1>5, FollowsRemove
<1>8. QED
  BY <1>6, <1>7 DEF OwnersFollow, TargetsFollow, O, T

\* Both indexes follow the alerts through every call.
LEMMA CallsFollow ==
    ASSUME IInv, [Next]_vars, ~close_ledger
    PROVE  OwnersFollow /\ TargetsFollow
<1> DEFINE Goal == OwnersFollow /\ TargetsFollow
<1> SUFFICES Goal
  OBVIOUS
<1>1. ASSUME UNCHANGED alerts, UNCHANGED indexes
      PROVE  Goal
  BY <1>1, FollowsKept
<1>2. CASE UNCHANGED vars
  BY <1>1, <1>2 DEF vars
<1>3. ASSUME NEW id \in Ids, NEW active \in BOOLEAN,
             \/ \E admin \in Admins : set_alert_active_by_admin(admin, id, active)
             \/ \E caller \in Owners, rules \in RuleLists :
                   update_alert(caller, id, rules, active)
      PROVE  Goal
  <2>1. /\ id \in DOMAIN alerts /\ DOMAIN alerts' = DOMAIN alerts
        /\ alerts'[id].owner = alerts[id].owner
        /\ alerts'[id].target_contract = alerts[id].target_contract
        /\ \A k \in DOMAIN alerts \ {id} : alerts'[k] = alerts[k]
        /\ UNCHANGED indexes
    BY <1>3, FlagWrites
  <2>2. QED
    BY <2>1, FollowsKept
<1>4. CASE admin_call
  <2>1. PICK admin \in Admins :
           \/ \/ initialize(admin)
              \/ \E other \in Admins :
                    \/ transfer_admin(admin, other)
                    \/ add_admin(admin, other)
                    \/ remove_admin(admin, other)
              \/ \E n \in Limits : set_per_owner_alert_limit(admin, n)
              \/ \E value \in PauseValues : set_paused(admin, value)
              \/ \E registry \in Registries : set_watcher_registry(admin, registry)
           \/ \E id \in Ids, active \in BOOLEAN :
                 set_alert_active_by_admin(admin, id, active)
           \/ \E id \in Ids : remove_alert_by_admin(admin, id)
    BY <1>4 DEF admin_call
  <2>2. CASE \/ initialize(admin)
             \/ \E other \in Admins :
                   \/ transfer_admin(admin, other)
                   \/ add_admin(admin, other)
                   \/ remove_admin(admin, other)
             \/ \E n \in Limits : set_per_owner_alert_limit(admin, n)
             \/ \E value \in PauseValues : set_paused(admin, value)
             \/ \E registry \in Registries : set_watcher_registry(admin, registry)
    <3>1. UNCHANGED alerts /\ UNCHANGED indexes
      BY <2>2 DEF initialize, transfer_admin, add_admin, remove_admin, set_admins,
         set_per_owner_alert_limit, set_paused, set_watcher_registry
    <3>2. QED
      BY <1>1, <3>1
  <2>3. CASE \E id \in Ids, active \in BOOLEAN :
                set_alert_active_by_admin(admin, id, active)
    BY <1>3, <2>3
  <2>4. CASE \E id \in Ids : remove_alert_by_admin(admin, id)
    BY <2>4, RemoveFollows DEF remove_alert_by_admin
  <2>5. QED
    BY <2>1, <2>2, <2>3, <2>4
<1>5. CASE owner_call
  <2>1. PICK caller \in Owners :
           \/ \/ \E input \in AlertInput, tags \in TagLists \cup {None} :
                    register_alert(caller, input, tags)
              \/ \E n \in BatchSizes : \E inputs \in [1..n -> AlertInput] :
                    batch_register_alerts(caller, inputs)
           \/ deactivate_all_alerts(caller)
    BY <1>5 DEF owner_call
  <2>2. CASE deactivate_all_alerts(caller)
    <3>1. /\ DOMAIN alerts' = DOMAIN alerts /\ UNCHANGED indexes
          /\ \A id \in DOMAIN alerts :
                \/ alerts'[id] = alerts[id]
                \/ alerts'[id] = [alerts[id] EXCEPT !.active = FALSE,
                                                    !.updated_at = timestamp]
      BY <2>2 DEF deactivate_all_alerts
    <3>2. ASSUME NEW id \in DOMAIN alerts
          PROVE  /\ alerts'[id].owner = alerts[id].owner
                 /\ alerts'[id].target_contract = alerts[id].target_contract
      <4>1. alerts[id] \in AlertConfig
        BY AlertFacts
      <4>2. QED
        BY <3>1, <4>1 DEF AlertConfig
    <3>3. QED
      BY <3>1, <3>2, FollowsKept
  <2>3. QED
    BY <2>1, <2>2, RegisterEntryPoints, RegisterFollows
<1>6. CASE alert_call
  <2>1. PICK caller \in Owners, id \in Ids :
           \/ \E rules \in RuleLists, active \in BOOLEAN :
                 update_alert(caller, id, rules, active)
           \/ \/ \E hash \in Hashes : update_webhook(caller, id, hash)
              \/ \E hash \in Hashes : propose_webhook(caller, id, hash)
              \/ confirm_webhook(caller, id)
              \/ \E label \in Labels : update_label(caller, id, label)
              \/ \E tags \in TagLists \cup {None} : update_tags(caller, id, tags)
           \/ \E target \in Targets : update_target_contract(caller, id, target)
           \/ \E other \in Owners : transfer_alert_ownership(caller, id, other)
           \/ remove_alert(caller, id)
    BY <1>6 DEF alert_call
  <2>2. CASE \E rules \in RuleLists, active \in BOOLEAN :
                update_alert(caller, id, rules, active)
    BY <1>3, <2>2
  <2>3. CASE \/ \E hash \in Hashes : update_webhook(caller, id, hash)
             \/ \E hash \in Hashes : propose_webhook(caller, id, hash)
             \/ confirm_webhook(caller, id)
             \/ \E label \in Labels : update_label(caller, id, label)
             \/ \E tags \in TagLists \cup {None} : update_tags(caller, id, tags)
    <3>1. /\ DOMAIN alerts' = DOMAIN alerts
          /\ \A k \in DOMAIN alerts :
                /\ alerts'[k].owner = alerts[k].owner
                /\ alerts'[k].target_contract = alerts[k].target_contract
          /\ UNCHANGED indexes
      BY <2>3, PlainEdits
    <3>2. QED
      BY <3>1, FollowsKept
  <2>4. CASE \E target \in Targets : update_target_contract(caller, id, target)
    BY <2>4, MoveFollows DEF Relocates
  <2>5. CASE \E other \in Owners : transfer_alert_ownership(caller, id, other)
    <3>1. id \in DOMAIN alerts
      BY <2>5 DEF transfer_alert_ownership, assert_owner
    <3>2. alerts[id].target_contract \in Targets
      BY <3>1, AlertFacts
    <3>3. QED
      BY <2>5, <3>2, MoveFollows DEF Relocates
  <2>6. CASE remove_alert(caller, id)
    BY <2>6, RemoveFollows DEF remove_alert, assert_owner
  <2>7. QED
    BY <2>1, <2>2, <2>3, <2>4, <2>5, <2>6
<1>7. CASE renewal_call
  <2>1. UNCHANGED alerts /\ UNCHANGED indexes
    BY <1>7 DEF renewal_call, bump_alert, bulk_renew_ttl, get_alert
  <2>2. QED
    BY <1>1, <2>1
<1>8. QED
  BY <1>2, <1>4, <1>5, <1>6, <1>7 DEF Next

\* What stays in an index entry does not depend on what lapses beside it: a
\* listed alert stays listed while it lives, keeps its owner and its owner's
\* entry is there (owner_index, assert_per_owner_limit_for).
THEOREM NoListingLost == Spec => ListedStaysListed
<1> DEFINE A == \A o \in Survivors(ttl.owner) : \A id \in Range(owner_index[o]) :
                   id \in DOMAIN alerts' /\ alerts'[id].owner = o
                     => id \in Range(lookup(owner_index', o))
<1>1. IInv /\ [Next]_vars => [A]_vars
  <2> SUFFICES ASSUME IInv, [Next]_vars,
                      NEW o \in Survivors(ttl.owner), NEW id \in Range(owner_index[o]),
                      id \in DOMAIN alerts', alerts'[id].owner = o
               PROVE  id \in Listed(owner_index', o)
    BY DEF Listed
  <2>1. /\ o \in DOMAIN owner_index /\ o \in Owners
        /\ id \in Listed(owner_index, o)
    <3>1. o \in DOMAIN owner_index /\ o \in Owners
      BY DEF Survivors, IInv, LivesOK, LivesMatchEntries, OwnersOK, GoodIndex, IsTable
    <3>2. QED
      BY <3>1, ListedEntry
  <2>2. CASE close_ledger
    <3>1. owner_index' = Restrict(owner_index, Survivors(ttl.owner))
      BY <2>2 DEF close_ledger
    <3>2. o \in DOMAIN owner_index' /\ owner_index'[o] = owner_index[o]
      BY <3>1 DEF Restrict
    <3>3. QED
      BY <3>2, ListedEntry
  <2>3. CASE ~close_ledger
    <3>1. OwnersFollow
      BY <2>3, CallsFollow
    <3>2. id \in DOMAIN owner_of' /\ owner_of'[id] = o
      BY DEF owner_of
    <3>3. QED
      BY <2>1, <3>1, <3>2 DEF OwnersFollow, Follows
  <2>4. QED
    BY <2>2, <2>3
<1>2. QED
  BY <1>1, Invariance, PTL DEF Spec, ListedStaysListed
-----------------------------------------------------------------------------
(* A registry whose entries are renewed in time.                           *)

\* Both indexes exact, and a flag beside every alert.
AllExact ==
    /\ Exact(owner_index, owner_of, Owners)
    /\ Exact(contract_index, target_of, Targets)
    /\ DOMAIN alert_active = DOMAIN alerts

\* Every entry but the instance has a ledger left.
EntriesLast ==
    /\ Survivors(ttl.alert) = DOMAIN ttl.alert
    /\ Survivors(ttl.active) = DOMAIN ttl.active
    /\ Survivors(ttl.owner) = DOMAIN ttl.owner
    /\ Survivors(ttl.contract) = DOMAIN ttl.contract

\* When nothing lapses a ledger that closes leaves every table as it is.
LEMMA NothingLapses ==
    ASSUME IInv, close_ledger, ~Archival \/ EntriesLast
    PROVE  UNCHANGED <<alerts, alert_active, indexes, next_id, limit>>
<1>1. /\ Survivors(ttl.alert) = DOMAIN alerts
      /\ Survivors(ttl.active) = DOMAIN alert_active
      /\ Survivors(ttl.owner) = DOMAIN owner_index
      /\ Survivors(ttl.contract) = DOMAIN contract_index
  BY DEF close_ledger, nothing_lapses, EntriesLast, IInv, LivesOK, LivesMatchEntries
<1>2. ASSUME NEW f, NEW D, NEW S, IsTable(f, D, S)
      PROVE  Restrict(f, DOMAIN f) = f
  BY <1>2 DEF IsTable, Restrict
<1>3. /\ Restrict(alerts, DOMAIN alerts) = alerts
      /\ Restrict(alert_active, DOMAIN alert_active) = alert_active
  BY <1>2 DEF IInv, AlertsOK
<1>4. /\ Restrict(owner_index, DOMAIN owner_index) = owner_index
      /\ Restrict(contract_index, DOMAIN contract_index) = contract_index
  BY <1>2 DEF IInv, OwnersOK, ContractsOK, GoodIndex
<1>5. QED
  BY <1>1, <1>3, <1>4 DEF close_ledger, indexes, settings

\* A call that finds a flag beside every alert leaves one beside every alert.
LEMMA FlagDomains ==
    ASSUME IInv, [Next]_vars, ~close_ledger, DOMAIN alert_active = DOMAIN alerts
    PROVE  DOMAIN alert_active' = DOMAIN alerts'
<1> DEFINE Goal == DOMAIN alert_active' = DOMAIN alerts'
<1> SUFFICES Goal
  OBVIOUS
<1>1. ASSUME UNCHANGED <<alerts, alert_active>>
      PROVE  Goal
  BY <1>1
<1>2. ASSUME NEW id \in Ids, NEW active \in BOOLEAN,
             \/ \E admin \in Admins : set_alert_active_by_admin(admin, id, active)
             \/ \E caller \in Owners, rules \in RuleLists :
                   update_alert(caller, id, rules, active)
      PROVE  Goal
  <2>1. /\ id \in DOMAIN alerts /\ DOMAIN alerts' = DOMAIN alerts
        /\ alert_active' = Put(alert_active, id, active)
    BY <1>2, FlagWrites
  <2>2. DOMAIN alert_active' = DOMAIN alert_active \cup {id}
    BY <2>1 DEF Put
  <2>3. QED
    BY <2>1, <2>2
<1>3. ASSUME NEW id, remove_alert_record(id)
      PROVE  Goal
  <2>1. alerts' = Drop(alerts, id) /\ alert_active' = Drop(alert_active, id)
    BY <1>3 DEF remove_alert_record
  <2>2. QED
    BY <2>1 DEF Drop, Restrict
<1>4. ASSUME NEW caller \in Owners, deactivate_all_alerts(caller)
      PROVE  Goal
  <2> DEFINE off == {id \in Range(lookup(owner_index, caller)) \cap DOMAIN alerts :
                        alerts[id].active}
  <2>1. /\ DOMAIN alerts' = DOMAIN alerts
        /\ DOMAIN alert_active' = DOMAIN alert_active \cup off
    BY <1>4 DEF deactivate_all_alerts
  <2>2. off \subseteq DOMAIN alerts
    OBVIOUS
  <2>3. QED
    BY <2>1, <2>2
<1>5. ASSUME NEW owner \in Owners, NEW inputs, NEW tags, Registers(owner, inputs, tags)
      PROVE  Goal
  <2>1. Adds(owner, inputs, tags)
    BY <1>5, RegisterAdds DEF Registers
  <2>2. QED
    BY <2>1 DEF Adds
<1> HIDE DEF Goal
<1>6. CASE UNCHANGED vars
  BY <1>1, <1>6 DEF vars
<1>7. CASE renewal_call
  <2>1. UNCHANGED <<alerts, alert_active>>
    BY <1>7 DEF renewal_call, bump_alert, bulk_renew_ttl, get_alert
  <2>2. QED
    BY <1>1, <2>1
<1>8. CASE admin_call
  <2>1. PICK admin \in Admins :
           \/ \/ initialize(admin)
              \/ \E other \in Admins :
                    \/ transfer_admin(admin, other)
                    \/ add_admin(admin, other)
                    \/ remove_admin(admin, other)
              \/ \E n \in Limits : set_per_owner_alert_limit(admin, n)
              \/ \E value \in PauseValues : set_paused(admin, value)
              \/ \E registry \in Registries : set_watcher_registry(admin, registry)
           \/ \E id \in Ids, active \in BOOLEAN :
                 set_alert_active_by_admin(admin, id, active)
           \/ \E id \in Ids : remove_alert_by_admin(admin, id)
    BY <1>8 DEF admin_call
  <2>2. CASE \/ initialize(admin)
             \/ \E other \in Admins :
                   \/ transfer_admin(admin, other)
                   \/ add_admin(admin, other)
                   \/ remove_admin(admin, other)
             \/ \E n \in Limits : set_per_owner_alert_limit(admin, n)
             \/ \E value \in PauseValues : set_paused(admin, value)
             \/ \E registry \in Registries : set_watcher_registry(admin, registry)
    <3>1. UNCHANGED <<alerts, alert_active>>
      BY <2>2 DEF initialize, transfer_admin, add_admin, remove_admin, set_admins,
         set_per_owner_alert_limit, set_paused, set_watcher_registry
    <3>2. QED
      BY <1>1, <3>1
  <2>3. CASE \E id \in Ids, active \in BOOLEAN :
                set_alert_active_by_admin(admin, id, active)
    BY <1>2, <2>3
  <2>4. CASE \E id \in Ids : remove_alert_by_admin(admin, id)
    BY <1>3, <2>4 DEF remove_alert_by_admin
  <2>5. QED
    BY <2>1, <2>2, <2>3, <2>4
<1>9. CASE owner_call
  <2>1. PICK caller \in Owners :
           \/ \/ \E input \in AlertInput, tags \in TagLists \cup {None} :
                    register_alert(caller, input, tags)
              \/ \E n \in BatchSizes : \E inputs \in [1..n -> AlertInput] :
                    batch_register_alerts(caller, inputs)
           \/ deactivate_all_alerts(caller)
    BY <1>9 DEF owner_call
  <2>2. QED
    BY <1>4, <1>5, <2>1, RegisterEntryPoints
<1>10. CASE alert_call
  <2>1. PICK caller \in Owners, id \in Ids :
           \/ \E rules \in RuleLists, active \in BOOLEAN :
                 update_alert(caller, id, rules, active)
           \/ \/ \E hash \in Hashes : update_webhook(caller, id, hash)
              \/ \E hash \in Hashes : propose_webhook(caller, id, hash)
              \/ confirm_webhook(caller, id)
              \/ \E label \in Labels : update_label(caller, id, label)
              \/ \E tags \in TagLists \cup {None} : update_tags(caller, id, tags)
              \/ \E target \in Targets : update_target_contract(caller, id, target)
              \/ \E other \in Owners : transfer_alert_ownership(caller, id, other)
           \/ remove_alert(caller, id)
    BY <1>10 DEF alert_call
  <2>2. CASE \E rules \in RuleLists, active \in BOOLEAN :
                update_alert(caller, id, rules, active)
    BY <1>2, <2>2
  <2>3. CASE remove_alert(caller, id)
    BY <1>3, <2>3 DEF remove_alert
  <2>4. CASE \/ \E hash \in Hashes : update_webhook(caller, id, hash)
             \/ \E hash \in Hashes : propose_webhook(caller, id, hash)
             \/ confirm_webhook(caller, id)
             \/ \E label \in Labels : update_label(caller, id, label)
             \/ \E tags \in TagLists \cup {None} : update_tags(caller, id, tags)
             \/ \E target \in Targets : update_target_contract(caller, id, target)
             \/ \E other \in Owners : transfer_alert_ownership(caller, id, other)
    <3>1. DOMAIN alerts' = DOMAIN alerts /\ UNCHANGED alert_active
      BY <2>4, EditsKeepActive
    <3>2. QED
      BY <3>1 DEF Goal
  <2>5. QED
    BY <2>1, <2>2, <2>3, <2>4
<1>11. QED
  BY <1>6, <1>7, <1>8, <1>9, <1>10 DEF Next

\* A call that finds the indexes exact leaves them exact.
LEMMA ExactCall ==
    ASSUME IInv, IInv', AllExact, [Next]_vars, ~close_ledger
    PROVE  AllExact'
<1>1. OwnersFollow /\ TargetsFollow
  BY CallsFollow
<1> DEFINE O == owner_of'
           T == target_of'
<1>2. Places(owner_index', Owners, O) /\ Places(contract_index', Targets, T)
  BY DEF IInv, OwnersOK, ContractsOK
<1>3. /\ Follows(owner_index, owner_index', owner_of, O, Owners)
      /\ Follows(contract_index, contract_index', target_of, T, Targets)
  BY <1>1 DEF OwnersFollow, TargetsFollow
<1> HIDE DEF O, T
<1>4. Exact(owner_index', O, Owners)
  BY <1>2, <1>3, ExactFollows DEF AllExact
<1>5. Exact(contract_index', T, Targets)
  BY <1>2, <1>3, ExactFollows DEF AllExact
<1>6. DOMAIN alert_active' = DOMAIN alerts'
  BY FlagDomains DEF AllExact
<1>7. QED
  BY <1>4, <1>5, <1>6 DEF AllExact, O, T

\* Exactness is inductive while nothing lapses.
LEMMA ExactStep ==
    ASSUME ~Archival, IInv, IInv', AllExact, [Next]_vars
    PROVE  AllExact'
<1>1. CASE close_ledger
  <2>1. UNCHANGED <<alerts, alert_active, indexes>>
    BY <1>1, NothingLapses
  <2>2. owner_of' = owner_of /\ target_of' = target_of
    BY <2>1 DEF owner_of, target_of
  <2>3. QED
    BY <2>1, <2>2 DEF AllExact, indexes
<1>2. CASE ~close_ledger
  BY <1>2, ExactCall
<1>3. QED
  BY <1>1, <1>2

\* The indexes of a contract just deployed are exact: nothing is stored or listed.
LEMMA InitExact == Init => AllExact
<1> SUFFICES ASSUME Init
             PROVE  AllExact
  OBVIOUS
<1>1. DOMAIN alerts = {} /\ DOMAIN owner_of = {} /\ DOMAIN target_of = {}
  BY DEF Init, NoEntries, owner_of, target_of
<1>2. \A k : Listed(owner_index, k) = {} /\ Listed(contract_index, k) = {}
  BY ListedEntry DEF Init, NoEntries
<1>3. DOMAIN alert_active = {}
  BY DEF Init, NoEntries
<1>4. QED
  BY <1>1, <1>2, <1>3 DEF AllExact, Exact

\* As long as the keepers renew in time, both indexes are exact in every
\* reachable state.
LEMMA StaysExact ==
    ASSUME ~Archival
    PROVE  Spec => []AllExact
<1>1. Init => AllExact
  BY InitExact
<1>2. IInv /\ IInv' /\ AllExact /\ [Next]_vars => AllExact'
  BY ExactStep
<1>3. QED
  BY <1>1, <1>2, Invariance, PTL DEF Spec

\* AllExact in the terms of the contract.
LEMMA ExactListings ==
    ASSUME AllExact
    PROVE  IndexesExact
<1>1. ASSUME NEW o \in Owners
      PROVE  Range(lookup(owner_index, o)) = {id \in DOMAIN alerts : alerts[id].owner = o}
  BY DEF AllExact, Exact, Listed, owner_of
<1>2. ASSUME NEW t \in Targets
      PROVE  Range(lookup(contract_index, t))
                = {id \in DOMAIN alerts : alerts[id].target_contract = t}
  BY DEF AllExact, Exact, Listed, target_of
<1>3. QED
  BY <1>1, <1>2 DEF IndexesExact, AllExact

\* owner_index and contract_index list exactly the alerts they should, and
\* every alert has its flag, while keepers renew every entry in time.
THEOREM ExactIndexes == ~Archival => (Spec => []IndexesExact)
<1> SUFFICES ASSUME ~Archival
             PROVE  Spec => []IndexesExact
  OBVIOUS
<1>1. AllExact => IndexesExact
  BY ExactListings
<1>2. Spec => []AllExact
  BY StaysExact
<1>3. QED
  BY <1>1, <1>2, PTL
-----------------------------------------------------------------------------
(* The refinement.  It rests on the exactness of the indexes: the contract *)
(* counts and silences the alerts its owner index lists, the book those it *)
(* holds.                                                                  *)

\* What assert_per_owner_limit_for counts is what the owner holds.
LEMMA Counted ==
    ASSUME IInv, AllExact, NEW o \in Owners
    PROVE  /\ IsFiniteSet(owned(o))
           /\ Len(live_ids(lookup(owner_index, o))) = Cardinality(owned(o))
<1> DEFINE ids == lookup(owner_index, o)
           live == Keep(ids, DOMAIN alerts)
<1>1. ids \in Seq(Ids) /\ NoRepeats(ids)
  BY LookupGood DEF IInv, OwnersOK, GoodVec
<1>2. Range(ids) = owned(o)
  BY DEF AllExact, Exact, Listed, owner_of, owned
<1>3. live_ids(ids) = live
  BY DEF live_ids
<1>4. owned(o) \cap DOMAIN alerts = owned(o)
  BY DEF owned
<1> HIDE DEF ids
<1>5. live \in Seq(Ids) /\ NoRepeats(live) /\ Range(live) = owned(o)
  <2>1. live \in Seq(Ids) /\ NoRepeats(live) /\ Range(live) = Range(ids) \cap DOMAIN alerts
    BY <1>1, KeepFacts
  <2>2. QED
    BY <1>2, <1>4, <2>1
<1> HIDE DEF live
<1>6. IsFiniteSet(Range(live)) /\ Cardinality(Range(live)) = Len(live)
  BY <1>5, RangeCount
<1>7. QED
  BY <1>3, <1>5, <1>6 DEF ids

\* A call that passes the contract's limit check passes the book's.
LEMMA LimitFits ==
    ASSUME IInv, AllExact, NEW o \in Owners, NEW n, within_limit(o, n)
    PROVE  Book!fits(o, n)
<1>1. Book!holdings(o) = owned(o)
  BY DEF Book!holdings, owned, book
<1>2. Len(live_ids(lookup(owner_index, o))) = Cardinality(owned(o))
  BY Counted
<1>3. limit > 0 => Cardinality(owned(o)) + n <= limit
  BY <1>2 DEF within_limit
<1>4. \A S : Book!Cardinality(S) = Cardinality(S)
  BY DEF Book!Cardinality, Cardinality
<1>5. QED
  BY <1>1, <1>3, <1>4 DEF Book!fits

\* An entry of the book, and what the book's updates of one field make of it.
Entry(o, t, on) == [owner |-> o, target |-> t, on |-> on]

SetOwner(b, id, v) == [b EXCEPT ![id].owner = v]
SetTarget(b, id, v) == [b EXCEPT ![id].target = v]
SetOn(b, id, v) == [b EXCEPT ![id].on = v]
Off(e) == [e EXCEPT !.on = FALSE]

LEMMA BookUpdates ==
    ASSUME NEW b, NEW id, NEW o, NEW t, NEW on, b[id] = Entry(o, t, on), NEW v
    PROVE  /\ SetOwner(b, id, v) = [b EXCEPT ![id] = Entry(v, t, on)]
           /\ SetTarget(b, id, v) = [b EXCEPT ![id] = Entry(o, v, on)]
           /\ SetOn(b, id, v) = [b EXCEPT ![id] = Entry(o, t, v)]
<1>1. SetOwner(b, id, v) = [b EXCEPT ![id] = Entry(v, t, on)]
  <2>1. [Entry(o, t, on) EXCEPT !.owner = v] = Entry(v, t, on)
    BY DEF Entry
  <2>2. [b[id] EXCEPT !.owner = v] = Entry(v, t, on)
    BY <2>1, Zenon
  <2>3. QED
    BY <2>2, Zenon DEF SetOwner
<1>2. SetTarget(b, id, v) = [b EXCEPT ![id] = Entry(o, v, on)]
  <2>1. [Entry(o, t, on) EXCEPT !.target = v] = Entry(o, v, on)
    BY DEF Entry
  <2>2. [b[id] EXCEPT !.target = v] = Entry(o, v, on)
    BY <2>1, Zenon
  <2>3. QED
    BY <2>2, Zenon DEF SetTarget
<1>3. SetOn(b, id, v) = [b EXCEPT ![id] = Entry(o, t, v)]
  <2>1. [Entry(o, t, on) EXCEPT !.on = v] = Entry(o, t, v)
    BY DEF Entry
  <2>2. [b[id] EXCEPT !.on = v] = Entry(o, t, v)
    BY <2>1, Zenon
  <2>3. QED
    BY <2>2, Zenon DEF SetOn
<1>4. QED
  BY <1>1, <1>2, <1>3

LEMMA SwitchedOff ==
    ASSUME NEW o, NEW t, NEW on
    PROVE  Off(Entry(o, t, on)) = Entry(o, t, FALSE)
<1>1. ASSUME NEW v
      PROVE  [Entry(o, t, on) EXCEPT !.on = v] = Entry(o, t, v)
  BY DEF Entry
<1>2. QED
  BY <1>1, Zenon DEF Off

\* The book's entry for a live alert.
LEMMA BookEntry ==
    /\ DOMAIN book = DOMAIN alerts
    /\ \A id \in DOMAIN alerts :
          book[id] = Entry(alerts[id].owner, alerts[id].target_contract, alerts[id].active)
BY DEF book, Entry

\* A step that changes no owner, target or state leaves the book alone.
LEMMA BookKept ==
    ASSUME DOMAIN alerts' = DOMAIN alerts,
           \A k \in DOMAIN alerts :
              /\ alerts'[k].active = alerts[k].active
              /\ alerts'[k].owner = alerts[k].owner
              /\ alerts'[k].target_contract = alerts[k].target_contract
    PROVE  book' = book
BY DEF book

\* A step that rewrites one alert rewrites its entry in the book.
LEMMA BookOne ==
    ASSUME NEW id \in DOMAIN alerts, DOMAIN alerts' = DOMAIN alerts,
           \A k \in DOMAIN alerts \ {id} : alerts'[k] = alerts[k]
    PROVE  book' = [book EXCEPT ![id] =
                       Entry(alerts'[id].owner, alerts'[id].target_contract,
                             alerts'[id].active)]
BY DEF book, Entry

\* Registration opens alerts in the book.
LEMMA RegisterOpens ==
    ASSUME IInv, AllExact, NEW owner \in Owners, NEW inputs, NEW tags,
           Registers(owner, inputs, tags), Len(inputs) \in BatchSizes \cup {1}
    PROVE  Book!Next
<1> DEFINE n == Len(inputs)
           targets == [i \in 1..n |-> inputs[i].target_contract]
<1>1. /\ inputs \in Seq(AlertInput) /\ register(owner, inputs, tags)
      /\ n \in Nat /\ DOMAIN inputs = 1..n
  BY DEF Registers
<1>2. Adds(owner, inputs, tags) /\ next_id \in Nat
  BY <1>1, RegisterAdds DEF IInv, AlertsOK
<1>3. within_limit(owner, n) /\ UNCHANGED settings
  BY <1>1 DEF register
<1>4. Book!fits(owner, n) /\ limit' = limit
  BY <1>3, LimitFits DEF settings
<1>5. /\ targets \in [1..n -> Targets] /\ Len(targets) = n
      /\ \A i \in 1..n : targets[i] = inputs[i].target_contract
  <2>1. \A i \in 1..n : inputs[i].target_contract \in Targets
    <3>1. \A i \in 1..n : inputs[i] \in AlertInput
      BY <1>1
    <3>2. QED
      BY <3>1 DEF AlertInput
  <2>2. targets \in [1..n -> Targets]
    BY <2>1
  <2>3. QED
    BY <1>1, <2>2
<1> HIDE DEF targets
<1>6. book' = [id \in DOMAIN book \cup next_id..(next_id' - 1) |->
                  IF id \in next_id..(next_id' - 1)
                  THEN [owner |-> owner, target |-> targets[id - next_id + 1], on |-> TRUE]
                  ELSE book[id]]
  <2>1. DOMAIN book = DOMAIN alerts
    BY DEF book
  <2>2. DOMAIN alerts' = DOMAIN alerts \cup NewIds
    BY <1>2 DEF Adds
  <2>3. ASSUME NEW id \in NewIds
        PROVE  [owner |-> alerts'[id].owner, target |-> alerts'[id].target_contract,
                on |-> alerts'[id].active]
                 = [owner |-> owner, target |-> targets[id - next_id + 1], on |-> TRUE]
    <3>1. /\ id - next_id + 1 \in 1..n
          /\ alerts'[id] = Registered(owner, inputs[id - next_id + 1], tags, timestamp)
      BY <1>1, <1>2 DEF Adds
    <3>2. /\ alerts'[id].owner = owner /\ alerts'[id].active = TRUE
          /\ alerts'[id].target_contract = inputs[id - next_id + 1].target_contract
      BY <3>1 DEF Registered
    <3>3. QED
      BY <1>5, <3>1, <3>2
  <2>4. ASSUME NEW id \in DOMAIN alerts
        PROVE  id \notin NewIds /\ alerts'[id] = alerts[id]
    BY <1>2 DEF Adds
  <2>5. book' = [id \in DOMAIN alerts \cup NewIds |->
                    [owner |-> alerts'[id].owner, target |-> alerts'[id].target_contract,
                     on |-> alerts'[id].active]]
    BY <2>2 DEF book
  <2>6. \A id \in DOMAIN alerts :
           book[id] = [owner |-> alerts[id].owner, target |-> alerts[id].target_contract,
                       on |-> alerts[id].active]
    BY DEF book
  <2>7. QED
    BY <2>1, <2>3, <2>4, <2>5, <2>6 DEF NewIds
<1>7. next_id' = next_id + Len(targets)
  BY <1>2, <1>5 DEF Adds
<1>8. Book!Open(owner, targets)
  BY <1>4, <1>5, <1>6, <1>7 DEF Book!Open
<1>9. QED
  BY <1>5, <1>8 DEF Book!Next

\* pause_alert, unpause_alert and update_alert switch one alert.
LEMMA FlagSwitches ==
    ASSUME IInv, NEW id \in Ids, NEW active \in BOOLEAN,
           \/ \E admin \in Admins : set_alert_active_by_admin(admin, id, active)
           \/ \E caller \in Owners, rules \in RuleLists :
                 update_alert(caller, id, rules, active),
           next_id' = next_id, limit' = limit
    PROVE  Book!Next
<1>1. /\ id \in DOMAIN alerts /\ DOMAIN alerts' = DOMAIN alerts
      /\ alerts'[id].active = active
      /\ alerts'[id].owner = alerts[id].owner
      /\ alerts'[id].target_contract = alerts[id].target_contract
      /\ \A k \in DOMAIN alerts \ {id} : alerts'[k] = alerts[k]
  BY FlagWrites
<1>2. /\ id \in DOMAIN book
      /\ book[id] = Entry(alerts[id].owner, alerts[id].target_contract, alerts[id].active)
  BY <1>1, BookEntry
<1>3. book' = [book EXCEPT ![id] = Entry(alerts[id].owner, alerts[id].target_contract,
                                         active)]
  BY <1>1, BookOne
<1>4. book' = [book EXCEPT ![id].on = active]
  <2>1. book' = SetOn(book, id, active)
    BY <1>2, <1>3, BookUpdates
  <2>2. QED
    BY <2>1, Zenon DEF SetOn
<1>5. Book!Switch(id, active)
  BY <1>2, <1>4 DEF Book!Switch
<1>6. QED
  BY <1>2, <1>5 DEF Book!Next

\* update_target_contract retargets one alert, transfer_alert_ownership hands
\* one over, within the limit of its new owner.
LEMMA MoveRecorded ==
    ASSUME IInv, AllExact, NEW caller \in Owners, NEW id \in Ids,
           NEW target \in Targets, NEW owner \in Owners,
           Relocates(caller, id, target, owner),
           next_id' = next_id, limit' = limit
    PROVE  Book!Next
<1>1. /\ id \in DOMAIN alerts /\ DOMAIN alerts' = DOMAIN alerts
      /\ alerts'[id].owner = owner /\ alerts'[id].target_contract = target
      /\ alerts'[id].active = alerts[id].active
      /\ \A k \in DOMAIN alerts \ {id} : alerts'[k] = alerts[k]
  <2>1. Relocated(id, target, owner)
    BY Moves
  <2>2. QED
    BY <2>1 DEF Relocated
<1>2. /\ id \in DOMAIN book
      /\ book[id] = Entry(alerts[id].owner, alerts[id].target_contract, alerts[id].active)
  BY <1>1, BookEntry
<1>3. book' = [book EXCEPT ![id] = Entry(owner, target, alerts[id].active)]
  BY <1>1, BookOne
<1>4. CASE update_target_contract(caller, id, target) /\ owner = caller
  <2>1. alerts[id].owner = owner
    BY <1>4 DEF update_target_contract, assert_owner
  <2>2. book' = [book EXCEPT ![id].target = target]
    <3>1. book' = SetTarget(book, id, target)
      BY <1>2, <1>3, <2>1, BookUpdates
    <3>2. QED
      BY <3>1, Zenon DEF SetTarget
  <2>3. Book!Retarget(id, target)
    BY <1>2, <2>2 DEF Book!Retarget
  <2>4. QED
    BY <1>2, <2>3 DEF Book!Next
<1>5. CASE transfer_alert_ownership(caller, id, owner) /\ target = alerts[id].target_contract
  <2>1. within_limit(owner, 1)
    BY <1>5 DEF transfer_alert_ownership
  <2>2. Book!fits(owner, 1)
    BY <2>1, LimitFits
  <2>3. book' = [book EXCEPT ![id].owner = owner]
    <3>1. book' = SetOwner(book, id, owner)
      BY <1>2, <1>3, <1>5, BookUpdates
    <3>2. QED
      BY <3>1, Zenon DEF SetOwner
  <2>4. Book!Hand(id, owner)
    BY <1>2, <2>2, <2>3 DEF Book!Hand
  <2>5. QED
    BY <1>2, <2>4 DEF Book!Next
<1>6. QED
  BY <1>4, <1>5 DEF Relocates

\* remove_alert and remove_alert_by_admin close one alert.
LEMMA RemoveCloses ==
    ASSUME NEW id \in DOMAIN alerts, remove_alert_record(id),
           next_id' = next_id, limit' = limit
    PROVE  Book!Next
<1>1. alerts' = Drop(alerts, id)
  BY DEF remove_alert_record
<1>2. id \in DOMAIN book /\ book' = Drop(book, id)
  BY <1>1 DEF book, Drop, Restrict
<1>3. Book!Drop(book, id) = Drop(book, id)
  BY DEF Book!Drop, Book!Restrict, Drop, Restrict
<1>4. Book!Close(id)
  BY <1>2, <1>3 DEF Book!Close
<1>5. QED
  BY <1>2, <1>4 DEF Book!Next

\* deactivate_all_alerts walks the caller's index and silences all it holds.
LEMMA DeactivateSilences ==
    ASSUME IInv, AllExact, NEW caller \in Owners, deactivate_all_alerts(caller)
    PROVE  Book!Next
<1> DEFINE off == {id \in Range(lookup(owner_index, caller)) \cap DOMAIN alerts :
                      alerts[id].active}
<1>1. alerts' = [id \in DOMAIN alerts |->
                   IF id \in off
                   THEN [alerts[id] EXCEPT !.active = FALSE, !.updated_at = timestamp]
                   ELSE alerts[id]]
  BY DEF deactivate_all_alerts
<1>2. next_id' = next_id /\ limit' = limit
  BY DEF deactivate_all_alerts, settings
<1>3. off = {id \in DOMAIN alerts : alerts[id].owner = caller /\ alerts[id].active}
  <2>1. Range(lookup(owner_index, caller)) = {id \in DOMAIN alerts : alerts[id].owner = caller}
    BY DEF AllExact, Exact, Listed, owner_of
  <2>2. QED
    BY <2>1
<1> HIDE DEF off
<1>4. ASSUME NEW id \in DOMAIN alerts
      PROVE  /\ alerts'[id].owner = alerts[id].owner
             /\ alerts'[id].target_contract = alerts[id].target_contract
             /\ alerts[id].owner = caller => alerts'[id].active = FALSE
             /\ alerts[id].owner # caller => alerts'[id].active = alerts[id].active
  <2>1. alerts[id] \in AlertConfig
    BY AlertFacts
  <2>2. alerts[id].active \in BOOLEAN
    BY <2>1 DEF AlertConfig
  <2>3. CASE id \in off
    <3>1. alerts'[id] = [alerts[id] EXCEPT !.active = FALSE, !.updated_at = timestamp]
      BY <1>1, <2>3
    <3>2. alerts[id].owner = caller
      BY <1>3, <2>3
    <3>3. QED
      BY <2>1, <3>1, <3>2 DEF AlertConfig
  <2>4. CASE id \notin off
    <3>1. alerts'[id] = alerts[id]
      BY <1>1, <2>4
    <3>2. alerts[id].owner = caller => alerts[id].active = FALSE
      BY <1>3, <2>2, <2>4
    <3>3. QED
      BY <3>1, <3>2
  <2>5. QED
    BY <2>3, <2>4
<1>5. DOMAIN alerts' = DOMAIN alerts /\ DOMAIN book = DOMAIN alerts
  BY <1>1 DEF book
<1>6. ASSUME NEW id \in DOMAIN alerts
      PROVE  Entry(alerts'[id].owner, alerts'[id].target_contract, alerts'[id].active)
                = IF book[id].owner = caller THEN [book[id] EXCEPT !.on = FALSE]
                  ELSE book[id]
  <2> DEFINE e == Entry(alerts[id].owner, alerts[id].target_contract, alerts[id].active)
  <2>1. e.owner = alerts[id].owner
    BY DEF Entry
  <2>2. Off(e) = Entry(alerts[id].owner, alerts[id].target_contract, FALSE)
    BY SwitchedOff
  <2> HIDE DEF e
  <2>3. book[id] = e
    BY BookEntry DEF e
  <2>4. CASE alerts[id].owner = caller
    <3>1. Entry(alerts'[id].owner, alerts'[id].target_contract, alerts'[id].active)
             = Entry(alerts[id].owner, alerts[id].target_contract, FALSE)
      BY <1>4, <2>4
    <3>2. QED
      BY <2>1, <2>2, <2>3, <2>4, <3>1, Zenon DEF Off
  <2>5. CASE alerts[id].owner # caller
    <3>1. Entry(alerts'[id].owner, alerts'[id].target_contract, alerts'[id].active) = e
      BY <1>4, <2>5 DEF e
    <3>2. QED
      BY <2>1, <2>3, <2>5, <3>1, Zenon
  <2>6. QED
    BY <2>4, <2>5
<1>7. book' = [id \in DOMAIN alerts |->
                 Entry(alerts'[id].owner, alerts'[id].target_contract, alerts'[id].active)]
  BY <1>5 DEF book, Entry
<1>8. book' = [id \in DOMAIN book |->
                 IF book[id].owner = caller THEN [book[id] EXCEPT !.on = FALSE]
                 ELSE book[id]]
  BY <1>5, <1>6, <1>7, Zenon
<1>9. Book!Silence(caller)
  BY <1>2, <1>8 DEF Book!Silence
<1>10. QED
  BY <1>9 DEF Book!Next

\* Every step of the contract is a step of the book, or none, if no ledger that
\* closes takes an entry away.
LEMMA BookStep ==
    ASSUME IInv, AllExact, [Next]_vars,
           close_ledger => UNCHANGED <<alerts, limit>>
    PROVE  Book!Next \/ UNCHANGED <<book, next_id, limit>>
<1> DEFINE Goal == Book!Next \/ UNCHANGED <<book, next_id, limit>>
           Registering ==
              \/ \E caller \in Owners, input \in AlertInput, tags \in TagLists \cup {None} :
                    register_alert(caller, input, tags)
              \/ \E caller \in Owners, n \in BatchSizes :
                    \E inputs \in [1..n -> AlertInput] :
                       batch_register_alerts(caller, inputs)
<1> SUFFICES Goal
  OBVIOUS
<1>1. CASE Registering
  <2>1. PICK owner \in Owners :
           \/ \E input \in AlertInput, tags \in TagLists \cup {None} :
                 register_alert(owner, input, tags)
           \/ \E n \in BatchSizes : \E inputs \in [1..n -> AlertInput] :
                 batch_register_alerts(owner, inputs)
    BY <1>1
  <2>2. QED
    BY <2>1, RegisterEntryPoints, RegisterOpens
<1>2. CASE ~Registering
  <2>1. next_id' = next_id
    BY <1>2, OthersAddNone
  <2>2. ASSUME UNCHANGED alerts, UNCHANGED limit
        PROVE  Goal
    BY <2>1, <2>2 DEF book
  <2> HIDE DEF Goal
  <2>3. CASE UNCHANGED vars
    BY <2>2, <2>3 DEF vars, settings
  <2>4. CASE renewal_call
    <3>1. UNCHANGED alerts /\ UNCHANGED limit
      BY <2>4 DEF renewal_call, bump_alert, bulk_renew_ttl, get_alert, settings
    <3>2. QED
      BY <2>2, <3>1
  <2>5. CASE close_ledger
    BY <2>2, <2>5
  <2>6. CASE owner_call
    <3>1. PICK caller \in Owners : deactivate_all_alerts(caller)
      BY <1>2, <2>6 DEF owner_call
    <3>2. QED
      BY <3>1, DeactivateSilences DEF Goal
  <2>7. CASE admin_call
    <3>1. PICK admin \in Admins :
             \/ \/ initialize(admin)
                \/ \E other \in Admins :
                      \/ transfer_admin(admin, other)
                      \/ add_admin(admin, other)
                      \/ remove_admin(admin, other)
                \/ \E value \in PauseValues : set_paused(admin, value)
                \/ \E registry \in Registries : set_watcher_registry(admin, registry)
             \/ \E n \in Limits : set_per_owner_alert_limit(admin, n)
             \/ \E id \in Ids, active \in BOOLEAN :
                   set_alert_active_by_admin(admin, id, active)
             \/ \E id \in Ids : remove_alert_by_admin(admin, id)
      BY <2>7 DEF admin_call
    <3>2. CASE \/ initialize(admin)
               \/ \E other \in Admins :
                     \/ transfer_admin(admin, other)
                     \/ add_admin(admin, other)
                     \/ remove_admin(admin, other)
               \/ \E value \in PauseValues : set_paused(admin, value)
               \/ \E registry \in Registries : set_watcher_registry(admin, registry)
      <4>1. UNCHANGED alerts /\ UNCHANGED limit
        BY <3>2 DEF initialize, transfer_admin, add_admin, remove_admin, set_admins,
           set_paused, set_watcher_registry
      <4>2. QED
        BY <2>2, <4>1
    <3>3. CASE \E n \in Limits : set_per_owner_alert_limit(admin, n)
      <4>1. PICK n \in Limits : limit' = n /\ UNCHANGED alerts
        BY <3>3 DEF set_per_owner_alert_limit
      <4>2. book' = book
        BY <4>1 DEF book
      <4>3. Book!Limit(n)
        BY <2>1, <4>1, <4>2 DEF Book!Limit
      <4>4. QED
        BY <4>3 DEF Book!Next, Goal
    <3>4. CASE \E id \in Ids, active \in BOOLEAN :
                  set_alert_active_by_admin(admin, id, active)
      <4>1. limit' = limit
        BY <3>4, SettingsUntouched DEF settings
      <4>2. QED
        BY <2>1, <3>4, <4>1, FlagSwitches DEF Goal
    <3>5. CASE \E id \in Ids : remove_alert_by_admin(admin, id)
      <4>1. limit' = limit
        BY <3>5, SettingsUntouched DEF settings
      <4>2. PICK id \in DOMAIN alerts : remove_alert_record(id)
        BY <3>5 DEF remove_alert_by_admin
      <4>3. QED
        BY <2>1, <4>1, <4>2, RemoveCloses DEF Goal
    <3>6. QED
      BY <3>1, <3>2, <3>3, <3>4, <3>5
  <2>8. CASE alert_call
    <3>1. limit' = limit
      BY <2>8, SettingsUntouched DEF settings
    <3>2. PICK caller \in Owners, id \in Ids :
             \/ \E rules \in RuleLists, active \in BOOLEAN :
                   update_alert(caller, id, rules, active)
             \/ \/ \E hash \in Hashes : update_webhook(caller, id, hash)
                \/ \E hash \in Hashes : propose_webhook(caller, id, hash)
                \/ confirm_webhook(caller, id)
                \/ \E label \in Labels : update_label(caller, id, label)
                \/ \E tags \in TagLists \cup {None} : update_tags(caller, id, tags)
             \/ \E target \in Targets : update_target_contract(caller, id, target)
             \/ \E other \in Owners : transfer_alert_ownership(caller, id, other)
             \/ remove_alert(caller, id)
      BY <2>8 DEF alert_call
    <3>3. CASE \E rules \in RuleLists, active \in BOOLEAN :
                  update_alert(caller, id, rules, active)
      BY <2>1, <3>1, <3>3, FlagSwitches DEF Goal
    <3>4. CASE \/ \E hash \in Hashes : update_webhook(caller, id, hash)
               \/ \E hash \in Hashes : propose_webhook(caller, id, hash)
               \/ confirm_webhook(caller, id)
               \/ \E label \in Labels : update_label(caller, id, label)
               \/ \E tags \in TagLists \cup {None} : update_tags(caller, id, tags)
      <4>1. /\ DOMAIN alerts' = DOMAIN alerts
            /\ \A k \in DOMAIN alerts :
                  /\ alerts'[k].active = alerts[k].active
                  /\ alerts'[k].owner = alerts[k].owner
                  /\ alerts'[k].target_contract = alerts[k].target_contract
        BY <3>4, PlainEdits
      <4>2. book' = book
        BY <4>1, BookKept
      <4>3. QED
        BY <2>1, <3>1, <4>2 DEF Goal
    <3>5. CASE \E target \in Targets : update_target_contract(caller, id, target)
      BY <2>1, <3>1, <3>5, MoveRecorded DEF Relocates, Goal
    <3>6. CASE \E other \in Owners : transfer_alert_ownership(caller, id, other)
      <4>1. id \in DOMAIN alerts
        BY <3>6 DEF transfer_alert_ownership, assert_owner
      <4>2. alerts[id].target_contract \in Targets
        BY <4>1, AlertFacts
      <4>3. QED
        BY <2>1, <3>1, <3>6, <4>2, MoveRecorded DEF Relocates, Goal
    <3>7. CASE remove_alert(caller, id)
      <4>1. id \in DOMAIN alerts /\ remove_alert_record(id)
        BY <3>7 DEF remove_alert, assert_owner
      <4>2. QED
        BY <2>1, <3>1, <4>1, RemoveCloses DEF Goal
    <3>8. QED
      BY <3>2, <3>3, <3>4, <3>5, <3>6, <3>7
  <2>9. QED
    BY <2>3, <2>4, <2>5, <2>6, <2>7, <2>8 DEF Next
<1>3. QED
  BY <1>1, <1>2

\* A contract just deployed is an empty book.
LEMMA BookStarts == Init => Book!Init
<1> SUFFICES ASSUME Init
             PROVE  Book!Init
  OBVIOUS
<1>1. book = [id \in {} |-> 0]
  BY DEF Init, NoEntries, book
<1>2. QED
  BY <1>1 DEF Init, Book!Init, Book!NoEntries

\* While keepers renew every entry in time, the contract with its indexes,
\* flags and lazy pruning implements the plain book of alerts.
THEOREM BookImplemented == ~Archival => (Spec => ImplementsAlertBook)
<1> SUFFICES ASSUME ~Archival
             PROVE  Spec => ImplementsAlertBook
  OBVIOUS
<1>1. Init => Book!Init
  BY BookStarts
<1>2. IInv /\ AllExact /\ [Next]_vars => [Book!Next]_<<book, next_id, limit>>
  BY NothingLapses, BookStep
<1>3. Spec => []AllExact
  BY StaysExact
<1>4. QED
  BY <1>1, <1>2, <1>3, Invariance, PTL DEF Spec, ImplementsAlertBook, Book!Spec
-----------------------------------------------------------------------------
(* The limit per owner.                                                    *)

\* n ids in a row.
LEMMA IdSpan ==
    ASSUME NEW a \in Int, NEW n \in Nat
    PROVE  IsFiniteSet(a..(a + n - 1)) /\ Cardinality(a..(a + n - 1)) = n
<1> DEFINE b == a + n - 1
<1>1. b \in Int /\ (IF a > b THEN 0 ELSE b - a + 1) = n
  OBVIOUS
<1> HIDE DEF b
<1>2. IsFiniteSet(a..b) /\ Cardinality(a..b) = n
  BY <1>1, FS_Interval
<1>3. QED
  BY <1>2 DEF b

\* Whatever a step of the book gives an owner, it leaves him within the cap.
LEMMA BookWithinCap ==
    ASSUME IInv, Book!Next, NEW o \in Owners, limit > 0,
           ~(owned(o)' \subseteq owned(o))
    PROVE  Cardinality(owned(o)') <= limit
<1> DEFINE was == owned(o)
           now == owned(o)'
<1>1. was = Book!holdings(o) /\ was = {id \in DOMAIN book : book[id].owner = o}
  BY DEF owned, Book!holdings, book
<1>2. now = {id \in DOMAIN book' : book'[id].owner = o}
  BY DEF owned, book
<1>3. IsFiniteSet(was) /\ Cardinality(was) \in Nat
  <2> DEFINE all == 0..(next_id - 1)
  <2>1. was \in SUBSET all /\ next_id - 1 \in Int
    BY DEF owned, IInv, AlertsOK
  <2>2. IsFiniteSet(all)
    BY <2>1, FS_Interval
  <2> HIDE DEF was, all
  <2>3. IsFiniteSet(was)
    BY <2>1, <2>2, FS_Subset
  <2>4. QED
    BY <2>3, FS_CardinalityType
<1>4. \A S : Book!Cardinality(S) = Cardinality(S)
  BY DEF Book!Cardinality, Cardinality
<1>5. next_id \in Nat /\ limit \in Nat
  BY ConstantsAssumption DEF IInv, AlertsOK, SettingsOK
<1>6. \A n : Book!fits(o, n) => Cardinality(was) + n <= limit
  BY <1>1, <1>4 DEF Book!fits
<1> HIDE DEF was, now
<1>7. ~(now \subseteq was)
  BY DEF was, now
<1>8. ASSUME NEW n \in Nat, NEW T, IsFiniteSet(T), Cardinality(T) <= n, Book!fits(o, n),
             now \subseteq was \cup T
      PROVE  Cardinality(now) <= limit
  <2>1. /\ IsFiniteSet(was \cup T)
        /\ Cardinality(was \cup T)
             = Cardinality(was) + Cardinality(T) - Cardinality(was \cap T)
    BY <1>3, <1>8, FS_Union
  <2>2. was \cap T \in SUBSET T
    OBVIOUS
  <2>3. Cardinality(was \cap T) \in Nat /\ Cardinality(T) \in Nat
    BY <1>8, <2>2, FS_Subset, FS_CardinalityType
  <2>4. now \in SUBSET (was \cup T)
    BY <1>8
  <2>5. /\ Cardinality(now) <= Cardinality(was \cup T)
        /\ Cardinality(now) \in Nat
    BY <2>1, <2>4, FS_Subset, FS_CardinalityType
  <2>6. Cardinality(was) + n <= limit
    BY <1>6, <1>8
  <2>7. QED
    BY <1>3, <1>5, <1>8, <2>1, <2>3, <2>5, <2>6
<1>9. ASSUME NEW owner \in Owners, NEW n \in BatchSizes \cup {1},
             NEW targets \in [1..n -> Targets], Book!Open(owner, targets)
      PROVE  Cardinality(now) <= limit
  <2> DEFINE T == next_id..(next_id' - 1)
  <2>1. n \in Nat /\ Len(targets) = n
    <3>1. n \in Nat
      BY ConstantsAssumption
    <3>2. QED
      BY <3>1
  <2>2. /\ next_id' = next_id + n
        /\ book' = [id \in DOMAIN book \cup T |->
                       IF id \in T
                       THEN [owner |-> owner, target |-> targets[id - next_id + 1], on |-> TRUE]
                       ELSE book[id]]
        /\ Book!fits(owner, n)
    BY <1>9, <2>1 DEF Book!Open
  <2>3. IsFiniteSet(T) /\ Cardinality(T) = n
    <3>1. next_id' = next_id + n
      BY <2>2
    <3>2. T = next_id..(next_id + n - 1)
      BY <1>5, <2>1, <3>1
    <3> HIDE DEF T
    <3>3. QED
      BY <1>5, <2>1, <3>2, IdSpan
  <2> HIDE DEF T
  <2>4. ASSUME NEW id \in DOMAIN book'
        PROVE  /\ id \in T => book'[id].owner = owner
               /\ id \notin T => id \in DOMAIN book /\ book'[id] = book[id]
    BY <2>2
  <2>5. now \subseteq was \cup T
    BY <1>1, <1>2, <2>4
  <2>6. owner = o
    BY <1>1, <1>2, <1>7, <2>4
  <2>7. QED
    BY <1>8, <2>1, <2>2, <2>3, <2>5, <2>6
<1>10. ASSUME NEW id \in DOMAIN book, NEW owner \in Owners, Book!Hand(id, owner)
       PROVE  Cardinality(now) <= limit
  <2> DEFINE T == {id}
  <2>1. book' = [book EXCEPT ![id].owner = owner] /\ Book!fits(owner, 1)
    BY <1>10 DEF Book!Hand
  <2>2. \A x \in DOMAIN book \ {id} : book'[x] = book[x]
    BY <2>1
  <2>3. /\ id \in DOMAIN alerts
        /\ book[id] = Entry(alerts[id].owner, alerts[id].target_contract, alerts[id].active)
    BY BookEntry
  <2>4. book' = SetOwner(book, id, owner)
    BY <2>1, Zenon DEF SetOwner
  <2>5. book' = [book EXCEPT ![id] = Entry(owner, alerts[id].target_contract,
                                           alerts[id].active)]
    BY <2>3, <2>4, BookUpdates
  <2>6. book'[id].owner = owner /\ DOMAIN book' = DOMAIN book
    BY <2>5 DEF Entry
  <2>7. IsFiniteSet(T) /\ Cardinality(T) = 1
    BY FS_Singleton
  <2>8. now \subseteq was \cup T
    BY <1>1, <1>2, <2>2, <2>6
  <2>9. owner = o
    BY <1>1, <1>2, <1>7, <2>2, <2>6
  <2> HIDE DEF T
  <2>10. QED
    BY <1>8, <2>1, <2>7, <2>8, <2>9
<1>11. ASSUME \A id \in DOMAIN book' :
                 id \in DOMAIN book /\ book'[id].owner = book[id].owner
       PROVE  FALSE
  BY <1>1, <1>2, <1>7, <1>11
<1>12. ASSUME NEW owner, Book!Silence(owner)
       PROVE  FALSE
  <2>1. book' = [id \in DOMAIN book |->
                   IF book[id].owner = owner THEN Off(book[id]) ELSE book[id]]
    BY <1>12, Zenon DEF Book!Silence, Off
  <2>2. ASSUME NEW id \in DOMAIN alerts
        PROVE  Off(book[id]).owner = book[id].owner
    <3>1. book[id] = Entry(alerts[id].owner, alerts[id].target_contract, alerts[id].active)
      BY BookEntry
    <3>2. Off(book[id]) = Entry(alerts[id].owner, alerts[id].target_contract, FALSE)
      BY <3>1, SwitchedOff
    <3>3. QED
      BY <3>1, <3>2 DEF Entry
  <2>3. QED
    BY <1>11, <2>1, <2>2, BookEntry
<1>13. ASSUME NEW id \in DOMAIN book, NEW on, Book!Switch(id, on)
       PROVE  FALSE
  <2>1. book[id] = Entry(alerts[id].owner, alerts[id].target_contract, alerts[id].active)
    BY BookEntry
  <2>2. book' = SetOn(book, id, on)
    BY <1>13, Zenon DEF Book!Switch, SetOn
  <2>3. book' = [book EXCEPT ![id] = Entry(alerts[id].owner, alerts[id].target_contract, on)]
    BY <2>1, <2>2, BookUpdates
  <2>4. QED
    BY <1>11, <2>1, <2>3 DEF Entry
<1>14. ASSUME NEW id \in DOMAIN book, NEW t, Book!Retarget(id, t)
       PROVE  FALSE
  <2>1. book[id] = Entry(alerts[id].owner, alerts[id].target_contract, alerts[id].active)
    BY BookEntry
  <2>2. book' = SetTarget(book, id, t)
    BY <1>14, Zenon DEF Book!Retarget, SetTarget
  <2>3. book' = [book EXCEPT ![id] = Entry(alerts[id].owner, t, alerts[id].active)]
    BY <2>1, <2>2, BookUpdates
  <2>4. QED
    BY <1>11, <2>1, <2>3 DEF Entry
<1>15. ASSUME NEW id \in DOMAIN book, Book!Close(id)
       PROVE  FALSE
  <2>1. book' = [k \in DOMAIN book \ {id} |-> book[k]]
    BY <1>15 DEF Book!Close, Book!Drop, Book!Restrict
  <2>2. QED
    BY <1>11, <2>1
<1>16. ASSUME NEW n, Book!Limit(n)
       PROVE  FALSE
  BY <1>11, <1>16 DEF Book!Limit
<1>17. Cardinality(now) <= limit
  BY <1>9, <1>10, <1>12, <1>13, <1>14, <1>15, <1>16 DEF Book!Next
<1>18. QED
  BY <1>17 DEF now

\* What LimitRespected says of one step.
WithinLimit ==
    \A o \in Owners :
       limit > 0 /\ ~(owned(o)' \subseteq owned(o)) => Cardinality(owned(o)') <= limit

\* Every step of the contract obeys it, if no ledger that closes takes an entry
\* away.
LEMMA LimitStep ==
    ASSUME IInv, AllExact, [Next]_vars,
           close_ledger => UNCHANGED <<alerts, limit>>
    PROVE  WithinLimit
<1> SUFFICES ASSUME NEW o \in Owners, limit > 0, ~(owned(o)' \subseteq owned(o))
             PROVE  Cardinality(owned(o)') <= limit
  BY DEF WithinLimit
<1>1. CASE Book!Next
  BY <1>1, BookWithinCap
<1>2. CASE UNCHANGED <<book, next_id, limit>>
  <2>1. owned(o) = {id \in DOMAIN book : book[id].owner = o}
    BY DEF owned, book
  <2>2. owned(o)' = {id \in DOMAIN book' : book'[id].owner = o}
    BY DEF owned, book
  <2>3. QED
    BY <1>2, <2>1, <2>2
<1>3. QED
  BY <1>1, <1>2, BookStep

\* assert_per_owner_limit_for: no registration, batch or transfer takes an owner
\* past the limit in force, while keepers renew every entry in time.
THEOREM LimitHolds == ~Archival => (Spec => LimitRespected)
<1> SUFFICES ASSUME ~Archival
             PROVE  Spec => LimitRespected
  OBVIOUS
<1>1. IInv /\ AllExact /\ [Next]_vars => [WithinLimit]_vars
  BY NothingLapses, LimitStep
<1>2. Spec => []AllExact
  BY StaysExact
<1>3. Spec => [][WithinLimit]_vars
  BY <1>1, <1>2, Invariance, PTL DEF Spec
<1>4. QED
  BY <1>3 DEF LimitRespected, WithinLimit
=============================================================================
