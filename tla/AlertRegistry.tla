--------------------------- MODULE AlertRegistry ---------------------------
(***************************************************************************)
(* The AlertRegistry contract (src/contracts/alert-registry/src/lib.rs):   *)
(* alerts keyed by an increasing id, an active flag beside each of them,   *)
(* one index of ids per owner and one per watched contract, every entry    *)
(* with a time to live of its own.                                         *)
(*                                                                         *)
(* One action per entry point that changes state.  The host undoes a call  *)
(* that returns an error or traps, so an entry point's error conditions    *)
(* are its guards and a failed call is a stuttering step.  A caller named  *)
(* in an action has authorised the call (require_auth).                    *)
(***************************************************************************)
EXTENDS Integers, Sequences, FiniteSets, Functions, Vectors, LedgerStorage

CONSTANTS
    Owners,          \* accounts that own alerts
    Admins,          \* accounts that administer the registry
    Targets,         \* watched contracts
    Registries,      \* WatcherRegistry contracts an admin may configure
    None,            \* Option::None
    Hashes,          \* webhook hashes callers pass in
    ValidHashes,     \* those of 64 characters
    Labels,          \* labels, each given by its length in bytes
    RuleLists,       \* lists of rule descriptors callers pass in
    TagLists,        \* lists of tags, each tag given by its length in bytes
    Limits,          \* per-owner limits an admin may set, 0 for no limit
    PauseValues,     \* values admins pass to set_paused
    BumpTtls,        \* lives callers ask of bump_alert
    BatchSizes,      \* lengths of the batches callers submit
    U64_MAX,         \* the largest value of the id counter
    DEFAULT_TTL,
    MAX_TTL,
    MAX_BATCH_SIZE,
    LedgerSeconds,   \* how far the ledger timestamp advances per ledger
    MaxTime,         \* bound on the ledger timestamp
    Archival         \* may a ledger close on an entry whose life has run out?

ASSUME ConstantsAssumption ==
    /\ ValidHashes \subseteq Hashes
    /\ None \notin Hashes
    /\ Labels \subseteq Nat
    /\ Limits \subseteq Nat
    /\ PauseValues \subseteq BOOLEAN
    /\ BumpTtls \subseteq Nat
    /\ BatchSizes \subseteq Nat
    /\ U64_MAX \in Nat
    /\ DEFAULT_TTL \in Nat
    /\ MAX_TTL \in Nat
    /\ MAX_BATCH_SIZE \in Nat
    /\ LedgerSeconds \in Nat
    /\ MaxTime \in Nat
    /\ Archival \in BOOLEAN

VARIABLES
    initialized,       \* is ADMIN set?
    admins,            \* ADMIN
    limit,             \* LIMIT
    paused,            \* PAUSED
    watcher_registry,  \* WATCHREG
    next_id,           \* NEXT_ID
    alerts,            \* Alert(id)         -> AlertConfig
    alert_active,      \* AlertActive(id)   -> bool
    owner_index,       \* OwnerIndex(o)     -> Vec of ids
    contract_index,    \* ContractIndex(t)  -> Vec of ids
    ttl,               \* ledgers each entry still lives
    timestamp          \* env.ledger().timestamp()

settings == <<initialized, admins, limit, paused, watcher_registry>>
indexes  == <<owner_index, contract_index>>
vars     == <<settings, next_id, alerts, alert_active, indexes, ttl, timestamp>>

Ids == 0..(U64_MAX - 1)

AlertInput ==
    [target_contract : Targets, label : Labels,
     webhook_hash : Hashes, rules : RuleLists]

AlertConfig ==
    [label : Labels, webhook_hash : Hashes, rules : RuleLists,
     owner : Owners, target_contract : Targets,
     created_at : Nat, updated_at : Nat, active : BOOLEAN,
     pending_webhook_hash : Hashes \cup {None}, tags : TagLists \cup {None}]

\* The lives of the entries, per kind of key; the instance's is -1 once the
\* instance has been archived.
TtlTypeOK ==
    /\ ttl = [alert |-> ttl.alert, active |-> ttl.active, owner |-> ttl.owner,
              contract |-> ttl.contract, instance |-> ttl.instance]
    /\ IsTable(ttl.alert, Ids, Nat)
    /\ IsTable(ttl.active, Ids, Nat)
    /\ IsTable(ttl.owner, Owners, Nat)
    /\ IsTable(ttl.contract, Targets, Nat)
    /\ ttl.instance \in Nat \cup {-1}

\* Every variable holds values of the type its storage key has in the contract.
TypeOK ==
    /\ initialized \in BOOLEAN
    /\ admins \in Seq(Admins)
    /\ limit \in Limits \cup {0}
    /\ paused \in BOOLEAN
    /\ watcher_registry \in Registries \cup {None}
    /\ next_id \in 0..U64_MAX
    /\ IsTable(alerts, Ids, AlertConfig)
    /\ IsTable(alert_active, Ids, BOOLEAN)
    /\ IsTable(owner_index, Owners, Seq(Ids))
    /\ IsTable(contract_index, Targets, Seq(Ids))
    /\ TtlTypeOK
    /\ timestamp \in Nat

\* A freshly deployed contract: nothing stored, the instance newly created.
Init ==
    /\ initialized = FALSE
    /\ admins = << >>
    /\ limit = 0
    /\ paused = FALSE
    /\ watcher_registry = None
    /\ next_id = 0
    /\ alerts = NoEntries
    /\ alert_active = NoEntries
    /\ owner_index = NoEntries
    /\ contract_index = NoEntries
    /\ ttl = [alert |-> NoEntries, active |-> NoEntries, owner |-> NoEntries,
              contract |-> NoEntries, instance |-> MIN_TTL]
    /\ timestamp = 0
-----------------------------------------------------------------------------
(* Guards: the checks that make a call fail.                               *)

\* Calls execute only while the contract instance is live.
instance_live == ttl.instance >= 0

assert_not_paused == ~paused

assert_admin(caller) == initialized /\ caller \in Range(admins)

\* persistent().get(Alert(id)) followed by assert_owner
assert_owner(caller, id) ==
    /\ id \in DOMAIN alerts
    /\ alerts[id].owner = caller

MAX_LABEL_BYTES == 128
MAX_RULES == 50
MAX_TAGS == 10
MAX_TAG_BYTES == 32
RuleDescriptors == {"rule:transfer", "rule:mint", "rule:invoke", "rule:all"}

validate_label(label) == label <= MAX_LABEL_BYTES

validate_rules(rules) ==
    /\ rules # << >>
    /\ Len(rules) <= MAX_RULES
    /\ Range(rules) \subseteq RuleDescriptors
    /\ NoRepeats(rules)

validate_tags(tags) ==
    tags # None => /\ Len(tags) <= MAX_TAGS
                   /\ \A i \in DOMAIN tags : tags[i] <= MAX_TAG_BYTES

valid_hash(hash) == hash \in ValidHashes

\* Mutant of validate_input: the rules are not validated.
validate_input_no_rules(input) ==
    /\ valid_hash(input.webhook_hash)
    /\ validate_label(input.label)

validate_input(input) ==
    /\ valid_hash(input.webhook_hash)
    /\ validate_label(input.label)
    /\ validate_rules(input.rules)
-----------------------------------------------------------------------------
(* The two indexes.                                                        *)

\* owner_index(o) and contract_index(t) of the source: an absent or lapsed
\* entry reads as the empty Vec.
lookup(index, key) == IF key \in DOMAIN index THEN index[key] ELSE << >>

\* Mutant of store: an empty Vec is written back, as before #203.
store_empty(index, key, ids) == Put(index, key, ids)

\* Write a Vec back, or delete the key when the Vec is empty (#203).
store(index, key, ids) ==
    IF ids = << >> THEN Drop(index, key) ELSE Put(index, key, ids)

store_ttl(t, key, ids) ==
    IF ids = << >> THEN Drop(t, key) ELSE Extend(t, {key}, DEFAULT_TTL)

\* DuplicateAlertId is returned otherwise.
can_push(index, key, id) == id \notin Range(lookup(index, key))

\* Mutant of push_index: the Vec is replaced instead of appended to.
push_index_overwrite(index, key, id) == Put(index, key, <<id>>)

push_index(index, key, id) == Put(index, key, Append(lookup(index, key), id))

\* Mutant of remove_from_index: the id stays listed.
remove_from_index_forgotten(index, key, id) == index

remove_from_index(index, key, id) ==
    store(index, key, Without(lookup(index, key), id))

remove_from_index_ttl(t, index, key, id) ==
    store_ttl(t, key, Without(lookup(index, key), id))

\* Mutant of live_ids: alerts that are switched off count as gone.
live_ids_active(ids) == Keep(ids, {id \in DOMAIN alerts : alerts[id].active})

live_ids(ids) == Keep(ids, DOMAIN alerts)

\* Mutant of within_limit: a batch is charged as one alert.
within_limit_single(owner, additional) ==
    limit > 0 => Len(live_ids(lookup(owner_index, owner))) + 1 <= limit

\* assert_per_owner_limit_for: its verdict, and what its lazy pruning (#205)
\* makes of the owner's index entry and of that entry's life.
within_limit(owner, additional) ==
    limit > 0 => Len(live_ids(lookup(owner_index, owner))) + additional <= limit

prunes(owner) ==
    LET ids == lookup(owner_index, owner)
    IN  limit > 0 /\ Len(live_ids(ids)) # Len(ids)

pruned_index(owner) ==
    IF prunes(owner)
    THEN store(owner_index, owner, live_ids(lookup(owner_index, owner)))
    ELSE owner_index

pruned_ttl(owner) ==
    IF prunes(owner)
    THEN store_ttl(ttl.owner, owner, live_ids(lookup(owner_index, owner)))
    ELSE ttl.owner

\* extend_ttl traps on a key that does not exist.
index_keys_live(id) ==
    /\ alerts[id].owner \in DOMAIN owner_index
    /\ alerts[id].target_contract \in DOMAIN contract_index
-----------------------------------------------------------------------------
(* Admin and configuration.                                                *)

initialize(admin) ==
    /\ instance_live
    /\ ~initialized
    /\ initialized' = TRUE
    /\ admins' = <<admin>>
    /\ UNCHANGED <<limit, paused, watcher_registry, next_id, alerts,
                   alert_active, indexes, ttl, timestamp>>

set_admins(new) ==
    /\ admins' = new
    /\ UNCHANGED <<initialized, limit, paused, watcher_registry, next_id,
                   alerts, alert_active, indexes, ttl, timestamp>>

transfer_admin(admin, new_admin) ==
    /\ instance_live
    /\ assert_admin(admin)
    /\ set_admins(<<new_admin>>)

add_admin(caller, new_admin) ==
    /\ instance_live
    /\ assert_admin(caller)
    /\ new_admin \notin Range(admins)
    /\ set_admins(Append(admins, new_admin))

\* Mutant of remove_admin: no LastAdmin check.
remove_last_admin(caller, target_admin) ==
    /\ instance_live
    /\ assert_admin(caller)
    /\ target_admin \in Range(admins)
    /\ set_admins(Without(admins, target_admin))

remove_admin(caller, target_admin) ==
    /\ instance_live
    /\ assert_admin(caller)
    /\ target_admin \in Range(admins)
    /\ Len(admins) > 1
    /\ set_admins(Without(admins, target_admin))

\* LimitTooLow is never returned: no u32 is both non-zero and below 1.
set_per_owner_alert_limit(admin, new_limit) ==
    /\ instance_live
    /\ assert_admin(admin)
    /\ limit' = new_limit
    /\ UNCHANGED <<initialized, admins, paused, watcher_registry, next_id,
                   alerts, alert_active, indexes, ttl, timestamp>>

set_paused(admin, value) ==
    /\ instance_live
    /\ assert_admin(admin)
    /\ paused' = value
    /\ UNCHANGED <<initialized, admins, limit, watcher_registry, next_id,
                   alerts, alert_active, indexes, ttl, timestamp>>

set_watcher_registry(admin, registry) ==
    /\ instance_live
    /\ assert_admin(admin)
    /\ watcher_registry' = registry
    /\ UNCHANGED <<initialized, admins, limit, paused, next_id,
                   alerts, alert_active, indexes, ttl, timestamp>>
-----------------------------------------------------------------------------
(* Registration.                                                           *)

new_config(owner, input, tags) ==
    [label |-> input.label, webhook_hash |-> input.webhook_hash,
     rules |-> input.rules, owner |-> owner,
     target_contract |-> input.target_contract,
     created_at |-> timestamp, updated_at |-> timestamp, active |-> TRUE,
     pending_webhook_hash |-> None, tags |-> tags]

\* Mutants of next_id_after: the counter is not written back, or it wraps
\* around instead of failing with CounterOverflow.
next_id_stuck(count) == next_id
next_id_wrapping(count) == (next_id + count) % U64_MAX

\* The counter after count calls of next_id.
next_id_after(count) == next_id + count

\* The common body of register_alert and batch_register_alerts: the limit
\* check with its pruning, then for each input next_id, both entries and both
\* pushes.  The inputs get consecutive ids.
register(owner, inputs, tags) ==
    LET count   == Len(inputs)
        new     == [i \in 1..count |-> next_id + i - 1]
        input   == [id \in Range(new) |-> inputs[id - next_id + 1]]
        targets == {input[id].target_contract : id \in Range(new)}
        for(t)  == {id \in Range(new) : input[id].target_contract = t}
        pruned  == pruned_index(owner)
    IN  /\ within_limit(owner, count)
        /\ next_id_after(count) <= U64_MAX
        /\ \A id \in Range(new) :
              /\ can_push(pruned, owner, id)
              /\ can_push(contract_index, input[id].target_contract, id)
        /\ next_id' = next_id_after(count)
        /\ alerts' = [id \in DOMAIN alerts \cup Range(new) |->
                        IF id \in Range(new)
                        THEN new_config(owner, input[id], tags)
                        ELSE alerts[id]]
        /\ alert_active' = [id \in DOMAIN alert_active \cup Range(new) |->
                              IF id \in Range(new) THEN TRUE
                              ELSE alert_active[id]]
        /\ owner_index' =
              IF count = 0 THEN pruned
              ELSE Put(pruned, owner, lookup(pruned, owner) \o new)
        /\ contract_index' =
              [t \in DOMAIN contract_index \cup targets |->
                  lookup(contract_index, t) \o Keep(new, for(t))]
        /\ ttl' = [alert    |-> Extend(ttl.alert, Range(new), DEFAULT_TTL),
                   active   |-> Extend(ttl.active, Range(new), DEFAULT_TTL),
                   owner    |-> IF count = 0 THEN pruned_ttl(owner)
                                ELSE Extend(pruned_ttl(owner), {owner}, DEFAULT_TTL),
                   contract |-> Extend(ttl.contract, targets, DEFAULT_TTL),
                   instance |-> IF count = 0 THEN ttl.instance
                                ELSE AtLeast(ttl.instance, DEFAULT_TTL)]
        /\ UNCHANGED <<settings, timestamp>>

register_alert(owner, input, tags) ==
    /\ instance_live
    /\ assert_not_paused
    /\ validate_input(input)
    /\ validate_tags(tags)
    /\ register(owner, <<input>>, tags)

batch_register_alerts(caller, inputs) ==
    /\ instance_live
    /\ assert_not_paused
    /\ Len(inputs) <= MAX_BATCH_SIZE
    /\ \A i \in DOMAIN inputs : validate_input(inputs[i])
    /\ register(caller, inputs, None)
-----------------------------------------------------------------------------
(* Changes to one alert.                                                   *)

\* Write an alert back.
amend(id, config) ==
    /\ alerts' = [alerts EXCEPT ![id] = config]
    /\ UNCHANGED <<settings, next_id, timestamp>>

\* Mutant of set_active_flag: the flag is left as it was.
set_active_flag_forgotten(id, value) == UNCHANGED alert_active

\* Write an alert's active flag beside it, creating the entry if need be.
set_active_flag(id, value) == alert_active' = Put(alert_active, id, value)

\* pause_alert and unpause_alert
set_alert_active_by_admin(admin, id, active) ==
    /\ instance_live
    /\ assert_admin(admin)
    /\ id \in DOMAIN alerts
    /\ amend(id, [alerts[id] EXCEPT !.active = active, !.updated_at = timestamp])
    /\ set_active_flag(id, active)
    /\ ttl' = [ttl EXCEPT !.alert = Extend(@, {id}, DEFAULT_TTL),
                          !.active = Extend(@, {id}, DEFAULT_TTL)]
    /\ UNCHANGED indexes

update_alert(caller, id, rules, active) ==
    /\ instance_live
    /\ assert_not_paused
    /\ assert_owner(caller, id)
    /\ validate_rules(rules)
    /\ index_keys_live(id)
    /\ amend(id, [alerts[id] EXCEPT !.rules = rules, !.active = active,
                                    !.updated_at = timestamp])
    /\ set_active_flag(id, active)
    /\ ttl' = [ttl EXCEPT
                  !.alert = Extend(@, {id}, DEFAULT_TTL),
                  !.active = Extend(@, {id}, DEFAULT_TTL),
                  !.owner = Extend(@, {caller}, DEFAULT_TTL),
                  !.contract = Extend(@, {alerts[id].target_contract}, DEFAULT_TTL)]
    /\ UNCHANGED indexes

\* The tail shared by update_webhook and update_label: the alert and both its
\* index entries are extended, the active flag is not.
extend_alert_and_indexes(id) ==
    /\ index_keys_live(id)
    /\ ttl' = [ttl EXCEPT
                  !.alert = Extend(@, {id}, DEFAULT_TTL),
                  !.owner = Extend(@, {alerts[id].owner}, DEFAULT_TTL),
                  !.contract = Extend(@, {alerts[id].target_contract}, DEFAULT_TTL)]
    /\ UNCHANGED <<alert_active, indexes>>

\* The tail of the calls that extend nothing but the alert itself.
extend_alert_only(id) ==
    /\ ttl' = [ttl EXCEPT !.alert = Extend(@, {id}, DEFAULT_TTL)]
    /\ UNCHANGED <<alert_active, indexes>>

\* Mutant of update_webhook: a rotation in progress is dropped.
update_webhook_clearing(caller, id, hash) ==
    /\ instance_live
    /\ assert_not_paused
    /\ assert_owner(caller, id)
    /\ valid_hash(hash)
    /\ amend(id, [alerts[id] EXCEPT !.webhook_hash = hash, !.updated_at = timestamp,
                                    !.pending_webhook_hash = None])
    /\ extend_alert_and_indexes(id)

update_webhook(caller, id, hash) ==
    /\ instance_live
    /\ assert_not_paused
    /\ assert_owner(caller, id)
    /\ valid_hash(hash)
    /\ amend(id, [alerts[id] EXCEPT !.webhook_hash = hash, !.updated_at = timestamp])
    /\ extend_alert_and_indexes(id)

\* Neither the pause switch nor the length of the hash is checked here.
propose_webhook(caller, id, hash) ==
    /\ instance_live
    /\ assert_owner(caller, id)
    /\ amend(id, [alerts[id] EXCEPT !.pending_webhook_hash = hash,
                                    !.updated_at = timestamp])
    /\ extend_alert_only(id)

\* Mutant of confirm_webhook: no NoPendingWebhook check.
confirm_webhook_unchecked(caller, id) ==
    /\ instance_live
    /\ assert_owner(caller, id)
    /\ amend(id, [alerts[id] EXCEPT !.webhook_hash = alerts[id].pending_webhook_hash,
                                    !.pending_webhook_hash = None,
                                    !.updated_at = timestamp])
    /\ extend_alert_only(id)

confirm_webhook(caller, id) ==
    /\ instance_live
    /\ assert_owner(caller, id)
    /\ alerts[id].pending_webhook_hash # None
    /\ amend(id, [alerts[id] EXCEPT !.webhook_hash = alerts[id].pending_webhook_hash,
                                    !.pending_webhook_hash = None,
                                    !.updated_at = timestamp])
    /\ extend_alert_only(id)

update_label(caller, id, label) ==
    /\ instance_live
    /\ assert_not_paused
    /\ validate_label(label)
    /\ assert_owner(caller, id)
    /\ amend(id, [alerts[id] EXCEPT !.label = label, !.updated_at = timestamp])
    /\ extend_alert_and_indexes(id)

\* Mutant of update_tags: updated_at is not set.
update_tags_unstamped(caller, id, tags) ==
    /\ instance_live
    /\ assert_not_paused
    /\ assert_owner(caller, id)
    /\ validate_tags(tags)
    /\ amend(id, [alerts[id] EXCEPT !.tags = tags])
    /\ extend_alert_only(id)

update_tags(caller, id, tags) ==
    /\ instance_live
    /\ assert_not_paused
    /\ assert_owner(caller, id)
    /\ validate_tags(tags)
    /\ amend(id, [alerts[id] EXCEPT !.tags = tags, !.updated_at = timestamp])
    /\ extend_alert_only(id)

\* The id leaves the old contract's index, if that has not lapsed, and joins the
\* end of the new one's, which may be the same.
update_target_contract(caller, id, new_target) ==
    LET old     == alerts[id].target_contract
        removed == remove_from_index(contract_index, old, id)
        removed_ttl == remove_from_index_ttl(ttl.contract, contract_index, old, id)
    IN  /\ instance_live
        /\ assert_not_paused
        /\ assert_owner(caller, id)
        /\ can_push(removed, new_target, id)
        /\ amend(id, [alerts[id] EXCEPT !.target_contract = new_target,
                                        !.updated_at = timestamp])
        /\ contract_index' = push_index(removed, new_target, id)
        /\ ttl' = [ttl EXCEPT !.alert = Extend(@, {id}, DEFAULT_TTL),
                              !.contract = Extend(removed_ttl, {new_target}, DEFAULT_TTL)]
        /\ UNCHANGED <<alert_active, owner_index>>

\* A transfer to oneself returns Ok and changes nothing.
transfer_alert_ownership(owner, id, new_owner) ==
    LET pruned  == pruned_index(new_owner)
        removed == remove_from_index(pruned, owner, id)
        removed_ttl == remove_from_index_ttl(pruned_ttl(new_owner), pruned, owner, id)
    IN  /\ instance_live
        /\ assert_not_paused
        /\ assert_owner(owner, id)
        /\ new_owner # owner
        /\ within_limit(new_owner, 1)
        /\ can_push(removed, new_owner, id)
        /\ amend(id, [alerts[id] EXCEPT !.owner = new_owner, !.updated_at = timestamp])
        /\ owner_index' = push_index(removed, new_owner, id)
        /\ ttl' = [ttl EXCEPT !.alert = Extend(@, {id}, DEFAULT_TTL),
                              !.owner = Extend(removed_ttl, {new_owner}, DEFAULT_TTL)]
        /\ UNCHANGED <<alert_active, contract_index>>

deactivate_all_alerts(caller) ==
    LET off == {id \in Range(lookup(owner_index, caller)) \cap DOMAIN alerts :
                   alerts[id].active}
    IN  /\ instance_live
        /\ assert_not_paused
        /\ alerts' = [id \in DOMAIN alerts |->
                        IF id \in off
                        THEN [alerts[id] EXCEPT !.active = FALSE,
                                                !.updated_at = timestamp]
                        ELSE alerts[id]]
        /\ alert_active' = [id \in DOMAIN alert_active \cup off |->
                              IF id \in off THEN FALSE ELSE alert_active[id]]
        /\ ttl' = [ttl EXCEPT !.alert = Extend(@, off, DEFAULT_TTL),
                              !.active = Extend(@, off, DEFAULT_TTL)]
        /\ UNCHANGED <<settings, next_id, indexes, timestamp>>

\* remove_alert_record, and remove_alert_record_by_admin but for its event
remove_alert_record(id) ==
    LET owner  == alerts[id].owner
        target == alerts[id].target_contract
    IN  /\ alerts' = Drop(alerts, id)
        /\ alert_active' = Drop(alert_active, id)
        /\ owner_index' = remove_from_index(owner_index, owner, id)
        /\ contract_index' = remove_from_index(contract_index, target, id)
        /\ ttl' = [ttl EXCEPT
                      !.alert = Drop(@, id),
                      !.active = Drop(@, id),
                      !.owner = remove_from_index_ttl(@, owner_index, owner, id),
                      !.contract = remove_from_index_ttl(@, contract_index, target, id)]
        /\ UNCHANGED <<settings, next_id, timestamp>>

\* Mutant of remove_alert: allowed while paused.
remove_alert_paused(caller, id) ==
    /\ instance_live
    /\ assert_owner(caller, id)
    /\ remove_alert_record(id)

remove_alert(caller, id) ==
    /\ instance_live
    /\ assert_not_paused
    /\ assert_owner(caller, id)
    /\ remove_alert_record(id)

remove_alert_by_admin(admin, id) ==
    /\ instance_live
    /\ assert_not_paused
    /\ assert_admin(admin)
    /\ id \in DOMAIN alerts
    /\ remove_alert_record(id)
-----------------------------------------------------------------------------
(* Renewal.                                                                *)

\* Mutants of bump_alert: the index entries are not extended, or the alert
\* itself is not.
bump_alert_without_indexes(id, requested) ==
    /\ instance_live
    /\ assert_not_paused
    /\ id \in DOMAIN alerts
    /\ ttl' = [ttl EXCEPT !.alert = Extend(@, {id}, requested),
                          !.active = Extend(@, {id} \cap DOMAIN @, requested),
                          !.instance = AtLeast(@, requested)]
    /\ UNCHANGED <<settings, next_id, alerts, alert_active, indexes, timestamp>>
bump_instance_only(id, requested) ==
    /\ instance_live
    /\ assert_not_paused
    /\ id \in DOMAIN alerts
    /\ ttl' = [ttl EXCEPT !.instance = AtLeast(@, requested)]
    /\ UNCHANGED <<settings, next_id, alerts, alert_active, indexes, timestamp>>

\* The DataKey::NextId branch never runs: no entry point writes that key.
bump_alert(id, requested) ==
    LET life == IF requested <= MAX_TTL THEN requested ELSE MAX_TTL
    IN  /\ instance_live
        /\ assert_not_paused
        /\ id \in DOMAIN alerts
        /\ id \in DOMAIN alert_active
        /\ index_keys_live(id)
        /\ ttl' = [alert    |-> Extend(ttl.alert, {id}, life),
                   active   |-> Extend(ttl.active, {id}, life),
                   owner    |-> Extend(ttl.owner, {alerts[id].owner}, life),
                   contract |-> Extend(ttl.contract, {alerts[id].target_contract}, life),
                   instance |-> AtLeast(ttl.instance, life)]
        /\ UNCHANGED <<settings, next_id, alerts, alert_active, indexes, timestamp>>

\* Ids that are not found are skipped; one alert whose flag or index entry has
\* lapsed makes the whole call trap.  Order and repetition of the ids do not
\* matter, so the Vec is a set.
bulk_renew_ttl(config_ids) ==
    LET live == config_ids \cap DOMAIN alerts
    IN  /\ instance_live
        /\ Cardinality(config_ids) <= MAX_BATCH_SIZE
        /\ \A id \in live : id \in DOMAIN alert_active /\ index_keys_live(id)
        /\ ttl' = [ttl EXCEPT
                      !.alert = Extend(@, live, DEFAULT_TTL),
                      !.active = Extend(@, live, DEFAULT_TTL),
                      !.owner = Extend(@, {alerts[id].owner : id \in live}, DEFAULT_TTL),
                      !.contract = Extend(@, {alerts[id].target_contract : id \in live},
                                          DEFAULT_TTL)]
        /\ UNCHANGED <<settings, next_id, alerts, alert_active, indexes, timestamp>>

\* A read extends the alert it returns (#250).
get_alert(id) ==
    /\ instance_live
    /\ id \in DOMAIN alerts
    /\ ttl' = [ttl EXCEPT !.alert = Extend(@, {id}, DEFAULT_TTL)]
    /\ UNCHANGED <<settings, next_id, alerts, alert_active, indexes, timestamp>>
-----------------------------------------------------------------------------
(* The ledger.                                                             *)

\* No entry runs out of life when the next ledger closes.
nothing_lapses ==
    /\ Survivors(ttl.alert) = DOMAIN ttl.alert
    /\ Survivors(ttl.active) = DOMAIN ttl.active
    /\ Survivors(ttl.owner) = DOMAIN ttl.owner
    /\ Survivors(ttl.contract) = DOMAIN ttl.contract
    /\ ttl.instance > 0

\* A ledger closes: every entry is one ledger older, and the entries whose life
\* has run out are archived.  Without Archival the keepers renew in time.
close_ledger ==
    /\ Archival \/ nothing_lapses
    /\ timestamp + LedgerSeconds <= MaxTime
    /\ timestamp' = timestamp + LedgerSeconds
    /\ alerts' = Restrict(alerts, Survivors(ttl.alert))
    /\ alert_active' = Restrict(alert_active, Survivors(ttl.active))
    /\ owner_index' = Restrict(owner_index, Survivors(ttl.owner))
    /\ contract_index' = Restrict(contract_index, Survivors(ttl.contract))
    /\ ttl' = [alert |-> Age(ttl.alert), active |-> Age(ttl.active),
               owner |-> Age(ttl.owner), contract |-> Age(ttl.contract),
               instance |-> IF ttl.instance >= 0 THEN ttl.instance - 1 ELSE -1]
    /\ UNCHANGED <<settings, next_id>>
-----------------------------------------------------------------------------
admin_call ==
    \E admin \in Admins :
        \/ initialize(admin)
        \/ \E other \in Admins :
              \/ transfer_admin(admin, other)
              \/ add_admin(admin, other)
              \/ remove_admin(admin, other)
        \/ \E n \in Limits : set_per_owner_alert_limit(admin, n)
        \/ \E value \in PauseValues : set_paused(admin, value)
        \/ \E registry \in Registries : set_watcher_registry(admin, registry)
        \/ \E id \in Ids, active \in BOOLEAN :
              set_alert_active_by_admin(admin, id, active)
        \/ \E id \in Ids : remove_alert_by_admin(admin, id)

owner_call ==
    \E caller \in Owners :
        \/ \E input \in AlertInput, tags \in TagLists \cup {None} :
              register_alert(caller, input, tags)
        \/ \E n \in BatchSizes : \E inputs \in [1..n -> AlertInput] :
              batch_register_alerts(caller, inputs)
        \/ deactivate_all_alerts(caller)

alert_call ==
    \E caller \in Owners, id \in Ids :
        \/ \E rules \in RuleLists, active \in BOOLEAN :
              update_alert(caller, id, rules, active)
        \/ \E hash \in Hashes : update_webhook(caller, id, hash)
        \/ \E hash \in Hashes : propose_webhook(caller, id, hash)
        \/ confirm_webhook(caller, id)
        \/ \E label \in Labels : update_label(caller, id, label)
        \/ \E tags \in TagLists \cup {None} : update_tags(caller, id, tags)
        \/ \E target \in Targets : update_target_contract(caller, id, target)
        \/ \E other \in Owners : transfer_alert_ownership(caller, id, other)
        \/ remove_alert(caller, id)

renewal_call ==
    \/ \E id \in Ids, life \in BumpTtls : bump_alert(id, life)
    \/ \E ids \in SUBSET Ids : bulk_renew_ttl(ids)
    \/ \E id \in Ids : get_alert(id)

Next ==
    \/ admin_call
    \/ owner_call
    \/ alert_call
    \/ renewal_call
    \/ close_ledger

Spec == Init /\ [][Next]_vars
-----------------------------------------------------------------------------
(* Invariants.                                                             *)

\* Every id in storage was handed out by next_id, so the id the next
\* registration gets is in no entry and no index (#212).
IdsBelowCounter ==
    /\ DOMAIN alerts \subseteq 0..(next_id - 1)
    /\ DOMAIN alert_active \subseteq 0..(next_id - 1)
    /\ \A o \in DOMAIN owner_index : Range(owner_index[o]) \subseteq 0..(next_id - 1)
    /\ \A t \in DOMAIN contract_index :
          Range(contract_index[t]) \subseteq 0..(next_id - 1)

\* No index lists an id twice (the DuplicateAlertId checks of the push helpers
\* never fire) and no index entry is an empty Vec (#203).
IndexesWellFormed ==
    /\ \A o \in DOMAIN owner_index :
          owner_index[o] # << >> /\ NoRepeats(owner_index[o])
    /\ \A t \in DOMAIN contract_index :
          contract_index[t] # << >> /\ NoRepeats(contract_index[t])

\* A live alert is listed under no owner but its own and under no contract but
\* the one it watches, whatever entries have lapsed in between.
OwnerIndexSound ==
    \A o \in DOMAIN owner_index : \A id \in Range(owner_index[o]) :
        id \in DOMAIN alerts => alerts[id].owner = o

ContractIndexSound ==
    \A t \in DOMAIN contract_index : \A id \in Range(contract_index[t]) :
        id \in DOMAIN alerts => alerts[id].target_contract = t

IndexesSound == OwnerIndexSound /\ ContractIndexSound

\* The cheap active flag never contradicts the alert it stands for, and never
\* outlives it on a network whose minimum life is at most DEFAULT_TTL.
ActiveFlagAgrees ==
    \A id \in DOMAIN alert_active :
        /\ id \in DOMAIN alerts
        /\ alert_active[id] = alerts[id].active
        /\ ttl.active[id] <= ttl.alert[id]

\* Once initialised the registry always has an admin, and no admin twice:
\* remove_admin's LastAdmin check counts entries of the Vec.
AdminsNeverEmpty ==
    /\ initialized <=> admins # << >>
    /\ NoRepeats(admins)

\* Whatever entry point wrote them last, the label, rules and tags of a live
\* alert satisfy the validators.
StoredPayloadsValid ==
    \A id \in DOMAIN alerts :
        /\ validate_label(alerts[id].label)
        /\ validate_rules(alerts[id].rules)
        /\ validate_tags(alerts[id].tags)

\* The indexes list exactly the alerts they should, and every alert has its flag.
\* So it is where nothing lapses, and where a keeper renews the alerts in time.
IndexesExact ==
    /\ \A o \in Owners :
          Range(lookup(owner_index, o)) = {id \in DOMAIN alerts : alerts[id].owner = o}
    /\ \A t \in Targets :
          Range(lookup(contract_index, t))
            = {id \in DOMAIN alerts : alerts[id].target_contract = t}
    /\ DOMAIN alert_active = DOMAIN alerts
-----------------------------------------------------------------------------
(* Action properties.                                                      *)

owned(o) == {id \in DOMAIN alerts : alerts[id].owner = o}

\* The counter never goes back, and an alert that appears has an id the counter
\* had not reached: the id of a removed or lapsed alert is never given out again.
IdsNeverReused ==
    [][/\ next_id <= next_id'
       /\ \A id \in DOMAIN alerts' \ DOMAIN alerts :
             next_id <= id /\ id < next_id']_vars

\* A listed alert stays listed as long as it lives, keeps its owner and its
\* owner's index entry does not lapse: neither the lazy pruning (#205) nor the
\* removal or transfer of another alert loses it.
ListedStaysListed ==
    [][\A o \in Survivors(ttl.owner) : \A id \in Range(owner_index[o]) :
          id \in DOMAIN alerts' /\ alerts'[id].owner = o
            => id \in Range(lookup(owner_index', o))]_vars

\* Every change of an alert is stamped with the time of the ledger it happens
\* in, and nothing else of its history moves: a client that polls
\* get_alerts_modified_since misses no change of a surviving alert.
ChangesAreStamped ==
    [][\A id \in DOMAIN alerts \cap DOMAIN alerts' :
          /\ alerts'[id].created_at = alerts[id].created_at
          /\ alerts'[id] # alerts[id] => alerts'[id].updated_at = timestamp]_vars

\* No call takes an owner past the limit in force, whether it registers one
\* alert, a batch, or transfers one (assert_per_owner_limit_for).
LimitRespected ==
    [][\A o \in Owners :
          limit > 0 /\ ~(owned(o)' \subseteq owned(o))
            => Cardinality(owned(o)') <= limit]_vars

\* A rotation is never lost and lets no other hash in: a pending hash goes away
\* only by being promoted, through transfers, switching and edits of anything
\* else, and a hash becomes the live one only if it passes the length check or
\* was pending (propose_webhook makes no such check).
WebhookRotationKept ==
    [][\A id \in DOMAIN alerts \cap DOMAIN alerts' :
          LET hash       == alerts[id].webhook_hash
              pending    == alerts[id].pending_webhook_hash
              new_hash   == alerts'[id].webhook_hash
          IN  /\ new_hash # hash => valid_hash(new_hash) \/ new_hash = pending
              /\ pending # None /\ alerts'[id].pending_webhook_hash = None
                    => new_hash = pending]_vars

\* While the registry is paused no alert is registered, removed, handed over,
\* retargeted or edited, and no alert disappears before its life has run out.
\* What still changes is what propose_webhook, confirm_webhook, pause_alert and
\* unpause_alert write, which do not look at the pause switch.
PausedKeepsAlerts ==
    [][paused /\ paused' =>
          /\ DOMAIN alerts' \subseteq DOMAIN alerts
          /\ Survivors(ttl.alert) \subseteq DOMAIN alerts'
          /\ \A id \in DOMAIN alerts' :
                alerts'[id] = [alerts[id] EXCEPT
                    !.active = alerts'[id].active,
                    !.webhook_hash = alerts'[id].webhook_hash,
                    !.pending_webhook_hash = alerts'[id].pending_webhook_hash,
                    !.updated_at = alerts'[id].updated_at]]_vars
=============================================================================
