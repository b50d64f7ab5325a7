-------------------------- MODULE ModularRegistry --------------------------
(***************************************************************************)
(* The secondary alert registry of src/contracts/alert-registry/src/       *)
(* contract.rs and storage.rs, kept beside the compiled one.  It has one   *)
(* admin, no active-flag entries, indexes that may be empty, renewals that *)
(* are much shorter than the life an entry starts with, and its id counter *)
(* in a persistent entry with a life of its own.                           *)
(*                                                                         *)
(* A call that returns an error is a stuttering step.  No code extends the *)
(* instance, which holds the admin, the limit and the pause switch: it is  *)
(* taken to be kept alive by its operator.  The counter is not: its entry  *)
(* lapses like any other, also under alerts that other calls keep alive.   *)
(***************************************************************************)
EXTENDS Integers, Sequences, FiniteSets, Functions, Vectors, LedgerStorage

CONSTANTS
    Owners, Admins, Targets,
    None,
    Hashes,          \* webhook hashes callers pass in; any is accepted
    Labels,          \* labels, each given by its length
    RuleLists,       \* lists of rule descriptors callers pass in
    Limits,          \* per-owner limits, 0 for no limit
    PauseValues,     \* values admins pass to set_paused
    U64_MAX,
    DEFAULT_TTL,
    RENEW_TTL,       \* the literal 100 of the extend functions
    MAX_BATCH_SIZE,
    LedgerSeconds, MaxTime,
    Archival         \* may a ledger close on an entry whose life has run out?

ASSUME ModularConstantsAssumption ==
    /\ None \notin Hashes \cup Admins \cup Nat
    /\ Labels \subseteq Nat
    /\ Limits \subseteq Nat
    /\ PauseValues \subseteq BOOLEAN
    /\ {U64_MAX, DEFAULT_TTL, RENEW_TTL, MAX_BATCH_SIZE, LedgerSeconds, MaxTime} \subseteq Nat
    /\ Archival \in BOOLEAN

VARIABLES
    admin,             \* ADMIN
    limit,             \* LIMIT
    paused,            \* Paused
    next_id,           \* NextId, 0 while the entry is absent
    alerts,            \* Alert(id)         -> AlertConfig
    owner_index,       \* OwnerIndex(o)     -> Vec of ids
    contract_index,    \* ContractIndex(t)  -> Vec of ids
    ttl,               \* ledgers each entry still lives
    timestamp,         \* env.ledger().timestamp()
    restarted          \* history: has the counter lapsed under ids it had given?

settings == <<admin, limit, paused>>
indexes  == <<owner_index, contract_index>>
clock    == <<timestamp, restarted>>
vars     == <<settings, next_id, alerts, indexes, ttl, clock>>

Ids == 0..(U64_MAX - 1)

AlertConfig ==
    [label : Labels, webhook_hash : Hashes, rules : RuleLists,
     owner : Owners, target_contract : Targets,
     created_at : Nat, updated_at : Nat, active : BOOLEAN,
     pending_webhook_hash : Hashes \cup {None}]

\* Every variable holds values of the type its storage key has; the life of the
\* counter is -1 while it has no entry.
TypeOK ==
    /\ admin \in Admins \cup {None}
    /\ limit \in Limits \cup {None}
    /\ paused \in BOOLEAN
    /\ next_id \in 0..U64_MAX
    /\ IsTable(alerts, Ids, AlertConfig)
    /\ IsTable(owner_index, Owners, Seq(Ids))
    /\ IsTable(contract_index, Targets, Seq(Ids))
    /\ IsTable(ttl.alert, Ids, Nat) /\ DOMAIN ttl.alert = DOMAIN alerts
    /\ IsTable(ttl.owner, Owners, Nat) /\ DOMAIN ttl.owner = DOMAIN owner_index
    /\ IsTable(ttl.contract, Targets, Nat) /\ DOMAIN ttl.contract = DOMAIN contract_index
    /\ ttl.counter \in Nat \cup {-1}
    /\ timestamp \in Nat
    /\ restarted \in BOOLEAN

Init ==
    /\ admin = None
    /\ limit = None
    /\ paused = FALSE
    /\ next_id = 0
    /\ alerts = NoEntries
    /\ owner_index = NoEntries
    /\ contract_index = NoEntries
    /\ ttl = [alert |-> NoEntries, owner |-> NoEntries, contract |-> NoEntries,
              counter |-> -1]
    /\ timestamp = 0
    /\ restarted = FALSE
-----------------------------------------------------------------------------
(* Guards.                                                                 *)

assert_owner(caller, id) == id \in DOMAIN alerts /\ alerts[id].owner = caller

assert_not_paused == ~paused

assert_admin(caller) == admin = caller /\ admin # None

\* An absent or lapsed index reads as the empty Vec.
lookup(index, key) == IF key \in DOMAIN index THEN index[key] ELSE << >>

\* Mutant of assert_per_owner_limit: one alert more than the limit is let in.
assert_per_owner_limit_off_by_one(owner) ==
    limit # None /\ limit > 0 =>
        Cardinality(Positions(lookup(owner_index, owner), DOMAIN alerts)) <= limit

\* The listed alerts that are still stored are counted.
assert_per_owner_limit(owner) ==
    limit # None /\ limit > 0 =>
        Cardinality(Positions(lookup(owner_index, owner), DOMAIN alerts)) < limit

validate_label(label) == label <= 128

\* An empty list and repetitions are accepted.
validate_rules(rules) ==
    /\ Len(rules) <= 50
    /\ Range(rules) \subseteq {"rule:transfer", "rule:mint"}
-----------------------------------------------------------------------------
(* Storage.                                                                *)

\* push_owner_index and push_contract_index; DuplicateAlertId otherwise.
can_push(index, key, id) == id \notin Range(lookup(index, key))

push_index(index, key, id) == Put(index, key, Append(lookup(index, key), id))

\* The Vec is written back even when it is empty, or was absent before.
remove_from_index(index, key, id) == Put(index, key, Without(lookup(index, key), id))

\* extend_owner_index_ttl and extend_contract_index_ttl: entries that are gone
\* are left alone.
extend_index_ttl(t, K) == Extend(t, K \cap DOMAIN t, RENEW_TTL)

extend_alert_ttl(t, K) == Extend(t, K, RENEW_TTL)

extend_next_id_ttl ==
    IF ttl.counter >= 0 THEN AtLeast(ttl.counter, DEFAULT_TTL) ELSE -1

\* set_alert of a changed config: the alert alone is extended.
set_alert(id, config) ==
    /\ alerts' = [alerts EXCEPT ![id] = config]
    /\ ttl' = [ttl EXCEPT !.alert = Extend(@, {id}, DEFAULT_TTL)]
    /\ UNCHANGED <<settings, next_id, indexes, clock>>
-----------------------------------------------------------------------------
(* Alerts.                                                                 *)

\* Mutant of next_id_taken: the counter is not moved.
next_id_stuck == next_id

\* The counter after next_id, which fails with CounterOverflow at U64_MAX.
next_id_taken == next_id + 1

\* Whatever is stored under the id the counter gives is overwritten.
register_alert(owner, target, label, hash, rules) ==
    LET id == next_id
        config == [label |-> label, webhook_hash |-> hash, rules |-> rules,
                   owner |-> owner, target_contract |-> target,
                   created_at |-> timestamp, updated_at |-> timestamp,
                   active |-> TRUE, pending_webhook_hash |-> None]
    IN  /\ assert_not_paused
        /\ validate_label(label)
        /\ validate_rules(rules)
        /\ assert_per_owner_limit(owner)
        /\ next_id < U64_MAX
        /\ can_push(owner_index, owner, id)
        /\ can_push(contract_index, target, id)
        /\ next_id' = next_id_taken
        /\ alerts' = Put(alerts, id, config)
        /\ owner_index' = push_index(owner_index, owner, id)
        /\ contract_index' = push_index(contract_index, target, id)
        /\ ttl' = [alert    |-> Extend(ttl.alert, {id}, DEFAULT_TTL),
                   owner    |-> Extend(ttl.owner, {owner}, DEFAULT_TTL),
                   contract |-> Extend(ttl.contract, {target}, DEFAULT_TTL),
                   counter  |-> AtLeast(AtLeast(ttl.counter, MIN_TTL), DEFAULT_TTL)]
        /\ UNCHANGED <<settings, clock>>

\* What update_alert, update_webhook, propose_webhook and confirm_webhook share.
owner_change(caller, id, config) ==
    /\ assert_not_paused
    /\ assert_owner(caller, id)
    /\ set_alert(id, [config EXCEPT !.updated_at = timestamp])

update_alert(owner, id, rules, active) ==
    /\ owner_change(owner, id, [alerts[id] EXCEPT !.rules = rules, !.active = active])
    /\ validate_rules(rules)

update_webhook(caller, id, hash) ==
    owner_change(caller, id, [alerts[id] EXCEPT !.webhook_hash = hash])

propose_webhook(caller, id, hash) ==
    owner_change(caller, id, [alerts[id] EXCEPT !.pending_webhook_hash = hash])

confirm_webhook(caller, id) ==
    /\ id \in DOMAIN alerts /\ alerts[id].pending_webhook_hash # None
    /\ owner_change(caller, id,
          [alerts[id] EXCEPT !.webhook_hash = alerts[id].pending_webhook_hash,
                             !.pending_webhook_hash = None])

\* The alerts of K and their index entries live on; counter is the new life of
\* the id counter.
renew(K, counter) ==
    /\ ttl' = [alert    |-> extend_alert_ttl(ttl.alert, K),
               owner    |-> extend_index_ttl(ttl.owner, {alerts[id].owner : id \in K}),
               contract |-> extend_index_ttl(ttl.contract,
                                {alerts[id].target_contract : id \in K}),
               counter  |-> counter]
    /\ UNCHANGED <<settings, next_id, alerts, indexes, clock>>

renew_alert_ttl(caller, id) ==
    /\ assert_not_paused
    /\ assert_owner(caller, id)
    /\ renew({id}, extend_next_id_ttl)

\* Neither the pause switch nor the counter is looked at; a batch that is too
\* large returns 0 and renews nothing.
bulk_renew_ttl(config_ids) ==
    /\ Cardinality(config_ids) <= MAX_BATCH_SIZE
    /\ renew(config_ids \cap DOMAIN alerts, ttl.counter)

remove_alert_record(id) ==
    LET owner  == alerts[id].owner
        target == alerts[id].target_contract
    IN  /\ alerts' = Drop(alerts, id)
        /\ owner_index' = remove_from_index(owner_index, owner, id)
        /\ contract_index' = remove_from_index(contract_index, target, id)
        /\ ttl' = [ttl EXCEPT !.alert = Drop(@, id),
                              !.owner = Extend(@, {owner}, DEFAULT_TTL),
                              !.contract = Extend(@, {target}, DEFAULT_TTL)]
        /\ UNCHANGED <<settings, next_id, clock>>

remove_alert(caller, id) ==
    /\ assert_not_paused
    /\ assert_owner(caller, id)
    /\ remove_alert_record(id)
-----------------------------------------------------------------------------
(* Administration.                                                         *)

set_admin(new_admin) ==
    /\ admin' = new_admin
    /\ UNCHANGED <<limit, paused, next_id, alerts, indexes, ttl, clock>>

\* Anyone may name the first admin.
initialize(new_admin) == admin = None /\ set_admin(new_admin)

transfer_admin(caller, new_admin) ==
    /\ assert_not_paused
    /\ assert_admin(caller)
    /\ set_admin(new_admin)

set_per_owner_alert_limit(caller, n) ==
    /\ assert_not_paused
    /\ assert_admin(caller)
    /\ limit' = n
    /\ UNCHANGED <<admin, paused, next_id, alerts, indexes, ttl, clock>>

remove_alert_by_admin(caller, id) ==
    /\ assert_not_paused
    /\ assert_admin(caller)
    /\ id \in DOMAIN alerts
    /\ remove_alert_record(id)

set_paused(caller, value) ==
    /\ assert_admin(caller)
    /\ paused' = value
    /\ UNCHANGED <<admin, limit, next_id, alerts, indexes, ttl, clock>>
-----------------------------------------------------------------------------
(* Reads.                                                                  *)

configs_for_ids(ids) == Keep(ids, DOMAIN alerts)

get_alerts_for_contract(target) == configs_for_ids(lookup(contract_index, target))

get_alerts_by_owner(owner) == configs_for_ids(lookup(owner_index, owner))

get_active_alert_count(owner) ==
    Cardinality(Positions(lookup(owner_index, owner), DOMAIN alerts))

get_alert_count_for_contract(target) ==
    Cardinality(Positions(lookup(contract_index, target), DOMAIN alerts))
-----------------------------------------------------------------------------
\* No entry runs out of life when the next ledger closes.
nothing_lapses ==
    /\ Survivors(ttl.alert) = DOMAIN ttl.alert
    /\ Survivors(ttl.owner) = DOMAIN ttl.owner
    /\ Survivors(ttl.contract) = DOMAIN ttl.contract
    /\ ttl.counter # 0

\* The ids that some entry still holds: as an alert's key, or in a list.
ids_in_use ==
    DOMAIN alerts
        \cup (UNION {Range(owner_index[o]) : o \in DOMAIN owner_index})
        \cup (UNION {Range(contract_index[t]) : t \in DOMAIN contract_index})

\* A ledger closes.  A counter whose life has run out reads as 0 from then on.
close_ledger ==
    /\ Archival \/ nothing_lapses
    /\ timestamp + LedgerSeconds <= MaxTime
    /\ timestamp' = timestamp + LedgerSeconds
    /\ alerts' = Restrict(alerts, Survivors(ttl.alert))
    /\ owner_index' = Restrict(owner_index, Survivors(ttl.owner))
    /\ contract_index' = Restrict(contract_index, Survivors(ttl.contract))
    /\ next_id' = IF ttl.counter = 0 THEN 0 ELSE next_id
    /\ ttl' = [alert |-> Age(ttl.alert), owner |-> Age(ttl.owner),
               contract |-> Age(ttl.contract),
               counter |-> IF ttl.counter >= 0 THEN ttl.counter - 1 ELSE -1]
    /\ restarted' = (restarted \/ (ttl.counter = 0 /\ ids_in_use' # {}))
    /\ UNCHANGED settings

admin_call ==
    \E caller \in Admins :
        \/ initialize(caller)
        \/ \E other \in Admins : transfer_admin(caller, other)
        \/ \E n \in Limits : set_per_owner_alert_limit(caller, n)
        \/ \E value \in PauseValues : set_paused(caller, value)
        \/ \E id \in Ids : remove_alert_by_admin(caller, id)

owner_call ==
    \E caller \in Owners :
        \/ \E target \in Targets, label \in Labels, hash \in Hashes, rules \in RuleLists :
              register_alert(caller, target, label, hash, rules)
        \/ \E id \in DOMAIN alerts :
              \/ \E rules \in RuleLists, active \in BOOLEAN :
                    update_alert(caller, id, rules, active)
              \/ \E hash \in Hashes : update_webhook(caller, id, hash)
              \/ \E hash \in Hashes : propose_webhook(caller, id, hash)
              \/ confirm_webhook(caller, id)
              \/ renew_alert_ttl(caller, id)
              \/ remove_alert(caller, id)

Next ==
    \/ admin_call
    \/ owner_call
    \/ \E ids \in SUBSET Ids : bulk_renew_ttl(ids)
    \/ close_ledger

Spec == Init /\ [][Next]_vars
-----------------------------------------------------------------------------
(* Properties.                                                             *)

owned(o) == {id \in DOMAIN alerts : alerts[id].owner = o}

watching(t) == {id \in DOMAIN alerts : alerts[id].target_contract = t}

\* "IDs are never recycled": a stored alert stays the alert of its owner, since no
\* registration lands on an id that is in use (next_id).  The code does not keep
\* this: the counter lapses under alerts that bulk_renew_ttl or an edit keeps.
AlertsKeepOwner ==
    [][\A id \in DOMAIN alerts \cap DOMAIN alerts' :
          /\ alerts'[id].owner = alerts[id].owner
          /\ alerts'[id].created_at = alerts[id].created_at]_vars

\* What the code keeps of it: no registration lands on an id in use until the
\* counter has lapsed under an id it had given, whatever else has lapsed, and also
\* after a lapse of the counter that left no id behind.
OwnersKeptUntilRestart ==
    [][~restarted =>
          \A id \in DOMAIN alerts \cap DOMAIN alerts' :
             /\ alerts'[id].owner = alerts[id].owner
             /\ alerts'[id].created_at = alerts[id].created_at]_vars

\* No read returns or counts an alert under an owner or a contract that is not its
\* own, and none returns or counts one twice.  The code does not keep this either:
\* a recycled id may stand in a list of the alert that had it before.
ReadsSound ==
    /\ \A o \in Owners :
          /\ Range(get_alerts_by_owner(o)) \subseteq owned(o)
          /\ get_active_alert_count(o) = Cardinality(Range(get_alerts_by_owner(o)))
    /\ \A t \in Targets :
          /\ Range(get_alerts_for_contract(t)) \subseteq watching(t)
          /\ get_alert_count_for_contract(t) = Cardinality(Range(get_alerts_for_contract(t)))

\* What the code keeps of it: whatever alerts and index entries have lapsed, been
\* written anew or written back, the reads are sound until the counter has lapsed
\* under an id that is still stored or listed.
SoundUntilRestart == ~restarted => ReadsSound

\* An owner whose alerts are all listed never gets past the limit by registering
\* one more (assert_per_owner_limit counts listed alerts that still exist).
LimitRespected ==
    [][\A o \in Owners :
          LET registers == ~(owned(o)' \subseteq owned(o))
              listed    == owned(o) \subseteq Range(lookup(owner_index, o))
          IN  (registers /\ listed /\ limit # None /\ limit > 0)
                  => Cardinality(owned(o)') <= limit]_vars
=============================================================================
