------------------------ MODULE AlertRegistryProofs ------------------------
(***************************************************************************)
(* Proofs about the AlertRegistry contract, for every set of owners,       *)
(* contracts, payloads and every value of the limits.                      *)
(*                                                                         *)
(* The invariant is kept as five parts that speak of disjoint matters: the *)
(* settings, the alerts, the lives of the entries, and the two indexes.    *)
(* An action's proof shows the parts it can disturb one by one; what the   *)
(* index helpers of the contract do to one index is proved once, in the    *)
(* lemmas that come first.                                                 *)
(***************************************************************************)
EXTENDS AlertRegistry, StorageProofs

\* A Vec of distinct ids, all handed out before the counter reached n.
GoodVec(ids, n) ==
    /\ ids \in Seq(Ids)
    /\ NoRepeats(ids)
    /\ Range(ids) \subseteq 0..(n - 1)

\* An index over Keys: its entries are non-empty good Vecs.
GoodIndex(index, Keys, n) ==
    /\ IsTable(index, Keys, Seq(Ids))
    /\ \A k \in DOMAIN index : index[k] # << >> /\ GoodVec(index[k], n)

\* The ids an index lists under k.
Listed(index, k) == Range(lookup(index, k))

\* An index lists a live alert only under the key that is its home.
Places(index, Keys, home) ==
    \A k \in Keys : \A id \in Listed(index, k) : id \in DOMAIN home => home[id] = k

owner_of == [id \in DOMAIN alerts |-> alerts[id].owner]
target_of == [id \in DOMAIN alerts |-> alerts[id].target_contract]
-----------------------------------------------------------------------------
(* The index helpers.                                                      *)

\* Reading an index gives a good Vec.
LEMMA LookupGood ==
    ASSUME NEW Keys, NEW n, NEW index, GoodIndex(index, Keys, n), NEW k
    PROVE  GoodVec(lookup(index, k), n)
<1>1. GoodVec(<< >>, n)
  BY DEF GoodVec, NoRepeats, Range
<1>2. QED
  BY <1>1 DEF lookup, GoodIndex

\* Nothing is listed under a key without an entry.
LEMMA ListedEntry ==
    ASSUME NEW index, NEW k
    PROVE  Listed(index, k) = IF k \in DOMAIN index THEN Range(index[k]) ELSE {}
<1>1. Range(<< >>) = {}
  BY DEF Range
<1>2. QED
  BY <1>1 DEF Listed, lookup

\* The counter only grows, and an index stays good when it does.
LEMMA GoodLater ==
    ASSUME NEW Keys, NEW m \in Nat, NEW n \in Nat, m <= n,
           NEW index, GoodIndex(index, Keys, m)
    PROVE  GoodIndex(index, Keys, n)
<1>1. 0..(m - 1) \subseteq 0..(n - 1)
  OBVIOUS
<1>2. QED
  BY <1>1 DEF GoodIndex, GoodVec

\* Writing a Vec back, or deleting the key when it is empty (#203), changes
\* what is listed under that key only.
LEMMA StoreLookup ==
    ASSUME NEW index, NEW key, NEW ids, NEW k
    PROVE  /\ k = key => lookup(store(index, key, ids), k) = ids
           /\ k # key => lookup(store(index, key, ids), k) = lookup(index, k)
<1>1. CASE ids = << >>
  <2>1. store(index, key, ids) = Drop(index, key)
    BY <1>1 DEF store
  <2>2. /\ DOMAIN Drop(index, key) = DOMAIN index \ {key}
        /\ k \in DOMAIN index \ {key} => Drop(index, key)[k] = index[k]
    BY DropEffect
  <2>3. QED
    BY <1>1, <2>1, <2>2 DEF lookup
<1>2. CASE ids # << >>
  <2>1. store(index, key, ids) = Put(index, key, ids)
    BY <1>2 DEF store
  <2>2. /\ DOMAIN Put(index, key, ids) = DOMAIN index \cup {key}
        /\ Put(index, key, ids)[key] = ids
        /\ k \in DOMAIN index \ {key} => Put(index, key, ids)[k] = index[k]
    BY DEF Put
  <2>3. QED
    BY <2>1, <2>2 DEF lookup
<1>3. QED
  BY <1>1, <1>2

\* No entry is ever an empty Vec.
LEMMA StoreDomain ==
    ASSUME NEW index, NEW key, NEW ids
    PROVE  /\ ids = << >> => DOMAIN store(index, key, ids) = DOMAIN index \ {key}
           /\ ids # << >> => DOMAIN store(index, key, ids) = DOMAIN index \cup {key}
<1>1. DOMAIN Drop(index, key) = DOMAIN index \ {key}
  BY DropEffect
<1>2. DOMAIN Put(index, key, ids) = DOMAIN index \cup {key}
  BY PutEffect
<1>3. QED
  BY <1>1, <1>2 DEF store

\* Writing a good Vec back keeps the index good.
LEMMA StoreGood ==
    ASSUME NEW Keys, NEW n, NEW index, GoodIndex(index, Keys, n),
           NEW key \in Keys, NEW ids, GoodVec(ids, n)
    PROVE  GoodIndex(store(index, key, ids), Keys, n)
<1> DEFINE new == store(index, key, ids)
<1>1. IsTable(index, Keys, Seq(Ids)) /\ ids \in Seq(Ids)
  BY DEF GoodIndex, GoodVec
<1>2. IsTable(new, Keys, Seq(Ids))
  <2>1. IsTable(Drop(index, key), Keys, Seq(Ids))
    BY <1>1, DropTable
  <2>2. IsTable(Put(index, key, ids), Keys, Seq(Ids))
    BY <1>1, PutTable
  <2>3. QED
    BY <2>1, <2>2 DEF store
<1>3. /\ ids = << >> => DOMAIN new = DOMAIN index \ {key}
      /\ ids # << >> => DOMAIN new = DOMAIN index \cup {key}
  BY StoreDomain
<1>4. ASSUME NEW k \in DOMAIN new
      PROVE  new[k] # << >> /\ GoodVec(new[k], n)
  <2>1. new[k] = lookup(new, k)
    BY DEF lookup
  <2>2. CASE k = key
    <3>1. ids # << >>
      BY <1>3, <2>2
    <3>2. new[k] = ids
      BY <2>1, <2>2, StoreLookup
    <3>3. QED
      BY <3>1, <3>2
  <2>3. CASE k # key
    <3>1. k \in DOMAIN index
      BY <1>3, <2>3
    <3>2. new[k] = lookup(index, k)
      BY <2>1, <2>3, StoreLookup
    <3>3. QED
      BY <3>1, <3>2 DEF lookup, GoodIndex
  <2>4. QED
    BY <2>2, <2>3
<1>5. QED
  BY <1>2, <1>4 DEF GoodIndex, new

\* The life store_ttl leaves behind belongs to an entry store leaves behind.
LEMMA StoreTtlEffect ==
    ASSUME NEW index, NEW key, NEW ids, NEW t, DOMAIN t = DOMAIN index
    PROVE  DOMAIN store_ttl(t, key, ids) = DOMAIN store(index, key, ids)
<1>1. CASE ids = << >>
  <2>1. DOMAIN Drop(t, key) = DOMAIN t \ {key}
    BY DropEffect
  <2>2. QED
    BY <1>1, <2>1, StoreDomain DEF store_ttl
<1>2. CASE ids # << >>
  <2>1. store_ttl(t, key, ids) = Extend(t, {key}, DEFAULT_TTL)
    BY <1>2 DEF store_ttl
  <2>2. DOMAIN store_ttl(t, key, ids) = DOMAIN t \cup {key}
    BY <2>1 DEF Extend
  <2>3. DOMAIN store(index, key, ids) = DOMAIN index \cup {key}
    BY <1>2, StoreDomain
  <2>4. QED
    BY <2>2, <2>3
<1>3. QED
  BY <1>1, <1>2

\* The lives store_ttl writes are natural numbers.
LEMMA StoreTtlTable ==
    ASSUME NEW Keys, NEW key \in Keys, NEW ids, NEW t, IsTable(t, Keys, Nat)
    PROVE  IsTable(store_ttl(t, key, ids), Keys, Nat)
<1>1. {key} \in SUBSET Keys /\ DEFAULT_TTL \in Nat
  BY ConstantsAssumption
<1>2. IsTable(Extend(t, {key}, DEFAULT_TTL), Keys, Nat)
  BY <1>1, ExtendTable
<1>3. IsTable(Drop(t, key), Keys, Nat)
  BY DropTable
<1>4. QED
  BY <1>2, <1>3 DEF store_ttl

\* The push helpers, whose DuplicateAlertId check is can_push, list the id
\* under the key it is pushed to, beside what was listed there.
LEMMA PushEffect ==
    ASSUME NEW Keys, NEW n, NEW index, GoodIndex(index, Keys, n),
           NEW key \in Keys, NEW id \in Ids, NEW k
    PROVE  /\ k = key => Listed(push_index(index, key, id), k)
                            = Listed(index, k) \cup {id}
           /\ k # key => Listed(push_index(index, key, id), k) = Listed(index, k)
<1> DEFINE old == lookup(index, key)
           ids == Append(old, id)
<1>1. old \in Seq(Ids)
  BY LookupGood DEF GoodVec
<1>2. ids # << >> /\ Range(ids) = Range(old) \cup {id}
  BY <1>1, AppendFacts
<1>3. push_index(index, key, id) = store(index, key, ids)
  BY <1>2 DEF push_index, store
<1> HIDE DEF ids
<1>4. /\ k = key => lookup(store(index, key, ids), k) = ids
      /\ k # key => lookup(store(index, key, ids), k) = lookup(index, k)
  BY StoreLookup
<1>5. QED
  BY <1>2, <1>3, <1>4 DEF Listed

\* Pushing an id that is not yet listed keeps the index good.
LEMMA PushGood ==
    ASSUME NEW Keys, NEW n, NEW index, GoodIndex(index, Keys, n),
           NEW key \in Keys, NEW id \in Ids, id \in 0..(n - 1),
           can_push(index, key, id)
    PROVE  GoodIndex(push_index(index, key, id), Keys, n)
<1> DEFINE old == lookup(index, key)
           ids == Append(old, id)
<1>1. GoodVec(old, n)
  BY LookupGood
<1>2. id \notin Range(old)
  BY DEF can_push
<1>3. /\ ids \in Seq(Ids) /\ ids # << >>
      /\ Range(ids) = Range(old) \cup {id}
      /\ NoRepeats(ids)
  BY <1>1, <1>2, AppendFacts DEF GoodVec
<1>4. push_index(index, key, id) = store(index, key, ids)
  BY <1>3 DEF push_index, store
<1> HIDE DEF ids, old
<1>5. GoodVec(ids, n)
  BY <1>1, <1>3 DEF GoodVec
<1>6. QED
  BY <1>4, <1>5, StoreGood

\* A push creates the key's entry if need be.
LEMMA PushDomain ==
    ASSUME NEW index, NEW key, NEW id
    PROVE  DOMAIN push_index(index, key, id) = DOMAIN index \cup {key}
BY PutEffect DEF push_index

\* remove_from_owner_index and remove_from_contract_index: the id is listed no
\* more under that key, and nothing else is lost.
LEMMA RemoveEffect ==
    ASSUME NEW Keys, NEW n, NEW index, GoodIndex(index, Keys, n),
           NEW key, NEW id, NEW k
    PROVE  /\ k = key => Listed(remove_from_index(index, key, id), k)
                            = Listed(index, k) \ {id}
           /\ k # key => Listed(remove_from_index(index, key, id), k)
                            = Listed(index, k)
<1> DEFINE ids == Without(lookup(index, key), id)
<1>1. lookup(index, key) \in Seq(Ids)
  BY LookupGood DEF GoodVec
<1>2. Range(ids) = Range(lookup(index, key)) \ {id}
  BY <1>1, WithoutFacts
<1>3. remove_from_index(index, key, id) = store(index, key, ids)
  BY DEF remove_from_index
<1>4. /\ k = key => lookup(store(index, key, ids), k) = ids
      /\ k # key => lookup(store(index, key, ids), k) = lookup(index, k)
  BY StoreLookup
<1>5. QED
  BY <1>2, <1>3, <1>4 DEF Listed

\* A removal keeps the index good: the entry is deleted when its last id goes.
LEMMA RemoveGood ==
    ASSUME NEW Keys, NEW n, NEW index, GoodIndex(index, Keys, n),
           NEW key \in Keys, NEW id
    PROVE  GoodIndex(remove_from_index(index, key, id), Keys, n)
<1> DEFINE old == lookup(index, key)
           ids == Without(old, id)
<1>1. GoodVec(old, n)
  BY LookupGood
<1>2. ids \in Seq(Ids) /\ Range(ids) = Range(old) \ {id} /\ NoRepeats(ids)
  BY <1>1, WithoutFacts DEF GoodVec
<1>3. remove_from_index(index, key, id) = store(index, key, ids)
  BY DEF remove_from_index
<1> HIDE DEF ids, old
<1>4. GoodVec(ids, n)
  BY <1>1, <1>2 DEF GoodVec
<1>5. QED
  BY <1>3, <1>4, StoreGood

\* A removal extends or deletes the life of the very entry it leaves or deletes.
LEMMA RemoveTtlEffect ==
    ASSUME NEW index, NEW key, NEW id, NEW t, DOMAIN t = DOMAIN index
    PROVE  DOMAIN remove_from_index_ttl(t, index, key, id)
              = DOMAIN remove_from_index(index, key, id)
BY StoreTtlEffect DEF remove_from_index, remove_from_index_ttl

\* The lives a removal writes are natural numbers.
LEMMA RemoveTtlTable ==
    ASSUME NEW Keys, NEW index, NEW key \in Keys, NEW id,
           NEW t, IsTable(t, Keys, Nat)
    PROVE  IsTable(remove_from_index_ttl(t, index, key, id), Keys, Nat)
BY StoreTtlTable DEF remove_from_index_ttl
-----------------------------------------------------------------------------
(* The inductive invariant, in parts.                                      *)

SettingsOK ==
    /\ initialized \in BOOLEAN
    /\ admins \in Seq(Admins)
    /\ limit \in Limits \cup {0}
    /\ paused \in BOOLEAN
    /\ watcher_registry \in Registries \cup {None}
    /\ timestamp \in Nat

AlertsOK ==
    /\ next_id \in 0..U64_MAX
    /\ IsTable(alerts, Ids, AlertConfig)
    /\ IsTable(alert_active, Ids, BOOLEAN)
    /\ DOMAIN alerts \subseteq 0..(next_id - 1)
    /\ DOMAIN alert_active \subseteq 0..(next_id - 1)

\* The model keeps an entry and its life in two tables; together they are the one
\* entry the host has.
LivesMatchEntries ==
    /\ DOMAIN ttl.alert = DOMAIN alerts
    /\ DOMAIN ttl.active = DOMAIN alert_active
    /\ DOMAIN ttl.owner = DOMAIN owner_index
    /\ DOMAIN ttl.contract = DOMAIN contract_index

LivesOK == TtlTypeOK /\ LivesMatchEntries

OwnersOK ==
    /\ GoodIndex(owner_index, Owners, next_id)
    /\ Places(owner_index, Owners, owner_of)

ContractsOK ==
    /\ GoodIndex(contract_index, Targets, next_id)
    /\ Places(contract_index, Targets, target_of)

IInv == SettingsOK /\ AlertsOK /\ LivesOK /\ OwnersOK /\ ContractsOK

\* The inductive invariant implies the invariants the model checker checks.
LEMMA IInvImplies ==
    IInv => TypeOK /\ IdsBelowCounter /\ IndexesWellFormed /\ IndexesSound
<1> SUFFICES ASSUME IInv
             PROVE  TypeOK /\ IdsBelowCounter /\ IndexesWellFormed /\ IndexesSound
  OBVIOUS
<1> USE DEF IInv
<1>1. TypeOK
  BY DEF TypeOK, SettingsOK, AlertsOK, LivesOK, OwnersOK, ContractsOK, GoodIndex
<1>2. IdsBelowCounter /\ IndexesWellFormed
  BY DEF IdsBelowCounter, IndexesWellFormed, AlertsOK, OwnersOK, ContractsOK,
         GoodIndex, GoodVec
<1>3. OwnerIndexSound
  <2>1. SUFFICES ASSUME NEW o \in DOMAIN owner_index, NEW id \in Range(owner_index[o]),
                        id \in DOMAIN alerts
                 PROVE  alerts[id].owner = o
    BY DEF OwnerIndexSound
  <2>2. o \in Owners
    BY DEF OwnersOK, GoodIndex, IsTable
  <2>3. id \in Listed(owner_index, o)
    BY ListedEntry
  <2>4. QED
    BY <2>1, <2>2, <2>3 DEF OwnersOK, Places, owner_of
<1>4. ContractIndexSound
  <2>1. SUFFICES ASSUME NEW t \in DOMAIN contract_index,
                        NEW id \in Range(contract_index[t]), id \in DOMAIN alerts
                 PROVE  alerts[id].target_contract = t
    BY DEF ContractIndexSound
  <2>2. t \in Targets
    BY DEF ContractsOK, GoodIndex, IsTable
  <2>3. id \in Listed(contract_index, t)
    BY ListedEntry
  <2>4. QED
    BY <2>1, <2>2, <2>3 DEF ContractsOK, Places, target_of
<1>5. QED
  BY <1>1, <1>2, <1>3, <1>4 DEF IndexesSound

\* A freshly deployed contract satisfies the invariant.
LEMMA InitIInv == Init => IInv
<1> SUFFICES ASSUME Init
             PROVE  IInv
  OBVIOUS
<1>1. \A D, S : IsTable(NoEntries, D, S)
  BY DEF IsTable, NoEntries
<1>2. DOMAIN NoEntries = {}
  BY DEF NoEntries
<1>3. SettingsOK
  <2>1. << >> \in Seq(Admins) /\ 0 \in Nat
    OBVIOUS
  <2>2. QED
    BY <2>1, Zenon DEF Init, SettingsOK
<1>4. AlertsOK
  BY <1>1, <1>2, ConstantsAssumption DEF Init, AlertsOK
<1>5. LivesOK
  BY <1>1, <1>2, MinTtlAssumption DEF Init, LivesOK, TtlTypeOK, LivesMatchEntries
<1>6. \A Keys, n : GoodIndex(NoEntries, Keys, n)
  BY <1>1, <1>2 DEF GoodIndex
<1>7. \A Keys, home : Places(NoEntries, Keys, home)
  BY <1>2, ListedEntry DEF Places
<1>8. OwnersOK /\ ContractsOK
  BY <1>6, <1>7 DEF Init, OwnersOK, ContractsOK
<1>9. QED
  BY <1>3, <1>4, <1>5, <1>8 DEF IInv
-----------------------------------------------------------------------------
(* How the parts are carried over a step.                                  *)

\* The lives after a call that extends the entries of some alerts, flags,
\* owners and contracts, each of them an entry it leaves behind.
LEMMA LivesStep ==
    ASSUME LivesOK, NEW n \in Nat,
           NEW KA \in SUBSET Ids, NEW KF \in SUBSET Ids,
           NEW KO \in SUBSET Owners, NEW KC \in SUBSET Targets,
           NEW e \in Nat \cup {-1},
           ttl' = [alert    |-> Extend(ttl.alert, KA, n),
                   active   |-> Extend(ttl.active, KF, n),
                   owner    |-> Extend(ttl.owner, KO, n),
                   contract |-> Extend(ttl.contract, KC, n),
                   instance |-> e],
           DOMAIN alerts' = DOMAIN alerts \cup KA,
           DOMAIN alert_active' = DOMAIN alert_active \cup KF,
           DOMAIN owner_index' = DOMAIN owner_index \cup KO,
           DOMAIN contract_index' = DOMAIN contract_index \cup KC
    PROVE  LivesOK'
<1>1. /\ IsTable(ttl.alert, Ids, Nat) /\ IsTable(ttl.active, Ids, Nat)
      /\ IsTable(ttl.owner, Owners, Nat) /\ IsTable(ttl.contract, Targets, Nat)
  BY DEF LivesOK, TtlTypeOK
<1>2. IsTable(ttl'.alert, Ids, Nat)
  BY <1>1, ExtendTable
<1>3. IsTable(ttl'.active, Ids, Nat)
  BY <1>1, ExtendTable
<1>4. IsTable(ttl'.owner, Owners, Nat)
  BY <1>1, ExtendTable
<1>5. IsTable(ttl'.contract, Targets, Nat)
  BY <1>1, ExtendTable
<1>6. TtlTypeOK'
  BY <1>2, <1>3, <1>4, <1>5 DEF TtlTypeOK
<1>7. /\ DOMAIN ttl'.alert = DOMAIN ttl.alert \cup KA
      /\ DOMAIN ttl'.active = DOMAIN ttl.active \cup KF
      /\ DOMAIN ttl'.owner = DOMAIN ttl.owner \cup KO
      /\ DOMAIN ttl'.contract = DOMAIN ttl.contract \cup KC
  BY DEF Extend
<1>8. LivesMatchEntries'
  BY <1>7 DEF LivesOK, LivesMatchEntries
<1>9. QED
  BY <1>6, <1>8 DEF LivesOK

\* A field of ttl that a call leaves alone is one it extends for no key.
LEMMA LivesKept ==
    ASSUME LivesOK, NEW n
    PROVE  /\ ttl = [alert    |-> Extend(ttl.alert, {}, n),
                     active   |-> Extend(ttl.active, {}, n),
                     owner    |-> Extend(ttl.owner, {}, n),
                     contract |-> Extend(ttl.contract, {}, n),
                     instance |-> ttl.instance]
           /\ ttl.alert = Extend(ttl.alert, {}, n)
           /\ ttl.active = Extend(ttl.active, {}, n)
           /\ ttl.owner = Extend(ttl.owner, {}, n)
           /\ ttl.contract = Extend(ttl.contract, {}, n)
           /\ ttl.instance \in Nat \cup {-1}
<1>1. ttl.alert = Extend(ttl.alert, {}, n)
  BY ExtendNothing DEF LivesOK, TtlTypeOK
<1>2. ttl.active = Extend(ttl.active, {}, n)
  BY ExtendNothing DEF LivesOK, TtlTypeOK
<1>3. ttl.owner = Extend(ttl.owner, {}, n)
  BY ExtendNothing DEF LivesOK, TtlTypeOK
<1>4. ttl.contract = Extend(ttl.contract, {}, n)
  BY ExtendNothing DEF LivesOK, TtlTypeOK
<1>5. QED
  BY <1>1, <1>2, <1>3, <1>4 DEF LivesOK, TtlTypeOK

\* An index that is not written stays sound while the alerts that remain keep
\* their owners and targets.
LEMMA IndexesKept ==
    ASSUME OwnersOK, ContractsOK, UNCHANGED indexes, UNCHANGED next_id,
           \A id \in DOMAIN alerts' :
              /\ id \in DOMAIN alerts
              /\ alerts'[id].owner = alerts[id].owner
              /\ alerts'[id].target_contract = alerts[id].target_contract
    PROVE  OwnersOK' /\ ContractsOK'
<1>1. OwnersOK'
  BY DEF OwnersOK, indexes, Places, owner_of
<1>2. ContractsOK'
  BY DEF ContractsOK, indexes, Places, target_of
<1>3. QED
  BY <1>1, <1>2

\* A step that changes no stored entry keeps every part but the settings.
LEMMA StorageKept ==
    ASSUME IInv, UNCHANGED <<next_id, alerts, alert_active, indexes, ttl>>
    PROVE  AlertsOK' /\ LivesOK' /\ OwnersOK' /\ ContractsOK'
BY DEF IInv, AlertsOK, LivesOK, TtlTypeOK, LivesMatchEntries, OwnersOK, ContractsOK,
       GoodIndex, Places, owner_of, target_of, indexes

\* The settings part only speaks of the settings and the clock.
LEMMA SettingsKept ==
    ASSUME SettingsOK, UNCHANGED settings, UNCHANGED timestamp
    PROVE  SettingsOK'
BY DEF SettingsOK, settings
-----------------------------------------------------------------------------
(* The actions.                                                            *)

\* initialize and the calls of the administrators that set a setting.
LEMMA SettingsCalls ==
    ASSUME IInv, NEW admin \in Admins, NEW other \in Admins,
           \/ initialize(admin)
           \/ transfer_admin(admin, other)
           \/ add_admin(admin, other)
           \/ remove_admin(admin, other)
           \/ \E n \in Limits : set_per_owner_alert_limit(admin, n)
           \/ \E value \in PauseValues : set_paused(admin, value)
           \/ \E registry \in Registries : set_watcher_registry(admin, registry)
    PROVE  IInv'
<1>1. UNCHANGED <<next_id, alerts, alert_active, indexes, ttl>>
  BY DEF initialize, transfer_admin, add_admin, remove_admin, set_admins,
         set_per_owner_alert_limit, set_paused, set_watcher_registry, indexes
<1>2. SettingsOK
  BY DEF IInv
<1>3. SettingsOK'
  <2>1. CASE initialize(admin)
    BY <1>2, <2>1 DEF SettingsOK, initialize
  <2>2. CASE transfer_admin(admin, other)
    BY <1>2, <2>2 DEF SettingsOK, transfer_admin, set_admins
  <2>3. CASE add_admin(admin, other)
    BY <1>2, <2>3 DEF SettingsOK, add_admin, set_admins
  <2>4. CASE remove_admin(admin, other)
    BY <1>2, <2>4, WithoutFacts DEF SettingsOK, remove_admin, set_admins
  <2>5. ASSUME NEW n \in Limits, set_per_owner_alert_limit(admin, n)
        PROVE  SettingsOK'
    BY <1>2, <2>5 DEF SettingsOK, set_per_owner_alert_limit
  <2>6. ASSUME NEW value \in PauseValues, set_paused(admin, value)
        PROVE  SettingsOK'
    BY <1>2, <2>6, ConstantsAssumption DEF SettingsOK, set_paused
  <2>7. ASSUME NEW registry \in Registries, set_watcher_registry(admin, registry)
        PROVE  SettingsOK'
    BY <1>2, <2>7 DEF SettingsOK, set_watcher_registry
  <2>8. QED
    BY <2>1, <2>2, <2>3, <2>4, <2>5, <2>6, <2>7
<1>4. QED
  BY <1>1, <1>3, StorageKept DEF IInv

\* Writing back an alert that keeps its owner and its target.
LEMMA AmendStep ==
    ASSUME IInv, NEW id \in DOMAIN alerts, NEW config \in AlertConfig,
           config.owner = alerts[id].owner,
           config.target_contract = alerts[id].target_contract,
           amend(id, config), UNCHANGED indexes,
           \/ UNCHANGED alert_active
           \/ \E v \in BOOLEAN : set_active_flag(id, v)
    PROVE  /\ SettingsOK' /\ AlertsOK' /\ OwnersOK' /\ ContractsOK'
           /\ DOMAIN alerts' = DOMAIN alerts
<1>1. /\ AlertsOK /\ OwnersOK /\ ContractsOK /\ SettingsOK
      /\ next_id' = next_id /\ UNCHANGED next_id
      /\ UNCHANGED settings /\ UNCHANGED timestamp
      /\ alerts' = [alerts EXCEPT ![id] = config]
  BY DEF IInv, amend
<1>2. IsTable(alerts, Ids, AlertConfig) /\ id \in Ids /\ id \in 0..(next_id - 1)
  BY <1>1 DEF AlertsOK, IsTable
<1>3. /\ IsTable(alerts', Ids, AlertConfig)
      /\ DOMAIN alerts' = DOMAIN alerts
      /\ \A x \in DOMAIN alerts : alerts'[x] = IF x = id THEN config ELSE alerts[x]
  BY <1>1, <1>2 DEF IsTable
<1>4. /\ IsTable(alert_active', Ids, BOOLEAN)
      /\ DOMAIN alert_active' \subseteq DOMAIN alert_active \cup {id}
  <2>1. IsTable(alert_active, Ids, BOOLEAN)
    BY <1>1 DEF AlertsOK
  <2>2. CASE UNCHANGED alert_active
    BY <2>1, <2>2
  <2>3. CASE \E v \in BOOLEAN : set_active_flag(id, v)
    <3>1. PICK v \in BOOLEAN : alert_active' = Put(alert_active, id, v)
      BY <2>3 DEF set_active_flag
    <3>2. IsTable(Put(alert_active, id, v), Ids, BOOLEAN)
      BY <1>2, <2>1, PutTable
    <3>3. QED
      BY <3>1, <3>2 DEF Put
  <2>4. QED
    BY <2>2, <2>3
<1>5. AlertsOK'
  BY <1>1, <1>2, <1>3, <1>4 DEF AlertsOK
<1>6. OwnersOK' /\ ContractsOK'
  BY <1>1, <1>3, IndexesKept
<1>7. QED
  BY <1>1, <1>3, <1>5, <1>6, SettingsKept

\* The keys of a live alert's index entries are of the right kind.
LEMMA AlertFacts ==
    ASSUME IInv, NEW id \in DOMAIN alerts
    PROVE  /\ id \in Ids /\ id \in 0..(next_id - 1)
           /\ alerts[id] \in AlertConfig
           /\ alerts[id].owner \in Owners
           /\ alerts[id].target_contract \in Targets
<1>1. id \in Ids /\ id \in 0..(next_id - 1) /\ alerts[id] \in AlertConfig
  BY DEF IInv, AlertsOK, IsTable
<1>2. QED
  BY <1>1 DEF AlertConfig

\* Switching an alert on or off, by its owner or by an administrator.
LEMMA FlagCalls ==
    ASSUME IInv, NEW id \in Ids, NEW active \in BOOLEAN,
           \/ \E admin \in Admins : set_alert_active_by_admin(admin, id, active)
           \/ \E caller \in Owners, rules \in RuleLists :
                 update_alert(caller, id, rules, active)
    PROVE  IInv'
<1>1. LivesOK /\ timestamp \in Nat /\ DEFAULT_TTL \in Nat
  BY ConstantsAssumption DEF IInv, SettingsOK
<1>2. ASSUME NEW admin \in Admins, set_alert_active_by_admin(admin, id, active)
      PROVE  IInv'
  <2> DEFINE config == [alerts[id] EXCEPT !.active = active, !.updated_at = timestamp]
  <2>1. /\ id \in DOMAIN alerts /\ amend(id, config) /\ UNCHANGED indexes
        /\ set_active_flag(id, active)
    BY <1>2 DEF set_alert_active_by_admin
  <2>2. alerts[id] \in AlertConfig
    BY <2>1, AlertFacts
  <2>3. /\ config \in AlertConfig
        /\ config.owner = alerts[id].owner
        /\ config.target_contract = alerts[id].target_contract
    BY <1>1, <2>2 DEF AlertConfig
  <2> HIDE DEF config
  <2>4. /\ SettingsOK' /\ AlertsOK' /\ OwnersOK' /\ ContractsOK'
        /\ DOMAIN alerts' = DOMAIN alerts
    BY <2>1, <2>3, AmendStep
  <2>5. ttl' = [alert    |-> Extend(ttl.alert, {id}, DEFAULT_TTL),
                active   |-> Extend(ttl.active, {id}, DEFAULT_TTL),
                owner    |-> Extend(ttl.owner, {}, DEFAULT_TTL),
                contract |-> Extend(ttl.contract, {}, DEFAULT_TTL),
                instance |-> ttl.instance]
    <3>1. /\ ttl.owner = Extend(ttl.owner, {}, DEFAULT_TTL)
          /\ ttl.contract = Extend(ttl.contract, {}, DEFAULT_TTL)
      BY <1>1, LivesKept
    <3>2. QED
      BY <1>1, <1>2, <3>1 DEF set_alert_active_by_admin, LivesOK, TtlTypeOK
  <2>6. DOMAIN alert_active' = DOMAIN alert_active \cup {id}
    BY <2>1 DEF set_active_flag, Put
  <2>7. LivesOK'
    <3>1. /\ {id} \in SUBSET Ids /\ {} \in SUBSET Owners /\ {} \in SUBSET Targets
          /\ ttl.instance \in Nat \cup {-1}
      BY <1>1 DEF LivesOK, TtlTypeOK
    <3>2. /\ DOMAIN alerts' = DOMAIN alerts \cup {id}
          /\ DOMAIN owner_index' = DOMAIN owner_index \cup {}
          /\ DOMAIN contract_index' = DOMAIN contract_index \cup {}
      BY <2>1, <2>4 DEF indexes
    <3>3. QED
      BY <1>1, <2>5, <2>6, <3>1, <3>2, LivesStep
  <2>8. QED
    BY <2>4, <2>7 DEF IInv
<1>3. ASSUME NEW caller \in Owners, NEW rules \in RuleLists,
             update_alert(caller, id, rules, active)
      PROVE  IInv'
  <2> DEFINE config == [alerts[id] EXCEPT !.rules = rules, !.active = active,
                                          !.updated_at = timestamp]
             target == alerts[id].target_contract
  <2>1. /\ id \in DOMAIN alerts /\ amend(id, config) /\ UNCHANGED indexes
        /\ set_active_flag(id, active) /\ index_keys_live(id)
        /\ alerts[id].owner = caller
    BY <1>3 DEF update_alert, assert_owner
  <2>2. alerts[id] \in AlertConfig /\ target \in Targets
    BY <2>1, AlertFacts
  <2>3. /\ config \in AlertConfig
        /\ config.owner = alerts[id].owner
        /\ config.target_contract = alerts[id].target_contract
    BY <1>1, <2>2 DEF AlertConfig
  <2> HIDE DEF config
  <2>4. /\ SettingsOK' /\ AlertsOK' /\ OwnersOK' /\ ContractsOK'
        /\ DOMAIN alerts' = DOMAIN alerts
    BY <2>1, <2>3, AmendStep
  <2>5. ttl' = [alert    |-> Extend(ttl.alert, {id}, DEFAULT_TTL),
                active   |-> Extend(ttl.active, {id}, DEFAULT_TTL),
                owner    |-> Extend(ttl.owner, {caller}, DEFAULT_TTL),
                contract |-> Extend(ttl.contract, {target}, DEFAULT_TTL),
                instance |-> ttl.instance]
    BY <1>1, <1>3 DEF update_alert, LivesOK, TtlTypeOK
  <2>6. DOMAIN alert_active' = DOMAIN alert_active \cup {id}
    BY <2>1 DEF set_active_flag, Put
  <2>7. LivesOK'
    <3>1. /\ {id} \in SUBSET Ids /\ {caller} \in SUBSET Owners
          /\ {target} \in SUBSET Targets
          /\ ttl.instance \in Nat \cup {-1}
      BY <1>1, <2>2 DEF LivesOK, TtlTypeOK
    <3>2. /\ DOMAIN alerts' = DOMAIN alerts \cup {id}
          /\ DOMAIN owner_index' = DOMAIN owner_index \cup {caller}
          /\ DOMAIN contract_index' = DOMAIN contract_index \cup {target}
      BY <2>1, <2>4 DEF indexes, index_keys_live
    <3> HIDE DEF target
    <3>3. QED
      BY <1>1, <2>5, <2>6, <3>1, <3>2, LivesStep
  <2>8. QED
    BY <2>4, <2>7 DEF IInv
<1>4. QED
  BY <1>2, <1>3

\* An edit of one alert that writes no flag, whichever of the two tails it ends
\* with.
LEMMA EditStep ==
    ASSUME IInv, NEW id \in DOMAIN alerts, NEW config \in AlertConfig,
           config.owner = alerts[id].owner,
           config.target_contract = alerts[id].target_contract,
           amend(id, config),
           extend_alert_and_indexes(id) \/ extend_alert_only(id)
    PROVE  IInv'
<1> DEFINE owner == alerts[id].owner
           target == alerts[id].target_contract
<1>1. UNCHANGED indexes /\ UNCHANGED alert_active
  BY DEF extend_alert_and_indexes, extend_alert_only
<1>2. /\ SettingsOK' /\ AlertsOK' /\ OwnersOK' /\ ContractsOK'
      /\ DOMAIN alerts' = DOMAIN alerts
  BY <1>1, AmendStep
<1>3. /\ LivesOK /\ DEFAULT_TTL \in Nat /\ ttl.instance \in Nat \cup {-1}
      /\ id \in Ids /\ owner \in Owners /\ target \in Targets
  BY AlertFacts, ConstantsAssumption DEF IInv, LivesOK, TtlTypeOK
<1>4. /\ ttl.active = Extend(ttl.active, {}, DEFAULT_TTL)
      /\ ttl.owner = Extend(ttl.owner, {}, DEFAULT_TTL)
      /\ ttl.contract = Extend(ttl.contract, {}, DEFAULT_TTL)
  BY <1>3, LivesKept
<1>5. /\ {id} \in SUBSET Ids /\ {} \in SUBSET Ids
      /\ {} \in SUBSET Owners /\ {} \in SUBSET Targets
      /\ {owner} \in SUBSET Owners /\ {target} \in SUBSET Targets
      /\ DOMAIN alerts' = DOMAIN alerts \cup {id}
      /\ DOMAIN alert_active' = DOMAIN alert_active \cup {}
      /\ DOMAIN owner_index' = DOMAIN owner_index \cup {}
      /\ DOMAIN contract_index' = DOMAIN contract_index \cup {}
  BY <1>1, <1>2, <1>3 DEF indexes
<1>6. LivesOK'
  <2>1. CASE extend_alert_and_indexes(id)
    <3>1. ttl' = [alert    |-> Extend(ttl.alert, {id}, DEFAULT_TTL),
                  active   |-> Extend(ttl.active, {}, DEFAULT_TTL),
                  owner    |-> Extend(ttl.owner, {owner}, DEFAULT_TTL),
                  contract |-> Extend(ttl.contract, {target}, DEFAULT_TTL),
                  instance |-> ttl.instance]
      BY <1>3, <1>4, <2>1 DEF extend_alert_and_indexes, LivesOK, TtlTypeOK
    <3>2. /\ DOMAIN owner_index' = DOMAIN owner_index \cup {owner}
          /\ DOMAIN contract_index' = DOMAIN contract_index \cup {target}
      BY <1>1, <2>1 DEF extend_alert_and_indexes, index_keys_live, indexes
    <3> HIDE DEF owner, target
    <3>3. QED
      BY <1>3, <1>5, <3>1, <3>2, LivesStep
  <2>2. CASE extend_alert_only(id)
    <3>1. ttl' = [alert    |-> Extend(ttl.alert, {id}, DEFAULT_TTL),
                  active   |-> Extend(ttl.active, {}, DEFAULT_TTL),
                  owner    |-> Extend(ttl.owner, {}, DEFAULT_TTL),
                  contract |-> Extend(ttl.contract, {}, DEFAULT_TTL),
                  instance |-> ttl.instance]
      BY <1>3, <1>4, <2>2 DEF extend_alert_only, LivesOK, TtlTypeOK
    <3>2. QED
      BY <1>3, <1>5, <3>1, LivesStep
  <2>3. QED
    BY <2>1, <2>2
<1>7. QED
  BY <1>2, <1>6 DEF IInv

\* Changes of the webhook, the label and the tags.
LEMMA EditCalls ==
    ASSUME IInv, NEW caller \in Owners, NEW id \in Ids,
           \/ \E hash \in Hashes : update_webhook(caller, id, hash)
           \/ \E hash \in Hashes : propose_webhook(caller, id, hash)
           \/ confirm_webhook(caller, id)
           \/ \E label \in Labels : update_label(caller, id, label)
           \/ \E tags \in TagLists \cup {None} : update_tags(caller, id, tags)
    PROVE  IInv'
<1>1. id \in DOMAIN alerts
  BY DEF update_webhook, propose_webhook, confirm_webhook, update_label, update_tags,
         assert_owner
<1>2. alerts[id] \in AlertConfig /\ timestamp \in Nat
  BY <1>1, AlertFacts DEF IInv, SettingsOK
<1>3. ASSUME NEW hash \in Hashes, update_webhook(caller, id, hash)
      PROVE  IInv'
  <2> DEFINE config == [alerts[id] EXCEPT !.webhook_hash = hash, !.updated_at = timestamp]
  <2>1. /\ config \in AlertConfig
        /\ config.owner = alerts[id].owner
        /\ config.target_contract = alerts[id].target_contract
    BY <1>2 DEF AlertConfig
  <2>2. amend(id, config) /\ extend_alert_and_indexes(id)
    BY <1>3 DEF update_webhook
  <2> HIDE DEF config
  <2>3. QED
    BY <1>1, <2>1, <2>2, EditStep
<1>4. ASSUME NEW hash \in Hashes, propose_webhook(caller, id, hash)
      PROVE  IInv'
  <2> DEFINE config == [alerts[id] EXCEPT !.pending_webhook_hash = hash,
                                          !.updated_at = timestamp]
  <2>1. /\ config \in AlertConfig
        /\ config.owner = alerts[id].owner
        /\ config.target_contract = alerts[id].target_contract
    BY <1>2 DEF AlertConfig
  <2>2. amend(id, config) /\ extend_alert_only(id)
    BY <1>4 DEF propose_webhook
  <2> HIDE DEF config
  <2>3. QED
    BY <1>1, <2>1, <2>2, EditStep
<1>5. ASSUME confirm_webhook(caller, id)
      PROVE  IInv'
  <2> DEFINE config == [alerts[id] EXCEPT
                           !.webhook_hash = alerts[id].pending_webhook_hash,
                           !.pending_webhook_hash = None,
                           !.updated_at = timestamp]
  <2>1. alerts[id].pending_webhook_hash \in Hashes
    BY <1>2, <1>5 DEF AlertConfig, confirm_webhook
  <2>2. /\ config \in AlertConfig
        /\ config.owner = alerts[id].owner
        /\ config.target_contract = alerts[id].target_contract
    BY <1>2, <2>1 DEF AlertConfig
  <2>3. amend(id, config) /\ extend_alert_only(id)
    BY <1>5 DEF confirm_webhook
  <2> HIDE DEF config
  <2>4. QED
    BY <1>1, <2>2, <2>3, EditStep
<1>6. ASSUME NEW label \in Labels, update_label(caller, id, label)
      PROVE  IInv'
  <2> DEFINE config == [alerts[id] EXCEPT !.label = label, !.updated_at = timestamp]
  <2>1. /\ config \in AlertConfig
        /\ config.owner = alerts[id].owner
        /\ config.target_contract = alerts[id].target_contract
    BY <1>2 DEF AlertConfig
  <2>2. amend(id, config) /\ extend_alert_and_indexes(id)
    BY <1>6 DEF update_label
  <2> HIDE DEF config
  <2>3. QED
    BY <1>1, <2>1, <2>2, EditStep
<1>7. ASSUME NEW tags \in TagLists \cup {None}, update_tags(caller, id, tags)
      PROVE  IInv'
  <2> DEFINE config == [alerts[id] EXCEPT !.tags = tags, !.updated_at = timestamp]
  <2>1. /\ config \in AlertConfig
        /\ config.owner = alerts[id].owner
        /\ config.target_contract = alerts[id].target_contract
    BY <1>2 DEF AlertConfig
  <2>2. amend(id, config) /\ extend_alert_only(id)
    BY <1>7 DEF update_tags
  <2> HIDE DEF config
  <2>3. QED
    BY <1>1, <2>1, <2>2, EditStep
<1>8. QED
  BY <1>3, <1>4, <1>5, <1>6, <1>7

\* Renewals change nothing but lives, and extend only entries that exist,
\* whatever life is asked for.
LEMMA RenewalCalls ==
    ASSUME IInv,
           \/ \E id \in Ids, life \in Nat : bump_alert(id, life)
           \/ \E ids \in SUBSET Ids : bulk_renew_ttl(ids)
           \/ \E id \in Ids : get_alert(id)
    PROVE  IInv'
<1>1. UNCHANGED <<next_id, alerts, alert_active, indexes>>
  BY DEF bump_alert, bulk_renew_ttl, get_alert
<1>2. SettingsOK' /\ AlertsOK' /\ OwnersOK' /\ ContractsOK'
  <2>1. UNCHANGED settings /\ UNCHANGED timestamp
    BY DEF bump_alert, bulk_renew_ttl, get_alert
  <2>2. SettingsOK' /\ AlertsOK'
    BY <1>1, <2>1, SettingsKept DEF IInv, AlertsOK
  <2>3. OwnersOK' /\ ContractsOK'
    BY <1>1, IndexesKept DEF IInv
  <2>4. QED
    BY <2>2, <2>3
<1>3. /\ LivesOK /\ DEFAULT_TTL \in Nat /\ MAX_TTL \in Nat
      /\ ttl.instance \in Nat \cup {-1}
  BY ConstantsAssumption DEF IInv, LivesOK, TtlTypeOK
<1>4. /\ ttl.active = Extend(ttl.active, {}, DEFAULT_TTL)
      /\ ttl.owner = Extend(ttl.owner, {}, DEFAULT_TTL)
      /\ ttl.contract = Extend(ttl.contract, {}, DEFAULT_TTL)
  BY <1>3, LivesKept
<1>5. /\ DOMAIN alerts' = DOMAIN alerts
      /\ DOMAIN alert_active' = DOMAIN alert_active
      /\ DOMAIN owner_index' = DOMAIN owner_index
      /\ DOMAIN contract_index' = DOMAIN contract_index
  BY <1>1 DEF indexes
<1>6. ASSUME NEW id \in Ids, NEW requested \in Nat, bump_alert(id, requested)
      PROVE  LivesOK'
  <2> DEFINE life == IF requested <= MAX_TTL THEN requested ELSE MAX_TTL
             owner == alerts[id].owner
             target == alerts[id].target_contract
             e == AtLeast(ttl.instance, life)
  <2>1. /\ life \in Nat
        /\ e \in Nat \cup {-1}
    BY <1>3 DEF AtLeast
  <2>2. ttl' = [alert    |-> Extend(ttl.alert, {id}, life),
                active   |-> Extend(ttl.active, {id}, life),
                owner    |-> Extend(ttl.owner, {owner}, life),
                contract |-> Extend(ttl.contract, {target}, life),
                instance |-> e]
    BY <1>6 DEF bump_alert
  <2>3. /\ id \in DOMAIN alerts /\ id \in DOMAIN alert_active
        /\ owner \in DOMAIN owner_index /\ target \in DOMAIN contract_index
    BY <1>6 DEF bump_alert, index_keys_live
  <2>4. owner \in Owners /\ target \in Targets
    BY <2>3, AlertFacts
  <2> HIDE DEF life, owner, target, e
  <2>5. /\ {id} \in SUBSET Ids /\ {owner} \in SUBSET Owners
        /\ {target} \in SUBSET Targets
        /\ DOMAIN alerts' = DOMAIN alerts \cup {id}
        /\ DOMAIN alert_active' = DOMAIN alert_active \cup {id}
        /\ DOMAIN owner_index' = DOMAIN owner_index \cup {owner}
        /\ DOMAIN contract_index' = DOMAIN contract_index \cup {target}
    BY <1>5, <2>3, <2>4
  <2>6. QED
    BY <1>3, <2>1, <2>2, <2>5, LivesStep
<1>7. ASSUME NEW ids \in SUBSET Ids, bulk_renew_ttl(ids)
      PROVE  LivesOK'
  <2> DEFINE live == ids \cap DOMAIN alerts
             owners == {alerts[id].owner : id \in live}
             targets == {alerts[id].target_contract : id \in live}
  <2>1. ttl' = [alert    |-> Extend(ttl.alert, live, DEFAULT_TTL),
                active   |-> Extend(ttl.active, live, DEFAULT_TTL),
                owner    |-> Extend(ttl.owner, owners, DEFAULT_TTL),
                contract |-> Extend(ttl.contract, targets, DEFAULT_TTL),
                instance |-> ttl.instance]
    BY <1>3, <1>7 DEF bulk_renew_ttl, LivesOK, TtlTypeOK
  <2>2. \A id \in live : /\ id \in DOMAIN alert_active
                         /\ alerts[id].owner \in DOMAIN owner_index
                         /\ alerts[id].target_contract \in DOMAIN contract_index
    BY <1>7 DEF bulk_renew_ttl, index_keys_live
  <2>3. \A id \in live : /\ alerts[id].owner \in Owners
                         /\ alerts[id].target_contract \in Targets
    BY AlertFacts
  <2>4. /\ live \in SUBSET Ids
        /\ owners \in SUBSET Owners /\ targets \in SUBSET Targets
    BY <2>3
  <2>5. /\ DOMAIN alerts' = DOMAIN alerts \cup live
        /\ DOMAIN alert_active' = DOMAIN alert_active \cup live
        /\ DOMAIN owner_index' = DOMAIN owner_index \cup owners
        /\ DOMAIN contract_index' = DOMAIN contract_index \cup targets
    BY <1>5, <2>2
  <2> HIDE DEF live, owners, targets
  <2>6. QED
    BY <1>3, <2>1, <2>4, <2>5, LivesStep
<1>8. ASSUME NEW id \in Ids, get_alert(id)
      PROVE  LivesOK'
  <2>1. ttl' = [alert    |-> Extend(ttl.alert, {id}, DEFAULT_TTL),
                active   |-> Extend(ttl.active, {}, DEFAULT_TTL),
                owner    |-> Extend(ttl.owner, {}, DEFAULT_TTL),
                contract |-> Extend(ttl.contract, {}, DEFAULT_TTL),
                instance |-> ttl.instance]
    BY <1>3, <1>4, <1>8 DEF get_alert, LivesOK, TtlTypeOK
  <2>2. /\ {id} \in SUBSET Ids /\ {} \in SUBSET Ids
        /\ {} \in SUBSET Owners /\ {} \in SUBSET Targets
        /\ DOMAIN alerts' = DOMAIN alerts \cup {id}
        /\ DOMAIN alert_active' = DOMAIN alert_active \cup {}
        /\ DOMAIN owner_index' = DOMAIN owner_index \cup {}
        /\ DOMAIN contract_index' = DOMAIN contract_index \cup {}
    BY <1>5, <1>8 DEF get_alert
  <2>3. QED
    BY <1>3, <2>1, <2>2, LivesStep
<1>9. LivesOK'
  BY <1>6, <1>7, <1>8
<1>10. QED
  BY <1>2, <1>9 DEF IInv

\* deactivate_all_alerts touches only alerts and flags of ids that are live.
LEMMA DeactivateAll ==
    ASSUME IInv, NEW caller \in Owners, deactivate_all_alerts(caller)
    PROVE  IInv'
<1> DEFINE off == {id \in Range(lookup(owner_index, caller)) \cap DOMAIN alerts :
                      alerts[id].active}
           config(id) == [alerts[id] EXCEPT !.active = FALSE, !.updated_at = timestamp]
<1>1. /\ alerts' = [id \in DOMAIN alerts |->
                      IF id \in off THEN config(id) ELSE alerts[id]]
      /\ alert_active' = [id \in DOMAIN alert_active \cup off |->
                            IF id \in off THEN FALSE ELSE alert_active[id]]
      /\ ttl' = [ttl EXCEPT !.alert = Extend(@, off, DEFAULT_TTL),
                            !.active = Extend(@, off, DEFAULT_TTL)]
      /\ UNCHANGED settings /\ UNCHANGED timestamp
      /\ UNCHANGED next_id /\ UNCHANGED indexes
  BY DEF deactivate_all_alerts
<1>2. off \subseteq DOMAIN alerts
  OBVIOUS
<1>3. /\ LivesOK /\ DEFAULT_TTL \in Nat /\ ttl.instance \in Nat \cup {-1}
      /\ timestamp \in Nat /\ OwnersOK /\ ContractsOK /\ AlertsOK /\ SettingsOK
  BY ConstantsAssumption DEF IInv, LivesOK, TtlTypeOK, SettingsOK
<1>4. \A id \in DOMAIN alerts :
         /\ config(id) \in AlertConfig
         /\ config(id).owner = alerts[id].owner
         /\ config(id).target_contract = alerts[id].target_contract
  <2>1. \A id \in DOMAIN alerts : alerts[id] \in AlertConfig
    BY AlertFacts
  <2>2. QED
    BY <1>3, <2>1 DEF AlertConfig
<1> HIDE DEF off, config
<1>5. /\ IsTable(alerts, Ids, AlertConfig) /\ IsTable(alert_active, Ids, BOOLEAN)
      /\ off \in SUBSET Ids
  BY <1>2, <1>3 DEF AlertsOK, IsTable
<1>6. AlertsOK'
  <2>1. IsTable(alerts', Ids, AlertConfig) /\ DOMAIN alerts' = DOMAIN alerts
    BY <1>1, <1>4, <1>5 DEF IsTable
  <2>2. /\ IsTable(alert_active', Ids, BOOLEAN)
        /\ DOMAIN alert_active' = DOMAIN alert_active \cup off
    BY <1>1, <1>5 DEF IsTable
  <2>3. QED
    BY <1>1, <1>2, <1>3, <2>1, <2>2 DEF AlertsOK
<1>7. OwnersOK' /\ ContractsOK'
  <2>1. \A id \in DOMAIN alerts' :
           /\ id \in DOMAIN alerts
           /\ alerts'[id].owner = alerts[id].owner
           /\ alerts'[id].target_contract = alerts[id].target_contract
    BY <1>1, <1>4
  <2>2. QED
    BY <1>1, <1>3, <2>1, IndexesKept
<1>8. LivesOK'
  <2>1. /\ ttl.owner = Extend(ttl.owner, {}, DEFAULT_TTL)
        /\ ttl.contract = Extend(ttl.contract, {}, DEFAULT_TTL)
    BY <1>3, LivesKept
  <2>2. ttl' = [alert    |-> Extend(ttl.alert, off, DEFAULT_TTL),
                active   |-> Extend(ttl.active, off, DEFAULT_TTL),
                owner    |-> Extend(ttl.owner, {}, DEFAULT_TTL),
                contract |-> Extend(ttl.contract, {}, DEFAULT_TTL),
                instance |-> ttl.instance]
    BY <1>1, <1>3, <2>1 DEF LivesOK, TtlTypeOK
  <2>3. /\ {} \in SUBSET Owners /\ {} \in SUBSET Targets
        /\ DOMAIN alerts' = DOMAIN alerts \cup off
        /\ DOMAIN alert_active' = DOMAIN alert_active \cup off
        /\ DOMAIN owner_index' = DOMAIN owner_index \cup {}
        /\ DOMAIN contract_index' = DOMAIN contract_index \cup {}
    BY <1>1, <1>2 DEF indexes
  <2>4. QED
    BY <1>3, <1>5, <2>2, <2>3, LivesStep
<1>9. SettingsOK'
  BY <1>1, <1>3, SettingsKept
<1>10. QED
  BY <1>6, <1>7, <1>8, <1>9 DEF IInv

\* The lives after a call that removes entries: whatever it writes, each life
\* belongs to an entry that is left.
LEMMA LivesRewritten ==
    ASSUME NEW A, NEW F, NEW O, NEW C, NEW e \in Nat \cup {-1},
           ttl' = [alert |-> A, active |-> F, owner |-> O, contract |-> C,
                   instance |-> e],
           IsTable(A, Ids, Nat), IsTable(F, Ids, Nat),
           IsTable(O, Owners, Nat), IsTable(C, Targets, Nat),
           DOMAIN A = DOMAIN alerts', DOMAIN F = DOMAIN alert_active',
           DOMAIN O = DOMAIN owner_index', DOMAIN C = DOMAIN contract_index'
    PROVE  LivesOK'
<1>1. /\ ttl'.alert = A /\ ttl'.active = F /\ ttl'.owner = O /\ ttl'.contract = C
      /\ ttl'.instance = e
  OBVIOUS
<1>2. TtlTypeOK'
  BY <1>1 DEF TtlTypeOK
<1>3. LivesMatchEntries'
  BY <1>1 DEF LivesMatchEntries
<1>4. QED
  BY <1>2, <1>3 DEF LivesOK

\* remove_alert_record: the alert leaves both indexes with its entries.
LEMMA RemoveCalls ==
    ASSUME IInv, NEW id \in DOMAIN alerts, remove_alert_record(id)
    PROVE  IInv'
<1> DEFINE owner == alerts[id].owner
           target == alerts[id].target_contract
           O == remove_from_index_ttl(ttl.owner, owner_index, owner, id)
           C == remove_from_index_ttl(ttl.contract, contract_index, target, id)
<1>1. /\ alerts' = Drop(alerts, id)
      /\ alert_active' = Drop(alert_active, id)
      /\ owner_index' = remove_from_index(owner_index, owner, id)
      /\ contract_index' = remove_from_index(contract_index, target, id)
      /\ ttl' = [ttl EXCEPT !.alert = Drop(@, id), !.active = Drop(@, id),
                            !.owner = O, !.contract = C]
      /\ UNCHANGED settings /\ UNCHANGED timestamp /\ next_id' = next_id
  BY DEF remove_alert_record
<1>2. owner \in Owners /\ target \in Targets
  BY AlertFacts
<1>3. /\ SettingsOK /\ AlertsOK /\ TtlTypeOK /\ LivesMatchEntries
      /\ GoodIndex(owner_index, Owners, next_id)
      /\ GoodIndex(contract_index, Targets, next_id)
  BY DEF IInv, LivesOK, OwnersOK, ContractsOK
<1>4. /\ DOMAIN alerts' = DOMAIN alerts \ {id}
      /\ \A x \in DOMAIN alerts' : alerts'[x] = alerts[x]
      /\ DOMAIN alert_active' = DOMAIN alert_active \ {id}
  BY <1>1, DropEffect
<1>5. AlertsOK'
  <2>1. IsTable(Drop(alerts, id), Ids, AlertConfig)
    BY <1>3, DropTable DEF AlertsOK
  <2>2. IsTable(Drop(alert_active, id), Ids, BOOLEAN)
    BY <1>3, DropTable DEF AlertsOK
  <2>3. QED
    BY <1>1, <1>3, <1>4, <2>1, <2>2 DEF AlertsOK
<1>6. ttl' = [alert |-> Drop(ttl.alert, id), active |-> Drop(ttl.active, id),
              owner |-> O, contract |-> C, instance |-> ttl.instance]
  BY <1>1, <1>3 DEF TtlTypeOK
<1>7. OwnersOK'
  <2>1. GoodIndex(owner_index', Owners, next_id)
    BY <1>1, <1>2, <1>3, RemoveGood
  <2>2. ASSUME NEW k \in Owners, NEW x \in Listed(owner_index', k), x \in DOMAIN alerts'
        PROVE  alerts'[x].owner = k
    <3>1. x \in Listed(owner_index, k)
      BY <1>1, <1>3, <2>2, RemoveEffect
    <3>2. QED
      BY <1>4, <2>2, <3>1 DEF IInv, OwnersOK, Places, owner_of
  <2>3. QED
    BY <1>1, <2>1, <2>2 DEF OwnersOK, Places, owner_of
<1>8. ContractsOK'
  <2>1. GoodIndex(contract_index', Targets, next_id)
    BY <1>1, <1>2, <1>3, RemoveGood
  <2>2. ASSUME NEW k \in Targets, NEW x \in Listed(contract_index', k),
               x \in DOMAIN alerts'
        PROVE  alerts'[x].target_contract = k
    <3>1. x \in Listed(contract_index, k)
      BY <1>1, <1>3, <2>2, RemoveEffect
    <3>2. QED
      BY <1>4, <2>2, <3>1 DEF IInv, ContractsOK, Places, target_of
  <2>3. QED
    BY <1>1, <2>1, <2>2 DEF ContractsOK, Places, target_of
<1>9. LivesOK'
  <2>1. IsTable(Drop(ttl.alert, id), Ids, Nat) /\ IsTable(Drop(ttl.active, id), Ids, Nat)
    BY <1>3, DropTable DEF TtlTypeOK
  <2>2. /\ DOMAIN Drop(ttl.alert, id) = DOMAIN alerts'
        /\ DOMAIN Drop(ttl.active, id) = DOMAIN alert_active'
    BY <1>3, <1>4 DEF LivesMatchEntries, Drop, Restrict
  <2>3. IsTable(O, Owners, Nat)
    BY <1>2, <1>3, RemoveTtlTable DEF TtlTypeOK
  <2>4. IsTable(C, Targets, Nat)
    BY <1>2, <1>3, RemoveTtlTable DEF TtlTypeOK
  <2>5. DOMAIN O = DOMAIN owner_index'
    BY <1>1, <1>3, RemoveTtlEffect DEF LivesMatchEntries
  <2>6. DOMAIN C = DOMAIN contract_index'
    BY <1>1, <1>3, RemoveTtlEffect DEF LivesMatchEntries
  <2>7. ttl.instance \in Nat \cup {-1}
    BY <1>3 DEF TtlTypeOK
  <2> HIDE DEF O, C
  <2>8. QED
    BY <1>6, <2>1, <2>2, <2>3, <2>4, <2>5, <2>6, <2>7, LivesRewritten
<1>10. QED
  BY <1>1, <1>3, <1>5, <1>7, <1>8, <1>9, SettingsKept DEF IInv

\* What is left of an index when a ledger closes is still good.
LEMMA LapseGood ==
    ASSUME NEW Keys, NEW n, NEW index, GoodIndex(index, Keys, n),
           NEW K, K \subseteq DOMAIN index
    PROVE  GoodIndex(Restrict(index, K), Keys, n)
<1>1. IsTable(Restrict(index, K), Keys, Seq(Ids))
  BY RestrictTable DEF GoodIndex
<1>2. DOMAIN Restrict(index, K) = K /\ \A x \in K : Restrict(index, K)[x] = index[x]
  BY DEF Restrict
<1>3. QED
  BY <1>1, <1>2 DEF GoodIndex

\* Lapsed index entries list nothing, the others what they did.
LEMMA LapseEffect ==
    ASSUME NEW index, NEW K, K \subseteq DOMAIN index, NEW k
    PROVE  Listed(Restrict(index, K), k) \subseteq Listed(index, k)
<1>1. DOMAIN Restrict(index, K) = K /\ \A x \in K : Restrict(index, K)[x] = index[x]
  BY DEF Restrict
<1>2. Range(<< >>) = {}
  BY DEF Range
<1>3. QED
  BY <1>1, <1>2 DEF Listed, lookup

\* Each kind of entry may lapse without the others: the invariant survives.
LEMMA CloseLedger ==
    ASSUME IInv, close_ledger
    PROVE  IInv'
<1>1. /\ SettingsOK /\ AlertsOK /\ TtlTypeOK /\ LivesMatchEntries
      /\ GoodIndex(owner_index, Owners, next_id)
      /\ GoodIndex(contract_index, Targets, next_id)
      /\ Places(owner_index, Owners, owner_of)
      /\ Places(contract_index, Targets, target_of)
  BY DEF IInv, LivesOK, OwnersOK, ContractsOK
<1>2. /\ Survivors(ttl.alert) \subseteq DOMAIN alerts
      /\ Survivors(ttl.active) \subseteq DOMAIN alert_active
      /\ Survivors(ttl.owner) \subseteq DOMAIN owner_index
      /\ Survivors(ttl.contract) \subseteq DOMAIN contract_index
  BY <1>1 DEF LivesMatchEntries, Survivors
<1>3. /\ alerts' = Restrict(alerts, Survivors(ttl.alert))
      /\ alert_active' = Restrict(alert_active, Survivors(ttl.active))
      /\ owner_index' = Restrict(owner_index, Survivors(ttl.owner))
      /\ contract_index' = Restrict(contract_index, Survivors(ttl.contract))
      /\ next_id' = next_id /\ UNCHANGED settings
      /\ timestamp' = timestamp + LedgerSeconds
  BY DEF close_ledger
<1>4. /\ DOMAIN alerts' = Survivors(ttl.alert)
      /\ \A id \in DOMAIN alerts' : alerts'[id] = alerts[id]
      /\ DOMAIN alert_active' = Survivors(ttl.active)
      /\ DOMAIN owner_index' = Survivors(ttl.owner)
      /\ DOMAIN contract_index' = Survivors(ttl.contract)
  BY <1>3 DEF Restrict
<1>5. SettingsOK'
  BY <1>1, <1>3, ConstantsAssumption DEF SettingsOK, settings
<1>6. AlertsOK'
  <2>1. IsTable(alerts', Ids, AlertConfig)
    BY <1>1, <1>2, <1>3, RestrictTable DEF AlertsOK
  <2>2. IsTable(alert_active', Ids, BOOLEAN)
    BY <1>1, <1>2, <1>3, RestrictTable DEF AlertsOK
  <2>3. QED
    BY <1>1, <1>2, <1>3, <1>4, <2>1, <2>2 DEF AlertsOK
<1>7. OwnersOK'
  <2>1. GoodIndex(owner_index', Owners, next_id)
    BY <1>1, <1>2, <1>3, LapseGood
  <2>2. ASSUME NEW k \in Owners, NEW x \in Listed(owner_index', k), x \in DOMAIN alerts'
        PROVE  alerts'[x].owner = k
    <3>1. x \in Listed(owner_index, k)
      BY <1>2, <1>3, <2>2, LapseEffect
    <3>2. QED
      BY <1>1, <1>2, <1>4, <2>2, <3>1 DEF Places, owner_of
  <2>3. QED
    BY <1>3, <2>1, <2>2 DEF OwnersOK, Places, owner_of
<1>8. ContractsOK'
  <2>1. GoodIndex(contract_index', Targets, next_id)
    BY <1>1, <1>2, <1>3, LapseGood
  <2>2. ASSUME NEW k \in Targets, NEW x \in Listed(contract_index', k),
               x \in DOMAIN alerts'
        PROVE  alerts'[x].target_contract = k
    <3>1. x \in Listed(contract_index, k)
      BY <1>2, <1>3, <2>2, LapseEffect
    <3>2. QED
      BY <1>1, <1>2, <1>4, <2>2, <3>1 DEF Places, target_of
  <2>3. QED
    BY <1>3, <2>1, <2>2 DEF ContractsOK, Places, target_of
<1>9. LivesOK'
  <2> DEFINE e == IF ttl.instance >= 0 THEN ttl.instance - 1 ELSE -1
  <2>1. ttl' = [alert |-> Age(ttl.alert), active |-> Age(ttl.active),
                owner |-> Age(ttl.owner), contract |-> Age(ttl.contract),
                instance |-> e]
    BY DEF close_ledger
  <2>2. e \in Nat \cup {-1}
    BY <1>1 DEF TtlTypeOK
  <2>3. IsTable(Age(ttl.alert), Ids, Nat) /\ IsTable(Age(ttl.active), Ids, Nat)
    BY <1>1, AgeTable DEF TtlTypeOK
  <2>4. IsTable(Age(ttl.owner), Owners, Nat) /\ IsTable(Age(ttl.contract), Targets, Nat)
    BY <1>1, AgeTable DEF TtlTypeOK
  <2>5. /\ DOMAIN Age(ttl.alert) = DOMAIN alerts'
        /\ DOMAIN Age(ttl.active) = DOMAIN alert_active'
        /\ DOMAIN Age(ttl.owner) = DOMAIN owner_index'
        /\ DOMAIN Age(ttl.contract) = DOMAIN contract_index'
    BY <1>4, AgeEffect
  <2> HIDE DEF e
  <2>6. QED
    BY <2>1, <2>2, <2>3, <2>4, <2>5, LivesRewritten
<1>10. QED
  BY <1>5, <1>6, <1>7, <1>8, <1>9 DEF IInv

\* The lazy pruning of assert_per_owner_limit_for (#205) only ever shortens the
\* owner's list, and keeps the index and its lives in step.
LEMMA PruneFacts ==
    ASSUME IInv, NEW owner \in Owners
    PROVE  /\ GoodIndex(pruned_index(owner), Owners, next_id)
           /\ \A k : Listed(pruned_index(owner), k) \subseteq Listed(owner_index, k)
           /\ IsTable(pruned_ttl(owner), Owners, Nat)
           /\ DOMAIN pruned_ttl(owner) = DOMAIN pruned_index(owner)
<1> DEFINE old == lookup(owner_index, owner)
           ids == live_ids(old)
<1>1. /\ GoodIndex(owner_index, Owners, next_id)
      /\ IsTable(ttl.owner, Owners, Nat)
      /\ DOMAIN ttl.owner = DOMAIN owner_index
  BY DEF IInv, OwnersOK, LivesOK, TtlTypeOK, LivesMatchEntries
<1>2. CASE ~prunes(owner)
  BY <1>1, <1>2 DEF pruned_index, pruned_ttl
<1>3. CASE prunes(owner)
  <2>1. /\ pruned_index(owner) = store(owner_index, owner, ids)
        /\ pruned_ttl(owner) = store_ttl(ttl.owner, owner, ids)
    BY <1>3 DEF pruned_index, pruned_ttl
  <2>2. GoodVec(old, next_id)
    BY <1>1, LookupGood
  <2>3. /\ ids \in Seq(Ids)
        /\ Range(ids) = Range(old) \cap DOMAIN alerts
        /\ NoRepeats(ids)
    BY <2>2, KeepFacts DEF GoodVec, live_ids
  <2>4. Range(old) = Listed(owner_index, owner)
    BY DEF Listed
  <2> HIDE DEF old, ids
  <2>5. GoodVec(ids, next_id)
    BY <2>2, <2>3 DEF GoodVec
  <2>6. GoodIndex(pruned_index(owner), Owners, next_id)
    BY <1>1, <2>1, <2>5, StoreGood
  <2>7. ASSUME NEW k
        PROVE  Listed(pruned_index(owner), k) \subseteq Listed(owner_index, k)
    <3>1. /\ k = owner => lookup(store(owner_index, owner, ids), k) = ids
          /\ k # owner => lookup(store(owner_index, owner, ids), k)
                             = lookup(owner_index, k)
      BY StoreLookup
    <3>2. QED
      BY <2>1, <2>3, <2>4, <3>1 DEF Listed
  <2>8. IsTable(pruned_ttl(owner), Owners, Nat)
    BY <1>1, <2>1, StoreTtlTable
  <2>9. DOMAIN pruned_ttl(owner) = DOMAIN pruned_index(owner)
    BY <1>1, <2>1, StoreTtlEffect
  <2>10. QED
    BY <2>6, <2>7, <2>8, <2>9
<1>4. QED
  BY <1>2, <1>3

\* update_target_contract: the id moves from one contract's index to the
\* other's, wherever it was listed before.
LEMMA UpdateTarget ==
    ASSUME IInv, NEW caller \in Owners, NEW id \in Ids, NEW new_target \in Targets,
           update_target_contract(caller, id, new_target)
    PROVE  IInv'
<1> DEFINE old == alerts[id].target_contract
           removed == remove_from_index(contract_index, old, id)
           removed_ttl == remove_from_index_ttl(ttl.contract, contract_index, old, id)
           config == [alerts[id] EXCEPT !.target_contract = new_target,
                                        !.updated_at = timestamp]
           A == Extend(ttl.alert, {id}, DEFAULT_TTL)
           C == Extend(removed_ttl, {new_target}, DEFAULT_TTL)
<1>1. /\ id \in DOMAIN alerts
      /\ can_push(removed, new_target, id)
      /\ alerts' = [alerts EXCEPT ![id] = config]
      /\ contract_index' = push_index(removed, new_target, id)
      /\ ttl' = [ttl EXCEPT !.alert = A, !.contract = C]
      /\ UNCHANGED settings /\ UNCHANGED timestamp /\ next_id' = next_id
      /\ alert_active' = alert_active /\ owner_index' = owner_index
  BY DEF update_target_contract, assert_owner, amend
<1>2. /\ alerts[id] \in AlertConfig /\ old \in Targets
      /\ id \in 0..(next_id - 1)
  BY <1>1, AlertFacts
<1>3. /\ SettingsOK /\ AlertsOK /\ TtlTypeOK /\ LivesMatchEntries
      /\ GoodIndex(owner_index, Owners, next_id)
      /\ GoodIndex(contract_index, Targets, next_id)
      /\ Places(owner_index, Owners, owner_of)
      /\ Places(contract_index, Targets, target_of)
      /\ timestamp \in Nat /\ DEFAULT_TTL \in Nat
  BY ConstantsAssumption DEF IInv, LivesOK, OwnersOK, ContractsOK, SettingsOK
<1>4. /\ config \in AlertConfig
      /\ config.owner = alerts[id].owner
      /\ config.target_contract = new_target
  BY <1>2, <1>3 DEF AlertConfig
<1> HIDE DEF config
<1>5. /\ IsTable(alerts', Ids, AlertConfig)
      /\ DOMAIN alerts' = DOMAIN alerts
      /\ \A x \in DOMAIN alerts : x # id => alerts'[x] = alerts[x]
      /\ alerts'[id] = config
  BY <1>1, <1>3, <1>4 DEF AlertsOK, IsTable
<1>6. AlertsOK'
  BY <1>1, <1>3, <1>5 DEF AlertsOK
<1>7. OwnersOK'
  <2>1. \A x \in DOMAIN alerts : alerts'[x].owner = alerts[x].owner
    BY <1>4, <1>5
  <2>2. QED
    BY <1>1, <1>3, <1>5, <2>1 DEF OwnersOK, Places, owner_of
<1>8. GoodIndex(removed, Targets, next_id)
  BY <1>2, <1>3, RemoveGood
<1>9. ContractsOK'
  <2>1. GoodIndex(contract_index', Targets, next_id)
    BY <1>1, <1>2, <1>8, PushGood
  <2>2. ASSUME NEW k \in Targets, NEW x \in Listed(contract_index', k),
               x \in DOMAIN alerts'
        PROVE  alerts'[x].target_contract = k
    <3>1. /\ k = new_target => Listed(contract_index', k) = Listed(removed, k) \cup {id}
          /\ k # new_target => Listed(contract_index', k) = Listed(removed, k)
      BY <1>1, <1>8, PushEffect
    <3>2. /\ k = old => Listed(removed, k) = Listed(contract_index, k) \ {id}
          /\ k # old => Listed(removed, k) = Listed(contract_index, k)
      BY <1>3, RemoveEffect
    <3>3. CASE x = id
      <4>1. k = new_target \/ (k # old /\ x \in Listed(contract_index, k))
        BY <2>2, <3>1, <3>2, <3>3
      <4>2. ~(k # old /\ x \in Listed(contract_index, k))
        BY <1>1, <1>3, <3>3 DEF Places, target_of
      <4>3. QED
        BY <1>4, <1>5, <3>3, <4>1, <4>2
    <3>4. CASE x # id
      <4>1. x \in Listed(contract_index, k) /\ x \in DOMAIN alerts
        BY <1>5, <2>2, <3>1, <3>2, <3>4
      <4>2. QED
        BY <1>3, <1>5, <3>4, <4>1 DEF Places, target_of
    <3>5. QED
      BY <3>3, <3>4
  <2>3. QED
    BY <1>1, <2>1, <2>2 DEF ContractsOK, Places, target_of
<1>10. LivesOK'
  <2>1. ttl' = [alert |-> A, active |-> ttl.active, owner |-> ttl.owner,
                contract |-> C, instance |-> ttl.instance]
    BY <1>1, <1>3 DEF TtlTypeOK
  <2>2. IsTable(removed_ttl, Targets, Nat)
    BY <1>2, <1>3, RemoveTtlTable DEF TtlTypeOK
  <2>3. DOMAIN removed_ttl = DOMAIN removed
    BY <1>3, RemoveTtlEffect DEF LivesMatchEntries
  <2>4. {id} \in SUBSET Ids /\ {new_target} \in SUBSET Targets
    OBVIOUS
  <2>5. IsTable(A, Ids, Nat) /\ DOMAIN A = DOMAIN alerts'
    <3>1. IsTable(A, Ids, Nat)
      BY <1>3, <2>4, ExtendTable DEF TtlTypeOK
    <3>2. DOMAIN A = DOMAIN alerts'
      BY <1>1, <1>3, <1>5 DEF LivesMatchEntries, Extend
    <3>3. QED
      BY <3>1, <3>2
  <2>6. IsTable(C, Targets, Nat) /\ DOMAIN C = DOMAIN contract_index'
    <3> HIDE DEF removed_ttl, removed
    <3>1. IsTable(C, Targets, Nat)
      BY <1>3, <2>2, <2>4, ExtendTable
    <3>2. DOMAIN C = DOMAIN removed_ttl \cup {new_target}
      BY DEF Extend
    <3>3. DOMAIN contract_index' = DOMAIN removed \cup {new_target}
      BY <1>1, PushDomain
    <3>4. QED
      BY <2>3, <3>1, <3>2, <3>3
  <2>7. /\ IsTable(ttl.active, Ids, Nat) /\ IsTable(ttl.owner, Owners, Nat)
        /\ DOMAIN ttl.active = DOMAIN alert_active'
        /\ DOMAIN ttl.owner = DOMAIN owner_index'
        /\ ttl.instance \in Nat \cup {-1}
    BY <1>1, <1>3 DEF TtlTypeOK, LivesMatchEntries
  <2> HIDE DEF A, C
  <2>8. QED
    BY <2>1, <2>5, <2>6, <2>7, LivesRewritten
<1>11. QED
  BY <1>1, <1>3, <1>6, <1>7, <1>9, <1>10, SettingsKept DEF IInv

\* transfer_alert_ownership: the id moves from one owner's index to the other's,
\* whether or not the limit check pruned the new owner's first.
LEMMA TransferOwnership ==
    ASSUME IInv, NEW owner \in Owners, NEW id \in Ids, NEW new_owner \in Owners,
           transfer_alert_ownership(owner, id, new_owner)
    PROVE  IInv'
<1> DEFINE pruned == pruned_index(new_owner)
           removed == remove_from_index(pruned, owner, id)
           removed_ttl == remove_from_index_ttl(pruned_ttl(new_owner), pruned, owner, id)
           config == [alerts[id] EXCEPT !.owner = new_owner, !.updated_at = timestamp]
           A == Extend(ttl.alert, {id}, DEFAULT_TTL)
           O == Extend(removed_ttl, {new_owner}, DEFAULT_TTL)
<1>1. /\ id \in DOMAIN alerts /\ alerts[id].owner = owner
      /\ can_push(removed, new_owner, id)
      /\ alerts' = [alerts EXCEPT ![id] = config]
      /\ owner_index' = push_index(removed, new_owner, id)
      /\ ttl' = [ttl EXCEPT !.alert = A, !.owner = O]
      /\ UNCHANGED settings /\ UNCHANGED timestamp /\ next_id' = next_id
      /\ alert_active' = alert_active /\ contract_index' = contract_index
  BY DEF transfer_alert_ownership, assert_owner, amend
<1>2. /\ alerts[id] \in AlertConfig
      /\ id \in 0..(next_id - 1)
  BY <1>1, AlertFacts
<1>3. /\ SettingsOK /\ AlertsOK /\ TtlTypeOK /\ LivesMatchEntries
      /\ GoodIndex(contract_index, Targets, next_id)
      /\ Places(owner_index, Owners, owner_of)
      /\ Places(contract_index, Targets, target_of)
      /\ timestamp \in Nat /\ DEFAULT_TTL \in Nat
  BY ConstantsAssumption DEF IInv, LivesOK, OwnersOK, ContractsOK, SettingsOK
<1>4. /\ GoodIndex(pruned, Owners, next_id)
      /\ \A k : Listed(pruned, k) \subseteq Listed(owner_index, k)
      /\ IsTable(pruned_ttl(new_owner), Owners, Nat)
      /\ DOMAIN pruned_ttl(new_owner) = DOMAIN pruned
  BY PruneFacts
<1>5. /\ config \in AlertConfig
      /\ config.target_contract = alerts[id].target_contract
      /\ config.owner = new_owner
  BY <1>2, <1>3 DEF AlertConfig
<1> HIDE DEF config, pruned
<1>6. /\ IsTable(alerts', Ids, AlertConfig)
      /\ DOMAIN alerts' = DOMAIN alerts
      /\ \A x \in DOMAIN alerts : x # id => alerts'[x] = alerts[x]
      /\ alerts'[id] = config
  BY <1>1, <1>3, <1>5 DEF AlertsOK, IsTable
<1>7. AlertsOK'
  BY <1>1, <1>3, <1>6 DEF AlertsOK
<1>8. ContractsOK'
  <2>1. \A x \in DOMAIN alerts : alerts'[x].target_contract = alerts[x].target_contract
    BY <1>5, <1>6
  <2>2. QED
    BY <1>1, <1>3, <1>6, <2>1 DEF ContractsOK, Places, target_of
<1>9. GoodIndex(removed, Owners, next_id)
  BY <1>4, RemoveGood
<1>10. OwnersOK'
  <2>1. GoodIndex(owner_index', Owners, next_id)
    BY <1>1, <1>2, <1>9, PushGood
  <2>2. ASSUME NEW k \in Owners, NEW x \in Listed(owner_index', k), x \in DOMAIN alerts'
        PROVE  alerts'[x].owner = k
    <3>1. /\ k = new_owner => Listed(owner_index', k) = Listed(removed, k) \cup {id}
          /\ k # new_owner => Listed(owner_index', k) = Listed(removed, k)
      BY <1>1, <1>9, PushEffect
    <3>2. /\ k = owner => Listed(removed, k) = Listed(pruned, k) \ {id}
          /\ k # owner => Listed(removed, k) = Listed(pruned, k)
      BY <1>4, RemoveEffect
    <3>3. Listed(pruned, k) \subseteq Listed(owner_index, k)
      BY <1>4
    <3>4. CASE x = id
      <4>1. k = new_owner \/ (k # owner /\ x \in Listed(owner_index, k))
        BY <2>2, <3>1, <3>2, <3>3, <3>4
      <4>2. ~(k # owner /\ x \in Listed(owner_index, k))
        BY <1>1, <1>3, <3>4 DEF Places, owner_of
      <4>3. QED
        BY <1>5, <1>6, <3>4, <4>1, <4>2
    <3>5. CASE x # id
      <4>1. x \in Listed(owner_index, k) /\ x \in DOMAIN alerts
        BY <1>6, <2>2, <3>1, <3>2, <3>3, <3>5
      <4>2. QED
        BY <1>3, <1>6, <3>5, <4>1 DEF Places, owner_of
    <3>6. QED
      BY <3>4, <3>5
  <2>3. QED
    BY <1>1, <2>1, <2>2 DEF OwnersOK, Places, owner_of
<1>11. LivesOK'
  <2>1. ttl' = [alert |-> A, active |-> ttl.active, owner |-> O,
                contract |-> ttl.contract, instance |-> ttl.instance]
    BY <1>1, <1>3 DEF TtlTypeOK
  <2>2. IsTable(removed_ttl, Owners, Nat)
    BY <1>4, RemoveTtlTable
  <2>3. DOMAIN removed_ttl = DOMAIN removed
    BY <1>4, RemoveTtlEffect
  <2>4. {id} \in SUBSET Ids /\ {new_owner} \in SUBSET Owners
    OBVIOUS
  <2>5. IsTable(A, Ids, Nat) /\ DOMAIN A = DOMAIN alerts'
    <3>1. IsTable(A, Ids, Nat)
      BY <1>3, <2>4, ExtendTable DEF TtlTypeOK
    <3>2. DOMAIN A = DOMAIN alerts'
      BY <1>1, <1>3, <1>6 DEF LivesMatchEntries, Extend
    <3>3. QED
      BY <3>1, <3>2
  <2>6. IsTable(O, Owners, Nat) /\ DOMAIN O = DOMAIN owner_index'
    <3> HIDE DEF removed_ttl, removed
    <3>1. IsTable(O, Owners, Nat)
      BY <1>3, <2>2, <2>4, ExtendTable
    <3>2. DOMAIN O = DOMAIN removed_ttl \cup {new_owner}
      BY DEF Extend
    <3>3. DOMAIN owner_index' = DOMAIN removed \cup {new_owner}
      BY <1>1, PushDomain
    <3>4. QED
      BY <2>3, <3>1, <3>2, <3>3
  <2>7. /\ IsTable(ttl.active, Ids, Nat) /\ IsTable(ttl.contract, Targets, Nat)
        /\ DOMAIN ttl.active = DOMAIN alert_active'
        /\ DOMAIN ttl.contract = DOMAIN contract_index'
        /\ ttl.instance \in Nat \cup {-1}
    BY <1>1, <1>3 DEF TtlTypeOK, LivesMatchEntries
  <2> HIDE DEF A, O
  <2>8. QED
    BY <2>1, <2>5, <2>6, <2>7, LivesRewritten
<1>12. QED
  BY <1>1, <1>3, <1>7, <1>8, <1>10, <1>11, SettingsKept DEF IInv

\* Registration: the counter hands out ids no index has seen, so the new alerts
\* are listed once under their owner and once under their contract.
LEMMA RegisterStep ==
    ASSUME IInv, NEW owner \in Owners, NEW inputs \in Seq(AlertInput),
           NEW tags \in TagLists \cup {None}, register(owner, inputs, tags)
    PROVE  IInv'
<1> DEFINE count == Len(inputs)
           last == next_id + count
           N == next_id..(last - 1)
           new == [i \in 1..count |-> next_id + i - 1]
           input == [id \in Range(new) |-> inputs[id - next_id + 1]]
           targets == {input[id].target_contract : id \in Range(new)}
           for(t) == {id \in Range(new) : input[id].target_contract = t}
           pruned == pruned_index(owner)
           A == Extend(ttl.alert, Range(new), DEFAULT_TTL)
           F == Extend(ttl.active, Range(new), DEFAULT_TTL)
           O == IF count = 0 THEN pruned_ttl(owner)
                ELSE Extend(pruned_ttl(owner), {owner}, DEFAULT_TTL)
           C == Extend(ttl.contract, targets, DEFAULT_TTL)
           e == IF count = 0 THEN ttl.instance ELSE AtLeast(ttl.instance, DEFAULT_TTL)
<1>1. /\ last <= U64_MAX
      /\ next_id' = last
      /\ alerts' = [id \in DOMAIN alerts \cup Range(new) |->
                      IF id \in Range(new) THEN new_config(owner, input[id], tags)
                      ELSE alerts[id]]
      /\ alert_active' = [id \in DOMAIN alert_active \cup Range(new) |->
                            IF id \in Range(new) THEN TRUE ELSE alert_active[id]]
      /\ owner_index' = IF count = 0 THEN pruned
                        ELSE Put(pruned, owner, lookup(pruned, owner) \o new)
      /\ contract_index' = [t \in DOMAIN contract_index \cup targets |->
                              lookup(contract_index, t) \o Keep(new, for(t))]
      /\ ttl' = [alert |-> A, active |-> F, owner |-> O, contract |-> C, instance |-> e]
      /\ UNCHANGED settings /\ UNCHANGED timestamp
  BY DEF register, next_id_after
<1>2. /\ SettingsOK /\ AlertsOK /\ TtlTypeOK /\ LivesMatchEntries
      /\ GoodIndex(contract_index, Targets, next_id)
      /\ Places(owner_index, Owners, owner_of)
      /\ Places(contract_index, Targets, target_of)
      /\ timestamp \in Nat /\ DEFAULT_TTL \in Nat /\ U64_MAX \in Nat
      /\ next_id \in Nat
  BY ConstantsAssumption
     DEF IInv, LivesOK, OwnersOK, ContractsOK, SettingsOK, AlertsOK
<1>3. count \in Nat /\ DOMAIN inputs = 1..count /\ \A i \in 1..count : inputs[i] \in AlertInput
  OBVIOUS
<1> HIDE DEF count
<1>4. /\ last \in Nat /\ next_id <= last
      /\ N \subseteq Ids /\ N \subseteq 0..(last - 1)
      /\ 0..(next_id - 1) \subseteq 0..(last - 1)
      /\ \A id \in N : id \notin 0..(next_id - 1)
  BY <1>1, <1>2, <1>3 DEF Ids
<1>5. new \in Seq(Ids) /\ NoRepeats(new) /\ Range(new) = N
  <2>1. /\ DOMAIN new = 1..count
        /\ \A i \in 1..count : new[i] = next_id + i - 1 /\ new[i] \in N
    BY <1>2, <1>3
  <2>2. new \in Seq(Ids)
    <3>1. \A i \in 1..count : new[i] \in Ids
      BY <1>4, <2>1
    <3>2. new \in [1..count -> Ids]
      BY <3>1
    <3>3. QED
      BY <1>3, <3>2
  <2>3. NoRepeats(new)
    BY <1>2, <1>3, <2>1 DEF NoRepeats
  <2>4. Range(new) \subseteq N
    BY <2>1 DEF Range
  <2>5. ASSUME NEW id \in N
        PROVE  id \in Range(new)
    <3>1. id - next_id + 1 \in 1..count /\ id = next_id + (id - next_id + 1) - 1
      BY <1>2, <1>3
    <3>2. new[id - next_id + 1] = id
      BY <2>1, <3>1
    <3>3. QED
      BY <2>1, <3>1, <3>2 DEF Range
  <2>6. QED
    BY <2>2, <2>3, <2>4, <2>5
<1>6. /\ DOMAIN input = N
      /\ \A id \in N : /\ input[id] \in AlertInput
                       /\ input[id].target_contract \in Targets
                       /\ new_config(owner, input[id], tags) \in AlertConfig
                       /\ new_config(owner, input[id], tags).owner = owner
                       /\ new_config(owner, input[id], tags).target_contract
                             = input[id].target_contract
  <2>1. \A id \in N : id - next_id + 1 \in 1..count
    BY <1>2, <1>3
  <2>2. /\ DOMAIN input = N
        /\ \A id \in N : input[id] \in AlertInput
    BY <1>3, <1>5, <2>1
  <2> HIDE DEF input
  <2>3. ASSUME NEW a \in AlertInput
        PROVE  /\ a.target_contract \in Targets
               /\ new_config(owner, a, tags) \in AlertConfig
               /\ new_config(owner, a, tags).owner = owner
               /\ new_config(owner, a, tags).target_contract = a.target_contract
    BY <1>2 DEF AlertInput, AlertConfig, new_config
  <2>4. QED
    BY <2>2, <2>3
<1>7. targets \in SUBSET Targets
  BY <1>5, <1>6
<1>8. /\ GoodIndex(pruned, Owners, next_id)
      /\ \A k : Listed(pruned, k) \subseteq Listed(owner_index, k)
      /\ IsTable(pruned_ttl(owner), Owners, Nat)
      /\ DOMAIN pruned_ttl(owner) = DOMAIN pruned
  BY PruneFacts
<1> HIDE DEF new, input, N, last, pruned
<1>9. /\ DOMAIN alerts' = DOMAIN alerts \cup N
      /\ \A id \in N : alerts'[id] = new_config(owner, input[id], tags)
      /\ \A id \in DOMAIN alerts : id \notin N => alerts'[id] = alerts[id]
      /\ DOMAIN alert_active' = DOMAIN alert_active \cup N
  BY <1>1, <1>5
<1>10. AlertsOK'
  <2>1. IsTable(alerts', Ids, AlertConfig)
    <3>1. DOMAIN alerts \subseteq Ids /\ \A id \in DOMAIN alerts : alerts[id] \in AlertConfig
      BY <1>2 DEF AlertsOK, IsTable
    <3>2. \A id \in DOMAIN alerts' : alerts'[id] \in AlertConfig
      BY <1>6, <1>9, <3>1
    <3>3. alerts' = [id \in DOMAIN alerts' |-> alerts'[id]]
      BY <1>1
    <3>4. alerts' \in [DOMAIN alerts' -> AlertConfig]
      BY <3>2, <3>3
    <3>5. QED
      BY <1>4, <1>9, <3>1, <3>4 DEF IsTable
  <2>2. IsTable(alert_active', Ids, BOOLEAN)
    BY <1>1, <1>2, <1>4, <1>5 DEF AlertsOK, IsTable
  <2>3. next_id' \in 0..U64_MAX
    BY <1>1, <1>2, <1>4
  <2>4. DOMAIN alerts' \subseteq 0..(last - 1) /\ DOMAIN alert_active' \subseteq 0..(last - 1)
    BY <1>2, <1>4, <1>9 DEF AlertsOK
  <2>5. QED
    BY <1>1, <2>1, <2>2, <2>3, <2>4 DEF AlertsOK
<1>11. \A k : Listed(pruned, k) \cap N = {} /\ Listed(contract_index, k) \cap N = {}
  <2>1. ASSUME NEW k
        PROVE  Listed(pruned, k) \subseteq 0..(next_id - 1)
    BY <1>8, LookupGood DEF Listed, GoodVec
  <2>2. ASSUME NEW k
        PROVE  Listed(contract_index, k) \subseteq 0..(next_id - 1)
    BY <1>2, LookupGood DEF Listed, GoodVec
  <2>3. QED
    BY <1>4, <2>1, <2>2
<1>12. GoodIndex(pruned, Owners, last) /\ GoodIndex(contract_index, Targets, last)
  BY <1>2, <1>4, <1>8, GoodLater
<1>13. /\ count = 0 <=> N = {}
       /\ count = 0 <=> new = << >>
  <2>1. count = 0 => N = {}
    BY <1>2 DEF N, last
  <2>2. count # 0 => next_id \in N
    BY <1>2, <1>3 DEF N, last
  <2>3. new = << >> <=> N = {}
    BY <1>5, EmptyRange
  <2>4. QED
    BY <2>1, <2>2, <2>3
<1>14. /\ GoodIndex(owner_index', Owners, last)
       /\ \A k : Listed(owner_index', k) \subseteq
                    Listed(pruned, k) \cup (IF k = owner THEN N ELSE {})
       /\ DOMAIN owner_index' = DOMAIN O
       /\ IsTable(O, Owners, Nat)
  <2>1. CASE count = 0
    BY <1>1, <1>8, <1>12, <2>1
  <2>2. CASE count # 0
    <3> DEFINE old == lookup(pruned, owner)
               ids == old \o new
    <3>1. GoodVec(old, last) /\ Range(old) = Listed(pruned, owner)
      BY <1>12, LookupGood DEF Listed
    <3>2. ids \in Seq(Ids) /\ Range(ids) = Range(old) \cup N
      BY <1>5, <3>1, ConcatFacts DEF GoodVec
    <3>3. NoRepeats(ids)
      <4>1. Range(old) \cap Range(new) = {}
        BY <1>5, <1>11, <3>1
      <4>2. QED
        BY <1>5, <3>1, <4>1, ConcatFacts DEF GoodVec
    <3>4. ids # << >>
      BY <1>13, <2>2, <3>2, EmptyRange
    <3>5. owner_index' = Put(pruned, owner, ids)
      BY <1>1, <2>2
    <3> HIDE DEF ids, old
    <3>6. GoodVec(ids, last)
      BY <1>4, <3>1, <3>2, <3>3 DEF GoodVec
    <3>7. owner_index' = store(pruned, owner, ids)
      BY <3>4, <3>5 DEF store
    <3>8. GoodIndex(owner_index', Owners, last)
      BY <1>12, <3>6, <3>7, StoreGood
    <3>9. ASSUME NEW k
          PROVE  Listed(owner_index', k) \subseteq
                    Listed(pruned, k) \cup (IF k = owner THEN N ELSE {})
      <4>1. /\ k = owner => lookup(owner_index', k) = ids
            /\ k # owner => lookup(owner_index', k) = lookup(pruned, k)
        BY <3>7, StoreLookup
      <4>2. QED
        BY <3>1, <3>2, <4>1 DEF Listed
    <3>10. O = Extend(pruned_ttl(owner), {owner}, DEFAULT_TTL)
      BY <2>2
    <3>11. DOMAIN O = DOMAIN owner_index'
      <4>1. DOMAIN O = DOMAIN pruned_ttl(owner) \cup {owner}
        BY <3>10 DEF Extend
      <4>2. DOMAIN owner_index' = DOMAIN pruned \cup {owner}
        BY <3>5 DEF Put
      <4>3. QED
        BY <1>8, <4>1, <4>2
    <3>12. IsTable(O, Owners, Nat)
      <4>1. {owner} \in SUBSET Owners
        OBVIOUS
      <4>2. QED
        BY <1>2, <1>8, <3>10, <4>1, ExtendTable
    <3>13. QED
      BY <3>8, <3>9, <3>11, <3>12
  <2>3. QED
    BY <2>1, <2>2
<1> HIDE DEF O
<1>15. OwnersOK'
  <2>1. ASSUME NEW k \in Owners, NEW x \in Listed(owner_index', k), x \in DOMAIN alerts'
        PROVE  alerts'[x].owner = k
    <3>1. CASE x \in N
      <4>1. k = owner
        BY <1>11, <1>14, <2>1, <3>1
      <4>2. QED
        BY <1>6, <1>9, <3>1, <4>1
    <3>2. CASE x \notin N
      <4>1. x \in Listed(owner_index, k) /\ x \in DOMAIN alerts
        BY <1>8, <1>9, <1>14, <2>1, <3>2
      <4>2. QED
        BY <1>2, <1>9, <3>2, <4>1 DEF Places, owner_of
    <3>3. QED
      BY <3>1, <3>2
  <2>2. QED
    BY <1>1, <1>14, <2>1 DEF OwnersOK, Places, owner_of
<1>16. ASSUME NEW t
       PROVE  LET ids == lookup(contract_index, t) \o Keep(new, for(t))
              IN  /\ GoodVec(ids, last)
                  /\ Range(ids) = Listed(contract_index, t) \cup for(t)
  <2> DEFINE old == lookup(contract_index, t)
             more == Keep(new, for(t))
             ids == old \o more
  <2>1. GoodVec(old, last) /\ Range(old) = Listed(contract_index, t)
    BY <1>12, LookupGood DEF Listed
  <2>2. for(t) \subseteq N
    BY <1>5
  <2> HIDE DEF for
  <2>3. more \in Seq(Ids) /\ NoRepeats(more) /\ Range(more) = Range(new) \cap for(t)
    BY <1>5, KeepFacts
  <2>4. Range(more) = for(t)
    BY <1>5, <2>2, <2>3
  <2>5. Range(old) \cap Range(more) = {}
    BY <1>11, <2>1, <2>2, <2>4
  <2>6. ids \in Seq(Ids) /\ Range(ids) = Range(old) \cup for(t)
    <3> HIDE DEF old, more
    <3>1. QED
      BY <2>1, <2>3, <2>4, ConcatFacts DEF GoodVec
  <2>7. NoRepeats(ids)
    <3> HIDE DEF old, more
    <3>1. QED
      BY <2>1, <2>3, <2>5, ConcatFacts DEF GoodVec
  <2> HIDE DEF ids
  <2>8. GoodVec(ids, last)
    BY <1>4, <2>1, <2>2, <2>6, <2>7 DEF GoodVec
  <2>9. QED
    BY <2>1, <2>6, <2>8 DEF ids
<1>17. /\ DOMAIN contract_index' = DOMAIN contract_index \cup targets
       /\ \A t \in DOMAIN contract_index' :
             contract_index'[t] = lookup(contract_index, t) \o Keep(new, for(t))
  BY <1>1
<1>18. GoodIndex(contract_index', Targets, last)
  <2>1. \A t \in DOMAIN contract_index' : GoodVec(contract_index'[t], last)
    BY <1>16, <1>17
  <2>2. IsTable(contract_index', Targets, Seq(Ids))
    <3>1. \A t \in DOMAIN contract_index' : contract_index'[t] \in Seq(Ids)
      BY <2>1 DEF GoodVec
    <3>2. contract_index' = [t \in DOMAIN contract_index' |-> contract_index'[t]]
      BY <1>1
    <3>3. contract_index' \in [DOMAIN contract_index' -> Seq(Ids)]
      BY <3>1, <3>2
    <3>4. DOMAIN contract_index' \subseteq Targets
      <4> HIDE DEF targets
      <4>1. QED
        BY <1>2, <1>7, <1>17 DEF GoodIndex, IsTable
    <3>5. QED
      BY <3>3, <3>4 DEF IsTable
  <2>3. ASSUME NEW t \in DOMAIN contract_index'
        PROVE  contract_index'[t] # << >>
    <3>1. Range(contract_index'[t]) = Listed(contract_index, t) \cup for(t)
      BY <1>16, <1>17
    <3>2. CASE t \in DOMAIN contract_index
      <4>1. lookup(contract_index, t) \in Seq(Ids) /\ lookup(contract_index, t) # << >>
        BY <1>2, <3>2 DEF GoodIndex, GoodVec, lookup
      <4>2. Listed(contract_index, t) # {}
        BY <4>1, EmptyRange DEF Listed
      <4>3. Range(<< >>) = {}
        BY DEF Range
      <4>4. QED
        BY <3>1, <4>2, <4>3
    <3>3. CASE t \in targets
      <4>1. for(t) # {}
        BY <3>3
      <4>2. Range(<< >>) = {}
        BY DEF Range
      <4>3. QED
        BY <3>1, <4>1, <4>2
    <3>4. QED
      BY <1>17, <3>2, <3>3
  <2>4. QED
    BY <2>1, <2>2, <2>3 DEF GoodIndex
<1>19. ContractsOK'
  <2>1. ASSUME NEW k \in Targets, NEW x \in Listed(contract_index', k),
               x \in DOMAIN alerts'
        PROVE  alerts'[x].target_contract = k
    <3>1. k \in DOMAIN contract_index' /\ x \in Range(contract_index'[k])
      BY <2>1, ListedEntry
    <3>2. x \in Listed(contract_index, k) \cup for(k)
      BY <1>16, <1>17, <3>1
    <3>3. CASE x \in N
      <4>1. x \in for(k)
        BY <1>11, <3>2, <3>3
      <4>2. input[x].target_contract = k
        BY <4>1
      <4>3. QED
        BY <1>6, <1>9, <3>3, <4>2
    <3>4. CASE x \notin N
      <4>1. x \in Listed(contract_index, k) /\ x \in DOMAIN alerts
        BY <1>5, <1>9, <2>1, <3>2, <3>4
      <4>2. QED
        BY <1>2, <1>9, <3>4, <4>1 DEF Places, target_of
    <3>5. QED
      BY <3>3, <3>4
  <2>2. QED
    BY <1>1, <1>18, <2>1 DEF ContractsOK, Places, target_of
<1>20. LivesOK'
  <2>1. N \in SUBSET Ids
    BY <1>4
  <2>2. IsTable(A, Ids, Nat) /\ IsTable(F, Ids, Nat)
    BY <1>2, <1>5, <2>1, ExtendTable DEF TtlTypeOK
  <2>3. IsTable(C, Targets, Nat)
    <3> HIDE DEF targets
    <3>1. QED
      BY <1>2, <1>7, ExtendTable DEF TtlTypeOK
  <2>4. DOMAIN A = DOMAIN alerts' /\ DOMAIN F = DOMAIN alert_active'
    BY <1>2, <1>5, <1>9 DEF LivesMatchEntries, Extend
  <2>5. DOMAIN C = DOMAIN contract_index'
    <3> HIDE DEF targets
    <3>1. QED
      BY <1>2, <1>17 DEF LivesMatchEntries, Extend
  <2>6. e \in Nat \cup {-1}
    BY <1>2 DEF TtlTypeOK, AtLeast
  <2> HIDE DEF A, F, C, e
  <2>7. QED
    BY <1>1, <1>14, <2>2, <2>3, <2>4, <2>5, <2>6, LivesRewritten
<1>21. QED
  BY <1>1, <1>2, <1>10, <1>15, <1>19, <1>20, SettingsKept DEF IInv

\* A batch is a sequence of inputs.
LEMMA BatchIsSeq ==
    ASSUME NEW n \in BatchSizes, NEW inputs \in [1..n -> AlertInput]
    PROVE  inputs \in Seq(AlertInput)
<1>1. n \in Nat
  BY ConstantsAssumption
<1>2. QED
  BY <1>1

\* Every registration is a RegisterStep.
LEMMA RegisterCalls ==
    ASSUME IInv, NEW caller \in Owners,
           \/ \E input \in AlertInput, tags \in TagLists \cup {None} :
                 register_alert(caller, input, tags)
           \/ \E n \in BatchSizes : \E inputs \in [1..n -> AlertInput] :
                 batch_register_alerts(caller, inputs)
    PROVE  IInv'
<1>1. ASSUME NEW input \in AlertInput, NEW tags \in TagLists \cup {None},
             register_alert(caller, input, tags)
      PROVE  IInv'
  <2> DEFINE inputs == <<input>>
  <2>1. inputs \in Seq(AlertInput)
    OBVIOUS
  <2>2. register(caller, inputs, tags)
    BY <1>1 DEF register_alert
  <2> HIDE DEF inputs
  <2>3. QED
    BY <2>1, <2>2, RegisterStep
<1>2. ASSUME NEW n \in BatchSizes, NEW inputs \in [1..n -> AlertInput],
             batch_register_alerts(caller, inputs)
      PROVE  IInv'
  <2>1. inputs \in Seq(AlertInput)
    BY BatchIsSeq
  <2>2. register(caller, inputs, None) /\ None \in TagLists \cup {None}
    BY <1>2 DEF batch_register_alerts
  <2>3. QED
    BY <2>1, <2>2, RegisterStep
<1>3. QED
  BY <1>1, <1>2

\* Every step of the contract and of the ledger preserves the invariant.
LEMMA NextIInv == IInv /\ [Next]_vars => IInv'
<1> SUFFICES ASSUME IInv, [Next]_vars
             PROVE  IInv'
  OBVIOUS
<1>1. CASE UNCHANGED vars
  <2>1. /\ UNCHANGED <<next_id, alerts, alert_active, indexes, ttl>>
        /\ UNCHANGED settings /\ UNCHANGED timestamp
    BY <1>1 DEF vars
  <2>2. QED
    BY <2>1, StorageKept, SettingsKept DEF IInv
<1>2. CASE admin_call
  <2>1. PICK admin \in Admins :
           \/ initialize(admin)
           \/ \E other \in Admins :
                 \/ transfer_admin(admin, other)
                 \/ add_admin(admin, other)
                 \/ remove_admin(admin, other)
           \/ \E n \in Limits : set_per_owner_alert_limit(admin, n)
           \/ \E value \in PauseValues : set_paused(admin, value)
           \/ \E registry \in Registries : set_watcher_registry(admin, registry)
           \/ \E id \in Ids, active \in BOOLEAN :
                 set_alert_active_by_admin(admin, id, active)
           \/ \E id \in Ids : remove_alert_by_admin(admin, id)
    BY <1>2 DEF admin_call
  <2>2. CASE \/ initialize(admin)
             \/ \E n \in Limits : set_per_owner_alert_limit(admin, n)
             \/ \E value \in PauseValues : set_paused(admin, value)
             \/ \E registry \in Registries : set_watcher_registry(admin, registry)
    BY <2>2, SettingsCalls
  <2>3. ASSUME NEW other \in Admins,
               \/ transfer_admin(admin, other)
               \/ add_admin(admin, other)
               \/ remove_admin(admin, other)
        PROVE  IInv'
    BY <2>3, SettingsCalls
  <2>4. CASE \E id \in Ids, active \in BOOLEAN :
                set_alert_active_by_admin(admin, id, active)
    BY <2>4, FlagCalls
  <2>5. CASE \E id \in Ids : remove_alert_by_admin(admin, id)
    BY <2>5, RemoveCalls DEF remove_alert_by_admin
  <2>6. QED
    BY <2>1, <2>2, <2>3, <2>4, <2>5
<1>3. CASE owner_call
  <2>1. PICK caller \in Owners :
           \/ \E input \in AlertInput, tags \in TagLists \cup {None} :
                 register_alert(caller, input, tags)
           \/ \E n \in BatchSizes : \E inputs \in [1..n -> AlertInput] :
                 batch_register_alerts(caller, inputs)
           \/ deactivate_all_alerts(caller)
    BY <1>3 DEF owner_call
  <2>2. QED
    BY <2>1, RegisterCalls, DeactivateAll
<1>4. CASE alert_call
  <2>1. PICK caller \in Owners, id \in Ids :
           \/ \E rules \in RuleLists, active \in BOOLEAN :
                 update_alert(caller, id, rules, active)
           \/ \E hash \in Hashes : update_webhook(caller, id, hash)
           \/ \E hash \in Hashes : propose_webhook(caller, id, hash)
           \/ confirm_webhook(caller, id)
           \/ \E label \in Labels : update_label(caller, id, label)
           \/ \E tags \in TagLists \cup {None} : update_tags(caller, id, tags)
           \/ \E target \in Targets : update_target_contract(caller, id, target)
           \/ \E other \in Owners : transfer_alert_ownership(caller, id, other)
           \/ remove_alert(caller, id)
    BY <1>4 DEF alert_call
  <2>2. CASE \E rules \in RuleLists, active \in BOOLEAN :
                update_alert(caller, id, rules, active)
    BY <2>2, FlagCalls
  <2>3. CASE \/ \E hash \in Hashes : update_webhook(caller, id, hash)
             \/ \E hash \in Hashes : propose_webhook(caller, id, hash)
             \/ confirm_webhook(caller, id)
             \/ \E label \in Labels : update_label(caller, id, label)
             \/ \E tags \in TagLists \cup {None} : update_tags(caller, id, tags)
    BY <2>3, EditCalls
  <2>4. CASE \E target \in Targets : update_target_contract(caller, id, target)
    BY <2>4, UpdateTarget
  <2>5. CASE \E other \in Owners : transfer_alert_ownership(caller, id, other)
    BY <2>5, TransferOwnership
  <2>6. CASE remove_alert(caller, id)
    BY <2>6, RemoveCalls DEF remove_alert, assert_owner
  <2>7. QED
    BY <2>1, <2>2, <2>3, <2>4, <2>5, <2>6
<1>5. CASE renewal_call
  BY <1>5, RenewalCalls, ConstantsAssumption DEF renewal_call
<1>6. CASE close_ledger
  BY <1>6, CloseLedger
<1>7. QED
  BY <1>1, <1>2, <1>3, <1>4, <1>5, <1>6 DEF Next

\* The inductive invariant holds in every reachable state.
THEOREM Invariance == Spec => []IInv
<1>1. Init => IInv
  BY InitIInv
<1>2. IInv /\ [Next]_vars => IInv'
  BY NextIInv
<1>3. QED
  BY <1>1, <1>2, PTL DEF Spec

\* Type correctness: every storage key holds values of its type, for any set of
\* callers, payloads and limits.
THEOREM TypeCorrect == Spec => []TypeOK
<1>1. IInv => TypeOK
  BY IInvImplies
<1>2. QED
  BY <1>1, Invariance, PTL

\* The id counter is ahead of every id in storage (#212).
THEOREM CounterAhead == Spec => []IdsBelowCounter
<1>1. IInv => IdsBelowCounter
  BY IInvImplies
<1>2. QED
  BY <1>1, Invariance, PTL

\* No index entry is empty (#203) or lists an id twice.
THEOREM IndexEntries == Spec => []IndexesWellFormed
<1>1. IInv => IndexesWellFormed
  BY IInvImplies
<1>2. QED
  BY <1>1, Invariance, PTL

\* A live alert is listed under no owner and no contract but its own, whatever
\* entries have lapsed: reads by owner or contract never return foreign alerts.
THEOREM SoundIndexes == Spec => []IndexesSound
<1>1. IInv => IndexesSound
  BY IInvImplies
<1>2. QED
  BY <1>1, Invariance, PTL
-----------------------------------------------------------------------------
(* Ids are never given out twice.                                          *)

\* Only a registration adds alerts, and it takes their ids from the counter.
LEMMA RegisterFresh ==
    ASSUME IInv, NEW owner \in Owners, NEW inputs \in Seq(AlertInput), NEW tags,
           register(owner, inputs, tags)
    PROVE  /\ next_id <= next_id'
           /\ \A id \in DOMAIN alerts' \ DOMAIN alerts : next_id <= id /\ id < next_id'
<1> DEFINE count == Len(inputs)
           new == [i \in 1..count |-> next_id + i - 1]
<1>1. count \in Nat /\ next_id \in Nat
  BY DEF IInv, AlertsOK
<1>2. next_id' = next_id + count /\ DOMAIN alerts' = DOMAIN alerts \cup Range(new)
  BY DEF register, next_id_after
<1> HIDE DEF count
<1>3. \A id \in Range(new) : next_id <= id /\ id < next_id + count
  BY <1>1 DEF Range
<1> HIDE DEF new
<1>4. QED
  BY <1>1, <1>2, <1>3

\* No other step moves the counter or adds an alert.
LEMMA OthersAddNone ==
    ASSUME IInv, [Next]_vars,
           ~ \E caller \in Owners, input \in AlertInput, tags \in TagLists \cup {None} :
                register_alert(caller, input, tags),
           ~ \E caller \in Owners, n \in BatchSizes : \E inputs \in [1..n -> AlertInput] :
                batch_register_alerts(caller, inputs)
    PROVE  next_id' = next_id /\ DOMAIN alerts' \subseteq DOMAIN alerts
<1>1. CASE UNCHANGED vars
  BY <1>1 DEF vars
<1>2. CASE admin_call
  BY <1>2 DEF admin_call, initialize, transfer_admin, add_admin, remove_admin, set_admins,
     set_per_owner_alert_limit, set_paused, set_watcher_registry,
     set_alert_active_by_admin, amend, remove_alert_by_admin, remove_alert_record,
     Drop, Restrict
<1>3. CASE owner_call
  <2>1. PICK caller \in Owners : deactivate_all_alerts(caller)
    BY <1>3 DEF owner_call
  <2>2. QED
    BY <2>1 DEF deactivate_all_alerts
<1>4. CASE alert_call
  <2>1. PICK caller \in Owners, id \in Ids :
           \/ \E rules \in RuleLists, active \in BOOLEAN :
                 update_alert(caller, id, rules, active)
           \/ \E hash \in Hashes : update_webhook(caller, id, hash)
           \/ \E hash \in Hashes : propose_webhook(caller, id, hash)
           \/ confirm_webhook(caller, id)
           \/ \E label \in Labels : update_label(caller, id, label)
           \/ \E tags \in TagLists \cup {None} : update_tags(caller, id, tags)
           \/ \E target \in Targets : update_target_contract(caller, id, target)
           \/ \E other \in Owners : transfer_alert_ownership(caller, id, other)
           \/ remove_alert(caller, id)
    BY <1>4 DEF alert_call
  <2>2. ASSUME NEW config, amend(id, config)
        PROVE  next_id' = next_id /\ DOMAIN alerts' = DOMAIN alerts
    BY <2>2 DEF amend
  <2>3. CASE \E rules \in RuleLists, active \in BOOLEAN :
                update_alert(caller, id, rules, active)
    BY <2>2, <2>3 DEF update_alert
  <2>4. CASE \E hash \in Hashes : update_webhook(caller, id, hash)
    BY <2>2, <2>4 DEF update_webhook
  <2>5. CASE \E hash \in Hashes : propose_webhook(caller, id, hash)
    BY <2>2, <2>5 DEF propose_webhook
  <2>6. CASE confirm_webhook(caller, id)
    BY <2>2, <2>6 DEF confirm_webhook
  <2>7. CASE \E label \in Labels : update_label(caller, id, label)
    BY <2>2, <2>7 DEF update_label
  <2>8. CASE \E tags \in TagLists \cup {None} : update_tags(caller, id, tags)
    BY <2>2, <2>8 DEF update_tags
  <2>9. CASE \E target \in Targets : update_target_contract(caller, id, target)
    BY <2>2, <2>9 DEF update_target_contract
  <2>10. CASE \E other \in Owners : transfer_alert_ownership(caller, id, other)
    BY <2>2, <2>10 DEF transfer_alert_ownership
  <2>11. CASE remove_alert(caller, id)
    BY <2>11 DEF remove_alert, remove_alert_record, Drop, Restrict
  <2>12. QED
    BY <2>1, <2>3, <2>4, <2>5, <2>6, <2>7, <2>8, <2>9, <2>10, <2>11
<1>5. CASE renewal_call
  BY <1>5 DEF renewal_call, bump_alert, bulk_renew_ttl, get_alert
<1>6. CASE close_ledger
  <2>1. Survivors(ttl.alert) \subseteq DOMAIN alerts
    BY DEF IInv, LivesOK, LivesMatchEntries, Survivors
  <2>2. QED
    BY <1>6, <2>1 DEF close_ledger, Restrict
<1>7. QED
  BY <1>1, <1>2, <1>3, <1>4, <1>5, <1>6 DEF Next

\* The id of a removed or lapsed alert is never given to another: an alert that
\* appears takes its id from the counter, which never goes back (#212).
THEOREM FreshIds == Spec => IdsNeverReused
<1> DEFINE Fresh == /\ next_id <= next_id'
                    /\ \A id \in DOMAIN alerts' \ DOMAIN alerts :
                          next_id <= id /\ id < next_id'
<1>1. IInv /\ [Next]_vars => [Fresh]_vars
  <2> SUFFICES ASSUME IInv, [Next]_vars
               PROVE  Fresh
    OBVIOUS
  <2>1. ASSUME NEW caller \in Owners, NEW input \in AlertInput,
               NEW tags \in TagLists \cup {None}, register_alert(caller, input, tags)
        PROVE  Fresh
    <3> DEFINE inputs == <<input>>
    <3>1. inputs \in Seq(AlertInput) /\ register(caller, inputs, tags)
      BY <2>1 DEF register_alert
    <3> HIDE DEF inputs
    <3>2. QED
      BY <3>1, RegisterFresh
  <2>2. ASSUME NEW caller \in Owners, NEW n \in BatchSizes,
               NEW inputs \in [1..n -> AlertInput], batch_register_alerts(caller, inputs)
        PROVE  Fresh
    <3>1. inputs \in Seq(AlertInput)
      BY BatchIsSeq
    <3>2. register(caller, inputs, None)
      BY <2>2 DEF batch_register_alerts
    <3>3. QED
      BY <3>1, <3>2, RegisterFresh
  <2>3. CASE /\ ~ \E caller \in Owners, input \in AlertInput,
                    tags \in TagLists \cup {None} : register_alert(caller, input, tags)
             /\ ~ \E caller \in Owners, n \in BatchSizes :
                    \E inputs \in [1..n -> AlertInput] :
                       batch_register_alerts(caller, inputs)
    <3>1. next_id' = next_id /\ DOMAIN alerts' \subseteq DOMAIN alerts
      BY <2>3, OthersAddNone
    <3>2. next_id \in Nat
      BY DEF IInv, AlertsOK
    <3>3. QED
      BY <3>1, <3>2
  <2>4. QED
    BY <2>1, <2>2, <2>3
<1>2. QED
  BY <1>1, Invariance, PTL DEF Spec, IdsNeverReused
=============================================================================
