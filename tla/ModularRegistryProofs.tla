----------------------- MODULE ModularRegistryProofs -----------------------
(***************************************************************************)
(* Proofs about the secondary registry, for every set of owners, contracts *)
(* and payloads and every value of the limits, whichever entries lapse,    *)
(* the id counter's among them.  Types, repetition-free indexes and the    *)
(* limit need nothing more; that alerts keep their owner and reads are     *)
(* sound holds until the counter has lapsed under an id it had given.      *)
(*                                                                         *)
(* Only a registration adds an alert or lists one.  Every other step keeps *)
(* fewer alerts and shorter lists, which is proved once (Fewer) and used   *)
(* for all of them.                                                        *)
(***************************************************************************)
EXTENDS ModularRegistry, StorageProofs

\* The ids an index lists under k.
Listed(index, k) == Range(lookup(index, k))

\* An index over Keys, none of whose Vecs lists an id twice.
GoodIndex(index, Keys) ==
    /\ IsTable(index, Keys, Seq(Ids))
    /\ \A k \in DOMAIN index : NoRepeats(index[k])

\* What an index lists was handed out before the counter reached n, and a stored
\* alert is listed only under the key that is its home.
Placed(index, Keys, home, n) ==
    \A k \in Keys : \A id \in Listed(index, k) :
        id < n /\ (id \in DOMAIN home => home[id] = k)

OwnerOf  == [id \in DOMAIN alerts |-> alerts[id].owner]
TargetOf == [id \in DOMAIN alerts |-> alerts[id].target_contract]

(* The inductive invariant, in parts.                                      *)

SettingsOK ==
    /\ admin \in Admins \cup {None}
    /\ limit \in Limits \cup {None}
    /\ paused \in BOOLEAN
    /\ timestamp \in Nat
    /\ restarted \in BOOLEAN

AlertsOK ==
    /\ next_id \in 0..U64_MAX
    /\ IsTable(alerts, Ids, AlertConfig)

IndexesOK == GoodIndex(owner_index, Owners) /\ GoodIndex(contract_index, Targets)

LivesOK ==
    /\ ttl = [alert |-> ttl.alert, owner |-> ttl.owner, contract |-> ttl.contract,
              counter |-> ttl.counter]
    /\ IsTable(ttl.alert, Ids, Nat) /\ DOMAIN ttl.alert = DOMAIN alerts
    /\ IsTable(ttl.owner, Owners, Nat) /\ DOMAIN ttl.owner = DOMAIN owner_index
    /\ IsTable(ttl.contract, Targets, Nat) /\ DOMAIN ttl.contract = DOMAIN contract_index
    /\ ttl.counter \in Nat \cup {-1}

CounterAhead ==
    ~restarted =>
        /\ \A id \in DOMAIN alerts : id < next_id
        /\ Placed(owner_index, Owners, OwnerOf, next_id)
        /\ Placed(contract_index, Targets, TargetOf, next_id)

IInv == SettingsOK /\ AlertsOK /\ IndexesOK /\ LivesOK /\ CounterAhead

(* What the properties say of one step.                                    *)

OwnersStay ==
    \A id \in DOMAIN alerts \cap DOMAIN alerts' :
        /\ alerts'[id].owner = alerts[id].owner
        /\ alerts'[id].created_at = alerts[id].created_at

OwnedNext(o) == {id \in DOMAIN alerts' : alerts'[id].owner = o}

LimitKept ==
    \A o \in Owners :
        (/\ ~(OwnedNext(o) \subseteq owned(o))
         /\ owned(o) \subseteq Range(lookup(owner_index, o))
         /\ limit # None /\ limit > 0)
            => Cardinality(OwnedNext(o)) <= limit

StepOK == (~restarted => OwnersStay) /\ LimitKept
-----------------------------------------------------------------------------
(* The index helpers.                                                      *)

\* Reading an index gives a Vec of distinct ids.
LEMMA LookupGood ==
    ASSUME NEW Keys, NEW index, GoodIndex(index, Keys), NEW k
    PROVE  lookup(index, k) \in Seq(Ids) /\ NoRepeats(lookup(index, k))
<1>1. << >> \in Seq(Ids) /\ NoRepeats(<< >>)
  BY DEF NoRepeats
<1>2. QED
  BY <1>1 DEF lookup, GoodIndex, IsTable

\* Nothing is listed under a key without an entry.
LEMMA ListedEntry ==
    ASSUME NEW index, NEW k
    PROVE  Listed(index, k) = IF k \in DOMAIN index THEN Range(index[k]) ELSE {}
<1>1. Range(<< >>) = {}
  BY DEF Range
<1>2. QED
  BY <1>1 DEF Listed, lookup

\* Writing a Vec back keeps the index good and changes that key's list only.
LEMMA PutIndex ==
    ASSUME NEW Keys, NEW index, GoodIndex(index, Keys), NEW key \in Keys,
           NEW ids \in Seq(Ids), NoRepeats(ids)
    PROVE  /\ GoodIndex(Put(index, key, ids), Keys)
           /\ Listed(Put(index, key, ids), key) = Range(ids)
           /\ \A k : k # key => Listed(Put(index, key, ids), k) = Listed(index, k)
<1> DEFINE new == Put(index, key, ids)
<1>1. /\ DOMAIN new = DOMAIN index \cup {key} /\ new[key] = ids
      /\ \A x \in DOMAIN index \ {key} : new[x] = index[x]
  BY DEF Put
<1>2. IsTable(new, Keys, Seq(Ids))
  BY PutTable DEF GoodIndex
<1> HIDE DEF new
<1>3. \A k \in DOMAIN new : NoRepeats(new[k])
  BY <1>1 DEF GoodIndex
<1>4. /\ Listed(new, key) = Range(ids)
      /\ \A k : k # key => Listed(new, k) = Listed(index, k)
  BY <1>1, ListedEntry
<1>5. QED
  BY <1>2, <1>3, <1>4 DEF GoodIndex, new

\* push_owner_index and push_contract_index list one id more, under their key.
LEMMA PushEffect ==
    ASSUME NEW Keys, NEW index, GoodIndex(index, Keys), NEW key \in Keys,
           NEW id \in Ids, can_push(index, key, id)
    PROVE  /\ GoodIndex(push_index(index, key, id), Keys)
           /\ Listed(push_index(index, key, id), key) = Listed(index, key) \cup {id}
           /\ \A k : k # key => Listed(push_index(index, key, id), k) = Listed(index, k)
<1> DEFINE old == lookup(index, key)
           ids == Append(old, id)
<1>1. old \in Seq(Ids) /\ NoRepeats(old)
  BY LookupGood
<1>2. id \notin Range(old)
  BY DEF can_push
<1>3. ids \in Seq(Ids) /\ NoRepeats(ids) /\ Range(ids) = Range(old) \cup {id}
  BY <1>1, <1>2, AppendFacts
<1> HIDE DEF ids
<1>4. /\ GoodIndex(Put(index, key, ids), Keys)
      /\ Listed(Put(index, key, ids), key) = Range(ids)
      /\ \A k : k # key => Listed(Put(index, key, ids), k) = Listed(index, k)
  BY <1>3, PutIndex
<1>5. Range(ids) = Listed(index, key) \cup {id}
  BY <1>3 DEF Listed
<1>6. push_index(index, key, id) = Put(index, key, ids)
  BY DEF push_index, ids
<1>7. QED
  BY <1>4, <1>5, <1>6

\* remove_from_index, which may leave an empty Vec behind, lists one id less.
LEMMA RemoveEffect ==
    ASSUME NEW Keys, NEW index, GoodIndex(index, Keys), NEW key \in Keys, NEW id
    PROVE  /\ GoodIndex(remove_from_index(index, key, id), Keys)
           /\ \A k : Listed(remove_from_index(index, key, id), k) \subseteq Listed(index, k)
<1> DEFINE old == lookup(index, key)
           ids == Without(old, id)
<1>1. old \in Seq(Ids) /\ NoRepeats(old)
  BY LookupGood
<1>2. ids \in Seq(Ids) /\ NoRepeats(ids) /\ Range(ids) = Range(old) \ {id}
  BY <1>1, WithoutFacts
<1> HIDE DEF ids
<1>3. /\ GoodIndex(Put(index, key, ids), Keys)
      /\ Listed(Put(index, key, ids), key) = Range(ids)
      /\ \A k : k # key => Listed(Put(index, key, ids), k) = Listed(index, k)
  BY <1>2, PutIndex
<1>4. Range(ids) \subseteq Listed(index, key)
  BY <1>2 DEF Listed
<1>5. QED
  BY <1>3, <1>4 DEF remove_from_index, ids

\* Index entries that lapse take nothing else with them.
LEMMA LapseEffect ==
    ASSUME NEW Keys, NEW index, GoodIndex(index, Keys), NEW K, K \subseteq DOMAIN index
    PROVE  /\ GoodIndex(Restrict(index, K), Keys)
           /\ \A k : Listed(Restrict(index, K), k) \subseteq Listed(index, k)
<1> DEFINE new == Restrict(index, K)
<1>1. DOMAIN new = K /\ \A x \in K : new[x] = index[x]
  BY RestrictEffect
<1>2. IsTable(new, Keys, Seq(Ids))
  BY RestrictTable DEF GoodIndex
<1> HIDE DEF new
<1>3. \A k : Listed(new, k) \subseteq Listed(index, k)
  BY <1>1, ListedEntry
<1>4. QED
  BY <1>1, <1>2, <1>3 DEF GoodIndex, new
-----------------------------------------------------------------------------
(* Steps that add no alert.                                                *)

\* Every alert that is there afterwards was there before, with the same owner,
\* target and creation time.
NoneAdded ==
    \A id \in DOMAIN alerts' :
        /\ id \in DOMAIN alerts
        /\ alerts'[id].owner = alerts[id].owner
        /\ alerts'[id].target_contract = alerts[id].target_contract
        /\ alerts'[id].created_at = alerts[id].created_at

\* A step that adds no alert and lists nothing new keeps the counter ahead, gives
\* no alert another owner and takes nobody past the limit.
LEMMA Fewer ==
    ASSUME CounterAhead, NoneAdded, ~restarted' => ~restarted /\ next_id' = next_id,
           \A k : Listed(owner_index', k) \subseteq Listed(owner_index, k),
           \A k : Listed(contract_index', k) \subseteq Listed(contract_index, k)
    PROVE  CounterAhead' /\ StepOK
<1> DEFINE A == alerts'
           O == OwnerOf'
           T == TargetOf'
<1>1. /\ O = [id \in DOMAIN A |-> A[id].owner]
      /\ T = [id \in DOMAIN A |-> A[id].target_contract]
  BY DEF OwnerOf, TargetOf
<1>2. \A id \in DOMAIN A :
         /\ id \in DOMAIN alerts /\ A[id].owner = alerts[id].owner
         /\ A[id].target_contract = alerts[id].target_contract
         /\ A[id].created_at = alerts[id].created_at
  BY DEF NoneAdded
<1>3. OwnersStay
  BY <1>2 DEF OwnersStay
<1>4. \A o : OwnedNext(o) \subseteq owned(o)
  BY <1>2 DEF OwnedNext, owned
<1> HIDE DEF A, O, T
<1>5. ASSUME ~restarted'
      PROVE  /\ \A id \in DOMAIN A : id < next_id
             /\ Placed(owner_index', Owners, O, next_id)
             /\ Placed(contract_index', Targets, T, next_id)
  <2>1. \A id \in DOMAIN A : id < next_id
    BY <1>2, <1>5 DEF CounterAhead
  <2>2. Placed(owner_index', Owners, O, next_id)
    <3>1. Placed(owner_index, Owners, OwnerOf, next_id)
      BY <1>5 DEF CounterAhead
    <3>2. \A id \in DOMAIN O : id \in DOMAIN OwnerOf /\ O[id] = OwnerOf[id]
      BY <1>1, <1>2 DEF OwnerOf
    <3>3. QED
      BY <3>1, <3>2 DEF Placed
  <2>3. Placed(contract_index', Targets, T, next_id)
    <3>1. Placed(contract_index, Targets, TargetOf, next_id)
      BY <1>5 DEF CounterAhead
    <3>2. \A id \in DOMAIN T : id \in DOMAIN TargetOf /\ T[id] = TargetOf[id]
      BY <1>1, <1>2 DEF TargetOf
    <3>3. QED
      BY <3>1, <3>2 DEF Placed
  <2>4. QED
    BY <2>1, <2>2, <2>3
<1>6. CounterAhead'
  BY <1>5 DEF CounterAhead, Placed, A, O, T, Listed, lookup
<1>7. QED
  BY <1>3, <1>4, <1>6 DEF StepOK, LimitKept

\* The administration calls touch the settings only.
LEMMA SettingsStep ==
    ASSUME IInv, SettingsOK', UNCHANGED <<next_id, alerts, indexes, ttl, restarted>>
    PROVE  IInv' /\ StepOK
<1>1. /\ next_id' = next_id /\ alerts' = alerts /\ ttl' = ttl
      /\ owner_index' = owner_index /\ contract_index' = contract_index
      /\ restarted' = restarted
  BY DEF indexes
<1>2. NoneAdded
  BY <1>1 DEF NoneAdded
<1>3. CounterAhead' /\ StepOK
  BY <1>1, <1>2, Fewer DEF IInv
<1>4. AlertsOK' /\ IndexesOK' /\ LivesOK'
  BY <1>1 DEF IInv, AlertsOK, IndexesOK, LivesOK
<1>5. QED
  BY <1>3, <1>4 DEF IInv

\* A call that changes the config of one alert, and neither its owner, its target
\* nor its creation time.
LEMMA ConfigStep ==
    ASSUME IInv, NEW id \in DOMAIN alerts, NEW config \in AlertConfig,
           config.owner = alerts[id].owner,
           config.target_contract = alerts[id].target_contract,
           config.created_at = alerts[id].created_at,
           set_alert(id, config)
    PROVE  IInv' /\ StepOK
<1>1. /\ alerts' = [alerts EXCEPT ![id] = config]
      /\ ttl' = [ttl EXCEPT !.alert = Extend(ttl.alert, {id}, DEFAULT_TTL)]
      /\ next_id' = next_id /\ owner_index' = owner_index
      /\ contract_index' = contract_index /\ timestamp' = timestamp
      /\ admin' = admin /\ limit' = limit /\ paused' = paused /\ restarted' = restarted
  BY DEF set_alert, settings, indexes, clock
<1>2. /\ DOMAIN alerts' = DOMAIN alerts /\ alerts'[id] = config
      /\ \A i \in DOMAIN alerts \ {id} : alerts'[i] = alerts[i]
  BY <1>1
<1>3. SettingsOK' /\ IndexesOK'
  BY <1>1 DEF IInv, SettingsOK, IndexesOK
<1>4. AlertsOK'
  BY <1>1, <1>2 DEF IInv, AlertsOK, IsTable
<1>5. LivesOK'
  <2> DEFINE t == Extend(ttl.alert, {id}, DEFAULT_TTL)
  <2>1. IsTable(t, Ids, Nat)
    <3>1. {id} \in SUBSET Ids /\ DEFAULT_TTL \in Nat
      BY ModularConstantsAssumption DEF IInv, AlertsOK, IsTable
    <3>2. QED
      BY <3>1, ExtendTable DEF IInv, LivesOK
  <2>2. DOMAIN t = DOMAIN alerts
    <3>1. DOMAIN t = DOMAIN ttl.alert \cup {id}
      BY DEF Extend
    <3>2. QED
      BY <3>1 DEF IInv, LivesOK
  <2> HIDE DEF t
  <2>3. ttl' = [alert |-> t, owner |-> ttl.owner, contract |-> ttl.contract,
                counter |-> ttl.counter]
    BY <1>1 DEF IInv, LivesOK, t
  <2>4. QED
    BY <1>1, <1>2, <2>1, <2>2, <2>3 DEF IInv, LivesOK
<1>6. NoneAdded
  BY <1>2 DEF NoneAdded
<1>7. CounterAhead' /\ StepOK
  BY <1>1, <1>6, Fewer DEF IInv
<1>8. QED
  BY <1>3, <1>4, <1>5, <1>7 DEF IInv

\* The owners' edits: update_alert, update_webhook, propose_webhook and
\* confirm_webhook stamp the config they change.
LEMMA OwnerChange ==
    ASSUME IInv, NEW caller, NEW id \in DOMAIN alerts, NEW config \in AlertConfig,
           config.owner = alerts[id].owner,
           config.target_contract = alerts[id].target_contract,
           config.created_at = alerts[id].created_at,
           owner_change(caller, id, config)
    PROVE  IInv' /\ StepOK
<1> DEFINE new == [config EXCEPT !.updated_at = timestamp]
<1>1. /\ new \in AlertConfig /\ new.owner = alerts[id].owner
      /\ new.target_contract = alerts[id].target_contract
      /\ new.created_at = alerts[id].created_at
  BY DEF AlertConfig, IInv, SettingsOK
<1>2. set_alert(id, new)
  BY DEF owner_change
<1> HIDE DEF new
<1>3. QED
  BY <1>1, <1>2, ConfigStep

\* The renewals give the entries they name a longer life and change nothing else.
LEMMA Renewal ==
    ASSUME IInv, NEW K \in SUBSET DOMAIN alerts, NEW c \in Nat \cup {-1}, renew(K, c)
    PROVE  IInv' /\ StepOK
<1> DEFINE ko == {alerts[id].owner : id \in K} \cap DOMAIN ttl.owner
           kt == {alerts[id].target_contract : id \in K} \cap DOMAIN ttl.contract
           a == Extend(ttl.alert, K, RENEW_TTL)
           o == Extend(ttl.owner, ko, RENEW_TTL)
           t == Extend(ttl.contract, kt, RENEW_TTL)
<1>1. /\ ttl' = [alert |-> a, owner |-> o, contract |-> t, counter |-> c]
      /\ next_id' = next_id /\ owner_index' = owner_index /\ alerts' = alerts
      /\ contract_index' = contract_index /\ timestamp' = timestamp
      /\ admin' = admin /\ limit' = limit /\ paused' = paused /\ restarted' = restarted
  BY DEF renew, settings, indexes, clock, extend_alert_ttl, extend_index_ttl
<1>2. RENEW_TTL \in Nat
  BY ModularConstantsAssumption
<1>3. /\ IsTable(ttl.alert, Ids, Nat) /\ DOMAIN ttl.alert = DOMAIN alerts
      /\ IsTable(ttl.owner, Owners, Nat) /\ DOMAIN ttl.owner = DOMAIN owner_index
      /\ IsTable(ttl.contract, Targets, Nat) /\ DOMAIN ttl.contract = DOMAIN contract_index
  BY DEF IInv, LivesOK
<1>4. K \in SUBSET Ids /\ ko \in SUBSET Owners /\ kt \in SUBSET Targets
  BY <1>3 DEF IsTable
<1>5. IsTable(a, Ids, Nat) /\ IsTable(o, Owners, Nat) /\ IsTable(t, Targets, Nat)
  <2> HIDE DEF ko, kt
  <2>1. QED
    BY <1>2, <1>3, <1>4, ExtendTable
<1>6. /\ DOMAIN a = DOMAIN alerts /\ DOMAIN o = DOMAIN owner_index
      /\ DOMAIN t = DOMAIN contract_index
  <2>1. /\ DOMAIN a = DOMAIN ttl.alert \cup K /\ DOMAIN o = DOMAIN ttl.owner \cup ko
        /\ DOMAIN t = DOMAIN ttl.contract \cup kt
    BY DEF Extend
  <2>2. QED
    BY <1>3, <2>1
<1> HIDE DEF a, o, t
<1>7. LivesOK'
  BY <1>1, <1>5, <1>6 DEF LivesOK
<1>8. SettingsOK' /\ IndexesOK' /\ AlertsOK'
  BY <1>1 DEF IInv, SettingsOK, IndexesOK, AlertsOK
<1>9. NoneAdded
  BY <1>1 DEF NoneAdded
<1>10. CounterAhead' /\ StepOK
  BY <1>1, <1>9, Fewer DEF IInv
<1>11. QED
  BY <1>7, <1>8, <1>10 DEF IInv

\* remove_alert and remove_alert_by_admin take one alert out of the table and out
\* of the lists of its own owner and contract.
LEMMA Removal ==
    ASSUME IInv, NEW id \in DOMAIN alerts, remove_alert_record(id)
    PROVE  IInv' /\ StepOK
<1> DEFINE ow == alerts[id].owner
           tg == alerts[id].target_contract
           a == Drop(ttl.alert, id)
           o == Extend(ttl.owner, {ow}, DEFAULT_TTL)
           t == Extend(ttl.contract, {tg}, DEFAULT_TTL)
<1>1. /\ alerts' = Drop(alerts, id)
      /\ owner_index' = remove_from_index(owner_index, ow, id)
      /\ contract_index' = remove_from_index(contract_index, tg, id)
      /\ ttl' = [ttl EXCEPT !.alert = a, !.owner = o, !.contract = t]
      /\ next_id' = next_id /\ timestamp' = timestamp
      /\ admin' = admin /\ limit' = limit /\ paused' = paused /\ restarted' = restarted
  BY DEF remove_alert_record, settings, clock
<1>2. ow \in Owners /\ tg \in Targets /\ {ow} \in SUBSET Owners /\ {tg} \in SUBSET Targets
  BY DEF IInv, AlertsOK, IsTable, AlertConfig
<1>3. DEFAULT_TTL \in Nat
  BY ModularConstantsAssumption
<1>4. /\ IsTable(ttl.alert, Ids, Nat) /\ DOMAIN ttl.alert = DOMAIN alerts
      /\ IsTable(ttl.owner, Owners, Nat) /\ DOMAIN ttl.owner = DOMAIN owner_index
      /\ IsTable(ttl.contract, Targets, Nat) /\ DOMAIN ttl.contract = DOMAIN contract_index
      /\ ttl = [alert |-> ttl.alert, owner |-> ttl.owner, contract |-> ttl.contract,
                counter |-> ttl.counter] /\ ttl.counter \in Nat \cup {-1}
  BY DEF IInv, LivesOK
<1> HIDE DEF ow, tg
<1>5. IsTable(a, Ids, Nat) /\ IsTable(o, Owners, Nat) /\ IsTable(t, Targets, Nat)
  BY <1>2, <1>3, <1>4, ExtendTable, DropTable
<1>6. /\ DOMAIN a = DOMAIN alerts \ {id} /\ DOMAIN o = DOMAIN owner_index \cup {ow}
      /\ DOMAIN t = DOMAIN contract_index \cup {tg}
  <2>1. DOMAIN a = DOMAIN ttl.alert \ {id}
    BY DropEffect
  <2>2. /\ DOMAIN o = DOMAIN ttl.owner \cup {ow}
        /\ DOMAIN t = DOMAIN ttl.contract \cup {tg}
    BY DEF Extend
  <2>3. QED
    BY <1>4, <2>1, <2>2
<1>7. ttl' = [alert |-> a, owner |-> o, contract |-> t, counter |-> ttl.counter]
  <2> HIDE DEF a, o, t
  <2>1. QED
    BY <1>1, <1>4
<1>8. DOMAIN owner_index' = DOMAIN owner_index \cup {ow}
      /\ DOMAIN contract_index' = DOMAIN contract_index \cup {tg}
  BY <1>1, PutEffect DEF remove_from_index
<1>9. /\ DOMAIN alerts' = DOMAIN alerts \ {id}
      /\ \A x \in DOMAIN alerts \ {id} : alerts'[x] = alerts[x]
  BY <1>1, DropEffect
<1>10. LivesOK'
  <2> HIDE DEF a, o, t
  <2>1. QED
    BY <1>4, <1>5, <1>6, <1>7, <1>8, <1>9 DEF LivesOK
<1>11. SettingsOK'
  BY <1>1 DEF IInv, SettingsOK
<1>12. AlertsOK'
  BY <1>1, DropTable DEF IInv, AlertsOK
<1>13. /\ IndexesOK'
       /\ \A k : Listed(owner_index', k) \subseteq Listed(owner_index, k)
       /\ \A k : Listed(contract_index', k) \subseteq Listed(contract_index, k)
  BY <1>1, <1>2, RemoveEffect DEF IInv, IndexesOK
<1>14. NoneAdded
  BY <1>9 DEF NoneAdded
<1>15. CounterAhead' /\ StepOK
  BY <1>1, <1>13, <1>14, Fewer DEF IInv
<1>16. QED
  BY <1>10, <1>11, <1>12, <1>13, <1>15 DEF IInv

\* A ledger that closes takes the lapsed entries away; the counter stays where it
\* is while its entry lives, and restarts at 0 otherwise: with no id left behind, or
\* for good.
LEMMA Close ==
    ASSUME IInv, close_ledger
    PROVE  IInv' /\ StepOK
<1>1. /\ alerts' = Restrict(alerts, Survivors(ttl.alert))
      /\ owner_index' = Restrict(owner_index, Survivors(ttl.owner))
      /\ contract_index' = Restrict(contract_index, Survivors(ttl.contract))
      /\ ttl' = [alert |-> Age(ttl.alert), owner |-> Age(ttl.owner),
                 contract |-> Age(ttl.contract),
                 counter |-> IF ttl.counter >= 0 THEN ttl.counter - 1 ELSE -1]
      /\ next_id' = IF ttl.counter = 0 THEN 0 ELSE next_id
      /\ restarted' = (restarted \/ (ttl.counter = 0 /\ ids_in_use' # {}))
      /\ timestamp' = timestamp + LedgerSeconds
      /\ admin' = admin /\ limit' = limit /\ paused' = paused
  BY DEF close_ledger, settings
<1>2. /\ IsTable(ttl.alert, Ids, Nat) /\ DOMAIN ttl.alert = DOMAIN alerts
      /\ IsTable(ttl.owner, Owners, Nat) /\ DOMAIN ttl.owner = DOMAIN owner_index
      /\ IsTable(ttl.contract, Targets, Nat) /\ DOMAIN ttl.contract = DOMAIN contract_index
      /\ ttl.counter \in Nat \cup {-1}
  BY DEF IInv, LivesOK
<1>3. /\ Survivors(ttl.alert) \subseteq DOMAIN alerts
      /\ Survivors(ttl.owner) \subseteq DOMAIN owner_index
      /\ Survivors(ttl.contract) \subseteq DOMAIN contract_index
      /\ DOMAIN Age(ttl.alert) = Survivors(ttl.alert)
      /\ DOMAIN Age(ttl.owner) = Survivors(ttl.owner)
      /\ DOMAIN Age(ttl.contract) = Survivors(ttl.contract)
  BY <1>2, AgeEffect
<1>4. /\ DOMAIN alerts' = Survivors(ttl.alert)
      /\ \A x \in Survivors(ttl.alert) : alerts'[x] = alerts[x]
      /\ DOMAIN owner_index' = Survivors(ttl.owner)
      /\ DOMAIN contract_index' = Survivors(ttl.contract)
  BY <1>1, RestrictEffect
<1>5. LivesOK'
  <2>1. /\ IsTable(Age(ttl.alert), Ids, Nat) /\ IsTable(Age(ttl.owner), Owners, Nat)
        /\ IsTable(Age(ttl.contract), Targets, Nat)
    BY <1>2, AgeTable
  <2>2. (IF ttl.counter >= 0 THEN ttl.counter - 1 ELSE -1) \in Nat \cup {-1}
    BY <1>2
  <2>3. QED
    BY <1>1, <1>3, <1>4, <2>1, <2>2 DEF LivesOK
<1>6. SettingsOK'
  <2>1. timestamp \in Nat /\ LedgerSeconds \in Nat
    BY ModularConstantsAssumption DEF IInv, SettingsOK
  <2>2. QED
    BY <1>1, <2>1 DEF IInv, SettingsOK
<1>7. AlertsOK'
  <2>1. IsTable(alerts', Ids, AlertConfig)
    BY <1>1, <1>3, RestrictTable DEF IInv, AlertsOK
  <2>2. next_id' \in 0..U64_MAX
    BY <1>1, ModularConstantsAssumption DEF IInv, AlertsOK
  <2>3. QED
    BY <2>1, <2>2 DEF AlertsOK
<1>8. /\ IndexesOK'
      /\ \A k : Listed(owner_index', k) \subseteq Listed(owner_index, k)
      /\ \A k : Listed(contract_index', k) \subseteq Listed(contract_index, k)
  BY <1>1, <1>3, LapseEffect DEF IInv, IndexesOK
<1>9. NoneAdded
  BY <1>3, <1>4 DEF NoneAdded
<1>10. ASSUME ttl.counter # 0
       PROVE  CounterAhead' /\ StepOK
  BY <1>1, <1>8, <1>9, <1>10, Fewer DEF IInv
<1>11. ASSUME ttl.counter = 0
       PROVE  CounterAhead' /\ StepOK
  <2>1. OwnersStay
    BY <1>9 DEF NoneAdded, OwnersStay
  <2>2. LimitKept
    <3>1. \A o : OwnedNext(o) \subseteq owned(o)
      BY <1>9 DEF NoneAdded, OwnedNext, owned
    <3>2. QED
      BY <3>1 DEF LimitKept
  <2>3. ASSUME ~restarted'
        PROVE  CounterAhead'
    <3> DEFINE A == alerts'
               O == owner_index'
               C == contract_index'
    <3>1. ASSUME NEW X, NEW Y, NEW Z, X \cup (UNION Y) \cup (UNION Z) = {}
          PROVE  X = {} /\ (\A y \in Y : y = {}) /\ (\A z \in Z : z = {})
      <4>1. \A e : e \notin X /\ e \notin UNION Y /\ e \notin UNION Z
        BY <3>1
      <4>2. X = {}
        BY <4>1
      <4>3. \A y \in Y : \A e : e \notin y
        BY <4>1
      <4>4. \A z \in Z : \A e : e \notin z
        BY <4>1
      <4>5. QED
        BY <4>2, <4>3, <4>4
    <3>2. /\ DOMAIN A = {}
          /\ \A y \in {Range(O[k]) : k \in DOMAIN O} : y = {}
          /\ \A z \in {Range(C[k]) : k \in DOMAIN C} : z = {}
      <4>1. ids_in_use' = {}
        BY <1>1, <1>11, <2>3
      <4>2. QED
        BY <3>1, <4>1 DEF ids_in_use
    <3> HIDE DEF A, O, C
    <3>3. \A k : Listed(O, k) = {} /\ Listed(C, k) = {}
      BY <3>2, ListedEntry
    <3>4. QED
      BY <3>2, <3>3 DEF CounterAhead, Placed, Listed, lookup, A, O, C
  <2>4. CounterAhead'
    BY <2>3 DEF CounterAhead
  <2>5. QED
    BY <2>1, <2>2, <2>4 DEF StepOK
<1>12. QED
  BY <1>5, <1>6, <1>7, <1>8, <1>10, <1>11 DEF IInv
-----------------------------------------------------------------------------
(* Registration.                                                           *)

\* register_alert counts the listed alerts that are still stored before it adds
\* one; an owner whose alerts are all listed holds no more than it counts.
LEMMA RegisterLimit ==
    ASSUME IInv, NEW owner \in Owners, NEW target, NEW label, NEW hash, NEW rules,
           register_alert(owner, target, label, hash, rules)
    PROVE  LimitKept
<1> DEFINE list == lookup(owner_index, owner)
           kept == Keep(list, DOMAIN alerts)
           P    == Positions(list, DOMAIN alerts)
           A    == alerts'
<1>1. /\ limit # None /\ limit > 0 => Cardinality(P) < limit
      /\ DOMAIN A = DOMAIN alerts \cup {next_id} /\ A[next_id].owner = owner
      /\ \A x \in DOMAIN alerts \ {next_id} : A[x] = alerts[x]
  BY DEF register_alert, assert_per_owner_limit, Put
<1>2. list \in Seq(Ids)
  BY LookupGood DEF IInv, IndexesOK
<1>3. /\ kept \in Seq(Ids) /\ Range(kept) = Range(list) \cap DOMAIN alerts
      /\ Len(kept) = Cardinality(P) /\ Len(kept) \in Nat
  BY <1>2, KeepFacts, KeepShorter
<1> HIDE DEF list, kept, P, A
<1>4. /\ IsFiniteSet(Range(kept)) /\ Cardinality(Range(kept)) \in Nat
      /\ Cardinality(Range(kept)) <= Len(kept)
  BY <1>3, RangeBound
<1>5. ASSUME NEW o \in Owners, ~(OwnedNext(o) \subseteq owned(o)),
             owned(o) \subseteq Range(lookup(owner_index, o)),
             limit # None, limit > 0
      PROVE  Cardinality(OwnedNext(o)) <= limit
  <2>1. OwnedNext(o) = {id \in DOMAIN A : A[id].owner = o}
    BY DEF OwnedNext, A
  <2>2. o = owner
    BY <1>1, <1>5, <2>1 DEF owned
  <2>3. OwnedNext(o) \in SUBSET (Range(kept) \cup {next_id})
    BY <1>1, <1>3, <1>5, <2>1, <2>2 DEF owned, list
  <2>4. /\ IsFiniteSet(Range(kept) \cup {next_id})
        /\ Cardinality(Range(kept) \cup {next_id}) =
              IF next_id \in Range(kept) THEN Cardinality(Range(kept))
                                         ELSE Cardinality(Range(kept)) + 1
    BY <1>4, FS_AddElement
  <2>5. /\ IsFiniteSet(OwnedNext(o))
        /\ Cardinality(OwnedNext(o)) <= Cardinality(Range(kept) \cup {next_id})
    BY <2>3, <2>4, FS_Subset
  <2>6. Cardinality(OwnedNext(o)) \in Nat
    BY <2>5, FS_CardinalityType
  <2>7. limit \in Nat
    BY <1>5, ModularConstantsAssumption DEF IInv, SettingsOK
  <2> DEFINE x == Cardinality(OwnedNext(o))
             y == Cardinality(Range(kept) \cup {next_id})
             r == Cardinality(Range(kept))
  <2>8. /\ x \in Nat /\ r \in Nat /\ x <= y /\ (y = r \/ y = r + 1)
        /\ r <= Cardinality(P) /\ Cardinality(P) < limit /\ Cardinality(P) \in Nat
    BY <1>1, <1>3, <1>4, <1>5, <2>4, <2>5, <2>6
  <2> HIDE DEF x, y, r
  <2>9. x <= limit
    BY <2>7, <2>8
  <2>10. QED
    BY <2>9 DEF x
<1>6. QED
  BY <1>5 DEF LimitKept

\* A registration takes an id that no stored alert has and no list names, as long
\* as the counter has not lapsed under one, and keeps the counter ahead.
LEMMA RegisterFresh ==
    ASSUME IInv, ~restarted, NEW owner \in Owners, NEW target \in Targets,
           NEW label, NEW hash, NEW rules,
           register_alert(owner, target, label, hash, rules)
    PROVE  OwnersStay /\ CounterAhead'
<1> DEFINE A == alerts'
           O == OwnerOf'
           T == TargetOf'
           n == next_id'
<1>1. /\ n = next_id + 1 /\ next_id < U64_MAX
      /\ DOMAIN A = DOMAIN alerts \cup {next_id}
      /\ A[next_id].owner = owner /\ A[next_id].target_contract = target
      /\ \A x \in DOMAIN alerts \ {next_id} : A[x] = alerts[x]
      /\ can_push(owner_index, owner, next_id) /\ can_push(contract_index, target, next_id)
      /\ owner_index' = push_index(owner_index, owner, next_id)
      /\ contract_index' = push_index(contract_index, target, next_id)
  BY DEF register_alert, next_id_taken, Put
<1>2. /\ O = [id \in DOMAIN A |-> A[id].owner]
      /\ T = [id \in DOMAIN A |-> A[id].target_contract]
  BY DEF OwnerOf, TargetOf
<1>3. next_id \in Nat /\ U64_MAX \in Nat /\ next_id \in Ids
  BY <1>1, ModularConstantsAssumption DEF IInv, AlertsOK, Ids
<1>4. /\ \A id \in DOMAIN alerts : id \in Nat /\ id < next_id
      /\ Placed(owner_index, Owners, OwnerOf, next_id)
      /\ Placed(contract_index, Targets, TargetOf, next_id)
  BY DEF IInv, CounterAhead, AlertsOK, IsTable, Ids
<1>5. next_id \notin DOMAIN alerts
  BY <1>3, <1>4
<1>6. /\ Listed(owner_index', owner) = Listed(owner_index, owner) \cup {next_id}
      /\ \A k : k # owner => Listed(owner_index', k) = Listed(owner_index, k)
      /\ Listed(contract_index', target) = Listed(contract_index, target) \cup {next_id}
      /\ \A k : k # target => Listed(contract_index', k) = Listed(contract_index, k)
  BY <1>1, <1>3, PushEffect DEF IInv, IndexesOK
<1>7. OwnersStay
  BY <1>1, <1>5 DEF OwnersStay
<1>8. \A k, id : (id \in Listed(owner_index, k) \/ id \in Listed(contract_index, k)) => id \in Int
  <2>1. \A k : /\ lookup(owner_index, k) \in Seq(Ids)
               /\ lookup(contract_index, k) \in Seq(Ids)
    BY LookupGood DEF IInv, IndexesOK
  <2>2. ASSUME NEW s \in Seq(Ids)
        PROVE  Range(s) \subseteq Int
    <3>1. Range(s) \subseteq Ids
      BY DEF Range
    <3>2. QED
      BY <3>1, <1>3 DEF Ids
  <2>3. QED
    BY <2>1, <2>2 DEF Listed
<1> HIDE DEF A, O, T, n
<1>9. /\ DOMAIN O = DOMAIN OwnerOf \cup {next_id} /\ O[next_id] = owner
      /\ \A id \in DOMAIN OwnerOf : O[id] = OwnerOf[id]
      /\ DOMAIN T = DOMAIN TargetOf \cup {next_id} /\ T[next_id] = target
      /\ \A id \in DOMAIN TargetOf : T[id] = TargetOf[id]
  BY <1>1, <1>2, <1>5 DEF OwnerOf, TargetOf
<1>10. Placed(owner_index', Owners, O, n)
  <2> SUFFICES ASSUME NEW k \in Owners, NEW id \in Listed(owner_index', k)
               PROVE  id < n /\ (id \in DOMAIN O => O[id] = k)
    BY DEF Placed
  <2>1. CASE id \in Listed(owner_index, k)
    <3>1. id < next_id /\ id \in Int /\ (id \in DOMAIN OwnerOf => OwnerOf[id] = k)
      BY <1>4, <1>8, <2>1 DEF Placed
    <3>2. id < n /\ id # next_id
      BY <1>1, <1>3, <3>1
    <3>3. QED
      BY <1>9, <3>1, <3>2
  <2>2. CASE id \notin Listed(owner_index, k)
    <3>1. id = next_id /\ k = owner
      BY <1>6, <2>2
    <3>2. QED
      BY <1>1, <1>3, <1>9, <3>1
  <2>3. QED
    BY <2>1, <2>2
<1>11. Placed(contract_index', Targets, T, n)
  <2> SUFFICES ASSUME NEW k \in Targets, NEW id \in Listed(contract_index', k)
               PROVE  id < n /\ (id \in DOMAIN T => T[id] = k)
    BY DEF Placed
  <2>1. CASE id \in Listed(contract_index, k)
    <3>1. id < next_id /\ id \in Int /\ (id \in DOMAIN TargetOf => TargetOf[id] = k)
      BY <1>4, <1>8, <2>1 DEF Placed
    <3>2. id < n /\ id # next_id
      BY <1>1, <1>3, <3>1
    <3>3. QED
      BY <1>9, <3>1, <3>2
  <2>2. CASE id \notin Listed(contract_index, k)
    <3>1. id = next_id /\ k = target
      BY <1>6, <2>2
    <3>2. QED
      BY <1>1, <1>3, <1>9, <3>1
  <2>3. QED
    BY <2>1, <2>2
<1>12. \A id \in DOMAIN A : id < n
  BY <1>1, <1>3, <1>4
<1>13. CounterAhead'
  BY <1>10, <1>11, <1>12 DEF CounterAhead, Placed, Listed, lookup, A, O, T, n
<1>14. QED
  BY <1>7, <1>13

\* A registration writes entries of the right types and lengthens both lists.
LEMMA Register ==
    ASSUME IInv, NEW owner \in Owners, NEW target \in Targets,
           NEW label \in Labels, NEW hash \in Hashes, NEW rules \in RuleLists,
           register_alert(owner, target, label, hash, rules)
    PROVE  IInv' /\ StepOK
<1> DEFINE config == [label |-> label, webhook_hash |-> hash, rules |-> rules,
                      owner |-> owner, target_contract |-> target,
                      created_at |-> timestamp, updated_at |-> timestamp,
                      active |-> TRUE, pending_webhook_hash |-> None]
           a == Extend(ttl.alert, {next_id}, DEFAULT_TTL)
           o == Extend(ttl.owner, {owner}, DEFAULT_TTL)
           t == Extend(ttl.contract, {target}, DEFAULT_TTL)
           c == AtLeast(AtLeast(ttl.counter, MIN_TTL), DEFAULT_TTL)
<1>1. /\ next_id < U64_MAX /\ next_id' = next_id + 1
      /\ alerts' = Put(alerts, next_id, config)
      /\ can_push(owner_index, owner, next_id) /\ can_push(contract_index, target, next_id)
      /\ owner_index' = push_index(owner_index, owner, next_id)
      /\ contract_index' = push_index(contract_index, target, next_id)
      /\ ttl' = [alert |-> a, owner |-> o, contract |-> t, counter |-> c]
      /\ timestamp' = timestamp /\ admin' = admin /\ limit' = limit /\ paused' = paused
      /\ restarted' = restarted
  BY DEF register_alert, next_id_taken, settings, clock
<1>2. next_id \in Nat /\ U64_MAX \in Nat /\ next_id \in Ids /\ DEFAULT_TTL \in Nat
  BY <1>1, ModularConstantsAssumption DEF IInv, AlertsOK, Ids
<1>3. config \in AlertConfig
  BY DEF AlertConfig, IInv, SettingsOK
<1> HIDE DEF config
<1>4. AlertsOK'
  <2>1. IsTable(alerts', Ids, AlertConfig)
    BY <1>1, <1>2, <1>3, PutTable DEF IInv, AlertsOK
  <2>2. next_id' \in 0..U64_MAX
    BY <1>1, <1>2
  <2>3. QED
    BY <2>1, <2>2 DEF AlertsOK
<1>5. IndexesOK'
  BY <1>1, <1>2, PushEffect DEF IInv, IndexesOK
<1>6. SettingsOK'
  BY <1>1 DEF IInv, SettingsOK
<1>7. /\ IsTable(ttl.alert, Ids, Nat) /\ DOMAIN ttl.alert = DOMAIN alerts
      /\ IsTable(ttl.owner, Owners, Nat) /\ DOMAIN ttl.owner = DOMAIN owner_index
      /\ IsTable(ttl.contract, Targets, Nat) /\ DOMAIN ttl.contract = DOMAIN contract_index
      /\ ttl.counter \in Nat \cup {-1}
  BY DEF IInv, LivesOK
<1>8. IsTable(a, Ids, Nat) /\ IsTable(o, Owners, Nat) /\ IsTable(t, Targets, Nat)
  <2>1. {next_id} \in SUBSET Ids /\ {owner} \in SUBSET Owners /\ {target} \in SUBSET Targets
    BY <1>2
  <2>2. QED
    BY <1>2, <1>7, <2>1, ExtendTable
<1>9. /\ DOMAIN a = DOMAIN ttl.alert \cup {next_id} /\ DOMAIN o = DOMAIN ttl.owner \cup {owner}
      /\ DOMAIN t = DOMAIN ttl.contract \cup {target}
  BY DEF Extend
<1>10. c \in Nat
  BY <1>2, <1>7, MinTtlAssumption DEF AtLeast
<1>11. /\ DOMAIN alerts' = DOMAIN alerts \cup {next_id}
       /\ DOMAIN owner_index' = DOMAIN owner_index \cup {owner}
       /\ DOMAIN contract_index' = DOMAIN contract_index \cup {target}
  BY <1>1 DEF push_index, Put
<1> HIDE DEF a, o, t, c
<1>12. LivesOK'
  BY <1>1, <1>7, <1>8, <1>9, <1>10, <1>11 DEF LivesOK
<1>13. LimitKept
  BY RegisterLimit
<1>14. ~restarted => OwnersStay /\ CounterAhead'
  BY RegisterFresh
<1>15. CounterAhead'
  BY <1>1, <1>14 DEF CounterAhead
<1>16. QED
  BY <1>4, <1>5, <1>6, <1>12, <1>13, <1>14, <1>15 DEF IInv, StepOK
-----------------------------------------------------------------------------
(* All steps, and the theorems.                                            *)

\* A registry that has just been deployed holds nothing.
LEMMA InitIInv == Init => IInv
<1> SUFFICES ASSUME Init
             PROVE  IInv
  OBVIOUS
<1>1. /\ admin = None /\ limit = None /\ paused = FALSE /\ next_id = 0 /\ timestamp = 0
      /\ restarted = FALSE
      /\ alerts = NoEntries /\ owner_index = NoEntries /\ contract_index = NoEntries
      /\ ttl = [alert |-> NoEntries, owner |-> NoEntries, contract |-> NoEntries,
                counter |-> -1]
  BY DEF Init
<1>2. DOMAIN NoEntries = {} /\ \A D, S : IsTable(NoEntries, D, S)
  BY DEF NoEntries, IsTable
<1>3. SettingsOK
  BY <1>1 DEF SettingsOK
<1>4. AlertsOK
  BY <1>1, <1>2, ModularConstantsAssumption DEF AlertsOK
<1>5. IndexesOK
  BY <1>1, <1>2 DEF IndexesOK, GoodIndex
<1>6. LivesOK
  BY <1>1, <1>2 DEF LivesOK
<1>7. CounterAhead
  <2>1. \A k : Listed(owner_index, k) = {} /\ Listed(contract_index, k) = {}
    BY <1>1, <1>2, ListedEntry
  <2>2. QED
    BY <1>1, <1>2, <2>1 DEF CounterAhead, Placed
<1>8. QED
  BY <1>3, <1>4, <1>5, <1>6, <1>7 DEF IInv

\* The calls of the admin.
LEMMA AdminCall ==
    ASSUME IInv, admin_call
    PROVE  IInv' /\ StepOK
<1> DEFINE Goal == IInv' /\ StepOK
<1> SUFFICES Goal
  OBVIOUS
<1> HIDE DEF Goal
<1>1. PICK caller \in Admins :
         \/ initialize(caller)
         \/ \E other \in Admins : transfer_admin(caller, other)
         \/ \E n \in Limits : set_per_owner_alert_limit(caller, n)
         \/ \E value \in PauseValues : set_paused(caller, value)
         \/ \E id \in Ids : remove_alert_by_admin(caller, id)
  BY DEF admin_call
<1>2. ASSUME NEW other \in Admins, set_admin(other)
      PROVE  Goal
  <2>1. SettingsOK' /\ UNCHANGED <<next_id, alerts, indexes, ttl, restarted>>
    BY <1>2 DEF set_admin, clock, IInv, SettingsOK
  <2>2. QED
    BY <2>1, SettingsStep DEF Goal
<1>3. ASSUME NEW n \in Limits, set_per_owner_alert_limit(caller, n)
      PROVE  Goal
  <2>1. SettingsOK' /\ UNCHANGED <<next_id, alerts, indexes, ttl, restarted>>
    BY <1>3 DEF set_per_owner_alert_limit, clock, IInv, SettingsOK
  <2>2. QED
    BY <2>1, SettingsStep DEF Goal
<1>4. ASSUME NEW value \in PauseValues, set_paused(caller, value)
      PROVE  Goal
  <2>1. SettingsOK' /\ UNCHANGED <<next_id, alerts, indexes, ttl, restarted>>
    BY <1>4, ModularConstantsAssumption DEF set_paused, clock, IInv, SettingsOK
  <2>2. QED
    BY <2>1, SettingsStep DEF Goal
<1>5. ASSUME NEW id \in Ids, remove_alert_by_admin(caller, id)
      PROVE  Goal
  BY <1>5, Removal DEF remove_alert_by_admin, Goal
<1>6. QED
  BY <1>1, <1>2, <1>3, <1>4, <1>5 DEF initialize, transfer_admin

\* The calls of owners on alerts they have.
LEMMA AlertCall ==
    ASSUME IInv, NEW caller \in Owners, NEW id \in DOMAIN alerts,
           \/ \E rules \in RuleLists, active \in BOOLEAN :
                 update_alert(caller, id, rules, active)
           \/ \E hash \in Hashes : update_webhook(caller, id, hash)
           \/ \E hash \in Hashes : propose_webhook(caller, id, hash)
           \/ confirm_webhook(caller, id)
           \/ renew_alert_ttl(caller, id)
           \/ remove_alert(caller, id)
    PROVE  IInv' /\ StepOK
<1> DEFINE Goal == IInv' /\ StepOK
           old  == alerts[id]
<1> SUFFICES Goal
  OBVIOUS
<1> HIDE DEF Goal
<1>1. old \in AlertConfig
  BY DEF IInv, AlertsOK, IsTable
<1>2. ASSUME NEW config \in AlertConfig, config.owner = old.owner,
             config.target_contract = old.target_contract,
             config.created_at = old.created_at, owner_change(caller, id, config)
      PROVE  Goal
  BY <1>2, OwnerChange DEF Goal
<1> HIDE DEF old
<1>3. ASSUME NEW rules \in RuleLists, NEW active \in BOOLEAN,
             update_alert(caller, id, rules, active)
      PROVE  Goal
  <2> DEFINE config == [old EXCEPT !.rules = rules, !.active = active]
  <2>1. /\ config \in AlertConfig /\ config.owner = old.owner
        /\ config.target_contract = old.target_contract
        /\ config.created_at = old.created_at
    BY <1>1 DEF AlertConfig
  <2>2. owner_change(caller, id, config)
    BY <1>3 DEF update_alert, old
  <2> HIDE DEF config
  <2>3. QED
    BY <1>2, <2>1, <2>2
<1>4. ASSUME NEW hash \in Hashes, update_webhook(caller, id, hash)
      PROVE  Goal
  <2> DEFINE config == [old EXCEPT !.webhook_hash = hash]
  <2>1. /\ config \in AlertConfig /\ config.owner = old.owner
        /\ config.target_contract = old.target_contract
        /\ config.created_at = old.created_at
    BY <1>1 DEF AlertConfig
  <2>2. owner_change(caller, id, config)
    BY <1>4 DEF update_webhook, old
  <2> HIDE DEF config
  <2>3. QED
    BY <1>2, <2>1, <2>2
<1>5. ASSUME NEW hash \in Hashes, propose_webhook(caller, id, hash)
      PROVE  Goal
  <2> DEFINE config == [old EXCEPT !.pending_webhook_hash = hash]
  <2>1. /\ config \in AlertConfig /\ config.owner = old.owner
        /\ config.target_contract = old.target_contract
        /\ config.created_at = old.created_at
    BY <1>1 DEF AlertConfig
  <2>2. owner_change(caller, id, config)
    BY <1>5 DEF propose_webhook, old
  <2> HIDE DEF config
  <2>3. QED
    BY <1>2, <2>1, <2>2
<1>6. CASE confirm_webhook(caller, id)
  <2> DEFINE config == [old EXCEPT !.webhook_hash = old.pending_webhook_hash,
                                   !.pending_webhook_hash = None]
  <2>1. old.pending_webhook_hash # None /\ owner_change(caller, id, config)
    BY <1>6 DEF confirm_webhook, old
  <2>2. /\ config \in AlertConfig /\ config.owner = old.owner
        /\ config.target_contract = old.target_contract
        /\ config.created_at = old.created_at
    BY <1>1, <2>1 DEF AlertConfig
  <2> HIDE DEF config
  <2>3. QED
    BY <1>2, <2>1, <2>2
<1>7. CASE renew_alert_ttl(caller, id)
  <2>1. extend_next_id_ttl \in Nat \cup {-1}
    BY ModularConstantsAssumption DEF extend_next_id_ttl, AtLeast, IInv, LivesOK
  <2>2. {id} \in SUBSET DOMAIN alerts /\ renew({id}, extend_next_id_ttl)
    BY <1>7 DEF renew_alert_ttl
  <2>3. QED
    BY <2>1, <2>2, Renewal DEF Goal
<1>8. CASE remove_alert(caller, id)
  BY <1>8, Removal DEF remove_alert, Goal
<1>9. QED
  BY <1>3, <1>4, <1>5, <1>6, <1>7, <1>8

\* Every step keeps the invariant and is a step the properties allow.
LEMMA Step ==
    ASSUME IInv, [Next]_vars
    PROVE  IInv' /\ StepOK
<1> DEFINE Goal == IInv' /\ StepOK
<1> SUFFICES Goal
  OBVIOUS
<1> HIDE DEF Goal
<1>1. CASE admin_call
  BY <1>1, AdminCall DEF Goal
<1>2. CASE owner_call
  <2>1. PICK caller \in Owners :
          \/ \E target \in Targets, label \in Labels, hash \in Hashes, rules \in RuleLists :
                register_alert(caller, target, label, hash, rules)
          \/ \E id \in DOMAIN alerts :
                \/ \E rules \in RuleLists, active \in BOOLEAN :
                      update_alert(caller, id, rules, active)
                \/ \E hash \in Hashes : update_webhook(caller, id, hash)
                \/ \E hash \in Hashes : propose_webhook(caller, id, hash)
                \/ confirm_webhook(caller, id)
                \/ renew_alert_ttl(caller, id)
                \/ remove_alert(caller, id)
    BY <1>2 DEF owner_call
  <2>2. CASE \E target \in Targets, label \in Labels, hash \in Hashes, rules \in RuleLists :
                register_alert(caller, target, label, hash, rules)
    BY <2>2, Register DEF Goal
  <2>3. QED
    BY <2>1, <2>2, AlertCall DEF Goal
<1>3. ASSUME NEW ids \in SUBSET Ids, bulk_renew_ttl(ids)
      PROVE  Goal
  <2>1. /\ ids \cap DOMAIN alerts \in SUBSET DOMAIN alerts
        /\ ttl.counter \in Nat \cup {-1} /\ renew(ids \cap DOMAIN alerts, ttl.counter)
    BY <1>3 DEF bulk_renew_ttl, IInv, LivesOK
  <2>2. QED
    BY <2>1, Renewal DEF Goal
<1>4. CASE close_ledger
  BY <1>4, Close DEF Goal
<1>5. CASE UNCHANGED vars
  <2>1. /\ UNCHANGED <<next_id, alerts, indexes, ttl, restarted>>
        /\ UNCHANGED <<admin, limit, paused, timestamp>>
    BY <1>5 DEF vars, settings, clock
  <2>2. SettingsOK'
    BY <2>1 DEF IInv, SettingsOK
  <2>3. QED
    BY <2>1, <2>2, SettingsStep DEF Goal
<1>6. QED
  BY <1>1, <1>2, <1>3, <1>4, <1>5 DEF Next

\* The inductive invariant holds in every reachable state.
LEMMA Invariance == Spec => []IInv
<1>1. IInv /\ [Next]_vars => IInv'
  BY Step
<1>2. QED
  BY InitIInv, <1>1, PTL DEF Spec

\* The storage keys of the secondary registry hold values of their types, and
\* entries and lives match, whichever entries lapse, the counter included.
THEOREM ModularTypes == Spec => []TypeOK
<1>1. IInv => TypeOK
  BY DEF IInv, SettingsOK, AlertsOK, IndexesOK, GoodIndex, LivesOK, TypeOK
<1>2. QED
  BY <1>1, Invariance, PTL

\* The reads of contract.rs return and count each alert once and under its own
\* owner and contract only, whatever entries have lapsed, until the counter's has
\* lapsed under an id that is still stored or listed.
THEOREM SoundReads == Spec => []SoundUntilRestart
<1>1. ASSUME NEW ids \in Seq(Ids), NoRepeats(ids)
      PROVE  /\ Range(configs_for_ids(ids)) = Range(ids) \cap DOMAIN alerts
             /\ Cardinality(Positions(ids, DOMAIN alerts))
                   = Cardinality(Range(configs_for_ids(ids)))
  <2> DEFINE kept == Keep(ids, DOMAIN alerts)
  <2>1. /\ kept \in Seq(Ids) /\ NoRepeats(kept) /\ Range(kept) = Range(ids) \cap DOMAIN alerts
        /\ Len(kept) = Cardinality(Positions(ids, DOMAIN alerts))
    BY <1>1, KeepFacts, KeepShorter
  <2> HIDE DEF kept
  <2>2. Cardinality(Range(kept)) = Len(kept)
    BY <2>1, RangeCount
  <2>3. configs_for_ids(ids) = kept
    BY DEF configs_for_ids, kept
  <2>4. QED
    BY <2>1, <2>2, <2>3
<1>2. ASSUME IInv, ~restarted, NEW o \in Owners
      PROVE  /\ Range(get_alerts_by_owner(o)) \subseteq owned(o)
             /\ get_active_alert_count(o) = Cardinality(Range(get_alerts_by_owner(o)))
  <2> DEFINE ids == lookup(owner_index, o)
  <2>1. ids \in Seq(Ids) /\ NoRepeats(ids)
    BY <1>2, LookupGood DEF IInv, IndexesOK
  <2>2. \A id \in Range(ids) : id \in DOMAIN alerts => alerts[id].owner = o
    BY <1>2 DEF IInv, CounterAhead, Placed, Listed, OwnerOf
  <2> HIDE DEF ids
  <2>3. QED
    BY <1>1, <2>1, <2>2 DEF get_alerts_by_owner, get_active_alert_count, owned, ids
<1>3. ASSUME IInv, ~restarted, NEW t \in Targets
      PROVE  /\ Range(get_alerts_for_contract(t)) \subseteq watching(t)
             /\ get_alert_count_for_contract(t) = Cardinality(Range(get_alerts_for_contract(t)))
  <2> DEFINE ids == lookup(contract_index, t)
  <2>1. ids \in Seq(Ids) /\ NoRepeats(ids)
    BY <1>3, LookupGood DEF IInv, IndexesOK
  <2>2. \A id \in Range(ids) : id \in DOMAIN alerts => alerts[id].target_contract = t
    BY <1>3 DEF IInv, CounterAhead, Placed, Listed, TargetOf
  <2> HIDE DEF ids
  <2>3. QED
    BY <1>1, <2>1, <2>2 DEF get_alerts_for_contract, get_alert_count_for_contract, watching, ids
<1>4. IInv => SoundUntilRestart
  BY <1>2, <1>3 DEF SoundUntilRestart, ReadsSound
<1>5. QED
  BY <1>4, Invariance, PTL

\* No registration of contract.rs lands on an id that is in use, so a stored alert
\* stays its owner's, until the counter has lapsed under an id it had given.
THEOREM OwnersKept == Spec => OwnersKeptUntilRestart
<1>1. IInv /\ [Next]_vars => (~restarted => OwnersStay)
  BY Step DEF StepOK
<1>2. IInv /\ [Next]_vars =>
         [~restarted =>
             \A id \in DOMAIN alerts \cap DOMAIN alerts' :
                /\ alerts'[id].owner = alerts[id].owner
                /\ alerts'[id].created_at = alerts[id].created_at]_vars
  BY <1>1 DEF OwnersStay
<1>3. QED
  BY <1>2, Invariance, PTL DEF Spec, OwnersKeptUntilRestart

\* No owner whose alerts are all listed registers past the limit, whichever entries
\* have lapsed, the counter's included.
THEOREM LimitHolds == Spec => LimitRespected
<1> DEFINE A == [\A o \in Owners :
                    LET registers == ~(owned(o)' \subseteq owned(o))
                        listed    == owned(o) \subseteq Range(lookup(owner_index, o))
                    IN  (registers /\ listed /\ limit # None /\ limit > 0)
                            => Cardinality(owned(o)') <= limit]_vars
<1>1. \A o : owned(o)' = OwnedNext(o)
  BY DEF owned, OwnedNext
<1>2. IInv /\ [Next]_vars => LimitKept
  BY Step DEF StepOK
<1>3. LimitKept => A
  BY <1>1 DEF LimitKept
<1>4. IInv /\ [Next]_vars => A
  BY <1>2, <1>3
<1>5. QED
  BY <1>4, Invariance, PTL DEF Spec, LimitRespected
=============================================================================
