----------------------- MODULE WatcherRegistryProofs -----------------------
(***************************************************************************)
(* Proofs about the WatcherRegistry contract, for every set of admins,     *)
(* watchers and expiry times and every value of the limits.                *)
(*                                                                         *)
(* The invariant adds to the types that no admin is listed twice, that     *)
(* only listed watchers have an expiry, that the count covers the list and *)
(* that the clock has not passed its bound.  Each call that changes the    *)
(* roster is shown, in one lemma, to preserve the roster's part and to be  *)
(* a step of WatcherBook; only register_watcher of a listed watcher is     *)
(* none.                                                                   *)
(***************************************************************************)
EXTENDS WatcherRegistry, StorageProofs

AdminsOK == admins \in Seq(Admins) /\ NoRepeats(admins)

RosterOK ==
    /\ watchers \in Seq(Watchers)
    /\ IsTable(expiries, Watchers, Expiries)
    /\ count \in 0..U32_MAX
    /\ IsTable(info, Watchers, Nat)
    /\ ExpiriesOfWatchers
    /\ CountCovers

ClockOK ==
    /\ paused \in BOOLEAN
    /\ life \in Nat \cup {-1}
    /\ timestamp \in 0..MaxTime

IInv == AdminsOK /\ RosterOK /\ ClockOK
-----------------------------------------------------------------------------
(* The book of grants.                                                     *)

\* The deadline of a grant, given the expiry map.
Deadline(exps, w) == IF w \in DOMAIN exps THEN exps[w] ELSE None

\* The grants of a list of watchers and an expiry map.
GrantsOf(W, exps) == [w \in W |-> Deadline(exps, w)]

LEMMA GrantsAre ==
    /\ grants = GrantsOf(Range(watchers), expiries)
    /\ grants' = GrantsOf(Range(watchers'), expiries')
BY DEF grants, GrantsOf, Deadline

\* Writing or clearing one expiry changes one deadline.
LEMMA SetExpiry ==
    ASSUME RosterOK, NEW w \in Watchers, NEW e \in Expiries \cup {None},
           NEW exps, exps = set_expiry(w, e)
    PROVE  /\ IsTable(exps, Watchers, Expiries)
           /\ DOMAIN exps \subseteq DOMAIN expiries \cup {w}
           /\ e = None => w \notin DOMAIN exps
           /\ \A x : Deadline(exps, x) = IF x = w THEN e ELSE Deadline(expiries, x)
<1>1. IsTable(expiries, Watchers, Expiries)
  BY DEF RosterOK
<1>2. CASE e = None
  <2>1. exps = Drop(expiries, w)
    BY <1>2 DEF set_expiry
  <2>2. IsTable(exps, Watchers, Expiries)
    BY <1>1, <2>1, DropTable
  <2>3. DOMAIN exps = DOMAIN expiries \ {w} /\ \A x \in DOMAIN exps : exps[x] = expiries[x]
    BY <2>1 DEF Drop, Restrict
  <2>4. QED
    BY <1>2, <2>2, <2>3 DEF Deadline
<1>3. CASE e # None
  <2>1. exps = Put(expiries, w, e) /\ e \in Expiries
    BY <1>3 DEF set_expiry
  <2>2. IsTable(exps, Watchers, Expiries)
    BY <1>1, <2>1, PutTable
  <2>3. /\ DOMAIN exps = DOMAIN expiries \cup {w} /\ exps[w] = e
        /\ \A x \in DOMAIN expiries \ {w} : exps[x] = expiries[x]
    BY <2>1 DEF Put
  <2>4. QED
    BY <1>3, <2>2, <2>3 DEF Deadline
<1>4. QED
  BY <1>2, <1>3

\* The list holds no more grants than it is long.
LEMMA WithinCapacity ==
    ASSUME watchers' \in Seq(Watchers), Len(watchers') <= MAX_WATCHERS
    PROVE  Book!Cardinality(DOMAIN grants') <= MAX_WATCHERS
<1> DEFINE s == watchers'
<1>1. DOMAIN grants' = Range(s)
  BY DEF grants
<1>2. Book!Cardinality(Range(s)) = Cardinality(Range(s))
  BY DEF Book!Cardinality, Cardinality
<1>3. Len(s) \in Nat /\ MAX_WATCHERS \in Nat
  BY WatcherConstantsAssumption
<1> HIDE DEF s
<1>4. Cardinality(Range(s)) \in Nat /\ Cardinality(Range(s)) <= Len(s)
  BY RangeBound DEF s
<1>5. QED
  BY <1>1, <1>2, <1>3, <1>4 DEF s
-----------------------------------------------------------------------------
(* The calls that change the roster.                                       *)

\* register_watcher grants a watcher who has none, or lists one again.
LEMMA RegisterWatcher ==
    ASSUME RosterOK, NEW admin \in Admins, NEW w \in Watchers,
           NEW e \in Expiries \cup {None}, register_watcher(admin, w, e)
    PROVE  RosterOK' /\ (~lists_again => Book!Next)
<1> DEFINE exps == expiries'
           list == watchers'
<1>1. /\ exps = set_expiry(w, e) /\ list = Append(watchers, w)
      /\ count' = count + 1 /\ count < U32_MAX /\ Len(watchers) < MAX_WATCHERS
      /\ info' = info /\ timestamp' = timestamp
  BY DEF register_watcher, admin_entry
<1>2. /\ watchers \in Seq(Watchers) /\ count \in 0..U32_MAX /\ Len(watchers) <= count
      /\ DOMAIN expiries \subseteq Range(watchers) /\ IsTable(info, Watchers, Nat)
      /\ U32_MAX \in Nat /\ MAX_WATCHERS \in Nat
  BY WatcherConstantsAssumption DEF RosterOK, ExpiriesOfWatchers, CountCovers
<1>3. /\ list \in Seq(Watchers) /\ Range(list) = Range(watchers) \cup {w}
      /\ Len(list) = Len(watchers) + 1
  BY <1>1, <1>2, AppendFacts
<1>4. /\ IsTable(exps, Watchers, Expiries)
      /\ DOMAIN exps \subseteq DOMAIN expiries \cup {w}
      /\ \A x : Deadline(exps, x) = IF x = w THEN e ELSE Deadline(expiries, x)
  BY <1>1, SetExpiry
<1>5. DOMAIN exps \subseteq Range(list)
  BY <1>2, <1>3, <1>4
<1>6. RosterOK'
  <2>1. ExpiriesOfWatchers'
    BY <1>5 DEF ExpiriesOfWatchers
  <2>2. CountCovers' /\ count' \in 0..U32_MAX
    BY <1>1, <1>2, <1>3 DEF CountCovers
  <2>3. IsTable(info', Watchers, Nat)
    BY <1>1, <1>2
  <2>4. QED
    BY <1>3, <1>4, <2>1, <2>2, <2>3 DEF RosterOK
<1>7. grants' = Put(grants, w, e)
  <2>1. /\ grants = GrantsOf(Range(watchers), expiries)
        /\ grants' = GrantsOf(Range(list), exps)
    BY GrantsAre
  <2> HIDE DEF exps, list
  <2>2. QED
    BY <1>3, <1>4, <2>1 DEF GrantsOf, Put
<1>8. Book!Cardinality(DOMAIN grants') <= MAX_WATCHERS
  BY <1>1, <1>2, <1>3, WithinCapacity
<1>9. CASE w \in Range(watchers)
  <2>1. Len(list) > Len(watchers) /\ Range(list) \subseteq Range(watchers)
    BY <1>2, <1>3, <1>9
  <2>2. QED
    BY <1>6, <2>1 DEF lists_again
<1>10. CASE w \notin Range(watchers)
  <2>1. w \notin DOMAIN grants
    BY <1>10 DEF grants
  <2>2. Book!Grant(w, e)
    BY <1>1, <1>7, <1>8, <2>1 DEF Book!Grant, Book!Put, Put
  <2>3. QED
    BY <1>6, <2>2 DEF Book!Next
<1>11. QED
  BY <1>9, <1>10

\* renew_watcher moves one deadline.
LEMMA RenewWatcher ==
    ASSUME RosterOK, NEW admin \in Admins, NEW w \in Watchers,
           NEW e \in Expiries \cup {None}, renew_watcher(admin, w, e)
    PROVE  RosterOK' /\ Book!Next
<1> DEFINE exps == expiries'
<1>1. /\ exps = set_expiry(w, e) /\ w \in Range(watchers)
      /\ UNCHANGED <<watchers, count, info, timestamp>>
  BY DEF renew_watcher, admin_entry
<1>2. DOMAIN expiries \subseteq Range(watchers)
  BY DEF RosterOK, ExpiriesOfWatchers
<1>3. /\ IsTable(exps, Watchers, Expiries)
      /\ DOMAIN exps \subseteq DOMAIN expiries \cup {w}
      /\ \A x : Deadline(exps, x) = IF x = w THEN e ELSE Deadline(expiries, x)
  BY <1>1, SetExpiry
<1>4. RosterOK'
  <2>1. ExpiriesOfWatchers'
    BY <1>1, <1>2, <1>3 DEF ExpiriesOfWatchers
  <2>2. QED
    BY <1>1, <1>3, <2>1 DEF RosterOK, CountCovers
<1>5. grants' = Put(grants, w, e) /\ w \in DOMAIN grants
  <2>1. /\ grants = GrantsOf(Range(watchers), expiries)
        /\ grants' = GrantsOf(Range(watchers), exps)
    BY <1>1, GrantsAre
  <2> HIDE DEF exps
  <2>2. QED
    BY <1>1, <1>3, <2>1 DEF GrantsOf, Put
<1>6. Book!Renew(w, e)
  BY <1>1, <1>5 DEF Book!Renew, Book!Put, Put
<1>7. QED
  BY <1>4, <1>6 DEF Book!Next

\* remove_watcher takes every copy of the watcher off the list.
LEMMA RemoveWatcher ==
    ASSUME RosterOK, NEW admin \in Admins, NEW w \in Watchers, remove_watcher(admin, w)
    PROVE  RosterOK' /\ Book!Next
<1> DEFINE exps == expiries'
           list == watchers'
<1>1. /\ exps = set_expiry(w, None) /\ list = Without(watchers, w)
      /\ w \in Range(watchers) /\ count' = decremented
      /\ info' = info /\ timestamp' = timestamp
  BY DEF remove_watcher, admin_entry
<1>2. /\ watchers \in Seq(Watchers) /\ count \in 0..U32_MAX /\ Len(watchers) <= count
      /\ DOMAIN expiries \subseteq Range(watchers) /\ IsTable(info, Watchers, Nat)
      /\ U32_MAX \in Nat
  BY WatcherConstantsAssumption DEF RosterOK, ExpiriesOfWatchers, CountCovers
<1>3. /\ list \in Seq(Watchers) /\ Range(list) = Range(watchers) \ {w}
      /\ Len(list) \in Nat /\ Len(list) < Len(watchers)
  BY <1>1, <1>2, WithoutFacts, WithoutShorter
<1>4. /\ IsTable(exps, Watchers, Expiries) /\ w \notin DOMAIN exps
      /\ DOMAIN exps \subseteq DOMAIN expiries \cup {w}
      /\ \A x : Deadline(exps, x) = IF x = w THEN None ELSE Deadline(expiries, x)
  BY <1>1, SetExpiry
<1>5. DOMAIN exps \subseteq Range(list)
  BY <1>2, <1>3, <1>4
<1>6. RosterOK'
  <2>1. ExpiriesOfWatchers'
    BY <1>5 DEF ExpiriesOfWatchers
  <2>2. CountCovers' /\ count' \in 0..U32_MAX
    <3>1. Len(watchers) \in Nat
      BY <1>2
    <3>2. QED
      BY <1>1, <1>2, <1>3, <3>1 DEF CountCovers, decremented
  <2>3. IsTable(info', Watchers, Nat)
    BY <1>1, <1>2
  <2>4. QED
    BY <1>3, <1>4, <2>1, <2>2, <2>3 DEF RosterOK
<1>7. grants' = Drop(grants, w) /\ w \in DOMAIN grants
  <2>1. /\ grants = GrantsOf(Range(watchers), expiries)
        /\ grants' = GrantsOf(Range(list), exps)
    BY GrantsAre
  <2> HIDE DEF exps, list
  <2>2. QED
    BY <1>1, <1>3, <1>4, <2>1 DEF GrantsOf, Drop, Restrict
<1>8. Book!Revoke(w)
  BY <1>1, <1>7 DEF Book!Revoke, Book!Drop, Book!Restrict, Drop, Restrict
<1>9. QED
  BY <1>6, <1>8 DEF Book!Next

\* replace_watcher hands the place of one watcher to another, who keeps the grant
\* it has or gets an open-ended one.
LEMMA ReplaceWatcher ==
    ASSUME RosterOK, NEW admin \in Admins, NEW old \in Watchers, NEW new \in Watchers,
           replace_watcher(admin, old, new)
    PROVE  RosterOK' /\ Book!Next
<1> DEFINE exps    == expiries'
           list    == watchers'
           updated == Without(watchers, old)
           present == new \in Range(updated)
<1>1. /\ exps = set_expiry(old, None) /\ old \in Range(watchers)
      /\ list = IF present THEN updated ELSE Append(updated, new)
      /\ count' = IF present THEN decremented ELSE count
      /\ info' = IF present THEN Drop(info, old)
                 ELSE Extend(Drop(info, old), {new}, DEFAULT_TTL)
      /\ timestamp' = timestamp
  BY DEF replace_watcher, admin_entry
<1>2. /\ watchers \in Seq(Watchers) /\ count \in 0..U32_MAX /\ Len(watchers) <= count
      /\ DOMAIN expiries \subseteq Range(watchers) /\ IsTable(info, Watchers, Nat)
      /\ U32_MAX \in Nat /\ DEFAULT_TTL \in Nat
  BY WatcherConstantsAssumption DEF RosterOK, ExpiriesOfWatchers, CountCovers
<1>3. /\ updated \in Seq(Watchers) /\ Range(updated) = Range(watchers) \ {old}
      /\ Len(updated) \in Nat /\ Len(updated) < Len(watchers) /\ Len(watchers) \in Nat
  BY <1>1, <1>2, WithoutFacts, WithoutShorter
<1>4. /\ Append(updated, new) \in Seq(Watchers)
      /\ Range(Append(updated, new)) = Range(updated) \cup {new}
      /\ Len(Append(updated, new)) = Len(updated) + 1
  BY <1>3, AppendFacts
<1>5. /\ IsTable(exps, Watchers, Expiries) /\ old \notin DOMAIN exps
      /\ DOMAIN exps \subseteq DOMAIN expiries \cup {old}
      /\ \A x : Deadline(exps, x) = IF x = old THEN None ELSE Deadline(expiries, x)
  BY <1>1, SetExpiry
<1> HIDE DEF updated
<1>6. /\ list \in Seq(Watchers)
      /\ Range(list) = (Range(watchers) \ {old}) \cup {new}
      /\ present <=> new \in Range(watchers) \ {old}
  BY <1>1, <1>3, <1>4
<1>7. RosterOK'
  <2>1. ExpiriesOfWatchers'
    BY <1>2, <1>5, <1>6 DEF ExpiriesOfWatchers
  <2>2. CountCovers' /\ count' \in 0..U32_MAX
    <3>1. CASE present
      BY <1>1, <1>2, <1>3, <3>1 DEF CountCovers, decremented
    <3>2. CASE ~present
      BY <1>1, <1>2, <1>3, <1>4, <3>2 DEF CountCovers
    <3>3. QED
      BY <3>1, <3>2
  <2>3. IsTable(info', Watchers, Nat)
    <3>1. IsTable(Drop(info, old), Watchers, Nat)
      BY <1>2, DropTable
    <3>2. IsTable(Extend(Drop(info, old), {new}, DEFAULT_TTL), Watchers, Nat)
      BY <1>2, <3>1, ExtendTable
    <3>3. QED
      BY <1>1, <3>1, <3>2
  <2>4. QED
    BY <1>5, <1>6, <2>1, <2>2, <2>3 DEF RosterOK
<1>8. /\ old \in DOMAIN grants
      /\ grants' = IF new \in DOMAIN grants \ {old} THEN Drop(grants, old)
                   ELSE Put(Drop(grants, old), new, None)
  <2>1. /\ grants = GrantsOf(Range(watchers), expiries)
        /\ grants' = GrantsOf(Range(list), exps)
    BY GrantsAre
  <2> HIDE DEF exps, list, present
  <2>2. DOMAIN grants = Range(watchers)
    BY <2>1 DEF GrantsOf
  <2>3. CASE new \in Range(watchers) \ {old}
    <3>1. grants' = Drop(grants, old)
      BY <1>5, <1>6, <2>1, <2>2, <2>3 DEF GrantsOf, Drop, Restrict
    <3>2. QED
      BY <1>1, <2>2, <2>3, <3>1
  <2>4. CASE new \notin Range(watchers) \ {old}
    <3>1. new # old => Deadline(expiries, new) = None
      BY <1>2, <2>4 DEF Deadline
    <3>2. Deadline(exps, new) = None
      BY <1>5, <3>1
    <3>3. grants' = Put(Drop(grants, old), new, None)
      BY <1>5, <1>6, <2>1, <2>2, <2>4, <3>2 DEF GrantsOf, Put, Drop, Restrict
    <3>4. QED
      BY <2>2, <2>4, <3>3, <1>1
  <2>5. QED
    BY <1>1, <2>2, <2>3, <2>4
<1>9. Book!Replace(old, new)
  BY <1>1, <1>8 DEF Book!Replace, Book!Put, Book!Drop, Book!Restrict, Put, Drop, Restrict
<1>10. QED
  BY <1>7, <1>9 DEF Book!Next

\* batch_register_watchers admits exactly the new watchers of the batch, each once
\* however often the batch names it, and the count goes up by their number.
LEMMA BatchRegister ==
    ASSUME RosterOK, NEW admin \in Admins, NEW n \in BatchSizes,
           NEW batch \in [1..n -> Watchers], batch_register_watchers(admin, batch)
    PROVE  RosterOK' /\ Book!Next
<1> DEFINE I     == new_positions(batch)
           c     == Cardinality(I)
           added == [k \in 1..c |-> batch[Nth(I, k)]]
           list  == watchers'
<1>1. /\ Len(watchers \o added) <= MAX_WATCHERS /\ list = watchers \o added
      /\ count + c <= U32_MAX /\ count' = count + c
      /\ UNCHANGED <<expiries, info, timestamp>>
  BY DEF batch_register_watchers, admin_entry, counted
<1>2. /\ watchers \in Seq(Watchers) /\ count \in 0..U32_MAX /\ Len(watchers) <= count
      /\ DOMAIN expiries \subseteq Range(watchers) /\ IsTable(info, Watchers, Nat)
      /\ IsTable(expiries, Watchers, Expiries)
      /\ U32_MAX \in Nat /\ MAX_WATCHERS \in Nat /\ n \in Nat /\ Len(watchers) \in Nat
  BY WatcherConstantsAssumption DEF RosterOK, ExpiriesOfWatchers, CountCovers
<1>3. I \in SUBSET (1..n) /\ \A i \in I : batch[i] \in Watchers \ Range(watchers)
  BY DEF new_positions
<1>4. IsFiniteSet(I) /\ c \in Nat /\ I \in SUBSET Nat
  <2>1. IsFiniteSet(1..n)
    BY <1>2, FS_Interval
  <2>2. IsFiniteSet(I)
    BY <1>3, <2>1, FS_Subset
  <2>3. c \in Nat
    BY <2>2, FS_CardinalityType
  <2>4. QED
    BY <1>2, <1>3, <2>2, <2>3
<1>5. \A k \in 1..c : Nth(I, k) \in I
  BY <1>4, NthFacts
<1> HIDE DEF I, c
<1>6. /\ added \in Seq(Watchers) /\ Len(added) = c
      /\ Range(added) \subseteq Watchers /\ Range(added) \cap Range(watchers) = {}
  BY <1>3, <1>4, <1>5 DEF Range
<1> HIDE DEF added
<1>7. /\ list \in Seq(Watchers) /\ Range(list) = Range(watchers) \cup Range(added)
      /\ Len(list) = Len(watchers) + c
  <2>1. /\ watchers \o added \in Seq(Watchers)
        /\ Range(watchers \o added) = Range(watchers) \cup Range(added)
    BY <1>2, <1>6, ConcatFacts
  <2>2. Len(watchers \o added) = Len(watchers) + c
    BY <1>2, <1>6
  <2>3. QED
    BY <1>1, <2>1, <2>2
<1>8. RosterOK'
  <2>1. ExpiriesOfWatchers'
    BY <1>1, <1>2, <1>7 DEF ExpiriesOfWatchers
  <2>2. CountCovers' /\ count' \in 0..U32_MAX
    BY <1>1, <1>2, <1>4, <1>7 DEF CountCovers
  <2>3. QED
    BY <1>1, <1>2, <1>7, <2>1, <2>2 DEF RosterOK
<1>9. /\ Range(added) \cap DOMAIN grants = {}
      /\ grants' = [w \in DOMAIN grants \cup Range(added) |->
                      IF w \in Range(added) THEN None ELSE grants[w]]
  <2>1. /\ grants = GrantsOf(Range(watchers), expiries)
        /\ grants' = GrantsOf(Range(list), expiries)
    BY <1>1, GrantsAre
  <2> HIDE DEF list
  <2>2. QED
    BY <1>2, <1>6, <1>7, <2>1 DEF GrantsOf, Deadline
<1>10. Book!Cardinality(DOMAIN grants') <= MAX_WATCHERS
  BY <1>1, <1>7, WithinCapacity
<1>11. Book!Admit(Range(added))
  BY <1>1, <1>9, <1>10 DEF Book!Admit
<1>12. QED
  BY <1>6, <1>8, <1>11 DEF Book!Next

\* clear_all_watchers ends every grant.
LEMMA ClearAll ==
    ASSUME RosterOK, NEW admin \in Admins, clear_all_watchers(admin)
    PROVE  RosterOK' /\ Book!Next
<1>1. /\ watchers' = << >> /\ expiries' = NoEntries /\ count' = 0
      /\ info' = Restrict(info, DOMAIN info \ Range(watchers)) /\ timestamp' = timestamp
  BY DEF clear_all_watchers, admin_entry
<1>2. RosterOK'
  <2>1. IsTable(info', Watchers, Nat)
    BY <1>1, RestrictTable DEF RosterOK
  <2>2. IsTable(expiries', Watchers, Expiries) /\ DOMAIN expiries' = {}
    BY <1>1 DEF IsTable, NoEntries
  <2>3. QED
    BY <1>1, <2>1, <2>2, WatcherConstantsAssumption
    DEF RosterOK, ExpiriesOfWatchers, CountCovers
<1>3. grants' = NoEntries
  <2>1. Range(watchers') = {}
    BY <1>1 DEF Range
  <2>2. grants' = GrantsOf({}, expiries')
    BY <2>1, GrantsAre
  <2>3. QED
    BY <2>2 DEF GrantsOf, NoEntries
<1>4. Book!Clear
  BY <1>1, <1>3 DEF Book!Clear, Book!NoEntries, NoEntries
<1>5. QED
  BY <1>2, <1>4 DEF Book!Next
-----------------------------------------------------------------------------
(* The other steps.                                                        *)

\* What AdminsLeaveOneByOne says of one step.
OneLeaves ==
    /\ Cardinality(Range(admins) \ Range(admins')) <= 1
    /\ is_initialized => admins' # << >>
    /\ NoRepeats(admins')

\* A step that keeps the admins lets none of them go.
LEMMA AdminsStay ==
    ASSUME AdminsOK, admins' = admins
    PROVE  AdminsOK' /\ OneLeaves
<1>1. Range(admins) \ Range(admins') = {}
  OBVIOUS
<1>2. Cardinality({}) = 0
  BY FS_EmptySet
<1>3. QED
  <2>1. Cardinality(Range(admins) \ Range(admins')) <= 1
    BY <1>1, <1>2
  <2>2. NoRepeats(admins') /\ admins' \in Seq(Admins) /\ (is_initialized => admins' # << >>)
    BY DEF AdminsOK, is_initialized
  <2>3. QED
    BY <2>1, <2>2 DEF AdminsOK, OneLeaves

\* Renewing the instance keeps its life well typed.
LEMMA LifeRenewed ==
    ASSUME ClockOK, extend_instance_ttl
    PROVE  life' \in Nat \cup {-1}
BY WatcherConstantsAssumption DEF ClockOK, extend_instance_ttl, AtLeast

\* add_admin appends somebody who is not listed.
LEMMA AddAdmin ==
    ASSUME AdminsOK, NEW admin \in Admins, NEW other \in Admins, add_admin(admin, other)
    PROVE  AdminsOK' /\ OneLeaves
<1> DEFINE list == admins'
<1>1. /\ admins \in Seq(Admins) /\ NoRepeats(admins)
      /\ other \notin Range(admins) /\ list = Append(admins, other)
  BY DEF AdminsOK, add_admin
<1>2. /\ list \in Seq(Admins) /\ list # << >> /\ NoRepeats(list)
      /\ Range(list) = Range(admins) \cup {other}
  BY <1>1, AppendFacts
<1>3. Cardinality(Range(admins) \ Range(list)) <= 1
  <2>1. Range(admins) \ Range(list) = {}
    BY <1>2
  <2>2. Cardinality({}) = 0
    BY FS_EmptySet
  <2>3. QED
    BY <2>1, <2>2
<1>4. QED
  BY <1>2, <1>3 DEF AdminsOK, OneLeaves

\* remove_admin lets at most its target go, and somebody else stays: the LastAdmin
\* check counts the list, which counts admins because nobody is listed twice.
LEMMA RemoveAdmin ==
    ASSUME AdminsOK, NEW admin \in Admins, NEW other \in Admins, remove_admin(admin, other)
    PROVE  AdminsOK' /\ OneLeaves
<1> DEFINE list == admins'
<1>1. /\ admins \in Seq(Admins) /\ NoRepeats(admins)
      /\ Len(admins) > 1 /\ list = Without(admins, other)
  BY DEF AdminsOK, remove_admin
<1>2. /\ list \in Seq(Admins) /\ NoRepeats(list)
      /\ Range(list) = Range(admins) \ {other}
  BY <1>1, WithoutFacts
<1>3. list # << >>
  BY <1>1, AnotherRemains
<1>4. Cardinality(Range(admins) \ Range(list)) <= 1
  <2>1. Range(admins) \ Range(list) \subseteq {other}
    BY <1>2
  <2>2. IsFiniteSet({other}) /\ Cardinality({other}) = 1
    BY FS_Singleton
  <2>3. QED
    BY <2>1, <2>2, FS_Subset
<1>5. QED
  BY <1>2, <1>3, <1>4 DEF AdminsOK, OneLeaves

\* transfer_admin lets at most the only admin go, for a successor.
LEMMA TransferAdmin ==
    ASSUME AdminsOK, NEW admin \in Admins, NEW other \in Admins, transfer_admin(admin, other)
    PROVE  AdminsOK' /\ OneLeaves
<1> DEFINE list == admins'
<1>1. admins \in Seq(Admins) /\ Len(admins) <= 1 /\ list = <<other>>
  BY DEF AdminsOK, transfer_admin
<1>2. list \in Seq(Admins) /\ list # << >> /\ NoRepeats(list)
  BY <1>1 DEF NoRepeats
<1>3. Cardinality(Range(admins) \ Range(list)) <= 1
  <2> DEFINE R == Range(admins)
             L == R \ Range(list)
  <2>1. /\ IsFiniteSet(R) /\ Cardinality(R) \in Nat /\ Cardinality(R) <= Len(admins)
        /\ Len(admins) \in Nat
    BY <1>1, RangeBound
  <2>2. L \subseteq R
    OBVIOUS
  <2> HIDE DEF L, R
  <2>3. IsFiniteSet(L) /\ Cardinality(L) <= Cardinality(R)
    BY <2>1, <2>2, FS_Subset
  <2>4. Cardinality(L) \in Nat
    BY <2>3, FS_CardinalityType
  <2>5. Cardinality(L) <= 1
    BY <1>1, <2>1, <2>3, <2>4
  <2>6. QED
    BY <2>5 DEF L, R
<1>4. QED
  BY <1>2, <1>3 DEF AdminsOK, OneLeaves

\* initialize lists the first admin.
LEMMA InitializeAdmin ==
    ASSUME AdminsOK, NEW admin \in Admins, initialize(admin)
    PROVE  AdminsOK' /\ OneLeaves
<1>1. admins = << >> /\ admins' = <<admin>>
  BY DEF initialize, is_initialized
<1>2. Range(admins) \ Range(admins') = {}
  BY <1>1 DEF Range
<1>3. Cardinality({}) = 0
  BY FS_EmptySet
<1>4. admins' \in Seq(Admins) /\ admins' # << >> /\ NoRepeats(admins')
  BY <1>1 DEF NoRepeats
<1>5. QED
  <2>1. Cardinality(Range(admins) \ Range(admins')) <= 1
    BY <1>2, <1>3
  <2>2. QED
    BY <1>4, <2>1 DEF AdminsOK, OneLeaves

\* The calls of admins about admins and the pause leave the roster alone.
LEMMA AdminCall ==
    ASSUME IInv, admin_call
    PROVE  IInv' /\ OneLeaves /\ UNCHANGED <<roster, timestamp>>
<1> DEFINE Goal == IInv' /\ OneLeaves /\ UNCHANGED <<roster, timestamp>>
           Rest == /\ extend_instance_ttl /\ paused' \in BOOLEAN
                   /\ UNCHANGED <<roster, timestamp>>
<1> SUFFICES Goal
  OBVIOUS
<1>1. AdminsOK /\ RosterOK /\ ClockOK /\ paused \in BOOLEAN
  BY DEF IInv, ClockOK
<1>2. ASSUME Rest, AdminsOK', OneLeaves
      PROVE  Goal
  <2>1. RosterOK'
    BY <1>1, <1>2 DEF RosterOK, roster, ExpiriesOfWatchers, CountCovers
  <2>2. ClockOK'
    BY <1>1, <1>2, LifeRenewed DEF ClockOK
  <2>3. QED
    BY <1>2, <2>1, <2>2 DEF IInv
<1> HIDE DEF Goal
<1>3. PICK admin \in Admins :
        \/ initialize(admin)
        \/ \E other \in Admins :
              \/ add_admin(admin, other)
              \/ remove_admin(admin, other)
              \/ transfer_admin(admin, other)
        \/ \E value \in PauseValues : set_paused(admin, value)
  BY DEF admin_call
<1>4. CASE initialize(admin)
  <2>1. Rest
    BY <1>1, <1>4 DEF initialize
  <2>2. QED
    BY <1>1, <1>2, <1>4, <2>1, InitializeAdmin
<1>5. ASSUME NEW other \in Admins, add_admin(admin, other)
      PROVE  Goal
  <2>1. Rest
    BY <1>1, <1>5 DEF add_admin, admin_entry
  <2>2. QED
    BY <1>1, <1>2, <1>5, <2>1, AddAdmin
<1>6. ASSUME NEW other \in Admins, remove_admin(admin, other)
      PROVE  Goal
  <2>1. Rest
    BY <1>1, <1>6 DEF remove_admin, admin_entry
  <2>2. QED
    BY <1>1, <1>2, <1>6, <2>1, RemoveAdmin
<1>7. ASSUME NEW other \in Admins, transfer_admin(admin, other)
      PROVE  Goal
  <2>1. Rest
    BY <1>1, <1>7 DEF transfer_admin, admin_entry
  <2>2. QED
    BY <1>1, <1>2, <1>7, <2>1, TransferAdmin
<1>8. ASSUME NEW value \in PauseValues, set_paused(admin, value)
      PROVE  Goal
  <2>1. Rest /\ admins' = admins
    BY <1>8, WatcherConstantsAssumption DEF set_paused, admin_entry
  <2>2. QED
    BY <1>1, <1>2, <2>1, AdminsStay
<1>9. QED
  BY <1>3, <1>4, <1>5, <1>6, <1>7, <1>8

\* The calls about watchers change the roster only, and only while the registry is
\* not paused.
LEMMA WatcherCall ==
    ASSUME IInv, watcher_call
    PROVE  IInv' /\ OneLeaves /\ ~paused /\ (~lists_again => Book!Next)
<1> DEFINE Goal == IInv' /\ OneLeaves /\ ~paused /\ (~lists_again => Book!Next)
           Rest == extend_instance_ttl /\ ~paused /\ UNCHANGED <<admins, paused, timestamp>>
<1> SUFFICES Goal
  OBVIOUS
<1>1. AdminsOK /\ RosterOK /\ ClockOK
  BY DEF IInv
<1>2. ASSUME Rest, RosterOK' /\ (~lists_again => Book!Next)
      PROVE  Goal
  <2>1. AdminsOK' /\ OneLeaves
    BY <1>1, <1>2, AdminsStay
  <2>2. ClockOK'
    BY <1>1, <1>2, LifeRenewed DEF ClockOK
  <2>3. QED
    BY <1>2, <2>1, <2>2 DEF IInv
<1> HIDE DEF Goal
<1>3. PICK admin \in Admins :
        \/ \E watcher \in Watchers, expiry \in Expiries \cup {None} :
              \/ register_watcher(admin, watcher, expiry)
              \/ renew_watcher(admin, watcher, expiry)
        \/ \E watcher \in Watchers : remove_watcher(admin, watcher)
        \/ \E old, new \in Watchers : replace_watcher(admin, old, new)
        \/ \E n \in BatchSizes : \E batch \in [1..n -> Watchers] :
              batch_register_watchers(admin, batch)
        \/ clear_all_watchers(admin)
  BY DEF watcher_call
<1>4. ASSUME NEW w \in Watchers, NEW e \in Expiries \cup {None},
             register_watcher(admin, w, e)
      PROVE  Goal
  <2>1. Rest
    BY <1>4 DEF register_watcher, admin_entry, assert_not_paused
  <2>2. RosterOK' /\ (~lists_again => Book!Next)
    BY <1>1, <1>4, RegisterWatcher
  <2>3. QED
    BY <1>2, <2>1, <2>2
<1>5. ASSUME NEW w \in Watchers, NEW e \in Expiries \cup {None},
             renew_watcher(admin, w, e)
      PROVE  Goal
  <2>1. Rest
    BY <1>5 DEF renew_watcher, admin_entry, assert_not_paused
  <2>2. RosterOK' /\ Book!Next
    BY <1>1, <1>5, RenewWatcher
  <2>3. QED
    BY <1>2, <2>1, <2>2
<1>6. ASSUME NEW w \in Watchers, remove_watcher(admin, w)
      PROVE  Goal
  <2>1. Rest
    BY <1>6 DEF remove_watcher, admin_entry, assert_not_paused
  <2>2. RosterOK' /\ Book!Next
    BY <1>1, <1>6, RemoveWatcher
  <2>3. QED
    BY <1>2, <2>1, <2>2
<1>7. ASSUME NEW old \in Watchers, NEW new \in Watchers, replace_watcher(admin, old, new)
      PROVE  Goal
  <2>1. Rest
    BY <1>7 DEF replace_watcher, admin_entry, assert_not_paused
  <2>2. RosterOK' /\ Book!Next
    BY <1>1, <1>7, ReplaceWatcher
  <2>3. QED
    BY <1>2, <2>1, <2>2
<1>8. ASSUME NEW n \in BatchSizes, NEW batch \in [1..n -> Watchers],
             batch_register_watchers(admin, batch)
      PROVE  Goal
  <2>1. Rest
    BY <1>8 DEF batch_register_watchers, admin_entry, assert_not_paused
  <2>2. RosterOK' /\ Book!Next
    BY <1>1, <1>8, BatchRegister
  <2>3. QED
    BY <1>2, <2>1, <2>2
<1>9. CASE clear_all_watchers(admin)
  <2>1. Rest
    BY <1>9 DEF clear_all_watchers, admin_entry, assert_not_paused
  <2>2. RosterOK' /\ Book!Next
    BY <1>1, <1>9, ClearAll
  <2>3. QED
    BY <1>2, <2>1, <2>2
<1>10. QED
  BY <1>3, <1>4, <1>5, <1>6, <1>7, <1>8, <1>9

\* A ledger closes: the list and its expiries stay, time does not run backwards.
LEMMA CloseLedger ==
    ASSUME IInv, close_ledger
    PROVE  /\ IInv' /\ OneLeaves /\ Book!Next
           /\ UNCHANGED <<watchers, expiries>> /\ timestamp <= timestamp'
<1>1. AdminsOK /\ RosterOK /\ ClockOK
  BY DEF IInv
<1>2. /\ timestamp' = Least(timestamp + LedgerSeconds, MaxTime) /\ info' = Age(info)
      /\ life' = IF life >= 0 THEN life - 1 ELSE -1
      /\ UNCHANGED <<admins, watchers, expiries, count, paused>>
  BY DEF close_ledger
<1>3. AdminsOK' /\ OneLeaves
  BY <1>1, <1>2, AdminsStay
<1>4. RosterOK'
  <2>1. IsTable(info', Watchers, Nat)
    BY <1>1, <1>2, AgeTable DEF RosterOK
  <2>2. QED
    BY <1>1, <1>2, <2>1 DEF RosterOK, ExpiriesOfWatchers, CountCovers
<1>5. timestamp \in 0..MaxTime /\ LedgerSeconds \in Nat /\ MaxTime \in Nat
  BY <1>1, WatcherConstantsAssumption DEF ClockOK
<1>6. timestamp' \in 0..MaxTime /\ timestamp <= timestamp' /\ timestamp' \in Nat
  BY <1>2, <1>5 DEF Least
<1>7. ClockOK'
  BY <1>1, <1>2, <1>6 DEF ClockOK
<1>8. Book!Tick
  <2>1. grants' = grants
    BY <1>2 DEF grants
  <2>2. QED
    BY <1>6, <2>1 DEF Book!Tick
<1>9. QED
  BY <1>2, <1>3, <1>4, <1>6, <1>7, <1>8 DEF IInv, Book!Next

\* What a step may do to the grants and the clock.
BookMove == ~lists_again => Book!Next \/ UNCHANGED <<grants, timestamp>>

\* Every step keeps the invariant, lets at most one admin go and, unless it lists a
\* watcher again, does to the grants and the clock what WatcherBook allows.
LEMMA WatcherStep ==
    ASSUME IInv, [Next]_vars
    PROVE  IInv' /\ OneLeaves /\ BookMove
<1> DEFINE Goal == IInv' /\ OneLeaves /\ BookMove
<1> SUFFICES Goal
  OBVIOUS
<1>1. ASSUME UNCHANGED <<roster, timestamp>>
      PROVE  BookMove
  BY <1>1 DEF roster, grants, BookMove
<1>2. ASSUME UNCHANGED <<admins, roster, paused, timestamp>>, life' \in Nat \cup {-1}
      PROVE  Goal
  <2>1. AdminsOK' /\ OneLeaves
    BY <1>2, AdminsStay DEF IInv
  <2>2. RosterOK' /\ ClockOK'
    BY <1>2 DEF IInv, RosterOK, ClockOK, roster, ExpiriesOfWatchers, CountCovers
  <2>3. QED
    BY <1>1, <1>2, <2>1, <2>2 DEF IInv
<1>3. CASE admin_call
  BY <1>1, <1>3, AdminCall
<1>4. CASE watcher_call
  BY <1>4, WatcherCall DEF BookMove
<1>5. CASE close_ledger
  BY <1>5, CloseLedger DEF BookMove
<1> HIDE DEF Goal
<1>6. CASE is_watcher_authorized
  <2>1. UNCHANGED <<admins, roster, paused, timestamp>> /\ extend_instance_ttl
    BY <1>6 DEF is_watcher_authorized
  <2>2. QED
    BY <1>2, <2>1, LifeRenewed DEF IInv
<1>7. CASE UNCHANGED vars
  BY <1>2, <1>7 DEF vars, IInv, ClockOK
<1>8. QED
  BY <1>3, <1>4, <1>5, <1>6, <1>7 DEF Next
-----------------------------------------------------------------------------
(* The theorems.                                                           *)

\* A deployed contract satisfies the invariant.
LEMMA InitIInv == Init => IInv
<1> SUFFICES ASSUME Init
             PROVE  IInv
  OBVIOUS
<1>1. AdminsOK
  BY DEF Init, AdminsOK, NoRepeats
<1>2. RosterOK
  BY WatcherConstantsAssumption
  DEF Init, RosterOK, IsTable, NoEntries, ExpiriesOfWatchers, CountCovers
<1>3. ClockOK
  <2>1. paused \in BOOLEAN
    BY DEF Init
  <2>2. life \in Nat \cup {-1}
    BY MinTtlAssumption DEF Init
  <2>3. timestamp \in 0..MaxTime
    BY WatcherConstantsAssumption DEF Init
  <2>4. QED
    BY <2>1, <2>2, <2>3 DEF ClockOK
<1>4. QED
  BY <1>1, <1>2, <1>3 DEF IInv

\* So does every state it reaches.
LEMMA Invariance == Spec => []IInv
<1>1. IInv /\ [Next]_vars => IInv'
  BY WatcherStep
<1>2. QED
  BY <1>1, InitIInv, PTL DEF Spec

\* Every storage key of the contract holds values of its type, the watcher count
\* within u32.
THEOREM WatcherTypes == Spec => []TypeOK
<1>1. IInv => TypeOK
  BY WatcherConstantsAssumption DEF IInv, AdminsOK, RosterOK, ClockOK, TypeOK
<1>2. QED
  BY <1>1, Invariance, PTL

\* No removal, replacement or clearing leaves an expiry behind for an address that
\* batch_register_watchers may list again.
THEOREM NoStaleExpiry == Spec => []ExpiriesOfWatchers
<1>1. IInv => ExpiriesOfWatchers
  BY DEF IInv, RosterOK
<1>2. QED
  BY <1>1, Invariance, PTL

\* W_CNT, kept apart from the list, never falls short of it.
THEOREM CountSuffices == Spec => []CountCovers
<1>1. IInv => CountCovers
  BY DEF IInv, RosterOK
<1>2. QED
  BY <1>1, Invariance, PTL

\* Admins go one at a time, the last one only for a successor.
THEOREM OneAdminAtATime == Spec => AdminsLeaveOneByOne
<1> DEFINE A == /\ Cardinality(Range(admins) \ Range(admins')) <= 1
                /\ is_initialized => admins' # << >>
                /\ NoRepeats(admins')
<1>1. IInv /\ [Next]_vars => [A]_vars
  BY WatcherStep DEF OneLeaves
<1>2. QED
  BY <1>1, Invariance, PTL DEF Spec, AdminsLeaveOneByOne

\* While the registry is paused authorisations only run out.
THEOREM PauseFreezesGrants == Spec => PausedOnlyExpires
<1> DEFINE A == paused /\ paused' =>
                  \A w \in Watchers :
                     /\ authorized(w)' => authorized(w)
                     /\ authorized(w) /\ ~authorized(w)' =>
                           w \in DOMAIN expiries /\ expiries[w] < timestamp'
<1>1. IInv /\ [Next]_vars => [A]_vars
  <2> SUFFICES ASSUME IInv, [Next]_vars, paused
               PROVE  A
    OBVIOUS
  <2>1. UNCHANGED <<watchers, expiries>> /\ timestamp \in Nat /\ timestamp' \in Nat
        /\ timestamp <= timestamp'
    <3>1. timestamp \in Nat
      BY WatcherConstantsAssumption DEF IInv, ClockOK
    <3>2. timestamp' \in Nat
      BY WatcherStep, WatcherConstantsAssumption DEF IInv, ClockOK
    <3>3. CASE close_ledger
      BY <3>1, <3>2, <3>3, CloseLedger
    <3>4. CASE admin_call
      BY <3>1, <3>4, AdminCall DEF roster
    <3>5. CASE is_watcher_authorized
      BY <3>1, <3>5 DEF is_watcher_authorized, roster
    <3>6. CASE UNCHANGED vars
      BY <3>1, <3>6 DEF vars, roster
    <3>7. ~watcher_call
      BY WatcherCall
    <3>8. QED
      BY <3>3, <3>4, <3>5, <3>6, <3>7 DEF Next
  <2>2. \A w \in DOMAIN expiries : expiries[w] \in Nat
    BY WatcherConstantsAssumption DEF IInv, RosterOK, IsTable
  <2>3. QED
    BY <2>1, <2>2 DEF authorized
<1>2. QED
  BY <1>1, Invariance, PTL DEF Spec, PausedOnlyExpires

\* Every call but the repeated registration of a listed watcher implements a book
\* with one grant per watcher, also on a list with copies.
THEOREM WatcherBookImplemented == Spec => ImplementsBook
<1>1. Init => Book!Init
  <2> SUFFICES ASSUME Init
               PROVE  Book!Init
    OBVIOUS
  <2>1. Range(watchers) = {} /\ timestamp = 0
    BY DEF Init, Range
  <2>2. grants = [k \in {} |-> 0]
    BY <2>1 DEF grants
  <2>3. QED
    BY <2>1, <2>2 DEF Book!Init, Book!NoEntries
<1>2. IInv /\ [Next]_vars => [BookMove]_vars
  BY WatcherStep
<1>3. QED
  BY <1>1, <1>2, Invariance, PTL DEF Spec, ImplementsBook, BookMove

\* Whatever page size the reader asks for, the pages of
\* get_all_watchers_paginated, each asked for at the offset the last one ended
\* at, are the list of watchers.
THEOREM WatcherPagesTile == Spec => []PagesTile
<1>1. IInv => PagesTile
  <2> SUFFICES ASSUME IInv, NEW limit \in 1..U32_MAX
               PROVE  LET page(offset) == get_all_watchers_paginated(offset, limit)
                          rest[offset \in 0..Len(watchers)] ==
                              IF page(offset) = << >> THEN << >>
                              ELSE page(offset) \o rest[offset + Len(page(offset))]
                      IN  rest[0] = watchers
    BY DEF PagesTile
  <2> DEFINE n == Len(watchers)
             page(offset) == get_all_watchers_paginated(offset, limit)
             to(offset) == Least(Least(offset + Least(limit, MAX_PAGE_LIMIT), U32_MAX), n)
             F(f) == [offset \in 0..n |->
                         IF page(offset) = << >> THEN << >>
                         ELSE page(offset) \o f[offset + Len(page(offset))]]
             g == [offset \in 0..n |-> SubSeq(watchers, offset + 1, n)]
             rest == CHOOSE f : f = F(f)
  <2>1. watchers \in Seq(Watchers) /\ n \in Nat /\ n <= U32_MAX /\ U32_MAX \in Nat
    <3>1. watchers \in Seq(Watchers) /\ count \in 0..U32_MAX /\ n <= count
      BY DEF IInv, RosterOK, CountCovers
    <3>2. QED
      BY <3>1, WatcherConstantsAssumption
  <2>2. \A o \in 0..n : to(o) \in o..n /\ (o < n => to(o) > o)
    <3>1. limit \in Nat /\ limit > 0 /\ MAX_PAGE_LIMIT \in Nat /\ MAX_PAGE_LIMIT > 0
      BY <2>1, WatcherConstantsAssumption
    <3>2. QED
      BY <2>1, <3>1 DEF Least
  <2>3. \A o \in 0..n : page(o) = SubSeq(watchers, o + 1, to(o))
    BY DEF get_all_watchers_paginated
  <2> HIDE DEF page, to
  <2>4. ASSUME NEW o \in 0..n
        PROVE  o + Len(page(o)) = to(o) /\ (page(o) = << >> <=> o = n)
    <3>1. to(o) \in o..Len(watchers) /\ o \in 0..Len(watchers)
      BY <2>2
    <3>2. Len(page(o)) = to(o) - o /\ (page(o) = << >> <=> o = to(o))
      BY <2>1, <2>3, <3>1, Stretch
    <3>3. o \in Int /\ to(o) \in Int /\ (o = n <=> o = to(o))
      BY <2>1, <2>2, <3>1
    <3>4. QED
      BY <3>2, <3>3
  <2> HIDE DEF n
  <2>5. \A o \in 0..n : g[o] = IF o = n THEN << >> ELSE page(o) \o g[to(o)]
    <3> SUFFICES ASSUME NEW o \in 0..n
                 PROVE  g[o] = IF o = n THEN << >> ELSE page(o) \o g[to(o)]
      OBVIOUS
    <3>1. CASE o = n
      <4>1. SubSeq(watchers, o + 1, n) = << >>
        BY <2>1, <3>1, SubSeqEmpty
      <4>2. QED
        BY <3>1, <4>1
    <3>2. CASE o # n
      <4>1. to(o) \in o..n /\ to(o) \in 0..n
        BY <2>1, <2>2
      <4>2. g[o] = SubSeq(watchers, o + 1, n) /\ g[to(o)] = SubSeq(watchers, to(o) + 1, n)
        BY <4>1
      <4>3. SubSeq(watchers, o + 1, to(o)) \o SubSeq(watchers, to(o) + 1, n)
              = SubSeq(watchers, o + 1, n)
        BY <2>1, <4>1, Adjacent DEF n
      <4>4. QED
        BY <2>3, <3>2, <4>2, <4>3
    <3>3. QED
      BY <3>1, <3>2
  <2> HIDE DEF g
  <2>6. g = F(g)
    <3>1. g = [o \in 0..n |-> g[o]]
      BY DEF g
    <3>2. \A o \in 0..n : g[o] = IF page(o) = << >> THEN << >>
                                 ELSE page(o) \o g[o + Len(page(o))]
      BY <2>4, <2>5
    <3>3. QED
      BY <3>1, <3>2
  <2>7. rest = F(rest)
    <3> HIDE DEF F
    <3>1. QED
      BY <2>6
  <2> HIDE DEF rest
  <2>8. \A o \in 0..n : rest[o] = IF o = n THEN << >> ELSE page(o) \o rest[to(o)]
    <3> SUFFICES ASSUME NEW o \in 0..n
                 PROVE  rest[o] = IF o = n THEN << >> ELSE page(o) \o rest[to(o)]
      OBVIOUS
    <3>1. rest[o] = F(rest)[o]
      BY <2>7
    <3>2. F(rest)[o] = IF page(o) = << >> THEN << >>
                       ELSE page(o) \o rest[o + Len(page(o))]
      OBVIOUS
    <3>3. QED
      BY <2>4, <3>1, <3>2
  <2> DEFINE pages == [o \in 0..n |-> page(o)]
             next == [o \in 0..n |-> to(o)]
             last == {n}
  <2>9. \A o \in 0..n : pages[o] = page(o) /\ next[o] = to(o)
    OBVIOUS
  <2> HIDE DEF pages, next, F
  <2>10. rest[0] = g[0]
    <3>1. \A o \in 0..n : o \notin last => next[o] \in 0..n /\ next[o] > o
      BY <2>1, <2>2, <2>9
    <3>2. Reads(rest, n, last, pages, next)
      BY <2>8, <2>9, <3>1 DEF Reads
    <3>3. Reads(g, n, last, pages, next)
      BY <2>5, <2>9, <3>1 DEF Reads
    <3> HIDE DEF last
    <3>4. \A o \in 0..n : rest[o] = g[o]
      BY <2>1, <3>2, <3>3, SameReading
    <3>5. QED
      BY <2>1, <3>4
  <2>11. g[0] = watchers
    <3>1. g[0] = SubSeq(watchers, 1, Len(watchers))
      BY <2>1 DEF g, n
    <3>2. QED
      BY <2>1, <3>1, SubSeqFull
  <2>12. QED
    BY <2>10, <2>11 DEF rest, F, page, n
<1>2. QED
  BY <1>1, Invariance, PTL
=============================================================================
