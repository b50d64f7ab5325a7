-------------------------- MODULE WatcherRegistry --------------------------
(***************************************************************************)
(* The WatcherRegistry contract (src/contracts/watcher-registry/src/       *)
(* lib.rs): a set of admins, a list of authorised watchers with optional   *)
(* expiry times, a separate watcher count and a pause switch, all in the   *)
(* contract instance, and one persistent WatcherInfo entry per watcher     *)
(* that replace_watcher has installed.                                     *)
(*                                                                         *)
(* As in AlertRegistry an entry point's error conditions are its guards,   *)
(* a failed call stutters, and the caller named in an action has           *)
(* authorised it.  register_watcher uses a list `watchers` and a `label`   *)
(* that its text does not declare: the list is the stored one, and a label *)
(* that is too long fails the call and is stored nowhere, so it is left    *)
(* out.  MAX_PAGE_LIMIT is not declared in the source either: a constant.  *)
(***************************************************************************)
EXTENDS Integers, Sequences, FiniteSets, Functions, Vectors, LedgerStorage

CONSTANTS
    Admins,          \* accounts that administer the registry
    Watchers,        \* addresses that may be registered
    None,            \* Option::None
    Expiries,        \* expiry times admins pass in
    PauseValues,     \* values admins pass to set_paused
    BatchSizes,      \* lengths of the batches admins submit
    MAX_WATCHERS,
    MAX_BATCH_SIZE,
    MAX_PAGE_LIMIT,
    U32_MAX,         \* the largest watcher count; overflow traps
    DEFAULT_TTL,
    LedgerSeconds,   \* how far the ledger timestamp advances per ledger
    MaxTime,         \* bound on the ledger timestamp, above every expiry
    Archival         \* may a ledger close on an instance whose life has run out?

ASSUME WatcherConstantsAssumption ==
    /\ Expiries \subseteq Nat
    /\ None \notin Nat
    /\ PauseValues \subseteq BOOLEAN
    /\ BatchSizes \subseteq Nat
    /\ MAX_WATCHERS \in Nat
    /\ MAX_BATCH_SIZE \in Nat
    /\ MAX_PAGE_LIMIT \in Nat \ {0}
    /\ U32_MAX \in Nat
    /\ DEFAULT_TTL \in Nat
    /\ LedgerSeconds \in Nat
    /\ MaxTime \in Nat
    /\ \A e \in Expiries : e < MaxTime
    /\ Archival \in BOOLEAN

VARIABLES
    admins,      \* Admins, << >> before initialize
    watchers,    \* Watchers
    expiries,    \* Expiries: watcher -> timestamp
    count,       \* W_CNT
    paused,      \* Paused
    info,        \* ledgers each WatcherInfo entry still lives
    life,        \* ledgers the instance still lives, -1 once archived
    timestamp    \* env.ledger().timestamp()

roster == <<watchers, expiries, count, info>>
vars   == <<admins, roster, paused, life, timestamp>>

\* Every variable holds values of the type its storage key has.
TypeOK ==
    /\ admins \in Seq(Admins)
    /\ watchers \in Seq(Watchers)
    /\ IsTable(expiries, Watchers, Expiries)
    /\ count \in 0..U32_MAX
    /\ paused \in BOOLEAN
    /\ IsTable(info, Watchers, Nat)
    /\ life \in Nat \cup {-1}
    /\ timestamp \in Nat

\* A freshly deployed contract.
Init ==
    /\ admins = << >>
    /\ watchers = << >>
    /\ expiries = NoEntries
    /\ count = 0
    /\ paused = FALSE
    /\ info = NoEntries
    /\ life = MIN_TTL
    /\ timestamp = 0
-----------------------------------------------------------------------------
(* Guards and helpers.                                                     *)

instance_live == life >= 0

\* instance().has(Admins)
is_initialized == admins # << >>

assert_admin(caller) == caller \in Range(admins)

assert_not_paused == ~paused

extend_instance_ttl == life' = AtLeast(life, DEFAULT_TTL)

\* What every call by an admin requires and leaves behind.
admin_entry(caller) ==
    /\ instance_live
    /\ assert_admin(caller)
    /\ extend_instance_ttl
    /\ UNCHANGED timestamp

\* Mutant of set_expiry: clearing an expiry leaves the old one in the map.
set_expiry_sticky(watcher, expires_at) ==
    IF expires_at = None THEN expiries ELSE Put(expiries, watcher, expires_at)

set_expiry(watcher, expires_at) ==
    IF expires_at = None THEN Drop(expiries, watcher)
    ELSE Put(expiries, watcher, expires_at)

decremented == IF count > 0 THEN count - 1 ELSE 0

\* Mutant of authorized: the expiry is not looked at.
authorized_ignoring_expiry(watcher) == watcher \in Range(watchers)

\* The answer of is_watcher_authorized, and of its alias is_authorized.
authorized(watcher) ==
    /\ watcher \in Range(watchers)
    /\ watcher \in DOMAIN expiries => timestamp <= expiries[watcher]
-----------------------------------------------------------------------------
(* Admins.                                                                 *)

initialize(admin) ==
    /\ instance_live
    /\ ~is_initialized
    /\ admins' = <<admin>>
    /\ extend_instance_ttl
    /\ UNCHANGED <<roster, paused, timestamp>>

\* Adding an existing admin returns Ok before anything is written.
add_admin(caller, new_admin) ==
    /\ admin_entry(caller)
    /\ assert_not_paused
    /\ new_admin \notin Range(admins)
    /\ admins' = Append(admins, new_admin)
    /\ UNCHANGED <<roster, paused>>

\* Mutant of remove_admin: no LastAdmin check.
remove_last_admin(caller, target_admin) ==
    /\ admin_entry(caller)
    /\ assert_not_paused
    /\ admins' = Without(admins, target_admin)
    /\ UNCHANGED <<roster, paused>>

\* The target need not be an admin.
remove_admin(caller, target_admin) ==
    /\ admin_entry(caller)
    /\ assert_not_paused
    /\ Len(admins) > 1
    /\ admins' = Without(admins, target_admin)
    /\ UNCHANGED <<roster, paused>>

transfer_admin(admin, new_admin) ==
    /\ admin_entry(admin)
    /\ assert_not_paused
    /\ Len(admins) <= 1
    /\ admins' = <<new_admin>>
    /\ UNCHANGED <<roster, paused>>

set_paused(admin, value) ==
    /\ admin_entry(admin)
    /\ paused' = value
    /\ UNCHANGED <<admins, roster>>
-----------------------------------------------------------------------------
(* Watchers.                                                               *)

\* A watcher with a WatcherInfo entry counts as registered already: the call
\* returns Ok and writes nothing.  No other test for repetition is made.
register_watcher(admin, watcher, expires_at) ==
    /\ admin_entry(admin)
    /\ assert_not_paused
    /\ watcher \notin DOMAIN info
    /\ Len(watchers) < MAX_WATCHERS
    /\ count < U32_MAX
    /\ expiries' = set_expiry(watcher, expires_at)
    /\ watchers' = Append(watchers, watcher)
    /\ count' = count + 1
    /\ UNCHANGED <<admins, paused, info>>

\* Every copy of the watcher leaves the list, the count drops by one, and the
\* WatcherInfo entry stays.
remove_watcher(admin, watcher) ==
    /\ admin_entry(admin)
    /\ assert_not_paused
    /\ watcher \in Range(watchers)
    /\ watchers' = Without(watchers, watcher)
    /\ expiries' = set_expiry(watcher, None)
    /\ count' = decremented
    /\ UNCHANGED <<admins, paused, info>>

replace_watcher(admin, old_watcher, new_watcher) ==
    LET updated         == Without(watchers, old_watcher)
        already_present == new_watcher \in Range(updated)
    IN  /\ admin_entry(admin)
        /\ assert_not_paused
        /\ old_watcher \in Range(watchers)
        /\ expiries' = set_expiry(old_watcher, None)
        /\ info' = IF already_present THEN Drop(info, old_watcher)
                   ELSE Extend(Drop(info, old_watcher), {new_watcher}, DEFAULT_TTL)
        /\ watchers' = IF already_present THEN updated ELSE Append(updated, new_watcher)
        /\ count' = IF already_present THEN decremented ELSE count
        /\ UNCHANGED <<admins, paused>>

\* The positions of a batch whose watcher is new: not stored, and not met
\* earlier in the batch.
new_positions(batch) ==
    {i \in DOMAIN batch : /\ batch[i] \notin Range(watchers)
                          /\ \A j \in 1..(i - 1) : batch[j] # batch[i]}

\* Mutant of counted: the count goes up once per call.
counted_once(batch) == count + 1

counted(batch) == count + Cardinality(new_positions(batch))

batch_register_watchers(admin, batch) ==
    LET I     == new_positions(batch)
        added == [n \in 1..Cardinality(I) |-> batch[Nth(I, n)]]
    IN  /\ admin_entry(admin)
        /\ assert_not_paused
        /\ Len(batch) <= MAX_BATCH_SIZE
        /\ Len(watchers \o added) <= MAX_WATCHERS
        /\ counted(batch) <= U32_MAX
        /\ watchers' = watchers \o added
        /\ count' = counted(batch)
        /\ UNCHANGED <<admins, paused, expiries, info>>

\* Mutant of renew_watcher: allowed while paused.
renew_watcher_paused(admin, watcher, new_expiry) ==
    /\ admin_entry(admin)
    /\ watcher \in Range(watchers)
    /\ expiries' = set_expiry(watcher, new_expiry)
    /\ UNCHANGED <<admins, watchers, count, paused, info>>

renew_watcher(admin, watcher, new_expiry) ==
    /\ admin_entry(admin)
    /\ assert_not_paused
    /\ watcher \in Range(watchers)
    /\ expiries' = set_expiry(watcher, new_expiry)
    /\ UNCHANGED <<admins, watchers, count, paused, info>>

\* Mutant of clear_all_watchers: the expiry map survives.
clear_keeping_expiries(admin) ==
    /\ admin_entry(admin)
    /\ assert_not_paused
    /\ watchers' = << >>
    /\ info' = Restrict(info, DOMAIN info \ Range(watchers))
    /\ count' = 0
    /\ UNCHANGED <<admins, paused, expiries>>

clear_all_watchers(admin) ==
    /\ admin_entry(admin)
    /\ assert_not_paused
    /\ watchers' = << >>
    /\ expiries' = NoEntries
    /\ info' = Restrict(info, DOMAIN info \ Range(watchers))
    /\ count' = 0
    /\ UNCHANGED <<admins, paused>>

\* The hot read renews the instance; its answer is authorized(watcher).
is_watcher_authorized ==
    /\ instance_live
    /\ extend_instance_ttl
    /\ UNCHANGED <<admins, roster, paused, timestamp>>
-----------------------------------------------------------------------------
(* Reads.                                                                  *)

\* Mutant of get_all_watchers_paginated: the end of a page wraps around.
get_watchers_page_wrapping(offset, limit) ==
    SubSeq(watchers, offset + 1,
           Least((offset + Least(limit, MAX_PAGE_LIMIT)) % (U32_MAX + 1), Len(watchers)))

\* saturating_add and the two uses of min
get_all_watchers_paginated(offset, limit) ==
    SubSeq(watchers, offset + 1,
           Least(Least(offset + Least(limit, MAX_PAGE_LIMIT), U32_MAX), Len(watchers)))
-----------------------------------------------------------------------------
\* A ledger closes: WatcherInfo entries and the instance grow older, and time
\* moves on.  All expiries are below MaxTime, so that later times need not be
\* told apart from it.
close_ledger ==
    /\ Archival \/ (life > 0 /\ Survivors(info) = DOMAIN info)
    /\ timestamp' = Least(timestamp + LedgerSeconds, MaxTime)
    /\ info' = Age(info)
    /\ life' = IF life >= 0 THEN life - 1 ELSE -1
    /\ UNCHANGED <<admins, watchers, expiries, count, paused>>

admin_call ==
    \E admin \in Admins :
        \/ initialize(admin)
        \/ \E other \in Admins :
              \/ add_admin(admin, other)
              \/ remove_admin(admin, other)
              \/ transfer_admin(admin, other)
        \/ \E value \in PauseValues : set_paused(admin, value)

watcher_call ==
    \E admin \in Admins :
        \/ \E watcher \in Watchers, expiry \in Expiries \cup {None} :
              \/ register_watcher(admin, watcher, expiry)
              \/ renew_watcher(admin, watcher, expiry)
        \/ \E watcher \in Watchers : remove_watcher(admin, watcher)
        \/ \E old, new \in Watchers : replace_watcher(admin, old, new)
        \/ \E n \in BatchSizes : \E batch \in [1..n -> Watchers] :
              batch_register_watchers(admin, batch)
        \/ clear_all_watchers(admin)

Next ==
    \/ admin_call
    \/ watcher_call
    \/ is_watcher_authorized
    \/ close_ledger

Spec == Init /\ [][Next]_vars

\* The network closes ledgers whatever the callers do.
FairSpec == Spec /\ WF_vars(close_ledger)
-----------------------------------------------------------------------------
(* Properties.                                                             *)

\* Whatever the admins do to each other, at most one leaves in any call, the last
\* one never without a successor, and nobody is listed twice, which would defeat
\* the LastAdmin and MultipleAdminsExist checks (#236).
AdminsLeaveOneByOne ==
    [][/\ Cardinality(Range(admins) \ Range(admins')) <= 1
       /\ is_initialized => admins' # << >>
       /\ NoRepeats(admins')]_vars

\* Only listed watchers have an expiry.  A stale one left behind by a removal,
\* a replacement or a clearing would be inherited when the address is listed
\* again by batch_register_watchers, which writes none.
ExpiriesOfWatchers == DOMAIN expiries \subseteq Range(watchers)

\* The separate count never falls short of the list, through repetition in
\* register_watcher, removals of several copies, replacements and batches.
CountCovers == Len(watchers) <= count

\* While the registry is paused no address gains authorisation, and one loses it
\* only because the expiry it had has passed (set_paused: "reads and
\* is_authorized keep working").
PausedOnlyExpires ==
    [][paused /\ paused' =>
          \A w \in Watchers :
             /\ authorized(w)' => authorized(w)
             /\ authorized(w) /\ ~authorized(w)' =>
                   w \in DOMAIN expiries /\ expiries[w] < timestamp']_vars

\* A reader who asks for pages of any size, moving on by what each page returned
\* until one is empty, gets the list (the clamp to MAX_PAGE_LIMIT and #265).
PagesTile ==
    \A limit \in 1..U32_MAX :
        LET page(offset) == get_all_watchers_paginated(offset, limit)
            rest[offset \in 0..Len(watchers)] ==
                IF page(offset) = << >> THEN << >>
                ELSE page(offset) \o rest[offset + Len(page(offset))]
        IN  rest[0] = watchers

\* The book of grants that the lists of this contract stand for.
grants == [w \in Range(watchers) |->
              IF w \in DOMAIN expiries THEN expiries[w] ELSE None]

Book == INSTANCE WatcherBook
            WITH Deadlines <- Expiries, Forever <- None, Capacity <- MAX_WATCHERS,
                 grants <- grants, now <- timestamp

\* A call lists a watcher again: the list grows by nobody new.
lists_again ==
    /\ Len(watchers') > Len(watchers)
    /\ Range(watchers') \subseteq Range(watchers)

\* Every call that does not list a watcher again implements the book of grants: it
\* is a first grant, a renewal, an admission, a revocation, a replacement or a
\* clearing of exactly the watchers it names, whatever copies earlier calls have
\* left in the list.  The exception is register_watcher of a listed watcher, which
\* the book has no step for and ListedOnce is about.
ImplementsBook ==
    /\ Book!Init
    /\ [][~lists_again => Book!Next \/ UNCHANGED <<grants, timestamp>>]_vars

\* Registering an authorised watcher a second time is a no-op, so that nobody is
\* listed twice (register_watcher's comment, docs/watcher-registry.md and
\* test_register_idempotent).  The code looks for a WatcherInfo entry, which
\* register_watcher never writes, and lists the watcher again.
ListedOnce == NoRepeats(watchers)

\* An authorisation with an expiry comes to an end, unless an admin moves the
\* expiry for ever or lifts it.
ExpiryTakesEffect ==
    \A w \in Watchers :
        (w \in DOMAIN expiries) ~> (w \notin DOMAIN expiries \/ ~authorized(w))
=============================================================================
