---------------------------- MODULE AlertQueries ----------------------------
(***************************************************************************)
(* The read-only entry points of the AlertRegistry contract.  A Vec of     *)
(* configs is given by the Vec of the ids they were stored under, in the   *)
(* order the call returns them.  The check of the querier that precedes    *)
(* the gated reads is in WatcherGating.                                    *)
(***************************************************************************)
EXTENDS AlertRegistry

CONSTANT U32_MAX   \* the largest offset or limit a caller can pass

ASSUME U32MaxAssumption == U32_MAX \in Nat

active_ids == {id \in DOMAIN alerts : alerts[id].active}

\* configs_for_ids: entries that are gone are skipped.
configs_for_ids(ids) == Keep(ids, DOMAIN alerts)

active_configs_for_ids(ids) == Keep(ids, active_ids)

get_alerts_for_contract(target) == configs_for_ids(lookup(contract_index, target))

get_alert_ids_for_contract(target) == live_ids(lookup(contract_index, target))

get_alerts_by_owner(owner) == configs_for_ids(lookup(owner_index, owner))

get_alert_ids_by_owner(owner) == live_ids(lookup(owner_index, owner))

get_active_alerts_for_contract(target) ==
    active_configs_for_ids(lookup(contract_index, target))

\* Mutant of slice: n is not clamped.
slice_unclamped(s, offset, n) ==
    SubSeq(s, Least(offset, Len(s)) + 1, Least(Least(offset + n, U32_MAX), Len(s)))

\* Mutant of slice: the last entry is never on a page.
slice_short(s, offset, n) ==
    SubSeq(s, Least(offset, Len(s)) + 1,
           Least(Least(offset + Least(n, MAX_BATCH_SIZE), U32_MAX), Len(s) - 1))

\* The start..end of both paginations: n is clamped to MAX_BATCH_SIZE (#209),
\* the end is a saturating sum (#265).
slice(s, offset, n) ==
    SubSeq(s, Least(offset, Len(s)) + 1,
           Least(Least(offset + Least(n, MAX_BATCH_SIZE), U32_MAX), Len(s)))

\* Offsets count positions of the index, live or not.
configs_paginated(ids, offset, n) == configs_for_ids(slice(ids, offset, n))

get_contract_alerts_paginated(target, offset, n) ==
    configs_paginated(lookup(contract_index, target), offset, n)

get_alerts_by_owner_paginated(owner, offset, n) ==
    configs_paginated(lookup(owner_index, owner), offset, n)

\* Offsets count active alerts.
get_active_alerts_paginated(target, offset, n) ==
    slice(get_active_alerts_for_contract(target), offset, n)

\* Mutant of modified: a change in the ledger of the last sync is left out.
modified_after(since) == {id \in DOMAIN alerts : alerts[id].updated_at > since}

modified(since) == {id \in DOMAIN alerts : alerts[id].updated_at >= since}

\* The scan of all ids the counter has given out.
get_alerts_modified_since(since) ==
    {id \in 0..(next_id - 1) : id \in modified(since)}

\* Mutant of get_alerts_updated_since: every entry is skipped over, whether it
\* was modified since or not.
updated_since_skipping_all(target, since, offset, n) ==
    LET ids == lookup(contract_index, target)
    IN  Keep(SubSeq(ids, offset + 1, Least(offset + n, Len(ids))), modified(since))

\* The loop over the contract's index: at most n configs, after the first offset
\* of those modified since.
get_alerts_updated_since(target, since, offset, n) ==
    LET ids == lookup(contract_index, target)
        scan[i \in 0..Len(ids)] ==
            IF i = 0 THEN [out |-> << >>, skipped |-> 0]
            ELSE LET before == scan[i - 1]
                 IN  IF Len(before.out) >= n \/ ids[i] \notin modified(since) THEN before
                     ELSE IF before.skipped < offset
                          THEN [before EXCEPT !.skipped = @ + 1]
                          ELSE [before EXCEPT !.out = Append(@, ids[i])]
    IN  scan[Len(ids)].out

get_alert_count == next_id

\* Mutant of get_active_alert_count: ids are counted whether stored or not.
get_listed_alert_count(owner) == Len(lookup(owner_index, owner))

\* The loop counts, position by position, the ids that are still stored.
get_active_alert_count(owner) ==
    Cardinality(Positions(lookup(owner_index, owner), DOMAIN alerts))
-----------------------------------------------------------------------------
(* Properties.                                                             *)

\* What a client reads that asks for pages of n from start on, moving on by the
\* size it was granted until it is past the end; page[offset] is what it gets.
all_pages(page, n, start, end) ==
    LET rest[offset \in 0..(end + MAX_BATCH_SIZE)] ==
            IF offset >= end THEN << >>
            ELSE page[offset] \o rest[offset + Least(n, MAX_BATCH_SIZE)]
    IN  rest[start]

from(s, start) == SubSeq(s, start + 1, Len(s))

\* Paging through a list from any offset, whatever the page size asked for,
\* returns what is left of it, each live alert once, even when pages come back
\* short because entries have lapsed, and up to the largest offset; from the
\* start it is what the unpaged call and the id-only call return.
PagesTile ==
    /\ \A o \in Owners :
          LET ids     == lookup(owner_index, o)
              page(n) == [offset \in 0..Len(ids) |-> get_alerts_by_owner_paginated(o, offset, n)]
          IN  /\ \A n \in 1..U32_MAX, start \in 0..Len(ids) :
                    all_pages(page(n), n, start, Len(ids)) = configs_for_ids(from(ids, start))
              /\ get_alerts_by_owner(o) = get_alert_ids_by_owner(o)
    /\ \A t \in Targets :
          LET ids     == lookup(contract_index, t)
              page(n) == [offset \in 0..Len(ids) |-> get_contract_alerts_paginated(t, offset, n)]
              active  == get_active_alerts_for_contract(t)
              active_page(n) ==
                  [offset \in 0..Len(active) |-> get_active_alerts_paginated(t, offset, n)]
          IN  /\ \A n \in 1..U32_MAX, start \in 0..Len(ids) :
                    all_pages(page(n), n, start, Len(ids)) = configs_for_ids(from(ids, start))
              /\ \A n \in 1..U32_MAX, start \in 0..Len(active) :
                    all_pages(active_page(n), n, start, Len(active)) = from(active, start)
              /\ get_alerts_for_contract(t) = get_alert_ids_for_contract(t)

\* The skip-and-stop loop of get_alerts_updated_since returns a page of the
\* filtered index: pages of it neither overlap nor leave a gap.
UpdatedSinceIsPage ==
    \A t \in Targets, since \in 0..MaxTime, offset, n \in 0..U32_MAX :
        LET found == Keep(lookup(contract_index, t), modified(since))
        IN  get_alerts_updated_since(t, since, offset, n)
              = SubSeq(found, offset + 1, Least(offset + n, Len(found)))

\* The reads agree with one another and with what is stored, whatever has
\* lapsed: the scan behind get_alerts_modified_since(0) finds "every alert that
\* is currently stored", also those a lapsed index no longer lists, an owner's
\* count is the number of alerts the owner's list returns, never more than the
\* owner has, and no more alerts are stored than get_alert_count reports.
ReadsAgree ==
    /\ get_alerts_modified_since(0) = DOMAIN alerts
    /\ Cardinality(DOMAIN alerts) <= get_alert_count
    /\ \A o \in Owners :
          /\ get_active_alert_count(o) = Len(get_alerts_by_owner(o))
          /\ get_active_alert_count(o) <= Cardinality(owned(o))
=============================================================================
