--------------------------- MODULE WatcherGating ---------------------------
(***************************************************************************)
(* Both contracts together: an AlertRegistry whose reads may be gated by a *)
(* WatcherRegistry, and a watcher node that reads the alerts on one        *)
(* contract page by page.  Every gated read calls is_watcher_authorized of *)
(* the registry that is configured at that moment, which renews that       *)
(* registry's instance; a refused read is undone and changes nothing.      *)
(***************************************************************************)
EXTENDS AlertQueries

CONSTANTS
    Watchers,          \* addresses of watcher nodes
    Expiries,
    MAX_WATCHERS,
    MAX_PAGE_LIMIT,
    Deployed,          \* address of the WatcherRegistry contract
    ZeroAddress,       \* address with no contract behind it
    Idle,              \* no watcher is reading
    PageSize           \* the limit the reader passes

ASSUME GatingAssumption ==
    /\ Registries \subseteq {Deployed, ZeroAddress}
    /\ Deployed # ZeroAddress
    /\ None \notin {Deployed, ZeroAddress}
    /\ Idle \notin Watchers
    /\ PageSize \in 1..U32_MAX

VARIABLES
    w_admins, w_watchers, w_expiries, w_count, w_paused, w_info, w_life,
    reader,    \* the watcher that is reading, or Idle
    page,      \* the target, the next offset and the ids read so far
    due,       \* history: the ids that were listed when the reading began
    quiet      \* history: since then the list has only grown at its end; due is
               \* forgotten once it has not

W == INSTANCE WatcherRegistry
        WITH admins <- w_admins, watchers <- w_watchers, expiries <- w_expiries,
             count <- w_count, paused <- w_paused, info <- w_info, life <- w_life

alert_vars   == vars
watcher_vars == <<w_admins, w_watchers, w_expiries, w_count, w_paused, w_info, w_life>>
reading      == <<reader, page, due>>
gating_vars  == <<alert_vars, watcher_vars, reading, quiet>>

no_page == [target |-> None, offset |-> 0, seen |-> {}]

GatingInit ==
    /\ Init
    /\ W!Init
    /\ reader = Idle
    /\ page = no_page
    /\ due = {}
    /\ quiet = TRUE

\* Without a registry every querier passes; a call to an address that is not a
\* live registry traps.
assert_watcher_if_configured(querier) ==
    \/ watcher_registry = None
    \/ /\ watcher_registry = Deployed
       /\ W!instance_live
       /\ W!authorized(querier)

\* What a gated read requires, and what it leaves behind in the other contract.
gated_read(querier) ==
    /\ instance_live
    /\ assert_watcher_if_configured(querier)
    /\ IF watcher_registry = Deployed THEN W!is_watcher_authorized
       ELSE UNCHANGED watcher_vars
    /\ UNCHANGED alert_vars

forget == quiet' = FALSE /\ due' = {}

begin(querier, target) ==
    /\ reader = Idle
    /\ reader' = querier
    /\ page' = [no_page EXCEPT !.target = target]
    /\ due' = Range(lookup(contract_index, target))
    /\ quiet' = TRUE
    /\ UNCHANGED <<alert_vars, watcher_vars>>

\* One more page, until an empty one ends the reading.
read_page ==
    LET got == get_contract_alerts_paginated(page.target, page.offset, PageSize)
    IN  /\ reader # Idle
        /\ got # << >>
        /\ gated_read(reader)
        /\ page' = [page EXCEPT !.offset = @ + Least(PageSize, MAX_BATCH_SIZE),
                                !.seen = @ \cup Range(got)]
        /\ UNCHANGED <<reader, due, quiet>>

\* The empty page: the node is done and holds what it has read.
finish ==
    /\ reader # Idle
    /\ get_contract_alerts_paginated(page.target, page.offset, PageSize) = << >>
    /\ gated_read(reader)
    /\ reader' = Idle
    /\ UNCHANGED <<page, due, quiet>>

\* A node that is refused gives up and drops what it has read.
give_up ==
    /\ reader # Idle
    /\ instance_live
    /\ ~assert_watcher_if_configured(reader)
    /\ reader' = Idle
    /\ page' = no_page
    /\ forget
    /\ UNCHANGED <<alert_vars, watcher_vars>>

\* The list of the target being read has grown at its end, if at all.
only_grown ==
    LET before == lookup(contract_index, page.target)
        after  == lookup(contract_index', page.target)
    IN  /\ Len(before) <= Len(after)
        /\ SubSeq(after, 1, Len(before)) = before

\* Steps of others reach the node only through the list.
list_moves ==
    /\ IF only_grown THEN UNCHANGED <<due, quiet>> ELSE forget
    /\ UNCHANGED <<reader, page>>

others_act ==
    /\ admin_call \/ owner_call \/ alert_call \/ renewal_call
    /\ list_moves
    /\ UNCHANGED watcher_vars

watchers_change ==
    /\ W!admin_call \/ W!watcher_call \/ W!is_watcher_authorized
    /\ UNCHANGED <<alert_vars, reading, quiet>>

\* Both contracts live on the same ledger.
ledger_closes ==
    /\ close_ledger
    /\ W!close_ledger
    /\ list_moves

GatingNext ==
    \/ \E querier \in Watchers, target \in Targets : begin(querier, target)
    \/ read_page
    \/ finish
    \/ give_up
    \/ others_act
    \/ watchers_change
    \/ ledger_closes

GatingSpec == GatingInit /\ [][GatingNext]_gating_vars
-----------------------------------------------------------------------------
(* Properties.                                                             *)

\* A node that has read to the empty page holds every alert that was listed when
\* it began, although alerts were registered and watchers came and went between
\* its pages, provided the list only grew at its end and nothing lapsed.
PagesMissNothing ==
    reader = Idle /\ quiet /\ ~Archival => due \subseteq page.seen
=============================================================================
