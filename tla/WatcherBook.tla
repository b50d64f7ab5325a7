---------------------------- MODULE WatcherBook ----------------------------
(***************************************************************************)
(* What a registry of watchers promises, without lists, counts, info       *)
(* entries or lives: a book of grants, each with a deadline or open-ended. *)
(* WatcherRegistry implements this specification.                          *)
(***************************************************************************)
EXTENDS Integers, FiniteSets, LedgerStorage

CONSTANTS
    Watchers,    \* addresses that may be granted
    Deadlines,   \* timestamps a grant may end at
    Forever,     \* the deadline of an open-ended grant
    Capacity     \* how many grants the book may hold

VARIABLES
    grants,      \* watcher -> deadline
    now          \* ledger timestamp

book == <<grants, now>>

Init ==
    /\ grants = NoEntries
    /\ now = 0

\* A watcher without a grant gets one.  A present watcher keeps the grant it has:
\* there is no step that grants twice.
Grant(w, deadline) ==
    /\ w \notin DOMAIN grants
    /\ grants' = Put(grants, w, deadline)
    /\ Cardinality(DOMAIN grants') <= Capacity
    /\ UNCHANGED now

\* Some watchers without a grant get open-ended ones; nobody else is touched.
Admit(W) ==
    /\ W \cap DOMAIN grants = {}
    /\ grants' = [w \in DOMAIN grants \cup W |->
                    IF w \in W THEN Forever ELSE grants[w]]
    /\ Cardinality(DOMAIN grants') <= Capacity
    /\ UNCHANGED now

\* The deadline of an existing grant is moved.
Renew(w, deadline) ==
    /\ w \in DOMAIN grants
    /\ grants' = Put(grants, w, deadline)
    /\ UNCHANGED now

Revoke(w) ==
    /\ w \in DOMAIN grants
    /\ grants' = Drop(grants, w)
    /\ UNCHANGED now

\* One watcher hands over to another in a single step; a successor that already
\* holds a grant keeps it as it is.
Replace(old, new) ==
    /\ old \in DOMAIN grants
    /\ grants' = IF new \in DOMAIN grants \ {old}
                 THEN Drop(grants, old)
                 ELSE Put(Drop(grants, old), new, Forever)
    /\ UNCHANGED now

Clear ==
    /\ grants' = NoEntries
    /\ UNCHANGED now

Tick ==
    /\ now' \in Nat
    /\ now <= now'
    /\ UNCHANGED grants

Next ==
    \/ \E w \in Watchers, d \in Deadlines \cup {Forever} : Grant(w, d) \/ Renew(w, d)
    \/ \E W \in SUBSET Watchers : Admit(W)
    \/ \E w \in Watchers : Revoke(w)
    \/ \E old, new \in Watchers : Replace(old, new)
    \/ Clear
    \/ Tick

Spec == Init /\ [][Next]_book
=============================================================================
