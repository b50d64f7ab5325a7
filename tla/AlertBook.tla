----------------------------- MODULE AlertBook -----------------------------
(***************************************************************************)
(* What a registry of alerts promises, without indexes, flags, lives or    *)
(* payloads: a book of alerts under ids that are given out once, each with *)
(* an owner, a watched contract and an on/off state, and a cap on what one *)
(* owner may hold.  AlertRegistry implements it as long as no storage      *)
(* entry lapses.                                                           *)
(***************************************************************************)
EXTENDS Integers, Sequences, FiniteSets, LedgerStorage

CONSTANTS
    Owners,     \* accounts that own alerts
    Targets,    \* watched contracts
    Caps,       \* values the cap may be given, 0 for none
    Batches     \* how many alerts one call may open

VARIABLES
    book,       \* id -> [owner, target, on]
    issued,     \* how many ids have been given out
    cap         \* how many alerts an owner may hold, 0 for no cap

holdings(o) == {id \in DOMAIN book : book[id].owner = o}

fits(o, more) == cap > 0 => Cardinality(holdings(o)) + more <= cap

Init ==
    /\ book = NoEntries
    /\ issued = 0
    /\ cap = 0

\* New alerts get the next ids and are on; no other alert is touched.
Open(o, targets) ==
    /\ fits(o, Len(targets))
    /\ issued' = issued + Len(targets)
    /\ book' = [id \in DOMAIN book \cup issued..(issued' - 1) |->
                   IF id \in issued..(issued' - 1)
                   THEN [owner |-> o, target |-> targets[id - issued + 1], on |-> TRUE]
                   ELSE book[id]]
    /\ UNCHANGED cap

Switch(id, on) ==
    /\ id \in DOMAIN book
    /\ book' = [book EXCEPT ![id].on = on]
    /\ UNCHANGED <<issued, cap>>

\* Every alert of the owner goes off in one step.
Silence(o) ==
    /\ book' = [id \in DOMAIN book |->
                   IF book[id].owner = o THEN [book[id] EXCEPT !.on = FALSE]
                   ELSE book[id]]
    /\ UNCHANGED <<issued, cap>>

Retarget(id, t) ==
    /\ id \in DOMAIN book
    /\ book' = [book EXCEPT ![id].target = t]
    /\ UNCHANGED <<issued, cap>>

Hand(id, o) ==
    /\ id \in DOMAIN book
    /\ fits(o, 1)
    /\ book' = [book EXCEPT ![id].owner = o]
    /\ UNCHANGED <<issued, cap>>

Close(id) ==
    /\ id \in DOMAIN book
    /\ book' = Drop(book, id)
    /\ UNCHANGED <<issued, cap>>

Limit(n) ==
    /\ cap' = n
    /\ UNCHANGED <<book, issued>>

Next ==
    \/ \E o \in Owners, n \in Batches : \E targets \in [1..n -> Targets] : Open(o, targets)
    \/ \E o \in Owners : Silence(o)
    \/ \E id \in DOMAIN book :
          \/ \E on \in BOOLEAN : Switch(id, on)
          \/ \E t \in Targets : Retarget(id, t)
          \/ \E o \in Owners : Hand(id, o)
          \/ Close(id)
    \/ \E n \in Caps : Limit(n)

Spec == Init /\ [][Next]_<<book, issued, cap>>
=============================================================================
