--------------------------- MODULE EventListener ---------------------------
(***************************************************************************)
(* The event listener of src/examples/event-listener/index.ts: it polls    *)
(* the RPC for alert.register events after its cursor, handles a page of   *)
(* them one by one and moves the cursor after each.  The cursor is a       *)
(* variable of the process.  The process may crash at any point and is     *)
(* started again; a poll that fails is caught by main and tried again,     *)
(* a stuttering step.                                                      *)
(***************************************************************************)
EXTENDS Integers, Sequences, FiniteSets, Functions, Vectors

CONSTANTS
    MaxEvents,     \* bound on the events the contract emits
    MaxCrashes,    \* bound on crashes
    PageLimit      \* events per page

ASSUME ListenerAssumption ==
    /\ {MaxEvents, MaxCrashes} \subseteq Nat
    /\ PageLimit \in Nat \ {0}

VARIABLES
    log,        \* topics of the contract's events in ledger order
    cursor,     \* position of the last event moved past, 0 if undefined
    page,       \* positions of the fetched events still to be moved past
    pc,         \* where the process is
    handled,    \* positions in the order their events were handled
    crashes     \* how often the process has crashed

vars == <<log, cursor, page, pc, handled, crashes>>

\* Every variable holds values of its type; the cursor stays on the log.
TypeOK ==
    /\ log \in Seq({"register", "other"})
    /\ cursor \in 0..Len(log)
    /\ page \in Seq(1..Len(log))
    /\ pc \in {"poll", "handle", "advance", "down"}
    /\ handled \in Seq(1..Len(log))
    /\ crashes \in 0..MaxCrashes

Init ==
    /\ log = << >>
    /\ cursor = 0
    /\ page = << >>
    /\ pc = "poll"
    /\ handled = << >>
    /\ crashes = 0

\* The contract emits an event; only register events pass the filter of poll.
emit(topic) ==
    /\ Len(log) < MaxEvents
    /\ log' = Append(log, topic)
    /\ UNCHANGED <<cursor, page, pc, handled, crashes>>

matching == {e \in 1..Len(log) : log[e] = "register"}

\* getEvents: the first PageLimit matching events after the cursor, or from the
\* beginning if there is none.
getEvents ==
    LET after == {e \in matching : e > cursor}
    IN  [i \in {j \in 1..PageLimit : j <= Cardinality(after)} |-> Nth(after, i)]

\* An empty page leads to the next poll.
poll ==
    /\ pc = "poll"
    /\ page' = getEvents
    /\ pc' = IF page' = << >> THEN "poll" ELSE "handle"
    /\ UNCHANGED <<log, cursor, handled, crashes>>

handle ==
    /\ pc = "handle"
    /\ handled' = Append(handled, Head(page))
    /\ pc' = "advance"
    /\ UNCHANGED <<log, cursor, page, crashes>>

\* Mutant of advance: the cursor is moved to the end of the page at once.
advance_past_page ==
    /\ pc = "advance"
    /\ cursor' = page[Len(page)]
    /\ page' = Tail(page)
    /\ pc' = IF page' = << >> THEN "poll" ELSE "handle"
    /\ UNCHANGED <<log, handled, crashes>>

\* Mutant of advance: the cursor is left behind.
advance_without_cursor ==
    /\ pc = "advance"
    /\ page' = Tail(page)
    /\ pc' = IF page' = << >> THEN "poll" ELSE "handle"
    /\ UNCHANGED <<log, cursor, handled, crashes>>

advance ==
    /\ pc = "advance"
    /\ cursor' = Head(page)
    /\ page' = Tail(page)
    /\ pc' = IF page' = << >> THEN "poll" ELSE "handle"
    /\ UNCHANGED <<log, handled, crashes>>

\* The process dies, and with it everything it kept in memory.
crash ==
    /\ pc # "down"
    /\ crashes < MaxCrashes
    /\ crashes' = crashes + 1
    /\ pc' = "down"
    /\ page' = << >>
    /\ UNCHANGED <<log, cursor, handled>>

\* Mutant of restart: a new process starts at the end of the log.
restart_at_end ==
    /\ pc = "down"
    /\ cursor' = Len(log)
    /\ pc' = "poll"
    /\ UNCHANGED <<log, page, handled, crashes>>

\* A new process has no cursor.
restart ==
    /\ pc = "down"
    /\ cursor' = 0
    /\ pc' = "poll"
    /\ UNCHANGED <<log, page, handled, crashes>>

Next ==
    \/ \E topic \in {"register", "other"} : emit(topic)
    \/ poll
    \/ handle
    \/ advance
    \/ crash
    \/ restart

\* The loop of main runs on, and its supervisor starts it again.
Fairness == WF_vars(poll \/ handle \/ advance) /\ WF_vars(restart)

Spec == Init /\ [][Next]_vars /\ Fairness
-----------------------------------------------------------------------------
\* The cursor never moves past a register event that was not handled, whatever
\* the process was doing when it crashed.
NoneSkipped == \A e \in matching : e <= cursor => e \in Range(handled)

\* Between crashes each event is handled once, and in ledger order: at most one
\* step back in the handling for each crash.
HandledInOrder ==
    Cardinality({i \in 1..(Len(handled) - 1) : handled[i + 1] <= handled[i]}) <= crashes

\* Every register event is handled in the end.
AllHandled ==
    \A e \in 1..MaxEvents : (e \in matching) ~> (e \in Range(handled))
=============================================================================
