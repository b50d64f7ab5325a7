---------------------------- MODULE RateLimiter ----------------------------
(***************************************************************************)
(* check_rate_limit of src/contracts/alert-registry/src/storage.rs: at     *)
(* most RATE_LIMIT_COUNT registrations of an owner in a window of          *)
(* RATE_LIMIT_WINDOW ledgers, the window starting with the first           *)
(* registration after the last one ended.  No entry point calls it yet; it *)
(* is modelled as the function a registration would call.                  *)
(***************************************************************************)
EXTENDS Integers, LedgerStorage

CONSTANTS
    Owners,
    PauseValues,         \* values passed to set_paused
    RATE_LIMIT_COUNT,
    RATE_LIMIT_WINDOW,
    DEFAULT_TTL,
    MaxLedger            \* bound on the ledger sequence number

\* A window's entry outlives the window.
ASSUME RateLimitAssumption ==
    /\ {RATE_LIMIT_COUNT, RATE_LIMIT_WINDOW} \subseteq Nat \ {0}
    /\ {DEFAULT_TTL, MaxLedger} \subseteq Nat
    /\ RATE_LIMIT_WINDOW <= DEFAULT_TTL
    /\ PauseValues \subseteq BOOLEAN

VARIABLES
    sequence,    \* env.ledger().sequence()
    paused,      \* PAUSED
    windows,     \* RateLimit(owner) -> start and count
    ttl,         \* ledgers each of those entries still lives
    granted      \* history: owner -> ledger -> registrations let through before it

vars == <<sequence, paused, windows, ttl, granted>>

Init ==
    /\ sequence = 0
    /\ paused = FALSE
    /\ windows = NoEntries
    /\ ttl = NoEntries
    /\ granted = [o \in Owners |-> [l \in 0..(MaxLedger + 1) |-> 0]]

\* Mutant of window_over: the window is one ledger short.
window_over_early(w) == sequence - w.start >= RATE_LIMIT_WINDOW - 1

window_over(w) == sequence - w.start >= RATE_LIMIT_WINDOW

\* Mutant of next_window: a new window does not count the call that opens it.
next_window_uncounted(w) ==
    IF window_over(w) THEN [start |-> sequence, count |-> 0]
    ELSE [w EXCEPT !.count = @ + 1]

next_window(w) ==
    IF window_over(w) THEN [start |-> sequence, count |-> 1]
    ELSE [w EXCEPT !.count = @ + 1]

\* One more registration in this ledger, in a history of registrations.
one_more(history) ==
    [l \in DOMAIN history |-> IF l > sequence THEN history[l] + 1 ELSE history[l]]

check_rate_limit(owner) ==
    LET w == IF owner \in DOMAIN windows THEN windows[owner]
             ELSE [start |-> sequence, count |-> 0]
    IN  /\ ~paused
        /\ window_over(w) \/ w.count < RATE_LIMIT_COUNT
        /\ windows' = Put(windows, owner, next_window(w))
        /\ ttl' = Extend(ttl, {owner}, DEFAULT_TTL)
        /\ granted' = [granted EXCEPT ![owner] = one_more(@)]
        /\ UNCHANGED <<sequence, paused>>

set_paused(value) ==
    /\ paused' = value
    /\ UNCHANGED <<sequence, windows, ttl, granted>>

close_ledger ==
    /\ sequence < MaxLedger
    /\ sequence' = sequence + 1
    /\ windows' = Restrict(windows, Survivors(ttl))
    /\ ttl' = Age(ttl)
    /\ UNCHANGED <<paused, granted>>

Next ==
    \/ \E owner \in Owners : check_rate_limit(owner)
    \/ \E value \in PauseValues : set_paused(value)
    \/ close_ledger

Spec == Init /\ [][Next]_vars
-----------------------------------------------------------------------------
\* The registrations of o let through in the ledgers first..last.
total(o, first, last) == granted[o][last + 1] - granted[o][first]

\* A stored count is the number of registrations let through since its window
\* began, and no window lets through more than RATE_LIMIT_COUNT.
WindowCountsGrants ==
    \A o \in DOMAIN windows :
        /\ windows[o].count = total(o, windows[o].start, sequence)
        /\ windows[o].count <= RATE_LIMIT_COUNT

\* Wherever one looks, not only at the windows' own borders, any stretch of
\* RATE_LIMIT_WINDOW ledgers sees fewer than twice RATE_LIMIT_COUNT: a burst at
\* the end of one window and one at the start of the next.
BurstsBounded ==
    \A o \in Owners : \A first \in 0..sequence :
        total(o, first, Least(first + RATE_LIMIT_WINDOW - 1, MaxLedger))
          < 2 * RATE_LIMIT_COUNT
=============================================================================
