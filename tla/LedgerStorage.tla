--------------------------- MODULE LedgerStorage ---------------------------
(***************************************************************************)
(* The part of the Soroban host that the contracts in src/contracts rely   *)
(* on: persistent entries with a time to live.  A table of entries is a    *)
(* partial function from keys to values, and beside it a partial function  *)
(* with the same domain gives the number of ledgers each entry still       *)
(* lives.  An entry that has lapsed reads as absent, as the comments of    *)
(* ttl_expiry_tests.rs and ARCHITECTURE.md describe it.                    *)
(***************************************************************************)
EXTENDS Integers, Functions

CONSTANT MIN_TTL   \* life the network gives an entry when it is created

ASSUME MinTtlAssumption == MIN_TTL \in Nat

\* f is a partial function from D to S.
IsTable(f, D, S) == DOMAIN f \subseteq D /\ f \in [DOMAIN f -> S]

\* A table without entries.
NoEntries == [k \in {} |-> 0]

\* storage().persistent().set(k, v)
Put(f, k, v) == [x \in DOMAIN f \cup {k} |-> IF x = k THEN v ELSE f[x]]

\* storage().persistent().remove(k)
Drop(f, k) == Restrict(f, DOMAIN f \ {k})

AtLeast(m, n) == IF m >= n THEN m ELSE n

\* u32::min
Least(m, n) == IF m <= n THEN m ELSE n

\* extend_ttl(k, n, n) for every k in K: an entry with less than n ledgers to
\* live gets n, the others keep what they have.  A key that is not yet in t is
\* an entry the same call has just created.
Extend(t, K, n) ==
    [k \in DOMAIN t \cup K |->
        IF k \notin K THEN t[k]
        ELSE AtLeast(IF k \in DOMAIN t THEN t[k] ELSE MIN_TTL, n)]

\* The entries that are still there when one more ledger has closed.
Survivors(t) == {k \in DOMAIN t : t[k] > 0}

\* The lives left after one more ledger.
Age(t) == [k \in Survivors(t) |-> t[k] - 1]
=============================================================================
