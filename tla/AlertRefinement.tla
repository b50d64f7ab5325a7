-------------------------- MODULE AlertRefinement --------------------------
(***************************************************************************)
(* The AlertRegistry contract implements AlertBook while keepers renew     *)
(* every entry in time.  The contract finds an owner's alerts through its  *)
(* index, the book by looking at every alert: the refinement shows that    *)
(* silencing, limits and removals reach exactly the alerts they should.    *)
(***************************************************************************)
EXTENDS AlertRegistry

book == [id \in DOMAIN alerts |->
            [owner |-> alerts[id].owner, target |-> alerts[id].target_contract,
             on |-> alerts[id].active]]

Book == INSTANCE AlertBook
            WITH Caps <- Limits \cup {0}, Batches <- BatchSizes \cup {1},
                 book <- book, issued <- next_id, cap <- limit

\* Every call of the contract is one step of the book, and leaves the alerts it
\* does not name alone.
ImplementsAlertBook == Book!Spec
=============================================================================
