--------------------------- MODULE MCChangesets ---------------------------
(* Small instances of Changesets for TLC. *)
EXTENDS Changesets, TLC

CONSTANTS i1, i2

\* The second item refers to the first.
Chain == (i1 :> {}) @@ (i2 :> {i1})

\* Sound where only invariants are checked: clients and runs are alike.
Alike == Permutations(Clients) \cup Permutations(Runs)
============================================================================
