------------------------------ MODULE MCDryRuns ------------------------------
(* Small instances of DryRuns for TLC. *)
EXTENDS DryRuns, TLC

CONSTANTS i1, i2, i3

\* i3 refers to i2 and i2 to i1.
Chain == (i1 :> {}) @@ (i2 :> {i1}) @@ (i3 :> {i2})
==============================================================================
