--------------------------- MODULE MCThinkingBlocks ---------------------------
(* Instances of ThinkingBlocks for TLC. *)
EXTENDS ThinkingBlocks, TLC

CONSTANTS k1, r1, r2, c1, c2, c3

MCKeyOf == [a \in Artifacts |-> k1]
Symmetry == Permutations(Runners) \cup Permutations(Callers)
===============================================================================
