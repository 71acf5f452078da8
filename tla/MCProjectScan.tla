---------------------------- MODULE MCProjectScan ----------------------------
(* Instances of ProjectScan for TLC. *)
EXTENDS ProjectScan, TLC

CONSTANTS p1, f1

==============================================================================
