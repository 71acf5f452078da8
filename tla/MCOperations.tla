--------------------------- MODULE MCOperations ---------------------------
(* Small instances of Operations for TLC. *)
EXTENDS Operations, TLC

\* Two resource ids share a slug: the second is the re-created resource.
OneSlug == [r \in Rows |-> "web"]

AlwaysPolicy    == {"create", "update", "delete", "import"}

Symmetry == Permutations(Ops) \cup Permutations(Rows) \cup Permutations(Clients)
============================================================================
