------------------------------- MODULE MCBridge -------------------------------
(* Small instances of Bridge for TLC. *)
EXTENDS Bridge, TLC

CONSTANTS q1, q2, q3, k1, k2

\* q1 and q2 write the same configuration in two ways, q3 has another one.
MCConfig == (q1 :> "a") @@ (q2 :> "a'") @@ (q3 :> "b")
MCKinds == (q1 :> {"create", "update", "replace", "delete"})
             @@ (q2 :> {"query"}) @@ (q3 :> {"query"})
MCCanonical == ("a" :> k1) @@ ("a'" :> k1) @@ ("b" :> k2)
===============================================================================
