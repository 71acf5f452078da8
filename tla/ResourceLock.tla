--------------------------- MODULE ResourceLock ---------------------------
(***************************************************************************)
(* What the operations promise the resources: a lock per resource row.  An *)
(* operation acquires it once, may be at the provider (busy) only while it *)
(* owns it, and gives it up only when it is not.                           *)
(***************************************************************************)
CONSTANTS Ops, Rows, NoOp

VARIABLES
    owner, \* the operation that holds the lock of each row, or NoOp
    busy   \* the operations that are mutating a resource at the provider

vars == <<owner, busy>>

Owns(o) == \E r \in Rows : owner[r] = o

Init == owner = [r \in Rows |-> NoOp] /\ busy = {}

Acquire(o, r) ==
    /\ owner[r] = NoOp /\ ~Owns(o)
    /\ owner' = [owner EXCEPT ![r] = o]
    /\ UNCHANGED busy

Enter(o) == Owns(o) /\ o \notin busy /\ busy' = busy \cup {o} /\ UNCHANGED owner

Leave(o) == o \in busy /\ busy' = busy \ {o} /\ UNCHANGED owner

Release(r) ==
    /\ owner[r] # NoOp /\ owner[r] \notin busy
    /\ owner' = [owner EXCEPT ![r] = NoOp]
    /\ UNCHANGED busy

Next ==
    \/ \E o \in Ops : Enter(o) \/ Leave(o) \/ \E r \in Rows : Acquire(o, r)
    \/ \E r \in Rows : Release(r)

Spec == Init /\ [][Next]_vars
============================================================================
