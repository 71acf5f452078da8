------------------------ MODULE ChangesetLifecycle ------------------------
(***************************************************************************)
(* What the changesets of one project promise: at most one draft; a draft  *)
(* is discarded or applied; one run at a time is at work on an applying    *)
(* changeset; the run ends it as applied, as canceled or as the draft it   *)
(* was.  Until it is over the run may still reopen what it has ended; from *)
(* then on the end is final.                                               *)
(***************************************************************************)
CONSTANT Sets

VARIABLES cs,      \* the status of each changeset
          working  \* the changesets a run is at work on

NoDraft == \A s \in Sets : cs[s] # "draft"

Init == cs = [s \in Sets |-> "absent"] /\ working = {}

Move(s, from, to) == cs[s] \in from /\ cs' = [cs EXCEPT ![s] = to]

\* Without a run.
Create(s)  == NoDraft /\ Move(s, {"absent"}, "draft") /\ UNCHANGED working
Discard(s) == Move(s, {"draft"}, "discarded") /\ UNCHANGED working
Apply(s)   == Move(s, {"draft"}, "applying") /\ UNCHANGED working
Revert(s)  == /\ s \notin working /\ NoDraft
              /\ Move(s, {"applying"}, "draft") /\ UNCHANGED working

\* By the run.
Start(s)  == /\ s \notin working /\ cs[s] = "applying"
             /\ working' = working \cup {s} /\ UNCHANGED cs
Finish(s) == /\ s \in working
             /\ \E to \in {"applied", "canceled"} : Move(s, {"applying", to}, to)
             /\ working' \in {working, working \ {s}}
Reopen(s) == /\ s \in working /\ NoDraft
             /\ Move(s, {"applying", "applied", "canceled"}, "draft")
             /\ working' = working \ {s}
\* Another draft is in the way of the reopening.
GiveUp(s) == s \in working /\ ~NoDraft /\ working' = working \ {s} /\ UNCHANGED cs

Next == \E s \in Sets : \/ Create(s) \/ Discard(s) \/ Apply(s) \/ Revert(s)
                        \/ Start(s) \/ Finish(s) \/ Reopen(s) \/ GiveUp(s)

Spec == Init /\ [][Next]_<<cs, working>>
============================================================================
