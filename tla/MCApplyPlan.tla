---------------------------- MODULE MCApplyPlan ----------------------------
(* Small instances of ApplyPlan for TLC. *)
EXTENDS ApplyPlan

CONSTANTS sA, sB, sC

\* Item 1 is about sA, item 2 about sB, and item 3 about sB or sC.
MayBeAbout == <<{sA}, {sB}, {sB, sC}>>

\* Every kind of item; import and forget, more than one reference, and a
\* reference to itself, only as the first.  The third may refer to sB if it is
\* about sC, and to nothing where it is a second item about a slug.
MCItems ==
    [i \in 1..MaxItems |->
        {x \in Item : /\ x.slug \in MayBeAbout[i]
                      /\ x.kind \in {"import", "forget"} => i = 1
                      /\ x.kind \notin RefKinds => x.refs = {}
                      /\ x.slug \in x.refs => i = 1 /\ x.kind = "create" /\ x.refs = {x.slug}
                      /\ i = 2 => Cardinality(x.refs) <= 1
                      /\ i = 3 => x.refs \subseteq IF x.slug = sC THEN {sB} ELSE {}}]

\* None, one, two that may depend on each other, or a chain of three.
MCLive ==
    UNION {{l \in [S -> SUBSET S] : /\ sA \in S => l[sA] = {}
                                    /\ sB \in S => l[sB] \subseteq {sA}
                                    /\ sC \in S => l[sB] = {sA} /\ l[sC] = {sB}} :
             S \in {{}, {sA}, {sA, sB}, Slugs}}
============================================================================
