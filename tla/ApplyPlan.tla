----------------------------- MODULE ApplyPlan -----------------------------
(***************************************************************************)
(* The plan of a changeset's apply, computed from its items and the live   *)
(* resources, and what the applied items do to those resources.            *)
(*                                                                         *)
(*   apps/api/src/changesets/plan.ts         blockers, order and levels    *)
(*   apps/api/src/changesets/validation.ts   the issues that refuse apply  *)
(*                                                                         *)
(* An item is its kind, its slug and the slugs its inputs refer to.        *)
(* "import" stands for a create without inputs too: neither has references.*)
(* One changeset and one run at a time; Changesets has the races.          *)
(***************************************************************************)
EXTENDS Naturals, Sequences, SequencesExt

CONSTANTS
    Slugs,
    MaxItems,    \* bound on the items that are ever staged
    MaxEdits,    \* bound on the edits of staged items
    ItemChoices, \* what the first, the second, ... of them may be
    LiveChoices  \* the resources there may be: slug -> references

VARIABLES
    item,     \* what was staged, in the order of creation: an id is a place in it
    draft,    \* the ids in the changeset
    live,     \* live resources: a function from their slugs to depends_on
    status,   \* of the changeset
    done,     \* items with a current succeeded operation
    failed,   \* items that failed in this run
    canceled, \* items whose operation was canceled in this run
    levels,   \* what is left of the plan
    edits,    \* items edited or deleted so far
    acted,    \* items that changed their resource since they were last edited
    withdrawn \* slugs of those of them that were edited or deleted

vars == <<item, draft, live, status, done, failed, canceled, levels, edits, acted, withdrawn>>

Kinds    == {"create", "import", "update", "delete", "forget"}
NewKinds == {"create", "import"}
DelKinds == {"delete", "forget"}
RefKinds == {"create", "update"}
Item     == [kind : Kinds, slug : Slugs, refs : SUBSET Slugs]

\* What there is in the beginning is whole: the resources that are referred
\* to are among it.
ASSUME ChoicesAssumption ==
    /\ MaxItems \in Nat /\ MaxEdits \in Nat
    /\ \A i \in 1..MaxItems : ItemChoices[i] \subseteq Item
    /\ \A l \in LiveChoices : DOMAIN l \subseteq Slugs /\ l \in [DOMAIN l -> SUBSET DOMAIN l]

Live    == DOMAIN live
Slug(i) == item[i].slug
Kind(i) == item[i].kind
Refs(i) == IF Kind(i) \in RefKinds THEN item[i].refs ELSE {}

---------------------------------------------------------------------------
(* planChangesetApply *)

\* The last of the items, or of none, as a set: a Map keeps the last one.
LastOf(S) == IF S = {} THEN {} ELSE {Max(S)}

StagedTarget(s)    == LastOf({i \in draft : Slug(i) = s /\ Kind(i) \in NewKinds})
StagedMutations(s) == {i \in draft : Slug(i) = s /\ Kind(i) \notin DelKinds}
StagedDelete(s)    == LastOf({i \in draft : Slug(i) = s /\ Kind(i) \in DelKinds})

\* Mutated form: references to staged items order nothing.
RefDeps_None(i) == {}

\* What the references of an item make it wait for: the create or import of
\* that slug, else every staged update of it.
RefDeps(i) ==
    (UNION {IF StagedTarget(s) # {} THEN StagedTarget(s) ELSE StagedMutations(s) :
              s \in {t \in Refs(i) \ {Slug(i)} : StagedDelete(t) = {}}}) \ {i}

RefBlocked(i) ==
    \E s \in Refs(i) :
        \/ s = Slug(i)
        \/ StagedDelete(s) # {}
        \/ StagedMutations(s) = {} /\ s \notin Live

\* The live resources that refer to what item i deletes.
Dependents(i) == {s \in Live : Slug(i) \in live[s]}

\* The last staged item that says what a resource refers to.
FinalMutation(s) == LastOf({i \in StagedMutations(s) : Kind(i) \in RefKinds})

Released(i, s) == \A j \in FinalMutation(s) : Slug(i) \notin Refs(j)

\* Mutated form: a delete waits for updates only.
DeleteDeps_Updates(i) ==
    (UNION {{j \in FinalMutation(s) : Released(i, s)} : s \in Dependents(i)}) \ {i}

\* A delete waits for the deletes and the updates that let go of its target.
DeleteDeps(i) ==
    (UNION {IF StagedDelete(s) # {} THEN StagedDelete(s)
            ELSE {j \in FinalMutation(s) : Released(i, s)} : s \in Dependents(i)}) \ {i}

DeleteBlocked(i) ==
    \E s \in Dependents(i) :
        StagedDelete(s) = {} /\ (FinalMutation(s) = {} \/ ~Released(i, s))

\* Of several deletes of one slug only the last is looked at.
IsDelete(i) == i \in StagedDelete(Slug(i))

Deps(i) == RefDeps(i) \cup (IF IsDelete(i) THEN DeleteDeps(i) ELSE {})

DirectlyBlocked == {i \in draft : RefBlocked(i) \/ (IsDelete(i) /\ DeleteBlocked(i))}

\* dependenciesByItemId, as pairs.
Dependencies == {e \in draft \X draft : e[2] \in Deps(e[1])}

Below(e, i) == {p[2] : p \in {q \in e : q[1] = i}}

\* One round: what depends on a blocked item is blocked.
WithDependents(b, e) == b \cup {i \in draft : Below(e, i) \cap b # {}}

Rounds(b, e) ==
    LET blocked[k \in Nat] == IF k = 0 THEN b ELSE WithDependents(blocked[k - 1], e)
    IN  blocked

\* Nothing changes after as many rounds as there are items.
WithBlockedDependents(b, e) == Rounds(b, e)[Cardinality(draft)]

InCreationOrder(S) ==
    CHOOSE q \in [1..Cardinality(S) -> S] : \A m, n \in DOMAIN q : m < n => q[m] < q[n]

\* The k-th of the queue is taken: what waits for it, and for nothing else
\* that was not taken, becomes ready.
Take(e, rest, ready, k) ==
    LET taken == {ready[m] : m \in 1..k}
        freed == {i \in rest : ready[k] \in Below(e, i) /\ Below(e, i) \subseteq taken}
    IN  IF k > Len(ready) THEN ready ELSE ready \o InCreationOrder(freed)

\* The queue when k of its items were taken.
Queue(e, rest) ==
    LET ready[k \in Nat] ==
            IF k = 0 THEN InCreationOrder({i \in rest : Below(e, i) = {}})
            ELSE Take(e, rest, ready[k - 1], k)
    IN  ready

\* Nothing is left to take after as many as there are.
Drain(e, rest) == Queue(e, rest)[Cardinality(rest)]

\* Mutated form: only the items that are blocked themselves are kept out.
OrderedItems_Direct(e, b) ==
    LET rest == draft \ DirectlyBlocked
    IN  Drain({q \in e : q[1] \in rest /\ q[2] \in rest}, rest)

OrderedItems(e, b) == Drain(e, draft \ b)

\* The order of the unblocked items, with the dependencies it is about.
Plan ==
    LET e == Dependencies
        b == WithBlockedDependents(DirectlyBlocked, e)
    IN  [order |-> OrderedItems(e, b), deps |-> e]

Unblocked(plan) == draft = ToSet(plan.order)

---------------------------------------------------------------------------
(* getChangeSetApplyGraph *)

\* Mutated form: the depth below the shallowest dependency.
DepthAfter_Min(e, depth, i) ==
    [depth EXCEPT ![i] = IF Below(e, i) = {} THEN 0 ELSE Min({depth[j] + 1 : j \in Below(e, i)})]

\* One step of the loop: the item goes below its deepest dependency.
DepthAfter(e, depth, i) ==
    [depth EXCEPT ![i] = Max({0} \cup {depth[j] + 1 : j \in Below(e, i)})]

\* The depths after the first k of the order.
Depths(plan) ==
    LET depth[k \in Nat] ==
            IF k = 0 THEN [i \in draft |-> 0]
            ELSE DepthAfter(plan.deps, depth[k - 1], plan.order[k])
    IN  depth

Levels(plan) ==
    LET depth == Depths(plan)[Len(plan.order)]
    IN  [k \in 1..(Max({depth[i] : i \in draft}) + 1) |-> {i \in draft : depth[i] = k - 1}]

---------------------------------------------------------------------------
(* validateChangeSetItems *)

Earlier(i, kinds) == {j \in draft : j < i /\ Slug(j) = Slug(i) /\ Kind(j) \in kinds}

ExistsAlready(i) == Kind(i) \in NewKinds /\ Slug(i) \in Live /\ i \notin done

TargetGone(i) == Kind(i) \in {"update", "delete"} /\ Slug(i) \notin Live

Duplicate(i) ==
    \/ Kind(i) \in NewKinds /\ Earlier(i, NewKinds) # {}
    \/ Kind(i) \in DelKinds /\ Earlier(i, DelKinds) # {}
    \/ Kind(i) = "update" /\ Earlier(i, {"update"}) # {}
    \/ Kind(i) = "update" /\ StagedDelete(Slug(i)) # {}

\* Creates and deletes in the order of the items decide what there will be.
AvailableAfter(s) ==
    LET last == LastOf({i \in draft : Slug(i) = s /\ Kind(i) # "update"}) IN
    IF last = {} THEN s \in Live ELSE \A i \in last : Kind(i) \in NewKinds

BadReference(i) ==
    \E s \in Refs(i) : s = Slug(i) \/ StagedDelete(s) # {} \/ ~AvailableAfter(s)

Issue(i) == ExistsAlready(i) \/ TargetGone(i) \/ Duplicate(i) \/ BadReference(i)

\* No issue with any item, the blockers of the plan among them.
Accepted(plan) == draft # {} /\ (\A i \in draft : ~Issue(i)) /\ Unblocked(plan)

---------------------------------------------------------------------------
(* The changeset and its run *)

\* normalizeAddChangeSetItemBody looks for the target of an item it stages.
Stageable(x, l) == x.kind \in NewKinds \cup (IF x.slug \in DOMAIN l THEN Kinds ELSE {})

Init ==
    /\ live \in LiveChoices
    /\ item = <<>>
    /\ draft = {}
    /\ status = "draft"
    /\ done = {} /\ failed = {} /\ canceled = {}
    /\ levels = <<>>
    /\ edits = 0
    /\ acted = {} /\ withdrawn = {}

stageItem(x) ==
    /\ status = "draft" /\ Len(item) < MaxItems /\ Stageable(x, live)
    /\ item' = Append(item, x)
    /\ draft' = draft \cup {Len(item) + 1}
    /\ UNCHANGED <<live, status, done, failed, canceled, levels, edits, acted, withdrawn>>

\* A user's change of item i: an earlier success of it no longer counts.
Edit(i) ==
    /\ status = "draft" /\ i \in draft
    /\ edits < MaxEdits /\ edits' = edits + 1
    /\ done' = done \ {i}
    /\ acted' = acted \ {i}
    /\ withdrawn' = withdrawn \cup (IF i \in acted THEN {Slug(i)} ELSE {})
    /\ UNCHANGED <<live, status, failed, canceled, levels>>

deleteItem(i) ==
    /\ Edit(i)
    /\ draft' = draft \ {i}
    /\ UNCHANGED item

\* mergeUpdateBody: the kind stays; a delete's mode is not its kind.
MergedFrom(i, new) == new.kind = Kind(i) \/ {new.kind, Kind(i)} = DelKinds

\* The target must be live.  The success is gone even if the content is the
\* same (updated_at).
updateItem(i, new) ==
    /\ Edit(i)
    /\ MergedFrom(i, new) /\ Stageable(new, live)
    /\ item' = [item EXCEPT ![i] = new]
    /\ UNCHANGED draft

apply ==
    /\ status = "draft"
    /\ LET plan == Plan IN Accepted(plan) /\ levels' = Levels(plan)
    /\ status' = "applying"
    /\ UNCHANGED <<item, draft, live, done, failed, canceled, edits, acted, withdrawn>>

\* The operations of this run that have ended, and those of earlier runs
\* that succeeded.
Settled == done \cup failed \cup canceled

InLevel(i) == status = "applying" /\ i \in Head(levels) \ Settled

\* What an operation cannot do without: its target (getApplyTargetResource;
\* a forget needs none), a free slug (the index of live slugs), live resources
\* behind its references (substituteRefs).
Possible(i) ==
    /\ Kind(i) \in {"update", "delete"} => Slug(i) \in Live
    /\ Kind(i) \in NewKinds => Slug(i) \notin Live
    /\ Refs(i) \subseteq Live

\* The resource row when the operation of the item has succeeded.
Succeeds(i) ==
    /\ InLevel(i) /\ Possible(i)
    /\ done' = done \cup {i}
    /\ acted' = acted \cup {i}
    /\ live' = IF Kind(i) \in DelKinds
               THEN [s \in Live \ {Slug(i)} |-> live[s]]
               ELSE [s \in Live \cup {Slug(i)} |-> IF s = Slug(i) THEN Refs(i) ELSE live[s]]
    /\ UNCHANGED <<item, draft, status, failed, canceled, levels, edits, withdrawn>>

\* A failed create leaves no live row; a failed update may have written the
\* new inputs and depends_on before it failed (updateResourceInputs).
Fails(i) ==
    /\ InLevel(i)
    /\ failed' = failed \cup {i}
    /\ \/ UNCHANGED <<live, acted>>
       \/ /\ Kind(i) = "update" /\ Slug(i) \in Live
          /\ live' = [live EXCEPT ![Slug(i)] = Refs(i)]
          /\ acted' = acted \cup {i}
    /\ UNCHANGED <<item, draft, status, done, canceled, levels, edits, withdrawn>>

\* Nobody approved it: the resource stays as it is.
Canceled(i) ==
    /\ InLevel(i)
    /\ canceled' = canceled \cup {i}
    /\ UNCHANGED <<item, draft, live, status, done, failed, levels, edits, acted, withdrawn>>

\* A failure goes before a cancel, and both before the next level.
LevelDone ==
    /\ status = "applying" /\ Head(levels) \subseteq Settled
    /\ status' = CASE failed # {} -> "draft"
                   [] failed = {} /\ canceled # {} -> "canceled"
                   [] failed = {} /\ canceled = {} ->
                          IF Len(levels) = 1 THEN "applied" ELSE "applying"
    /\ levels' = IF failed \cup canceled # {} THEN <<>> ELSE Tail(levels)
    /\ failed' = {} /\ canceled' = {}
    /\ UNCHANGED <<item, draft, live, done, edits, acted, withdrawn>>

Next ==
    \/ apply
    \/ LevelDone
    \/ \E i \in draft : deleteItem(i) \/ Succeeds(i) \/ Fails(i) \/ Canceled(i)
    \/ Len(item) < MaxItems /\ \E x \in ItemChoices[Len(item) + 1] : stageItem(x)
    \/ \E i \in draft : \E new \in ItemChoices[i] : updateItem(i, new)

Spec == Init /\ [][Next]_vars

---------------------------------------------------------------------------
(* Properties *)

\* No resource is left with a reference to one that is gone, at any moment of
\* any apply, also of one that failed half way and was edited and retried:
\* what is deleted was let go of before (delete_blocked, DeleteDeps).  It is
\* so for the slugs that the draft speaks for: an item that has run and is
\* then edited or deleted leaves its effect behind, and the plan trusts the
\* items that ran before it as if they had the last word.
ReferencesLive == \A s \in Live \ withdrawn : live[s] \subseteq Live \cup withdrawn

\* When the turn of an item comes, what it refers to is there (with the same
\* exception), its target is there and, for a new resource, its slug is free.
LevelReady ==
    status = "applying" => \A i \in Head(levels) \ Settled :
        /\ Refs(i) \subseteq Live \cup withdrawn
        /\ Kind(i) \in {"update", "delete"} => Slug(i) \in Live
        /\ Kind(i) \in NewKinds => Slug(i) \notin Live

\* The levels are what Changesets assumes of them: each of them is what, of
\* the items that are not in the levels before it, waits for none of these;
\* none is empty, and together they are the draft.
LevelsPeel ==
    status = "draft" /\ draft # {} =>
        LET plan    == Plan
            level   == Levels(plan)
            Left(k) == draft \ UNION {level[m] : m \in 1..(k - 1)}
        IN  Unblocked(plan) =>
                /\ \A k \in DOMAIN level :
                     /\ level[k] = {i \in Left(k) : Below(plan.deps, i) \cap Left(k) = {}}
                     /\ level[k] # {}
                /\ UNION {level[k] : k \in DOMAIN level} = draft

\* The order has exactly the items that are not blocked, not on a cycle and
\* do not lead to such an item: nothing sound is refused, nothing else passes.
\* They are the largest set that has its dependencies in it, no blocked item,
\* and in every part of it an item that waits for nothing in that part.
BlockersExact ==
    status = "draft" =>
        LET plan  == Plan
            e     == plan.deps
            Sound == {S \in SUBSET (draft \ DirectlyBlocked) :
                        /\ \A q \in e : q[1] \in S => q[2] \in S
                        /\ \A T \in (SUBSET S) \ {{}} : \E i \in T : Below(e, i) \cap T = {}}
        IN  ToSet(plan.order) = UNION Sound
============================================================================
