------------------------------ MODULE DryRuns ------------------------------
(***************************************************************************)
(* The dry runs of a draft changeset (apps/api/src/changesets/workflows).  *)
(*                                                                         *)
(* Every staged item has one row of resource_dry_runs.  Staging, editing,  *)
(* refreshing, or the dry run of an item it refers to sets the row to      *)
(* pending under a new updated_at, commits, and only then calls start() on *)
(* a workflow that carries this timestamp; the workflow writes its plan    *)
(* only while the row still has it (compare and set).  An item refers to   *)
(* others by slug: it is planned against the plan of a staged sibling or   *)
(* against the live resource, and deferred when neither is there.          *)
(*                                                                         *)
(* Everything may throw: a start(), a step until its retries end, the step *)
(* that would have recorded a failure.  Two history variables keep what    *)
(* such throws left behind: orphaned, the pending rows nothing will ever   *)
(* settle, and missed, the items that were not restarted for a sibling.    *)
(*                                                                         *)
(* Timestamps are not numbered: a workflow is fresh while the row still    *)
(* has the updated_at it carries, and a plan remembers which of the rows   *)
(* it was made from have not been written since.  What a plan says is left *)
(* out.  Items are named by their slugs, one item a slug.                  *)
(***************************************************************************)
EXTENDS Naturals, FiniteSets, Bags

CONSTANTS
    Items,       \* slugs that items are staged for
    DependsOn,   \* change_set_items.depends_on
    Live,        \* slugs that also have a live resource to refer to
    MaxEdits,    \* bound on the user's requests
    MaxRetries   \* bound on the retries of steps that write or start

ASSUME DryRunsAssumption ==
    /\ DependsOn \in [Items -> SUBSET Items]
    /\ Live \subseteq Items
    /\ MaxEdits \in Nat /\ MaxRetries \in Nat

VARIABLES
    draft,      \* changeset status: draft, or applying
    staged,     \* the items of the changeset
    row,        \* resource_dry_runs
    flows,      \* bag of dryRunChangeWorkflow executions, called or in flight
    refreshing, \* refreshDryRunsWorkflow executions that have not reset yet
    edits,      \* requests so far
    retries,    \* retries so far
    orphaned,   \* items whose pending row lost its start, or its failure
    missed      \* items whose restart was given up

vars == <<draft, staged, row, flows, refreshing, edits, retries, orphaned, missed>>

\* planned stands for create, update and replace, which have a planned state;
\* void for noop, delete and error, which have none; held for the deferrals
\* that planResourceDryRun itself decides (no integration, no target).
Outcomes == {"planned", "void", "held"}
Actions == {"none", "pending", "deferred"} \cup Outcomes

\* seen: the sibling rows the plan was made from that have not been written
\* since; self: the item has not been edited since the plan's workflow read it.
Rows == [action : Actions, seen : SUBSET Items, self : BOOLEAN]

\* call: start() is due, in a handler or in startDependentDryRuns; step: it is
\* due in startDryRunWorkflows, which does not write the rows when it retries.
Unread == {"call", "step", "start"}

Flow == [item : Items, at : Unread \cup {"inputs", "plan", "defer", "trigger"},
         fresh : BOOLEAN, self : BOOLEAN, seen : SUBSET Items]

TypeOK ==
    /\ draft \in BOOLEAN
    /\ staged \subseteq Items
    /\ row \in [Items -> Rows]
    /\ IsABag(flows) /\ BagToSet(flows) \subseteq Flow
    /\ refreshing \in 0..MaxEdits /\ edits \in 0..MaxEdits /\ retries \in 0..MaxRetries
    /\ orphaned \subseteq Items /\ missed \subseteq Items

Plain(action) == [action |-> action, seen |-> {}, self |-> TRUE]

Init ==
    /\ draft = TRUE
    /\ staged = {}
    /\ row = [i \in Items |-> Plain("none")]
    /\ flows = EmptyBag
    /\ refreshing = 0 /\ edits = 0 /\ retries = 0
    /\ orphaned = {} /\ missed = {}

-----------------------------------------------------------------------------
(* Writes of rows, and what they do to the workflows in flight *)

\* The bag of what F makes of the executions in B, copy by copy.
Copies(B) == UNION {{f} \X (1..B[f]) : f \in BagToSet(B)}
Image(F, B) ==
    [g \in {F[f] : f \in BagToSet(B)} |-> Cardinality({c \in Copies(B) : F[c[1]] = g})]

\* The rows of I get a new updated_at.
Overtake(I, f) == [f EXCEPT !.fresh = @ /\ f.item \notin I, !.seen = @ \ I]
After(I, B) == Image([f \in BagToSet(B) |-> Overtake(I, f)], B)

WriteRows(I, r) ==
    row' = [i \in Items |-> IF i \in I THEN r ELSE [row[i] EXCEPT !.seen = @ \ I]]

\* The start() calls that are due for the items I.
Calls(I, at) ==
    SetToBag({[item |-> i, at |-> at, fresh |-> TRUE, self |-> TRUE, seen |-> {}] : i \in I})

\* Rows I become pending, and a start() is due for those in S.
Reset(I, S, at, B) ==
    /\ WriteRows(I, Plain("pending"))
    /\ flows' = After(I, B) (+) Calls(S, at)
    /\ orphaned' = (orphaned \ I) \cup (I \ S)
    /\ missed' = missed \ I

Restart(I, at, B) == Reset(I, I, at, B)

\* The item's content changes under the workflows that have read it.
Reread(i, f) == [f EXCEPT !.self = @ /\ (f.item # i \/ f.at \in Unread)]
Edited(i, B) == Image([f \in BagToSet(B) |-> Reread(i, f)], B)

\* A step that threw is run again.
Retry == retries < MaxRetries /\ retries' = retries + 1

-----------------------------------------------------------------------------
(* The user's requests *)

Request == /\ draft /\ edits < MaxEdits /\ edits' = edits + 1
           /\ UNCHANGED <<draft, retries>>

\* The rows are committed; start() follows.
stageItem(i) ==
    /\ Request
    /\ i \notin staged
    /\ staged' = staged \cup {i}
    /\ Restart({i}, "call", flows)
    /\ UNCHANGED refreshing

updateItem(i) ==
    /\ Request
    /\ i \in staged
    /\ Restart({i}, "call", Edited(i, flows))
    /\ UNCHANGED <<staged, refreshing>>

\* The item and, by cascade, its row are gone.  A workflow that has not read
\* the item yet will find none and return.
deleteItem(i) ==
    /\ Request
    /\ i \in staged
    /\ staged' = staged \ {i}
    /\ WriteRows({i}, Plain("none"))
    /\ LET unread == {f \in BagToSet(flows) : f.item = i /\ f.at \in Unread}
       IN flows' = After({i}, [f \in BagToSet(flows) \ unread |-> flows[f]])
    /\ orphaned' = orphaned \ {i} /\ missed' = missed \ {i}
    /\ UNCHANGED refreshing

\* The request only starts refreshDryRunsWorkflow; when that throws, nothing
\* has been written.
refreshDryRuns ==
    /\ Request
    /\ staged # {}
    /\ refreshing' = refreshing + 1
    /\ UNCHANGED <<staged, row, flows, orphaned, missed>>

\* apply passes when every dry run has settled.
apply ==
    /\ draft /\ staged # {}
    /\ \A i \in staged : row[i].action \notin {"none", "pending", "deferred", "held"}
    /\ draft' = FALSE
    /\ UNCHANGED <<staged, row, flows, refreshing, edits, retries, orphaned, missed>>

-----------------------------------------------------------------------------
(* refreshDryRunsWorkflow *)

\* Every item of a draft starts over.  A step that commits and throws is run
\* again, or ends the workflow: either way its starts are not made.
resetChangeSetDryRuns ==
    LET I == IF draft THEN staged ELSE {} IN
    /\ refreshing > 0
    /\ \/ /\ Restart(I, "step", flows)
          /\ refreshing' = refreshing - 1 /\ UNCHANGED retries
       \/ /\ Reset(I, {}, "step", flows)
          /\ \/ refreshing' = refreshing - 1 /\ UNCHANGED retries
             \/ UNCHANGED refreshing /\ Retry
    /\ UNCHANGED <<draft, staged, edits>>

\* It throws to the last without a commit.
RefreshFails ==
    /\ refreshing > 0
    /\ refreshing' = refreshing - 1
    /\ UNCHANGED <<draft, staged, row, flows, edits, retries, orphaned, missed>>

-----------------------------------------------------------------------------
(* dryRunChangeWorkflow *)

Take(f) == flows (-) SetToBag({f})
Becomes(f, g) == flows' = Take(f) (+) SetToBag({g})

\* What a step of one execution leaves alone.
Requests == <<draft, staged, refreshing, edits>>

\* start() takes effect; startDryRunWorkflows may make it again, under the
\* same updated_at.
Start(f) ==
    LET started == [f EXCEPT !.at = "start"] IN
    /\ f.at \in {"call", "step"}
    /\ \/ Becomes(f, started) /\ UNCHANGED retries
       \/ f.at = "step" /\ flows' = flows (+) SetToBag({started}) /\ Retry
    /\ UNCHANGED <<Requests, row, orphaned, missed>>

\* start() throws, its caller dies, or its step has no retry left; or a
\* workflow fails and so does markDryRunFailed: the row stays pending.
Orphan(f) ==
    /\ f.at # "trigger"
    /\ flows' = Take(f)
    /\ orphaned' = IF f.fresh THEN orphaned \cup {f.item} ELSE orphaned
    /\ UNCHANGED <<Requests, row, retries, missed>>

\* getChangeSetItem
getChangeSetItem(f) ==
    /\ f.at = "start"
    /\ Becomes(f, [f EXCEPT !.at = "inputs"])
    /\ UNCHANGED <<Requests, row, retries, orphaned, missed>>

\* A reference that getChangeSetDryRunInputs cannot fill.
Unfilled(d) == IF d \in staged THEN row[d].action # "planned" ELSE d \notin Live

getChangeSetDryRunInputs(f) ==
    /\ f.at = "inputs"
    /\ IF \E d \in DependsOn[f.item] : Unfilled(d)
       THEN Becomes(f, [f EXCEPT !.at = "defer"])
       ELSE Becomes(f, [f EXCEPT !.at = "plan", !.seen = DependsOn[f.item] \cap staged])
    /\ UNCHANGED <<Requests, row, retries, orphaned, missed>>

\* A write under the compare and set on updated_at; rest is what is left of the
\* workflow.
Save(f, r, rest) ==
    IF f.fresh
    THEN /\ WriteRows({f.item}, r)
         /\ flows' = After({f.item}, Take(f)) (+) rest
         /\ orphaned' = orphaned \ {f.item}
    ELSE /\ UNCHANGED <<row, orphaned>>
         /\ flows' = Take(f) (+) rest

\* updateDryRunDeferred, which ends the workflow.
updateDryRunDeferred(f) ==
    /\ f.at = "defer"
    /\ Save(f, Plain("deferred"), EmptyBag)
    /\ UNCHANGED <<Requests, retries, missed>>

ToTrigger(f) == SetToBag({[f EXCEPT !.at = "trigger", !.fresh = FALSE, !.seen = {}]})

\* Mutated form: the plan is written without the compare and set.
updateDryRun_Blind(f, outcome) ==
    /\ f.at = "plan"
    /\ WriteRows({f.item}, [action |-> outcome, seen |-> f.seen, self |-> f.self])
    /\ flows' = After({f.item}, Take(f)) (+) ToTrigger(f)
    /\ UNCHANGED <<Requests, retries, orphaned, missed>>

\* planResourceDryRun and updateDryRun.
updateDryRun(f, outcome) ==
    /\ f.at = "plan"
    /\ Save(f, [action |-> outcome, seen |-> f.seen, self |-> f.self], ToTrigger(f))
    /\ UNCHANGED <<Requests, retries, missed>>

Dependents(i) == IF draft THEN {d \in staged \ {i} : i \in DependsOn[d]} ELSE {}

\* Mutated form: the dependents are reset, and nothing plans them again.
startDependentDryRuns_NoStart(f) ==
    /\ f.at = "trigger"
    /\ WriteRows(Dependents(f.item), Plain("pending"))
    /\ flows' = After(Dependents(f.item), Take(f))
    /\ UNCHANGED <<Requests, retries, orphaned, missed>>

\* Mutated form: an item counts as its own dependent's source.
startDependentDryRuns_Self(f) ==
    /\ f.at = "trigger"
    /\ Restart(Dependents(f.item) \cup ({f.item} \cap staged), "call", Take(f))
    /\ UNCHANGED <<Requests, retries>>

\* startDependentDryRuns, whether or not the plan was written: the rows are
\* committed, the starts follow.  When one of them throws the step is run
\* again and resets the rows again.
startDependentDryRuns(f) ==
    /\ f.at = "trigger"
    /\ \/ Restart(Dependents(f.item), "call", Take(f)) /\ UNCHANGED retries
       \/ Restart(Dependents(f.item), "call", flows) /\ Retry
    /\ UNCHANGED Requests

\* It throws to the last without a commit, or updateDryRun has thrown after
\* its own: markDryRunFailed finds the row written, and changes nothing.
TriggerFails(f) ==
    /\ f.at = "trigger"
    /\ flows' = Take(f)
    /\ missed' = missed \cup Dependents(f.item)
    /\ UNCHANGED <<Requests, row, retries, orphaned>>

\* A step throws: markDryRunFailed records the error, and no dependents start.
markDryRunFailed(f) ==
    /\ f.at \in {"start", "inputs", "plan", "defer"}
    /\ Save(f, Plain("void"), EmptyBag)
    /\ UNCHANGED <<Requests, retries, missed>>

-----------------------------------------------------------------------------
(* Specification *)

FlowStep(f) ==
    \/ Start(f)
    \/ Orphan(f)
    \/ getChangeSetItem(f)
    \/ getChangeSetDryRunInputs(f)
    \/ updateDryRunDeferred(f)
    \/ \E outcome \in Outcomes : updateDryRun(f, outcome)
    \/ startDependentDryRuns(f)
    \/ TriggerFails(f)
    \/ markDryRunFailed(f)

Work ==
    \/ resetChangeSetDryRuns
    \/ RefreshFails
    \/ \E f \in BagToSet(flows) : FlowStep(f)

Next ==
    \/ \E i \in Items : stageItem(i) \/ updateItem(i) \/ deleteItem(i)
    \/ refreshDryRuns
    \/ apply
    \/ Work

\* The workflow engine runs every execution to its end, and a handler makes
\* its call or dies.
Fairness == WF_vars(Work)

Spec == Init /\ [][Next]_vars /\ Fairness

-----------------------------------------------------------------------------
(* Properties *)

Quiet == flows = EmptyBag /\ refreshing = 0

\* A pending row has a workflow that may settle it, or a start() due under the
\* timestamp of the very write that made it pending, unless that start, or the
\* record of that workflow's failure, was lost to a throw; a settled row has
\* none: who resets a row starts a workflow for what it wrote, and a write
\* overtakes all others (stageItem, updateItem, resetChangeSetDryRuns,
\* startDependentDryRuns, the compare and set of the workflow's writes).
PendingOwned ==
    \A i \in staged :
        LET owned == \E f \in BagToSet(flows) : f.item = i /\ f.fresh
        IN IF row[i].action = "pending" THEN i \notin orphaned => owned ELSE ~owned

\* When the dry runs of a draft have come to rest, a plan was made from the
\* item's present content, and, unless its restart was given up, from the
\* present plans of the siblings that have one: no overtaken workflow has the
\* last word (updateDryRun's compare and set, startDependentDryRuns).
SettledCurrent ==
    (draft /\ Quiet) =>
        \A i \in staged : row[i].action = "planned" =>
            /\ row[i].self
            /\ \A d \in DependsOn[i] \cap staged :
                   row[d].action = "planned" => d \in row[i].seen \cup {i} \/ i \in missed

\* Once the user stops, the dry runs come to rest, though each one that ends
\* restarts its dependents (startDependentDryRuns).
Settles == <>[]Quiet

=============================================================================
