---------------------------- MODULE Changesets ----------------------------
(***************************************************************************)
(* The changesets of one project: items staged in a draft, the apply       *)
(* handler with its dry-run gate, and the workflow that applies the items  *)
(* level by level.                                                         *)
(*                                                                         *)
(*   apps/api/src/changesets/changesets.ts         the handlers            *)
(*   apps/api/src/changesets/workflows/index.ts    applyChangeSetWorkflow  *)
(*   apps/api/src/changesets/workflows/steps.ts    its steps               *)
(*   apps/api/src/resources/dry-run.ts             the cached plan         *)
(*                                                                         *)
(* The operation of an item is abstracted to its outcome (Operations has   *)
(* its detail), a dry run to the action of its row, and the apply plan to  *)
(* the dependencies it computes.                                           *)
(***************************************************************************)
EXTENDS Naturals, FiniteSets

CONSTANTS
    Sets, Items, Runs, Clients,
    NoSet, NoItem,
    DependsOn,        \* the items each item waits for (dependenciesByItemId)
    Cached,           \* items applied from their cached plan: not import, forget
    Gated,            \* items whose operation waits for an approval
    MaxEdits,         \* bound on the writes of one item's content
    HandlersMayCrash,
    MayThrow          \* the writers that may throw, also after their commit

VARIABLES
    cs,    \* change_sets.status ("absent" before the insert)
    owner, \* change_set_items.change_set_id, NoSet when there is no row
    edits, \* writes of the item so far: its updated_at
    dry,   \* resource_dry_runs.action ("none" without a row)
    run,   \* the applyChangeSetWorkflow runs
    op,    \* the operation each run has for each item
    opAt,  \* its created_at: the edits it came after
    req    \* the HTTP handlers in progress

vars == <<cs, owner, edits, dry, run, op, opAt, req>>

---------------------------------------------------------------------------
(* Vocabulary *)

SetStatuses == {"absent", "draft", "applying", "applied", "discarded", "canceled"}
Actions     == {"none", "pending", "deferred", "error", "planned"}
OpStates    == {"none", "waiting", "open", "applying", "succeeded", "noop",
                "failed", "canceled"}
OpEnds      == {"succeeded", "noop", "failed", "canceled"}

Counter  == 0..MaxEdits
Snapshot == [items : SUBSET Items, done : SUBSET Items, seen : [Items -> Counter]]
Empty    == [items |-> {}, done |-> {}, seen |-> [i \in Items |-> 0]]

Idle == [at |-> "idle", set |-> NoSet, item |-> NoItem, snap |-> Empty]
Unused == [at |-> "unused", set |-> NoSet, left |-> {}, snap |-> Empty]

ASSUME ConstantsAssumption ==
    /\ NoSet \notin Sets /\ NoItem \notin Items
    /\ DependsOn \in [Items -> SUBSET Items]
    /\ Cached \subseteq Items /\ Gated \subseteq Items
    /\ MaxEdits \in Nat \ {0}
    /\ HandlersMayCrash \in BOOLEAN
    /\ MayThrow \subseteq {"apply", "revert", "finish", "reopen"}

Members(s) == {i \in Items : owner[i] = s}

\* hasCurrentSuccess: a succeeded operation created after the last edit.
CurrentSuccess(i) == \E r \in Runs : op[r][i] = "succeeded" /\ opAt[r][i] = edits[i]

\* Mutated form: items that succeeded are not told apart.
ReadSet_NothingDone(s) == [items |-> Members(s), done |-> {}, seen |-> edits]

\* getRawChangeSetViewByProject
ReadSet(s) == [items |-> Members(s),
               done |-> {i \in Members(s) : CurrentSuccess(i)},
               seen |-> edits]

\* change_sets_project_draft_unique
DraftFree(s) == \A t \in Sets \ {s} : cs[t] # "draft"

\* getChangeSetApplyGraph: what is left of the plan begins with its first level.
Level(left) == {i \in left : DependsOn[i] \cap left = {}}

TypeOK ==
    /\ cs \in [Sets -> SetStatuses]
    /\ owner \in [Items -> Sets \cup {NoSet}]
    /\ edits \in [Items -> Counter]
    /\ dry \in [Items -> Actions]
    /\ \A i \in Items : owner[i] = NoSet <=> dry[i] = "none"
    /\ run \in [Runs -> [at : {"unused", "level", "close", "cancel", "reopen", "done"},
                         set : Sets \cup {NoSet}, left : SUBSET Items, snap : Snapshot]]
    /\ op \in [Runs -> [Items -> OpStates]]
    /\ opAt \in [Runs -> [Items -> Counter]]
    /\ req \in [Clients -> [at : {"idle", "stage", "edit", "delete", "discard",
                                  "gate", "mark", "start"},
                            set : Sets \cup {NoSet}, item : Items \cup {NoItem},
                            snap : Snapshot]]

---------------------------------------------------------------------------
(* Handlers.  assertDraft looks at the row the handler read; what follows  *)
(* is a write of its own.                                                  *)

runVars == <<run, op, opAt>>

\* create, getOrCreateActive: the unique index refuses a second draft.
create(c, s) ==
    /\ req[c].at = "idle" /\ cs[s] = "absent" /\ DraftFree(s)
    /\ cs' = [cs EXCEPT ![s] = "draft"]
    /\ UNCHANGED <<owner, edits, dry, runVars, req>>

\* Mutated form: no assertDraft.
Begin_AnyStatus(c, at, s, i) ==
    /\ req[c].at = "idle" /\ cs[s] # "absent"
    /\ req' = [req EXCEPT ![c] = [Idle EXCEPT !.at = at, !.set = s, !.item = i]]
    /\ UNCHANGED <<cs, owner, edits, dry, runVars>>

\* The read and the assertDraft of stageItem, updateItem, deleteItem, discard.
Begin(c, at, s, i) ==
    /\ req[c].at = "idle" /\ cs[s] = "draft"
    /\ req' = [req EXCEPT ![c] = [Idle EXCEPT !.at = at, !.set = s, !.item = i]]
    /\ UNCHANGED <<cs, owner, edits, dry, runVars>>

\* Item and pending dry-run row in one transaction.
stageItem(c) ==
    LET i == req[c].item IN
    /\ req[c].at = "stage"
    /\ IF edits[i] = 0   \* an id is inserted once
       THEN /\ owner' = [owner EXCEPT ![i] = req[c].set]
            /\ edits' = [edits EXCEPT ![i] = 1]
            /\ dry' = [dry EXCEPT ![i] = "pending"]
       ELSE UNCHANGED <<owner, edits, dry>>
    /\ req' = [req EXCEPT ![c] = Idle]
    /\ UNCHANGED <<cs, runVars>>

\* New content and a reset dry-run row; the row may be gone (NotFound).
updateItem(c) ==
    LET i == req[c].item IN
    /\ req[c].at = "edit"
    /\ IF owner[i] # NoSet /\ edits[i] < MaxEdits
       THEN /\ edits' = [edits EXCEPT ![i] = @ + 1]
            /\ dry' = [dry EXCEPT ![i] = "pending"]
       ELSE UNCHANGED <<edits, dry>>
    /\ req' = [req EXCEPT ![c] = Idle]
    /\ UNCHANGED <<cs, owner, runVars>>

\* The dry-run row goes with the item (cascade).
deleteItem(c) ==
    LET i == req[c].item IN
    /\ req[c].at = "delete"
    /\ owner' = [owner EXCEPT ![i] = NoSet]
    /\ dry' = [dry EXCEPT ![i] = "none"]
    /\ req' = [req EXCEPT ![c] = Idle]
    /\ UNCHANGED <<cs, edits, runVars>>

\* The update is by id alone.
discard(c) ==
    /\ req[c].at = "discard"
    /\ cs' = [cs EXCEPT ![req[c].set] = "discarded"]
    /\ req' = [req EXCEPT ![c] = Idle]
    /\ UNCHANGED <<owner, edits, dry, runVars>>

\* Bound: a handler that applies has a run id left.
RunLeft == Cardinality({c \in Clients : req[c].at \in {"gate", "mark", "start"}})
             < Cardinality({r \in Runs : run[r].at = "unused"})

\* apply, up to the structural validation and the plan.
ApplyRead(c, s) ==
    /\ req[c].at = "idle" /\ cs[s] = "draft" /\ Members(s) # {} /\ RunLeft
    /\ req' = [req EXCEPT ![c] = [Idle EXCEPT !.at = "gate", !.set = s,
                                              !.snap = ReadSet(s)]]
    /\ UNCHANGED <<cs, owner, edits, dry, runVars>>

\* The dry-run gate: missing, pending and deferred rows refuse, error does not.
ApplyGate(c) ==
    /\ req[c].at = "gate"
    /\ req' = [req EXCEPT ![c] =
                 IF \A i \in req[c].snap.items : dry[i] \notin {"none", "pending", "deferred"}
                 THEN [@ EXCEPT !.at = "mark"] ELSE Idle]
    /\ UNCHANGED <<cs, owner, edits, dry, runVars>>

\* The conditional update, and its notification; nobody looks at how many
\* rows the update changed.  The try begins after them: when the notification
\* throws, the status is not put back and no run is started.
ApplyMark(c) ==
    /\ req[c].at = "mark"
    /\ cs' = IF cs[req[c].set] = "draft"
             THEN [cs EXCEPT ![req[c].set] = "applying"] ELSE cs
    /\ \/ req' = [req EXCEPT ![c].at = "start"]
       \/ "apply" \in MayThrow /\ req' = [req EXCEPT ![c] = Idle]
    /\ UNCHANGED <<owner, edits, dry, runVars>>

ApplyStart(c, r) ==
    /\ req[c].at = "start" /\ run[r].at = "unused"
    /\ run' = [run EXCEPT ![r] = [at |-> "level", set |-> req[c].set,
                                  left |-> req[c].snap.items, snap |-> req[c].snap]]
    /\ req' = [req EXCEPT ![c] = Idle]
    /\ UNCHANGED <<cs, owner, edits, dry, op, opAt>>

\* Mutated form: the status is not put back.
ApplyStartFails_NoRevert(c) ==
    /\ req[c].at = "start"
    /\ req' = [req EXCEPT ![c] = Idle]
    /\ UNCHANGED <<cs, owner, edits, dry, runVars>>

\* The displays or start() throw: back to draft, if it is still applying.  The
\* unique index may refuse that too, and then the changeset stays applying.
ApplyStartFails(c) ==
    LET s == req[c].set IN
    /\ req[c].at = "start"
    /\ \/ cs' = IF cs[s] = "applying" /\ DraftFree(s) THEN [cs EXCEPT ![s] = "draft"] ELSE cs
       \/ "revert" \in MayThrow /\ UNCHANGED cs
    /\ req' = [req EXCEPT ![c] = Idle]
    /\ UNCHANGED <<owner, edits, dry, runVars>>

Crash(c) ==
    /\ HandlersMayCrash /\ req[c].at # "idle"
    /\ req' = [req EXCEPT ![c] = Idle]
    /\ UNCHANGED <<cs, owner, edits, dry, runVars>>

---------------------------------------------------------------------------
(* Dry runs, by what they do to the row: a workflow settles a pending row; *)
(* a refresh, or the settling of a dependency, resets one of a draft.      *)

DryRunSettles(i, action) ==
    /\ dry[i] = "pending"
    /\ dry' = [dry EXCEPT ![i] = action]
    /\ UNCHANGED <<cs, owner, edits, runVars, req>>

DryRunReset(i) ==
    /\ dry[i] \notin {"none", "pending"} /\ cs[owner[i]] = "draft"
    /\ dry' = [dry EXCEPT ![i] = "pending"]
    /\ UNCHANGED <<cs, owner, edits, runVars, req>>

---------------------------------------------------------------------------
(* applyChangeSetWorkflow.  A level starts when the one before has settled *)
(* (Promise.allSettled).                                                   *)

\* The items of the present level that the run does not skip.
InLevel(r, i) == run[r].at = "level" /\ i \in Level(run[r].left) \ run[r].snap.done

SetOp(r, i, s) == op' = [op EXCEPT ![r][i] = s]

OthersUnchanged == UNCHANGED <<cs, owner, edits, dry, req>>

\* applyXOperation inserts the operation.  It needs the item's row (foreign
\* key) and the lock of the target, which another run may hold.
StartItem(r, i) ==
    /\ InLevel(r, i) /\ op[r][i] = "none" /\ owner[i] # NoSet
    /\ \A r2 \in Runs : op[r2][i] \notin {"waiting", "open", "applying"}
    /\ SetOp(r, i, IF i \in Gated THEN "waiting" ELSE "open")
    /\ opAt' = [opAt EXCEPT ![r][i] = edits[i]]
    /\ UNCHANGED run /\ OthersUnchanged

\* It throws: a lock conflict, a taken slug, a target or an item that is gone.
StartItemFails(r, i) ==
    /\ InLevel(r, i) /\ op[r][i] = "none"
    /\ SetOp(r, i, "failed")
    /\ UNCHANGED <<run, opAt>> /\ OthersUnchanged

\* A forget whose target is gone settles without an operation.
ForgetGone(r, i) ==
    /\ InLevel(r, i) /\ op[r][i] = "none" /\ i \notin Cached
    /\ SetOp(r, i, "noop")
    /\ UNCHANGED <<run, opAt>> /\ OthersUnchanged

\* A user approves or cancels the operation that waits.
Decide(r, i, s) ==
    /\ op[r][i] = "waiting" /\ s \in {"open", "canceled"}
    /\ SetOp(r, i, s)
    /\ UNCHANGED <<run, opAt>> /\ OthersUnchanged

\* getCachedResourcePlan throws unless the dry-run row is settled and usable.
FetchPlan(r, i) ==
    /\ op[r][i] = "open"
    /\ SetOp(r, i, IF i \in Cached /\ dry[i] # "planned" /\ owner[i] # NoSet
                   THEN "failed" ELSE "applying")
    /\ UNCHANGED <<run, opAt>> /\ OthersUnchanged

EndItem(r, i, s) ==
    /\ op[r][i] = "applying" /\ s \in {"succeeded", "failed"}
    /\ SetOp(r, i, s)
    /\ UNCHANGED <<run, opAt>> /\ OthersUnchanged

Settled(r) == \A i \in Level(run[r].left) \ run[r].snap.done : op[r][i] \in OpEnds

\* Mutated form: a rejected item does not stop the run.
NextAt_GoesOn(r) ==
    LET ends == {op[r][i] : i \in Level(run[r].left) \ run[r].snap.done} IN
    IF "canceled" \in ends THEN "cancel"
    ELSE IF run[r].left = Level(run[r].left) THEN "close" ELSE "level"

NextAt(r) ==
    LET ends == {op[r][i] : i \in Level(run[r].left) \ run[r].snap.done} IN
    IF "failed" \in ends THEN "reopen"
    ELSE IF "canceled" \in ends THEN "cancel"
    ELSE IF run[r].left = Level(run[r].left) THEN "close" ELSE "level"

LevelDone(r) ==
    /\ run[r].at = "level" /\ Settled(r)
    /\ run' = [run EXCEPT ![r].at = NextAt(r),
                          ![r].left = IF NextAt(r) \in {"level", "close"}
                                      THEN @ \ Level(@) ELSE @]
    /\ UNCHANGED <<op, opAt>> /\ OthersUnchanged

\* After the write of one of its last steps the run is over, unless the step
\* throws for all that (its notification fails): then it is retried, and when
\* its retries end the run goes on where the throw takes it.
RunGoes(r, step, otherwise) ==
    \E next \in {"done"} \cup (IF step \in MayThrow THEN {run[r].at, otherwise} ELSE {}) :
        run' = [run EXCEPT ![r].at = next]

\* closeChangeSet and cancelChangeSet write by id, whatever the status is.
\* They are called inside the try: their throw is caught, and reopens.
Finish(r) ==
    /\ run[r].at \in {"close", "cancel"}
    /\ cs' = [cs EXCEPT ![run[r].set] = IF run[r].at = "close" THEN "applied" ELSE "canceled"]
    /\ RunGoes(r, "finish", "reopen")
    /\ UNCHANGED <<owner, edits, dry, op, opAt, req>>

\* No try of the step commits.
FinishFails(r) ==
    /\ "finish" \in MayThrow /\ run[r].at \in {"close", "cancel"}
    /\ run' = [run EXCEPT ![r].at = "reopen"]
    /\ UNCHANGED <<cs, owner, edits, dry, op, opAt, req>>

\* reopenChangeSet writes by id too, over applied or canceled as well; but the
\* unique index may refuse the draft: then the run ends and nothing was
\* written.
reopenChangeSet(r) ==
    /\ run[r].at = "reopen"
    /\ \/ cs' = IF DraftFree(run[r].set) THEN [cs EXCEPT ![run[r].set] = "draft"] ELSE cs
       \/ "reopen" \in MayThrow /\ UNCHANGED cs
    /\ RunGoes(r, "reopen", "done")
    /\ UNCHANGED <<owner, edits, dry, op, opAt, req>>

---------------------------------------------------------------------------
(* Specification *)

Init ==
    /\ cs = [s \in Sets |-> "absent"]
    /\ owner = [i \in Items |-> NoSet]
    /\ edits = [i \in Items |-> 0]
    /\ dry = [i \in Items |-> "none"]
    /\ run = [r \in Runs |-> Unused]
    /\ op = [r \in Runs |-> [i \in Items |-> "none"]]
    /\ opAt = [r \in Runs |-> [i \in Items |-> 0]]
    /\ req = [c \in Clients |-> Idle]

NewRequest(c) ==
    \E s \in Sets :
        \/ create(c, s)
        \/ ApplyRead(c, s)
        \/ Begin(c, "discard", s, NoItem)
        \/ \E i \in Items : edits[i] = 0 /\ Begin(c, "stage", s, i)
        \/ \E i \in Members(s), at \in {"edit", "delete"} : Begin(c, at, s, i)

HandlerStep(c) ==
    \/ stageItem(c)
    \/ updateItem(c)
    \/ deleteItem(c)
    \/ discard(c)
    \/ ApplyGate(c)
    \/ ApplyMark(c)
    \/ \E r \in Runs : ApplyStart(c, r)
    \/ ApplyStartFails(c)

ItemStep(r, i) ==
    \/ StartItem(r, i)
    \/ StartItemFails(r, i)
    \/ ForgetGone(r, i)
    \/ FetchPlan(r, i)
    \/ \E s \in {"succeeded", "failed"} : EndItem(r, i, s)

RunStep(r) ==
    \/ \E i \in Items : ItemStep(r, i)
    \/ LevelDone(r)
    \/ Finish(r)
    \/ FinishFails(r)
    \/ reopenChangeSet(r)

Next ==
    \/ \E c \in Clients : NewRequest(c) \/ HandlerStep(c) \/ Crash(c)
    \/ \E r \in Runs : RunStep(r)
    \/ \E r \in Runs, i \in Items, s \in {"open", "canceled"} : Decide(r, i, s)
    \/ \E i \in Items, a \in {"deferred", "error", "planned"} : DryRunSettles(i, a)
    \/ \E i \in Items : DryRunReset(i)

Spec == Init /\ [][Next]_vars

\* Handlers and runs go on; an operation at the provider ends.  Nobody has
\* to send a request or to decide.
Fairness ==
    /\ \A c \in Clients : WF_vars(HandlerStep(c))
    /\ \A r \in Runs : WF_vars(RunStep(r))

FairSpec == Spec /\ Fairness

---------------------------------------------------------------------------
(* Properties that hold of any number of clients, with crashes *)

\* An item is operated on only when every item of the snapshot it depends on
\* was settled with success by this run or an earlier one: no level starts
\* beside, or after the failure of, the level below it.
DependenciesApplied ==
    \A r \in Runs, i \in Items : op[r][i] # "none" =>
        \A j \in DependsOn[i] \cap run[r].snap.items :
            j \in run[r].snap.done \/ op[r][j] \in {"succeeded", "noop"}

\* A run that goes on to close has applied every item it took.
RunComplete ==
    \A r \in Runs : run[r].at = "close" =>
        \A i \in run[r].snap.items :
            i \in run[r].snap.done \/ op[r][i] \in {"succeeded", "noop"}

\* A handler names what its request named.
RequestsNamed ==
    \A c \in Clients :
        /\ req[c].at # "idle" => req[c].set \in Sets
        /\ req[c].at \in {"stage", "edit", "delete"} => req[c].item \in Items

\* What a run has taken off its plan was applied, and an operation's item
\* has nothing left to wait for.
RunsInOrder ==
    \A r \in Runs :
        /\ \A i \in run[r].snap.items \ run[r].left :
              i \in run[r].snap.done \/ op[r][i] \in {"succeeded", "noop"}
        /\ \A i \in Items : op[r][i] # "none" => DependsOn[i] \cap run[r].left = {}
        /\ run[r].at = "unused" => \A i \in Items : op[r][i] = "none"
        /\ run[r].at = "close" => run[r].left = {}

\* The inductive invariant of the proofs: a run keeps to the order of its
\* plan whatever handlers and other runs do meanwhile.
IInv == TypeOK /\ RequestsNamed /\ RunsInOrder

---------------------------------------------------------------------------
(* Properties that hold when one user's requests come one after another    *)
(* (one client), so that assertDraft is what it looks like, and when no    *)
(* reopen is written again after its commit (MayThrow without "reopen").   *)
(* ApplyEnds needs also that no handler dies and the revert does not throw. *)

\* An applied changeset has no item that was never applied, and none whose
\* present content is not what was applied.
AppliedIsComplete ==
    \A s \in Sets : cs[s] = "applied" => \A i \in Members(s) :
        \/ \E r \in Runs : run[r].set = s /\ op[r][i] = "noop" /\ run[r].snap.seen[i] = edits[i]
        \/ CurrentSuccess(i)

\* apply-state.test.ts: an item is already applied "only when it has a
\* succeeded operation that ran against its *current* content".
SuccessIsCurrent ==
    \A r \in Runs, i \in Items :
        op[r][i] = "succeeded" /\ opAt[r][i] = edits[i] => run[r].snap.seen[i] = edits[i]

\* workflows/steps.ts: "Items that already succeeded are skipped on the next
\* run": no operation is made for an item with a current success.
NoSecondApply ==
    [][\A r \in Runs, i \in Items :
          op[r][i] = "none" /\ op'[r][i] \in {"open", "waiting"} => ~CurrentSuccess(i)]_vars

\* A run of the changeset is under way.
Active(r) == run[r].at \in {"level", "close", "cancel", "reopen"}
Working == {run[r].set : r \in {x \in Runs : Active(x)}}

\* The changesets keep the lifecycle they promise: there is one draft, one run
\* at work on a changeset, and no end is undone but by the run that wrote it,
\* whose last step threw after its commit.
Lifecycle == INSTANCE ChangesetLifecycle WITH working <- Working
ImplementsLifecycle == Lifecycle!Spec

\* The apply got past the notification of its update: it is up to start() or
\* to its run.
HandedOver(s) == s \in Working \/ \E c \in Clients : req[c].at = "start" /\ req[c].set = s

\* An apply that got past its notification ends, or waits for a user, unless
\* another draft of the project was made meanwhile, which the index does not
\* let this one join again (apply, applyChangeSetWorkflow, reopenChangeSet;
\* no crash).  One that did not has no run and stays applying.
ApplyEnds ==
    \A s \in Sets : cs[s] = "applying" /\ HandedOver(s) ~>
        \/ cs[s] # "applying"
        \/ \E r \in Runs, i \in Items : op[r][i] = "waiting"
        \/ \E t \in Sets \ {s} : cs[t] # "absent"

============================================================================
