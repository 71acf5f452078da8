---------------------------- MODULE Operations ----------------------------
(***************************************************************************)
(* The durable operation of the Opsy control plane: the operation row, the *)
(* resource row it owns, the workflow run that drives it and the HTTP      *)
(* handlers that create, approve, cancel and retry it.                     *)
(*                                                                         *)
(*   apps/api/src/operations/operations.ts   rows, lock and transitions    *)
(*   apps/api/src/operations/approval.ts     the approval gate             *)
(*   apps/api/src/resources/resources.ts     the services (handlers)       *)
(*   apps/api/src/resources/workflows/*.ts   the workflow bodies and steps *)
(*                                                                         *)
(* One action is one database transaction, one durable step or one handler *)
(* continuation: what the code does between two awaits.  The provider      *)
(* (cloud) is outside: a call to it is in flight between two actions and   *)
(* ends with any outcome.                                                  *)
(***************************************************************************)
EXTENDS Naturals, FiniteSets

CONSTANTS
    Ops,              \* ids of operation rows
    Rows,             \* ids of resource rows
    Clients,          \* HTTP handlers that may be in progress at one time
    SlugOf,           \* the slug each resource row is inserted with
    NoOp, NoRow, NoSlug,
    RequiresApproval, \* kinds the project's approval policy gates
    Requests,         \* kinds of HTTP request the clients send
    CancelAt,         \* statuses a client is shown when it presses cancel
    HandlersMayCrash  \* may the API process die inside a handler?

VARIABLES
    status,     \* operations.status ("absent" before the insert)
    kind,       \* operations.kind; a "delete" with mode "forget" is "forget"
    target,     \* operations.resource_id
    attached,   \* operations.workflow_run_id is set
    approvedBy, \* operations.approval.approvedByType is set
    hook,       \* payload the approval hook was first resumed with
    wf,         \* program counter of the workflow run of the operation
    memo,       \* what the workflow body holds in a local variable
    resStatus,  \* resources.status ("absent" before the insert)
    deleted,    \* resources.deleted_at is set
    req         \* the HTTP handlers in progress

opVars  == <<status, kind, target, attached, approvedBy>>
rowVars == <<resStatus, deleted>>
runVars == <<hook, wf, memo>>
vars == <<opVars, rowVars, runVars, req>>

---------------------------------------------------------------------------
(* Vocabulary *)

Slugs == {SlugOf[r] : r \in Rows}

StubKinds     == {"create", "import"}            \* insert their own row
MutationKinds == {"create", "update", "delete"}  \* call the provider's Apply
LockingKinds  == {"create", "import", "update", "delete", "forget"}
Kinds         == LockingKinds \cup {"read", "lookup"}
RequestKinds  == Kinds \cup {"approve", "cancel", "retry"}

OpenStatuses   == {"pending", "running", "awaiting_approval", "canceling"}
ClosedStatuses == {"succeeded", "failed", "canceled"}
Statuses       == {"absent"} \cup OpenStatuses \cup ClosedStatuses

RowStatuses == {"absent", "creating", "importing", "live", "updating",
                "deleting", "missing"}
RunStates == {"none", "load", "gate", "waiting", "granted", "mutating",
              "begin", "applying", "draining", "complete", "catch", "done",
              "killed"}
HandlerStates == {"idle", "insertStub", "insert", "insertRetry", "start",
                  "attach", "approve", "cancel", "resume", "killRun"}

Idle == [at |-> "idle", kind |-> "none", slug |-> NoSlug, row |-> NoRow,
         op |-> NoOp, seen |-> "absent", run |-> FALSE, approved |-> FALSE]

Handler == [at : HandlerStates, kind : RequestKinds \cup {"none"},
            slug : Slugs \cup {NoSlug}, row : Rows \cup {NoRow},
            op : Ops \cup {NoOp}, seen : Statuses, run : BOOLEAN,
            approved : BOOLEAN]

ASSUME ConstantsAssumption ==
    /\ NoOp \notin Ops /\ NoRow \notin Rows /\ NoSlug \notin Slugs
    /\ RequiresApproval \subseteq Kinds
    /\ Requests \subseteq RequestKinds
    /\ CancelAt \subseteq OpenStatuses
    /\ HandlersMayCrash \in BOOLEAN

\* The conversion table of the policies: a forget is a delete to them.
GatedByPolicy(k) ==
    IF k = "forget" THEN "delete" \in RequiresApproval
                    ELSE k \in RequiresApproval \cap LockingKinds

Open(o)   == status[o] \in OpenStatuses
Closed(o) == status[o] \in ClosedStatuses
Live(r)   == resStatus[r] # "absent" /\ ~deleted[r]

\* The lock key `resource:<id>`; reads and lookups have none.
Holds(o, r) == Open(o) /\ kind[o] \in LockingKinds /\ target[o] = r

\* A mutation is at the provider; the run may have been canceled meanwhile.
Applying(o) == kind[o] \in MutationKinds /\ wf[o] \in {"applying", "draining"}

\* The body went on after waitForOperationApproval.
PastGate(o) == wf[o] \in {"granted", "mutating", "applying", "draining", "complete"}

TypeOK ==
    /\ status \in [Ops -> Statuses]
    /\ kind \in [Ops -> Kinds \cup {"none"}]
    /\ target \in [Ops -> Rows \cup {NoRow}]
    /\ \A o \in Ops : /\ status[o] = "absent" <=> kind[o] = "none"
                      /\ target[o] = NoRow <=> kind[o] \in {"none", "lookup"}
    /\ attached \in [Ops -> BOOLEAN]
    /\ approvedBy \in [Ops -> BOOLEAN]
    /\ hook \in [Ops -> {"none", "approved", "canceled"}]
    /\ wf \in [Ops -> RunStates]
    /\ memo \in [Ops -> (RowStatuses \ {"absent"}) \cup {"none"}]
    /\ resStatus \in [Rows -> RowStatuses]
    /\ deleted \in [Rows -> BOOLEAN]
    /\ req \in [Clients -> Handler]

---------------------------------------------------------------------------
(* Database writers: one transaction each.  `next` is where the workflow   *)
(* body continues, "catch" where it lands when the writer throws.          *)

\* resources_project_slug_unique: among the rows that are not tombstoned.
SlugFree(s) == \A r \in Rows : Live(r) => SlugOf[r] # s

\* Mutated form: the index predicate leaves `canceling` out.
LockFree_Canceling(r) == \A o \in Ops : ~(Holds(o, r) /\ status[o] # "canceling")

\* operations_open_lock_unique: among the open operations.
LockFree(r) == \A o \in Ops : ~Holds(o, r)

\* applyResourcePatch: a status, the tombstone, or nothing.  It writes the
\* row whatever state the row is in.
ApplyPatch(o, patch) ==
    /\ resStatus' = IF patch \in RowStatuses
                    THEN [resStatus EXCEPT ![target[o]] = patch] ELSE resStatus
    /\ deleted' = IF patch = "tombstone"
                  THEN [deleted EXCEPT ![target[o]] = TRUE] ELSE deleted

SetStatus(o, s) ==
    /\ status' = [status EXCEPT ![o] = s]
    /\ UNCHANGED <<kind, target, attached, approvedBy>>

Goto(o, next) == wf' = [wf EXCEPT ![o] = next]

\* Mutated form: a canceled operation may be marked running again.
RunnableFrom_Canceled == {"pending", "awaiting_approval", "canceled"}

RunnableFrom   == {"pending", "awaiting_approval"}
CancelableFrom == OpenStatuses

\* The patch rides on the transition: a run that is already `running` gets
\* its operation back and the patch is not applied.
markOperationRunning(o, patch, next) ==
    \/ /\ status[o] \in RunnableFrom
       /\ SetStatus(o, "running") /\ ApplyPatch(o, patch) /\ Goto(o, next)
    \/ /\ status[o] = "running"
       /\ Goto(o, next) /\ UNCHANGED <<opVars, rowVars>>
    \/ /\ status[o] \notin RunnableFrom \cup {"running"}
       /\ Goto(o, "catch") /\ UNCHANGED <<opVars, rowVars>>

\* Mutated form: the body does not await the hook.
markOperationAwaitingApproval_NoAwait(o) ==
    \/ /\ status[o] = "pending"
       /\ SetStatus(o, "awaiting_approval") /\ Goto(o, "granted")
    \/ /\ status[o] # "pending"
       /\ Goto(o, "catch") /\ UNCHANGED opVars

markOperationAwaitingApproval(o) ==
    \/ /\ status[o] = "pending"
       /\ SetStatus(o, "awaiting_approval") /\ Goto(o, "waiting")
    \/ /\ status[o] # "pending"
       /\ Goto(o, "catch") /\ UNCHANGED opVars

\* The two writers that close an operation have no guard on its status.
markOperationSucceeded(o, patch) == SetStatus(o, "succeeded") /\ ApplyPatch(o, patch)
markOperationFailed(o, patch)    == SetStatus(o, "failed") /\ ApplyPatch(o, patch)

\* Mutated form: only the stub of an import is tombstoned.
StubPatch_ImportOnly(o) == IF kind[o] = "import" THEN "tombstone" ELSE "none"

\* cancelStubResourcePatch, cancelAwaitingOperation, tombstoneFailedResourceStub
StubPatch(o) == IF kind[o] \in StubKinds THEN "tombstone" ELSE "none"

\* failUpdateResourceOperation puts back the status the body read first.
FailurePatch(o) ==
    IF kind[o] \in {"update", "delete"} THEN memo[o] ELSE StubPatch(o)

SuccessPatch(o) ==
    CASE kind[o] \in {"create", "import", "update"} -> "live"
      [] kind[o] \in {"delete", "forget"}           -> "tombstone"
      [] kind[o] = "read"                           -> memo[o]
      [] OTHER                                      -> "none"

---------------------------------------------------------------------------
(* HTTP handlers.  A handler reads, then acts on what it read: another     *)
(* process may act in between.                                             *)

\* createResource / importResource: getResourceBySlug finds nothing.
RequestStub(c, k, s) ==
    /\ req[c].at = "idle" /\ k \in StubKinds \cap Requests /\ SlugFree(s)
    /\ req' = [req EXCEPT ![c] = [Idle EXCEPT !.at = "insertStub", !.kind = k,
                                              !.slug = s]]
    /\ UNCHANGED <<opVars, rowVars, runVars>>

\* createResourceWithOperation: stub row and operation in one transaction.
InsertStub(c, o, r) ==
    /\ req[c].at = "insertStub" /\ SlugFree(req[c].slug)
    /\ status[o] = "absent" /\ resStatus[r] = "absent" /\ SlugOf[r] = req[c].slug
    /\ resStatus' = [resStatus EXCEPT ![r] = IF req[c].kind = "create"
                                             THEN "creating" ELSE "importing"]
    /\ status' = [status EXCEPT ![o] = "pending"]
    /\ kind' = [kind EXCEPT ![o] = req[c].kind]
    /\ target' = [target EXCEPT ![o] = r]
    /\ req' = [req EXCEPT ![c] = [Idle EXCEPT !.at = "start", !.op = o]]
    /\ UNCHANGED <<attached, approvedBy, deleted, runVars>>

\* update, delete, forget, read: getResourceBySlug finds a row.
RequestOnRow(c, k, r) ==
    /\ req[c].at = "idle" /\ k \in Requests \ StubKinds
    /\ k \in LockingKinds \cup {"read"} /\ Live(r)
    /\ req' = [req EXCEPT ![c] = [Idle EXCEPT !.at = "insert", !.kind = k,
                                              !.row = r]]
    /\ UNCHANGED <<opVars, rowVars, runVars>>

RequestLookup(c) ==
    /\ req[c].at = "idle" /\ "lookup" \in Requests
    /\ req' = [req EXCEPT ![c] = [Idle EXCEPT !.at = "insert", !.kind = "lookup"]]
    /\ UNCHANGED <<opVars, rowVars, runVars>>

\* retryOperation copies kind, resource and lock key of the operation read
\* by getOperation, whatever its status.
RequestRetry(c, o) ==
    /\ req[c].at = "idle" /\ "retry" \in Requests /\ status[o] # "absent"
    /\ req' = [req EXCEPT ![c] = [Idle EXCEPT !.at = "insertRetry",
                                              !.kind = kind[o], !.row = target[o]]]
    /\ UNCHANGED <<opVars, rowVars, runVars>>

\* createOperation.  A service goes on to start the workflow; a retry returns.
createOperation(c, o) ==
    /\ req[c].at \in {"insert", "insertRetry"} /\ status[o] = "absent"
    /\ req[c].kind \in LockingKinds => LockFree(req[c].row)
    /\ status' = [status EXCEPT ![o] = "pending"]
    /\ kind' = [kind EXCEPT ![o] = req[c].kind]
    /\ target' = [target EXCEPT ![o] = req[c].row]
    /\ req' = [req EXCEPT ![c] = IF @.at = "insert"
                                 THEN [Idle EXCEPT !.at = "start", !.op = o]
                                 ELSE Idle]
    /\ UNCHANGED <<attached, approvedBy, rowVars, runVars>>

\* The unique index refuses the insert: the client gets a Conflict.
Conflict(c) ==
    /\ \/ req[c].at = "insertStub" /\ ~SlugFree(req[c].slug)
       \/ /\ req[c].at \in {"insert", "insertRetry"}
          /\ req[c].kind \in LockingKinds /\ ~LockFree(req[c].row)
    /\ req' = [req EXCEPT ![c] = Idle]
    /\ UNCHANGED <<opVars, rowVars, runVars>>

\* start(workflow, [operation])
StartRun(c) ==
    /\ req[c].at = "start"
    /\ Goto(req[c].op, IF kind[req[c].op] \in {"read", "lookup"}
                       THEN "begin" ELSE "load")
    /\ req' = [req EXCEPT ![c].at = "attach"]
    /\ UNCHANGED <<opVars, rowVars, hook, memo>>

attachOperationWorkflowRun(c) ==
    /\ req[c].at = "attach"
    /\ attached' = [attached EXCEPT ![req[c].op] = TRUE]
    /\ req' = [req EXCEPT ![c] = Idle]
    /\ UNCHANGED <<status, kind, target, approvedBy, rowVars, runVars>>

RequestApprove(c, o) ==
    /\ req[c].at = "idle" /\ "approve" \in Requests
    /\ status[o] = "awaiting_approval"
    /\ req' = [req EXCEPT ![c] = [Idle EXCEPT !.at = "approve", !.op = o]]
    /\ UNCHANGED <<opVars, rowVars, runVars>>

\* Mutated form: the approval is recorded and the hook is not resumed.
approveOperation_NoResume(c) ==
    /\ req[c].at = "approve"
    /\ \/ /\ status[req[c].op] = "awaiting_approval"
          /\ approvedBy' = [approvedBy EXCEPT ![req[c].op] = TRUE]
       \/ status[req[c].op] # "awaiting_approval" /\ UNCHANGED approvedBy
    /\ req' = [req EXCEPT ![c] = Idle]
    /\ UNCHANGED <<status, kind, target, attached, rowVars, runVars>>

approveOperation(c) ==
    LET o == req[c].op IN
    /\ req[c].at = "approve"
    /\ \/ /\ status[o] = "awaiting_approval"
          /\ approvedBy' = [approvedBy EXCEPT ![o] = TRUE]
          /\ req' = [req EXCEPT ![c] = [Idle EXCEPT !.at = "resume", !.op = o,
                                                    !.kind = "approve"]]
       \/ /\ status[o] # "awaiting_approval"
          /\ req' = [req EXCEPT ![c] = Idle]
          /\ UNCHANGED approvedBy
    /\ UNCHANGED <<status, kind, target, attached, rowVars, runVars>>

\* getOperation of the cancel route: the handler decides on this snapshot and
\* keeps of it what its branch uses (workflow_run_id if it is pending,
\* approval if it is awaiting).
RequestCancel(c, o) ==
    /\ req[c].at = "idle" /\ "cancel" \in Requests /\ status[o] \in CancelAt
    /\ req' = [req EXCEPT ![c] =
          [Idle EXCEPT !.at = "cancel", !.op = o, !.seen = status[o],
                       !.run = status[o] = "pending" /\ attached[o],
                       !.approved = status[o] = "awaiting_approval" /\ approvedBy[o]]]
    /\ UNCHANGED <<opVars, rowVars, runVars>>

\* Writes the whole approval column from the snapshot: an approval recorded
\* since then is erased, by the same update that closes the operation.
cancelAwaiting(c) ==
    LET o == req[c].op IN
    /\ req[c].at = "cancel" /\ req[c].seen = "awaiting_approval"
    /\ \/ /\ status[o] = "awaiting_approval"
          /\ status' = [status EXCEPT ![o] = "canceled"]
          /\ approvedBy' = [approvedBy EXCEPT ![o] = req[c].approved]
          /\ UNCHANGED <<kind, target, attached>>
          /\ ApplyPatch(o, StubPatch(o))
          /\ req' = [req EXCEPT ![c] = [Idle EXCEPT !.at = "resume", !.op = o,
                                                    !.kind = "cancel"]]
       \/ /\ status[o] # "awaiting_approval"
          /\ req' = [req EXCEPT ![c] = Idle]
          /\ UNCHANGED <<opVars, rowVars>>
    /\ UNCHANGED runVars

\* markOperationCanceled on the snapshot "pending": its own guard admits
\* every open status.
cancelPending(c) ==
    LET o == req[c].op
        next == IF req[c].run THEN [Idle EXCEPT !.at = "killRun", !.op = o] ELSE Idle
    IN
    /\ req[c].at = "cancel" /\ req[c].seen = "pending"
    /\ \/ /\ status[o] \in CancelableFrom
          /\ SetStatus(o, "canceled") /\ ApplyPatch(o, StubPatch(o))
          /\ req' = [req EXCEPT ![c] = next]
       \/ /\ status[o] \notin CancelableFrom
          /\ req' = [req EXCEPT ![c] = IF status[o] = "canceled" THEN next ELSE Idle]
          /\ UNCHANGED <<opVars, rowVars>>
    /\ UNCHANGED runVars

markOperationCanceling(c) ==
    LET o == req[c].op IN
    /\ req[c].at = "cancel" /\ req[c].seen \in {"running", "canceling"}
    /\ \/ req[c].seen = "running" /\ status[o] = "running" /\ SetStatus(o, "canceling")
       \/ (req[c].seen = "canceling" \/ status[o] # "running") /\ UNCHANGED opVars
    /\ req' = [req EXCEPT ![c] = Idle]
    /\ UNCHANGED <<rowVars, runVars>>

\* operationApprovalHook.resume: the first payload is the one awaited.
ResumeHook(c) ==
    LET o == req[c].op IN
    /\ req[c].at = "resume"
    /\ hook' = [hook EXCEPT ![o] = IF @ # "none" THEN @
                ELSE IF req[c].kind = "approve" THEN "approved" ELSE "canceled"]
    /\ req' = [req EXCEPT ![c] = Idle]
    /\ UNCHANGED <<opVars, rowVars, wf, memo>>

\* getRun(id).cancel(): the body stops, a provider call in flight does not.
KillRun(c) ==
    LET o == req[c].op IN
    /\ req[c].at = "killRun"
    /\ Goto(o, CASE wf[o] = "applying" -> "draining"
                 [] wf[o] \in {"done", "draining"} -> wf[o]
                 [] OTHER -> "killed")
    /\ req' = [req EXCEPT ![c] = Idle]
    /\ UNCHANGED <<opVars, rowVars, hook, memo>>

\* The API process dies between two awaits of a handler.
Crash(c) ==
    /\ HandlersMayCrash /\ req[c].at # "idle"
    /\ req' = [req EXCEPT ![c] = Idle]
    /\ UNCHANGED <<opVars, rowVars, runVars>>

---------------------------------------------------------------------------
(* Workflow bodies.  Every step is durable: it is retried, and the body    *)
(* goes on after a crash of the process, so only the order matters.        *)

\* getResourceById: update and delete keep resource.status as priorStatus, a
\* read keeps the row it will compare the cloud state with.
LoadResource(o) ==
    /\ wf[o] = "load"
    /\ memo' = [memo EXCEPT ![o] = IF kind[o] \in {"update", "delete", "read"}
                                   THEN resStatus[target[o]] ELSE @]
    /\ Goto(o, IF kind[o] = "read" THEN "applying" ELSE "gate")
    /\ UNCHANGED <<opVars, rowVars, hook, req>>

\* waitForOperationApproval, up to the await of the hook.
Gate(o) ==
    /\ wf[o] = "gate"
    /\ IF GatedByPolicy(kind[o])
       THEN markOperationAwaitingApproval(o) /\ UNCHANGED rowVars
       ELSE markOperationRunning(o, "none", "granted")
    /\ UNCHANGED <<hook, memo, req>>

\* The hook was resumed: runApprovedOperation, or cancelAwaitingOperation,
\* whose writer accepts an open or an already canceled operation.
HookApproved(o) ==
    /\ wf[o] = "waiting" /\ hook[o] = "approved"
    /\ markOperationRunning(o, "none", "granted")
    /\ UNCHANGED <<hook, memo, req>>

cancelAwaitingOperation(o) ==
    /\ wf[o] = "waiting" /\ hook[o] = "canceled"
    /\ \/ /\ status[o] \in CancelableFrom
          /\ SetStatus(o, "canceled") /\ ApplyPatch(o, StubPatch(o)) /\ Goto(o, "done")
       \/ /\ status[o] \notin CancelableFrom
          /\ Goto(o, IF status[o] = "canceled" THEN "done" ELSE "catch")
          /\ UNCHANGED <<opVars, rowVars>>
    /\ UNCHANGED <<hook, memo, req>>

\* startUpdateResourceOperation, startDeleteResourceOperation
StartMutation(o) ==
    /\ wf[o] = "granted" /\ kind[o] \in {"update", "delete"}
    /\ markOperationRunning(o, IF kind[o] = "update" THEN "updating" ELSE "deleting",
                            "mutating")
    /\ UNCHANGED <<hook, memo, req>>

\* Inputs, integration, references and plan are in hand: dispatch Apply
\* (Import for an import).
Dispatch(o) ==
    /\ \/ wf[o] = "granted" /\ kind[o] \in StubKinds
       \/ wf[o] = "mutating"
    /\ Goto(o, "applying")
    /\ UNCHANGED <<opVars, rowVars, hook, memo, req>>

\* One of the steps on the way to the provider throws.
PrepareFails(o) ==
    /\ \/ wf[o] = "granted" /\ kind[o] \in StubKinds
       \/ wf[o] = "mutating"
    /\ Goto(o, "catch")
    /\ UNCHANGED <<opVars, rowVars, hook, memo, req>>

\* A create without a type has no provider; a forget never calls it.
SkipProvider(o) ==
    /\ wf[o] = "granted" /\ kind[o] \in {"create", "forget"}
    /\ Goto(o, "complete")
    /\ UNCHANGED <<opVars, rowVars, hook, memo, req>>

\* startResourceOperation of a read or a lookup.
BeginObservation(o) ==
    /\ wf[o] = "begin"
    /\ markOperationRunning(o, "none", IF kind[o] = "read" THEN "load" ELSE "applying")
    /\ UNCHANGED <<hook, memo, req>>

\* The provider answers (applyResource, importResource, ReadData).
ProviderSucceeds(o) ==
    /\ wf[o] = "applying" /\ kind[o] # "read"
    /\ Goto(o, "complete")
    /\ UNCHANGED <<opVars, rowVars, hook, memo, req>>

\* A row that never had an identity cannot be read: that throws.
ReadSucceeds(o, patch) ==
    /\ wf[o] = "applying" /\ kind[o] = "read"
    /\ memo[o] \notin {"creating", "importing"}
    /\ patch \in {"live", "missing", "none"}
    /\ patch = "missing" => memo[o] # "missing"
    /\ patch = "none" => memo[o] \in {"live", "missing"}
    /\ memo' = [memo EXCEPT ![o] = patch]
    /\ Goto(o, "complete")
    /\ UNCHANGED <<opVars, rowVars, hook, req>>

\* applyResource and importResource have maxRetries 0: an error, or a crash
\* of the process during the call, throws into the body.
ProviderFails(o) ==
    /\ wf[o] = "applying"
    /\ Goto(o, "catch")
    /\ UNCHANGED <<opVars, rowVars, hook, memo, req>>

\* The answer to a canceled run: nobody awaits it.
Drain(o) ==
    /\ wf[o] = "draining"
    /\ Goto(o, "killed")
    /\ UNCHANGED <<opVars, rowVars, hook, memo, req>>

\* complete*ResourceOperation, deleteResourceComplete.  completeResourceOperation
\* throws after the commit when the operation has no resource.
Complete(o) ==
    /\ wf[o] = "complete"
    /\ markOperationSucceeded(o, SuccessPatch(o))
    /\ Goto(o, IF target[o] = NoRow THEN "catch" ELSE "done")
    /\ UNCHANGED <<hook, memo, req>>

\* Mutated form: the catch clause rethrows without closing the operation.
Fail_Rethrow(o) ==
    /\ wf[o] = "catch"
    /\ Goto(o, "done")
    /\ UNCHANGED <<opVars, rowVars, hook, memo, req>>

\* The catch clause of every body.
Fail(o) ==
    /\ wf[o] = "catch"
    /\ markOperationFailed(o, FailurePatch(o))
    /\ Goto(o, "done")
    /\ UNCHANGED <<hook, memo, req>>

---------------------------------------------------------------------------
(* Specification *)

\* Rows of earlier, closed operations may exist, at most one per slug.
Init ==
    /\ status = [o \in Ops |-> "absent"]
    /\ kind = [o \in Ops |-> "none"]
    /\ target = [o \in Ops |-> NoRow]
    /\ attached = [o \in Ops |-> FALSE]
    /\ approvedBy = [o \in Ops |-> FALSE]
    /\ hook = [o \in Ops |-> "none"]
    /\ wf = [o \in Ops |-> "none"]
    /\ memo = [o \in Ops |-> "none"]
    /\ resStatus \in [Rows -> {"absent", "live", "missing"}]
    /\ \A r1, r2 \in Rows :
          SlugOf[r1] = SlugOf[r2] /\ r1 # r2 => "absent" \in {resStatus[r1], resStatus[r2]}
    /\ deleted = [r \in Rows |-> FALSE]
    /\ req = [c \in Clients |-> Idle]

NewRequest(c) ==
    \/ \E k \in StubKinds, s \in Slugs : RequestStub(c, k, s)
    \/ \E k \in Kinds, r \in Rows : RequestOnRow(c, k, r)
    \/ RequestLookup(c)
    \/ \E o \in Ops : RequestRetry(c, o) \/ RequestApprove(c, o) \/ RequestCancel(c, o)

HandlerStep(c) ==
    \/ \E o \in Ops, r \in Rows : InsertStub(c, o, r)
    \/ \E o \in Ops : createOperation(c, o)
    \/ Conflict(c)
    \/ StartRun(c)
    \/ attachOperationWorkflowRun(c)
    \/ approveOperation(c)
    \/ cancelAwaiting(c)
    \/ cancelPending(c)
    \/ markOperationCanceling(c)
    \/ ResumeHook(c)
    \/ KillRun(c)

RunStep(o) ==
    \/ LoadResource(o)
    \/ Gate(o)
    \/ HookApproved(o)
    \/ cancelAwaitingOperation(o)
    \/ StartMutation(o)
    \/ Dispatch(o)
    \/ PrepareFails(o)
    \/ SkipProvider(o)
    \/ BeginObservation(o)
    \/ ProviderSucceeds(o)
    \/ \E p \in {"live", "missing", "none"} : ReadSucceeds(o, p)
    \/ ProviderFails(o)
    \/ Drain(o)
    \/ Complete(o)
    \/ Fail(o)

Next ==
    \/ \E c \in Clients : NewRequest(c) \/ HandlerStep(c) \/ Crash(c)
    \/ \E o \in Ops : RunStep(o)

Spec == Init /\ [][Next]_vars

\* The event loop runs every handler on, the workflow engine every run, and
\* a provider call ends (it has a timeout).  Nobody has to send a request.
Fairness ==
    /\ \A c \in Clients : WF_vars(HandlerStep(c))
    /\ \A o \in Ops : WF_vars(RunStep(o))

FairSpec == Spec /\ Fairness

---------------------------------------------------------------------------
(* Safety *)

\* At most one open operation holds the lock of a resource, whoever creates,
\* approves, cancels, retries or crashes (operations_open_lock_unique and
\* the guards of the mark* writers together).
LockExclusive ==
    \A r \in Rows, o1, o2 \in Ops : Holds(o1, r) /\ Holds(o2, r) => o1 = o2

\* A stub (a live row in `creating` or `importing`) always has the open
\* create or import that will settle it: no crash, cancel or failure strands
\* a row that keeps its slug taken.
StubOwned ==
    \A r \in Rows : Live(r) /\ resStatus[r] \in {"creating", "importing"} =>
        \E o \in Ops : Holds(o, r) /\ kind[o] \in StubKinds

\* No gated operation is past its gate unless a user's approval of it is on
\* record (the approval is written before the hook is resumed, and the
\* first payload of the hook decides).  A cancel that read the row before
\* the approval erases it while the hook says "approved": the row it closes
\* must then stop the run at the gate (the guard of markOperationRunning).
ApprovalRespected ==
    \A o \in Ops : GatedByPolicy(kind[o]) /\ PastGate(o) => approvedBy[o]

\* An operation that closed is not open again: nobody can hold a lock that
\* was given away.
ClosedStaysClosed == [][\A o \in Ops : Closed(o) => Closed(o)']_vars

(* The inductive strengthening *)

\* What a handler carries over an await.
HandlerOK ==
    \A c \in Clients : LET q == req[c] IN
        /\ q.at = "insertStub" => q.kind \in StubKinds
        /\ q.at = "insert" => q.kind \in Kinds \ StubKinds
        /\ q.at = "insertRetry" => q.kind \in Kinds
        /\ q.at \in {"insert", "insertRetry"} =>
              IF q.kind = "lookup" THEN q.row = NoRow
              ELSE q.row \in Rows /\ resStatus[q.row] # "absent"
        /\ q.at \in {"start", "attach", "approve", "cancel", "resume", "killRun"} =>
              q.op \in Ops /\ status[q.op] # "absent"
        /\ q.at = "resume" /\ q.kind = "approve" => approvedBy[q.op] \/ Closed(q.op)
        /\ q.at = "cancel" => q.seen \in CancelAt

\* Foreign keys, and the run of an operation that does not exist.
ReferencesOK ==
    /\ \A o \in Ops : target[o] \in Rows => resStatus[target[o]] # "absent"
    /\ \A o \in Ops : status[o] = "absent" => wf[o] = "none" /\ memo[o] = "none"

\* Where the body of each kind can be, and what a finished read holds.
ControlOK ==
    \A o \in Ops :
        /\ wf[o] = "begin" => kind[o] \in {"read", "lookup"}
        /\ wf[o] = "load" => kind[o] # "lookup"
        /\ wf[o] = "complete" /\ kind[o] = "read" => memo[o] \in {"live", "missing", "none"}

\* Update and delete are never opened on a stub that is still live, so the
\* status they put back on failure cannot turn a row into a stub.
StubsNotUpdated ==
    \A o \in Ops : kind[o] \in {"update", "delete", "forget"} =>
        \/ deleted[target[o]]
        \/ /\ resStatus[target[o]] \notin {"creating", "importing"}
           /\ memo[o] \notin {"creating", "importing"}

\* The approval the hook was resumed with is on record, or was erased by the
\* cancel that closed the operation.
HookRecorded == \A o \in Ops : hook[o] = "approved" => approvedBy[o] \/ Closed(o)

\* Past its gate an operation is not awaiting approval: no cancel of an
\* awaiting operation can erase its approval any more.
GateLeft ==
    \A o \in Ops : GatedByPolicy(kind[o]) /\ PastGate(o) =>
        status[o] \notin {"absent", "pending", "awaiting_approval"}

IInv == /\ TypeOK /\ HandlerOK /\ ReferencesOK /\ ControlOK
        /\ StubsNotUpdated /\ HookRecorded /\ GateLeft
        /\ LockExclusive /\ StubOwned /\ ApprovalRespected

\* The lock of a resource is held by its open operation, which is at the
\* provider while its body is past the gate and has no answer yet.
HeldBy == [r \in Rows |-> IF \E o \in Ops : Holds(o, r)
                          THEN CHOOSE o \in Ops : Holds(o, r) ELSE NoOp]
AtProvider == {o \in Ops : Applying(o)}

\* The operations implement a plain lock per resource: acquired at the
\* insert, held by an operation that is at the provider, and not released
\* before.  Needs that no client cancels on a snapshot `pending` (CancelAt):
\* markOperationCanceled closes a running operation.
Lock == INSTANCE ResourceLock WITH owner <- HeldBy, busy <- AtProvider
ImplementsLock == Lock!Spec

(* Liveness, under FairSpec, when no handler crashes *)

\* Every open operation closes, or waits for a user's decision.
OpenOperationsClose ==
    \A o \in Ops : Open(o) ~> (Closed(o) \/ status[o] = "awaiting_approval")

\* An approval is not lost: the approved operation closes.
ApprovedOperationsClose == \A o \in Ops : approvedBy[o] ~> Closed(o)

============================================================================
