------------------------- MODULE OperationsProofs -------------------------
(* Proofs about Operations, for every set of operations, rows and clients. *)
EXTENDS Operations, TLAPS

USE DEF vars, opVars, rowVars, runVars

(* The four parts of the type invariant, and what each writer does to them *)

OpsTyped ==
    /\ status \in [Ops -> Statuses]
    /\ kind \in [Ops -> Kinds \cup {"none"}]
    /\ target \in [Ops -> Rows \cup {NoRow}]
    /\ \A o \in Ops : /\ status[o] = "absent" <=> kind[o] = "none"
                      /\ target[o] = NoRow <=> kind[o] \in {"none", "lookup"}
    /\ attached \in [Ops -> BOOLEAN]
    /\ approvedBy \in [Ops -> BOOLEAN]

RowsTyped == resStatus \in [Rows -> RowStatuses] /\ deleted \in [Rows -> BOOLEAN]

RunsTyped ==
    /\ hook \in [Ops -> {"none", "approved", "canceled"}]
    /\ wf \in [Ops -> RunStates]
    /\ memo \in [Ops -> (RowStatuses \ {"absent"}) \cup {"none"}]

ReqTyped == req \in [Clients -> Handler]

LEMMA TypeParts == TypeOK <=> OpsTyped /\ RowsTyped /\ RunsTyped /\ ReqTyped
BY Zenon DEF TypeOK, OpsTyped, RowsTyped, RunsTyped, ReqTyped

LEMMA TypePartsNext == TypeOK' <=> OpsTyped' /\ RowsTyped' /\ RunsTyped' /\ ReqTyped'
BY Zenon DEF TypeOK, OpsTyped, RowsTyped, RunsTyped, ReqTyped

LEMMA SetStatusTyped ==
    ASSUME OpsTyped, NEW o \in Ops, status[o] # "absent",
           NEW s \in OpenStatuses \cup ClosedStatuses, SetStatus(o, s)
    PROVE OpsTyped'
BY DEF OpsTyped, SetStatus, Statuses, OpenStatuses, ClosedStatuses

LEMMA ApplyPatchTyped ==
    ASSUME RowsTyped, NEW o \in Ops, NEW p, ApplyPatch(o, p)
    PROVE RowsTyped'
BY DEF RowsTyped, ApplyPatch

LEMMA GotoTyped ==
    ASSUME RunsTyped, NEW o \in Ops, NEW s \in RunStates, Goto(o, s), UNCHANGED <<hook, memo>>
    PROVE RunsTyped'
BY DEF RunsTyped, Goto

\* The records the handlers move through.
LEMMA HandlerRecords ==
    /\ Idle \in Handler
    /\ \A o \in Ops, a \in HandlerStates, k \in {"none", "approve", "cancel"} :
          [Idle EXCEPT !.at = a, !.op = o, !.kind = k] \in Handler
    /\ \A o \in Ops, a \in HandlerStates : [Idle EXCEPT !.at = a, !.op = o] \in Handler
BY DEF Handler, Idle, HandlerStates, RequestKinds, Kinds, LockingKinds, Statuses

LEMMA ReqStepTyped ==
    ASSUME ReqTyped, NEW c \in Clients, NEW h \in Handler, req' = [req EXCEPT ![c] = h]
    PROVE ReqTyped'
BY DEF ReqTyped

\* What a handler that has an operation or a row in hand may rely on.
LEMMA HandlerHas ==
    ASSUME HandlerOK, NEW c \in Clients
    PROVE  /\ req[c].at = "insertStub" => req[c].kind \in StubKinds
           /\ req[c].at = "insert" => req[c].kind \in Kinds \ StubKinds
           /\ req[c].at = "insertRetry" => req[c].kind \in Kinds
           /\ req[c].at \in {"insert", "insertRetry"} =>
                 IF req[c].kind = "lookup" THEN req[c].row = NoRow
                 ELSE req[c].row \in Rows /\ resStatus[req[c].row] # "absent"
           /\ req[c].at \in {"start", "attach", "approve", "cancel", "resume", "killRun"} =>
                 req[c].op \in Ops /\ status[req[c].op] # "absent"
BY Zenon DEF HandlerOK

\* The action of a request in progress or of a workflow step, one case each.
LEMMA TypeStep ==
    ASSUME TypeOK, HandlerOK, ReferencesOK, ControlOK, [Next]_vars PROVE TypeOK'
<1> USE DEF TypeOK, Handler, Idle, HandlerStates, RequestKinds, Kinds, StubKinds,
            LockingKinds, Statuses, OpenStatuses, ClosedStatuses, RowStatuses, RunStates
<1>1. ASSUME NEW c \in Clients, NewRequest(c) PROVE TypeOK'
  <2>0. ASSUME NEW h \in Handler, req' = [req EXCEPT ![c] = h], UNCHANGED <<opVars, rowVars, runVars>>
        PROVE  TypeOK'
    <3> HIDE DEF TypeOK, Handler, Idle
    <3>1. ReqTyped'
      BY <2>0, TypeParts, ReqStepTyped
    <3>2. OpsTyped' /\ RowsTyped' /\ RunsTyped'
      BY <2>0, TypeParts DEF OpsTyped, RowsTyped, RunsTyped, opVars, rowVars, runVars
    <3> QED BY <3>1, <3>2, TypePartsNext
  <2>1. ASSUME NEW k \in StubKinds, NEW s \in Slugs, RequestStub(c, k, s) PROVE TypeOK'
    <3> DEFINE h == [Idle EXCEPT !.at = "insertStub", !.kind = k, !.slug = s]
    <3>1. h \in Handler
      BY <2>1 DEF RequestStub
    <3>2. req' = [req EXCEPT ![c] = h] /\ UNCHANGED <<opVars, rowVars, runVars>>
      BY <2>1 DEF RequestStub
    <3> HIDE DEF h, TypeOK, Handler
    <3> QED BY <2>0, <3>1, <3>2
  <2>2. ASSUME NEW k \in Kinds, NEW r \in Rows, RequestOnRow(c, k, r) PROVE TypeOK'
    <3> DEFINE h == [Idle EXCEPT !.at = "insert", !.kind = k, !.row = r]
    <3>1. h \in Handler
      BY <2>2 DEF RequestOnRow
    <3>2. req' = [req EXCEPT ![c] = h] /\ UNCHANGED <<opVars, rowVars, runVars>>
      BY <2>2 DEF RequestOnRow
    <3> HIDE DEF h, TypeOK, Handler
    <3> QED BY <2>0, <3>1, <3>2
  <2>3. CASE RequestLookup(c)
    <3> DEFINE h == [Idle EXCEPT !.at = "insert", !.kind = "lookup"]
    <3>1. h \in Handler
      BY <2>3 DEF RequestLookup
    <3>2. req' = [req EXCEPT ![c] = h] /\ UNCHANGED <<opVars, rowVars, runVars>>
      BY <2>3 DEF RequestLookup
    <3> HIDE DEF h, TypeOK, Handler
    <3> QED BY <2>0, <3>1, <3>2
  <2>4. ASSUME NEW o \in Ops, RequestRetry(c, o) PROVE TypeOK'
    <3> DEFINE h == [Idle EXCEPT !.at = "insertRetry", !.kind = kind[o], !.row = target[o]]
    <3>1. h \in Handler
      BY <2>4 DEF RequestRetry
    <3>2. req' = [req EXCEPT ![c] = h] /\ UNCHANGED <<opVars, rowVars, runVars>>
      BY <2>4 DEF RequestRetry
    <3> HIDE DEF h, TypeOK, Handler
    <3> QED BY <2>0, <3>1, <3>2
  <2>5. ASSUME NEW o \in Ops, RequestApprove(c, o) PROVE TypeOK'
    <3> DEFINE h == [Idle EXCEPT !.at = "approve", !.op = o]
    <3>1. h \in Handler
      BY <2>5 DEF RequestApprove
    <3>2. req' = [req EXCEPT ![c] = h] /\ UNCHANGED <<opVars, rowVars, runVars>>
      BY <2>5 DEF RequestApprove
    <3> HIDE DEF h, TypeOK, Handler
    <3> QED BY <2>0, <3>1, <3>2
  <2>6. ASSUME NEW o \in Ops, RequestCancel(c, o) PROVE TypeOK'
    <3> DEFINE h == [Idle EXCEPT !.at = "cancel", !.op = o, !.seen = status[o],
                       !.run = status[o] = "pending" /\ attached[o],
                       !.approved = status[o] = "awaiting_approval" /\ approvedBy[o]]
    <3>1. h \in Handler
      BY <2>6 DEF RequestCancel
    <3>2. req' = [req EXCEPT ![c] = h] /\ UNCHANGED <<opVars, rowVars, runVars>>
      BY <2>6 DEF RequestCancel
    <3> HIDE DEF h, TypeOK, Handler
    <3> QED BY <2>0, <3>1, <3>2
  <2> QED BY <1>1, <2>1, <2>2, <2>3, <2>4, <2>5, <2>6 DEF NewRequest
<1>2. ASSUME NEW c \in Clients, HandlerStep(c) PROVE TypeOK'
  <2>1. ASSUME NEW o \in Ops, NEW r \in Rows, InsertStub(c, o, r) PROVE TypeOK'
    <3> HIDE DEF TypeOK, Handler, Idle
    <3>1. req[c].kind \in StubKinds
      BY <2>1, HandlerHas DEF InsertStub
    <3>2. OpsTyped'
      BY <2>1, <3>1, TypeParts, ConstantsAssumption DEF InsertStub, OpsTyped
    <3>3. RowsTyped' /\ RunsTyped'
      BY <2>1, TypeParts DEF InsertStub, RowsTyped, RunsTyped
    <3>4. ReqTyped'
      BY <2>1, TypeParts, HandlerRecords, ReqStepTyped DEF InsertStub
    <3> QED BY <3>2, <3>3, <3>4, TypePartsNext
  <2>2. ASSUME NEW o \in Ops, createOperation(c, o) PROVE TypeOK'
    <3> HIDE DEF TypeOK, Handler, Idle
    <3>1. /\ req[c].kind \in Kinds
          /\ IF req[c].kind = "lookup" THEN req[c].row = NoRow ELSE req[c].row \in Rows
      BY <2>2, HandlerHas DEF createOperation
    <3>2. OpsTyped'
      BY <2>2, <3>1, TypeParts, ConstantsAssumption DEF createOperation, OpsTyped
    <3>3. RowsTyped' /\ RunsTyped'
      BY <2>2, TypeParts DEF createOperation, RowsTyped, RunsTyped
    <3>4. ReqTyped'
      BY <2>2, TypeParts, HandlerRecords, ReqStepTyped DEF createOperation
    <3> QED BY <3>2, <3>3, <3>4, TypePartsNext
  <2>3. CASE Conflict(c)
    BY <2>3 DEF Conflict
  <2>4. CASE StartRun(c)
    <3> HIDE DEF TypeOK, Handler
    <3>1. OpsTyped' /\ RowsTyped'
      BY <2>4, TypeParts DEF StartRun, OpsTyped, RowsTyped
    <3>2. RunsTyped'
      BY <2>4, TypeParts, HandlerHas DEF StartRun, RunsTyped, Goto
    <3>3. ReqTyped'
      BY <2>4, TypeParts DEF StartRun, ReqTyped, Handler
    <3> QED BY <3>1, <3>2, <3>3, TypePartsNext
  <2>5. CASE attachOperationWorkflowRun(c)
    BY <2>5 DEF attachOperationWorkflowRun
  <2>6. CASE approveOperation(c)
    <3> HIDE DEF TypeOK, Handler, Idle
    <3>1. req[c].op \in Ops
      BY <2>6, HandlerHas DEF approveOperation
    <3>2. OpsTyped'
      BY <2>6, <3>1, TypeParts DEF approveOperation, OpsTyped
    <3>3. RowsTyped' /\ RunsTyped'
      BY <2>6, TypeParts DEF approveOperation, RowsTyped, RunsTyped
    <3>4. ReqTyped'
      BY <2>6, <3>1, TypeParts, HandlerRecords, ReqStepTyped DEF approveOperation
    <3> QED BY <3>2, <3>3, <3>4, TypePartsNext
  <2>7. CASE cancelAwaiting(c)
    <3> HIDE DEF TypeOK, Handler, Idle
    <3> DEFINE o == req[c].op
    <3>1. o \in Ops /\ status[o] # "absent"
      BY <2>7, HandlerHas DEF cancelAwaiting
    <3>2. OpsTyped' /\ RowsTyped'
      <4>0. req[c].approved \in BOOLEAN
        BY TypeParts DEF ReqTyped, Handler
      <4>1. CASE /\ status' = [status EXCEPT ![o] = "canceled"]
                 /\ approvedBy' = [approvedBy EXCEPT ![o] = req[c].approved]
                 /\ UNCHANGED <<kind, target, attached>> /\ ApplyPatch(o, StubPatch(o))
        <5> HIDE DEF o
        <5>1. OpsTyped'
          BY <3>1, <4>0, <4>1, TypeParts DEF OpsTyped, Statuses, ClosedStatuses
        <5> QED BY <3>1, <4>1, <5>1, TypeParts, ApplyPatchTyped
      <4>2. CASE UNCHANGED <<opVars, rowVars>>
        BY <4>2, TypeParts DEF OpsTyped, RowsTyped
      <4> QED BY <2>7, <4>1, <4>2 DEF cancelAwaiting
    <3>3. RunsTyped'
      BY <2>7, TypeParts DEF cancelAwaiting, RunsTyped
    <3>4. ReqTyped'
      BY <2>7, <3>1, TypeParts, HandlerRecords, ReqStepTyped DEF cancelAwaiting
    <3> QED BY <3>2, <3>3, <3>4, TypePartsNext
  <2>8. CASE cancelPending(c)
    <3> HIDE DEF TypeOK, Handler, Idle
    <3> DEFINE o == req[c].op
    <3>1. o \in Ops /\ status[o] # "absent"
      BY <2>8, HandlerHas DEF cancelPending
    <3>2. OpsTyped' /\ RowsTyped'
      <4>1. CASE SetStatus(o, "canceled") /\ ApplyPatch(o, StubPatch(o))
        <5> HIDE DEF o
        <5> QED BY <3>1, <4>1, TypeParts, SetStatusTyped, ApplyPatchTyped
      <4>2. CASE UNCHANGED <<opVars, rowVars>>
        BY <4>2, TypeParts DEF OpsTyped, RowsTyped
      <4> QED BY <2>8, <4>1, <4>2 DEF cancelPending
    <3>3. RunsTyped'
      BY <2>8, TypeParts DEF cancelPending, RunsTyped
    <3>4. ReqTyped'
      BY <2>8, <3>1, TypeParts, HandlerRecords, ReqStepTyped DEF cancelPending
    <3> QED BY <3>2, <3>3, <3>4, TypePartsNext
  <2>9. CASE markOperationCanceling(c)
    <3> HIDE DEF TypeOK, Handler, Idle
    <3> DEFINE o == req[c].op
    <3>1. o \in Ops /\ status[o] # "absent"
      BY <2>9, HandlerHas DEF markOperationCanceling
    <3>2. OpsTyped'
      <4>1. CASE SetStatus(o, "canceling")
        <5> HIDE DEF o
        <5> QED BY <3>1, <4>1, TypeParts, SetStatusTyped
      <4>2. CASE UNCHANGED opVars
        BY <4>2, TypeParts DEF OpsTyped
      <4> QED BY <2>9, <4>1, <4>2 DEF markOperationCanceling
    <3>3. RowsTyped' /\ RunsTyped'
      BY <2>9, TypeParts DEF markOperationCanceling, RowsTyped, RunsTyped
    <3>4. ReqTyped'
      BY <2>9, TypeParts, HandlerRecords, ReqStepTyped DEF markOperationCanceling
    <3> QED BY <3>2, <3>3, <3>4, TypePartsNext
  <2>10. CASE ResumeHook(c)
    BY <2>10 DEF ResumeHook
  <2>11. CASE KillRun(c)
    BY <2>11 DEF KillRun, Goto
  <2> QED BY <1>2, <2>1, <2>2, <2>3, <2>4, <2>5, <2>6, <2>7, <2>8, <2>9, <2>10, <2>11
          DEF HandlerStep
<1>3. ASSUME NEW c \in Clients, Crash(c) PROVE TypeOK'
  BY <1>3 DEF Crash
<1>4. ASSUME NEW o \in Ops, RunStep(o) PROVE TypeOK'
  <2> USE DEF Goto, SetStatus, ApplyPatch, StubPatch, ReferencesOK, ControlOK
  <2>1. CASE LoadResource(o)
    BY <2>1 DEF LoadResource
  <2>2. CASE Gate(o)
    BY <2>2 DEF Gate, markOperationAwaitingApproval, markOperationRunning
  <2>3. CASE HookApproved(o)
    <3> HIDE DEF Handler
    <3>1. status[o] \in RunnableFrom => status[o] # "absent"
      BY DEF RunnableFrom
    <3>2. UNCHANGED <<hook, memo, req>> /\ markOperationRunning(o, "none", "granted")
      BY <2>3 DEF HookApproved
    <3> QED BY <3>1, <3>2 DEF markOperationRunning
  <2>4. CASE cancelAwaitingOperation(o)
    <3> HIDE DEF TypeOK, ApplyPatch, SetStatus, Goto, StubPatch
    <3>1. OpsTyped' /\ RowsTyped'
      <4>1. CASE SetStatus(o, "canceled") /\ ApplyPatch(o, StubPatch(o)) /\ status[o] \in CancelableFrom
        BY <4>1, TypeParts, SetStatusTyped, ApplyPatchTyped DEF CancelableFrom
      <4>2. CASE UNCHANGED <<opVars, rowVars>>
        BY <4>2, TypeParts DEF OpsTyped, RowsTyped
      <4> QED BY <2>4, <4>1, <4>2 DEF cancelAwaitingOperation
    <3>2. RunsTyped'
      BY <2>4, TypeParts, GotoTyped DEF cancelAwaitingOperation
    <3>3. ReqTyped'
      BY <2>4, TypeParts DEF cancelAwaitingOperation, ReqTyped
    <3> QED BY <3>1, <3>2, <3>3, TypePartsNext
  <2>5. CASE StartMutation(o)
    BY <2>5 DEF StartMutation, markOperationRunning
  <2>6. CASE Dispatch(o) \/ PrepareFails(o) \/ SkipProvider(o)
    BY <2>6 DEF Dispatch, PrepareFails, SkipProvider
  <2>7. CASE BeginObservation(o)
    BY <2>7 DEF BeginObservation, markOperationRunning
  <2>8. CASE ProviderSucceeds(o) \/ ProviderFails(o) \/ Drain(o)
    BY <2>8 DEF ProviderSucceeds, ProviderFails, Drain
  <2>9. ASSUME NEW p \in {"live", "missing", "none"}, ReadSucceeds(o, p) PROVE TypeOK'
    BY <2>9 DEF ReadSucceeds
  <2>10. CASE Complete(o)
    BY <2>10 DEF Complete, markOperationSucceeded, SuccessPatch
  <2>11. CASE Fail(o)
    BY <2>11 DEF Fail, markOperationFailed, FailurePatch
  <2> QED BY <1>4, <2>1, <2>2, <2>3, <2>4, <2>5, <2>6, <2>7, <2>8, <2>9, <2>10, <2>11
          DEF RunStep
<1>5. CASE UNCHANGED vars
  BY <1>5
<1> QED BY <1>1, <1>2, <1>3, <1>4, <1>5 DEF Next
\* A transition of an existing operation, with the patch that rides on it.
Transition(o, s, p) ==
    /\ status[o] # "absent" /\ s \in OpenStatuses \cup ClosedStatuses
    /\ status' = [status EXCEPT ![o] = s] /\ UNCHANGED <<kind, target>>
    /\ ApplyPatch(o, p) /\ memo' = memo
    /\ Open(o) \/ s \in ClosedStatuses
    /\ s # "pending" /\ (s = "awaiting_approval" => status[o] = "pending")
    /\ \/ s \in OpenStatuses /\ p = "none"
       \/ s = "running" /\ p \in {"updating", "deleting"}
       \/ s = "canceled" /\ p = StubPatch(o)
       \/ s = "failed" /\ p = FailurePatch(o)
       \/ s = "succeeded" /\ p = SuccessPatch(o) /\ wf[o] = "complete"

\* What one step does to operations and rows: the four cases every safety
\* proof below goes through.
StepShape ==
    \/ \E c \in Clients, o \in Ops, r \in Rows : InsertStub(c, o, r)
    \/ \E c \in Clients, o \in Ops : createOperation(c, o)
    \/ \E o \in Ops : \E s, p : Transition(o, s, p)
    \/ /\ UNCHANGED <<status, kind, target, rowVars>>
       /\ \/ memo' = memo
          \/ \E o \in Ops : LoadResource(o) \/ \E p \in {"live", "missing", "none"} : ReadSucceeds(o, p)

LEMMA Shape ==
    ASSUME TypeOK, HandlerOK, ReferencesOK, [Next]_vars PROVE StepShape
<1> DEFINE Quiet == UNCHANGED <<status, kind, target, rowVars, memo>>
<1>q. ASSUME Quiet PROVE StepShape
  BY <1>q DEF StepShape
<1>t. ASSUME NEW o \in Ops, NEW s, NEW p, Transition(o, s, p) PROVE StepShape
  BY <1>t DEF StepShape
<1>n. ASSUME NEW o \in Ops PROVE UNCHANGED rowVars => ApplyPatch(o, "none")
  BY DEF ApplyPatch, RowStatuses
<1> HIDE DEF Quiet
<1>1. ASSUME NEW c \in Clients, NewRequest(c) PROVE StepShape
  <2> Quiet
    BY <1>1 DEF Quiet, NewRequest, RequestStub, RequestOnRow, RequestLookup, RequestRetry,
                RequestApprove, RequestCancel
  <2> QED BY <1>q
<1>2. ASSUME NEW c \in Clients, HandlerStep(c) PROVE StepShape
  <2>1. ASSUME NEW o \in Ops, NEW r \in Rows, InsertStub(c, o, r) PROVE StepShape
    BY <2>1 DEF StepShape
  <2>2. ASSUME NEW o \in Ops, createOperation(c, o) PROVE StepShape
    BY <2>2 DEF StepShape
  <2>3. CASE \/ Conflict(c) \/ StartRun(c) \/ attachOperationWorkflowRun(c)
             \/ approveOperation(c) \/ ResumeHook(c) \/ KillRun(c)
    <3> Quiet
      BY <2>3 DEF Quiet, Conflict, StartRun, attachOperationWorkflowRun, approveOperation,
                  ResumeHook, KillRun
    <3> QED BY <1>q
  <2>4. CASE cancelAwaiting(c) \/ cancelPending(c)
    <3> DEFINE o == req[c].op
    <3>1. o \in Ops /\ status[o] # "absent" /\ memo' = memo
      BY <2>4, HandlerHas DEF cancelAwaiting, cancelPending
    <3>2. \/ /\ status[o] \in OpenStatuses
             /\ status' = [status EXCEPT ![o] = "canceled"] /\ UNCHANGED <<kind, target>>
             /\ ApplyPatch(o, StubPatch(o))
          \/ UNCHANGED <<opVars, rowVars>>
      BY <2>4 DEF cancelAwaiting, cancelPending, SetStatus, CancelableFrom, OpenStatuses
    <3>3. CASE UNCHANGED <<opVars, rowVars>>
      BY <3>1, <3>3, <1>q DEF Quiet
    <3>4. CASE /\ status[o] \in OpenStatuses
               /\ status' = [status EXCEPT ![o] = "canceled"] /\ UNCHANGED <<kind, target>>
               /\ ApplyPatch(o, StubPatch(o))
      <4> Transition(o, "canceled", StubPatch(o))
        BY <3>1, <3>4 DEF Transition, ClosedStatuses
      <4> QED BY <3>1, <1>t
    <3> QED BY <3>2, <3>3, <3>4
  <2>5. CASE markOperationCanceling(c)
    <3> DEFINE o == req[c].op
    <3>1. o \in Ops /\ status[o] # "absent" /\ memo' = memo /\ UNCHANGED rowVars
      BY <2>5, HandlerHas DEF markOperationCanceling
    <3>2. (status[o] = "running" /\ SetStatus(o, "canceling")) \/ UNCHANGED opVars
      BY <2>5 DEF markOperationCanceling
    <3>3. CASE UNCHANGED opVars
      BY <3>1, <3>3, <1>q DEF Quiet
    <3>4. CASE status[o] = "running" /\ SetStatus(o, "canceling")
      <4> Transition(o, "canceling", "none")
        BY <3>1, <3>4, <1>n DEF Transition, SetStatus, Open, OpenStatuses
      <4> QED BY <3>1, <1>t
    <3> QED BY <3>2, <3>3, <3>4
  <2> QED BY <1>2, <2>1, <2>2, <2>3, <2>4, <2>5 DEF HandlerStep
<1>3. ASSUME NEW c \in Clients, Crash(c) PROVE StepShape
  BY <1>3, <1>q DEF Crash, Quiet
<1>4. ASSUME NEW o \in Ops, RunStep(o) PROVE StepShape
  <2>a. ASSUME wf[o] # "none" PROVE status[o] # "absent"
    BY <2>a DEF ReferencesOK
  <2>r. ASSUME NEW p \in {"none", "updating", "deleting"}, NEW next,
               markOperationRunning(o, p, next), wf[o] # "none", memo' = memo
        PROVE StepShape
    <3>1. CASE status[o] \in RunnableFrom /\ SetStatus(o, "running") /\ ApplyPatch(o, p)
      <4> Transition(o, "running", p)
        BY <2>a, <2>r, <3>1 DEF Transition, SetStatus, RunnableFrom, Open, OpenStatuses
      <4> QED BY <1>t
    <3>2. CASE UNCHANGED <<opVars, rowVars>>
      BY <2>r, <3>2, <1>q DEF Quiet
    <3> QED BY <2>r, <3>1, <3>2 DEF markOperationRunning
  <2>1. CASE LoadResource(o)
    BY <2>1 DEF LoadResource, StepShape
  <2>2. CASE Gate(o)
    <3>1. CASE GatedByPolicy(kind[o])
      <4>1. CASE SetStatus(o, "awaiting_approval") /\ status[o] = "pending"
        <5> Transition(o, "awaiting_approval", "none")
          BY <2>2, <3>1, <4>1, <1>n DEF Gate, Transition, SetStatus, Open, OpenStatuses
        <5> QED BY <1>t
      <4>2. CASE UNCHANGED opVars
        BY <2>2, <3>1, <4>2, <1>q DEF Gate, Quiet
      <4> QED BY <2>2, <3>1, <4>1, <4>2 DEF Gate, markOperationAwaitingApproval
    <3>2. CASE ~GatedByPolicy(kind[o])
      BY <2>2, <3>2, <2>r DEF Gate
    <3> QED BY <3>1, <3>2
  <2>3. CASE HookApproved(o)
    BY <2>3, <2>r DEF HookApproved
  <2>4. CASE cancelAwaitingOperation(o)
    <3>1. CASE status[o] \in OpenStatuses /\ SetStatus(o, "canceled") /\ ApplyPatch(o, StubPatch(o))
      <4> Transition(o, "canceled", StubPatch(o))
        BY <2>4, <2>a, <3>1 DEF cancelAwaitingOperation, Transition, SetStatus, ClosedStatuses
      <4> QED BY <1>t
    <3>2. CASE UNCHANGED <<opVars, rowVars>>
      BY <2>4, <3>2, <1>q DEF cancelAwaitingOperation, Quiet
    <3> QED BY <2>4, <3>1, <3>2 DEF cancelAwaitingOperation, CancelableFrom
  <2>5. CASE StartMutation(o)
    BY <2>5, <2>r DEF StartMutation
  <2>6. CASE \/ Dispatch(o) \/ PrepareFails(o) \/ SkipProvider(o)
             \/ ProviderSucceeds(o) \/ ProviderFails(o) \/ Drain(o)
    <3> Quiet
      BY <2>6 DEF Quiet, Dispatch, PrepareFails, SkipProvider, ProviderSucceeds,
                  ProviderFails, Drain
    <3> QED BY <1>q
  <2>7. CASE BeginObservation(o)
    BY <2>7, <2>r DEF BeginObservation
  <2>8. ASSUME NEW p \in {"live", "missing", "none"}, ReadSucceeds(o, p) PROVE StepShape
    BY <2>8 DEF ReadSucceeds, StepShape
  <2>9. CASE Complete(o)
    <3> Transition(o, "succeeded", SuccessPatch(o))
      BY <2>9, <2>a DEF Complete, markOperationSucceeded, Transition, SetStatus, ClosedStatuses
    <3> QED BY <1>t
  <2>10. CASE Fail(o)
    <3> Transition(o, "failed", FailurePatch(o))
      BY <2>10, <2>a DEF Fail, markOperationFailed, Transition, SetStatus, ClosedStatuses
    <3> QED BY <1>t
  <2> QED BY <1>4, <2>1, <2>2, <2>3, <2>4, <2>5, <2>6, <2>7, <2>8, <2>9, <2>10
          DEF RunStep
<1>5. CASE UNCHANGED vars
  BY <1>5, <1>q DEF Quiet
<1> QED BY <1>1, <1>2, <1>3, <1>4, <1>5 DEF Next

---------------------------------------------------------------------------
(* Each safety conjunct, along the four shapes of a step *)

\* A closed operation stays closed, and a held lock was held or was free.
LEMMA LockStep ==
    ASSUME TypeOK, HandlerOK, ReferencesOK, ControlOK, LockExclusive, [Next]_vars
    PROVE  LockExclusive'
<1> SUFFICES ASSUME NEW r \in Rows, NEW o1 \in Ops, NEW o2 \in Ops,
                    Holds(o1, r)', Holds(o2, r)', o1 # o2
             PROVE  FALSE
  BY DEF LockExclusive
<1>t. OpsTyped
  BY TypeParts
<1>k. \A o \in Ops : Holds(o, r) /\ Holds(o1, r) => o = o1
  BY DEF LockExclusive
<1>l. \A o \in Ops : Holds(o, r) /\ Holds(o2, r) => o = o2
  BY DEF LockExclusive
<1>1. ASSUME NEW c \in Clients, NEW o \in Ops, NEW r0 \in Rows, InsertStub(c, o, r0)
      PROVE  FALSE
  <2>1. \A x \in Ops : x # o => target[x] = target'[x] /\ status'[x] = status[x] /\ kind'[x] = kind[x]
    BY <1>1, <1>t DEF InsertStub, OpsTyped
  <2>2. \A x \in Ops : target[x] # r0
    BY <1>1 DEF InsertStub, ReferencesOK
  <2>3. target'[o] = r0
    BY <1>1, <1>t DEF InsertStub, OpsTyped
  <2>4. CASE r = r0
    BY <2>1, <2>2, <2>4 DEF Holds
  <2>5. CASE r # r0
    BY <2>1, <2>3, <2>5, <1>k, <1>l DEF Holds, Open
  <2> QED BY <2>4, <2>5
<1>2. ASSUME NEW c \in Clients, NEW o \in Ops, createOperation(c, o) PROVE FALSE
  <2>1. \A x \in Ops : x # o => target[x] = target'[x] /\ status'[x] = status[x] /\ kind'[x] = kind[x]
    BY <1>2, <1>t DEF createOperation, OpsTyped
  <2>2. kind'[o] = req[c].kind /\ target'[o] = req[c].row
    BY <1>2, <1>t DEF createOperation, OpsTyped
  <2>3. \A x \in Ops : x # o /\ Holds(x, r)' => Holds(x, r)
    BY <2>1 DEF Holds, Open
  <2>4. Holds(o, r)' => LockFree(r)
    BY <1>2, <2>2 DEF Holds, createOperation
  <2> QED BY <2>3, <2>4, <1>k, <1>l DEF LockFree
<1>3. ASSUME NEW o \in Ops, NEW s, NEW p, Transition(o, s, p) PROVE FALSE
  <2>1. \A x \in Ops : /\ target[x] = target'[x] /\ kind'[x] = kind[x]
                       /\ Open(x)' => Open(x)
    BY <1>3, <1>t DEF Transition, SetStatus, OpsTyped, Open, OpenStatuses, ClosedStatuses
  <2> QED BY <2>1, <1>k DEF Holds
<1>4. CASE UNCHANGED <<status, kind, target, rowVars>>
  BY <1>4, <1>k DEF Holds, Open
<1> QED BY Shape, <1>1, <1>2, <1>3, <1>4 DEF StepShape

\* A row once inserted stays, an operation too, and an approval is kept.
LEMMA Monotone ==
    ASSUME TypeOK, HandlerOK, ReferencesOK, [Next]_vars
    PROVE  /\ \A o \in Ops : status[o] # "absent" =>
                 status'[o] # "absent" /\ kind'[o] = kind[o] /\ target'[o] = target[o]
           /\ \A r \in Rows : resStatus[r] # "absent" => resStatus'[r] # "absent"
           /\ \A r \in Rows : deleted[r] => deleted'[r]
<1>t. OpsTyped /\ RowsTyped /\ RunsTyped
  BY TypeParts
<1> DEFINE Goal == /\ \A o \in Ops : status[o] # "absent" =>
                         status'[o] # "absent" /\ kind'[o] = kind[o] /\ target'[o] = target[o]
                   /\ \A r \in Rows : resStatus[r] # "absent" => resStatus'[r] # "absent"
                   /\ \A r \in Rows : deleted[r] => deleted'[r]
<1>1. ASSUME NEW c \in Clients, NEW o \in Ops, NEW r \in Rows, InsertStub(c, o, r) PROVE Goal
  BY <1>1, <1>t DEF InsertStub, OpsTyped, RowsTyped
<1>2. ASSUME NEW c \in Clients, NEW o \in Ops, createOperation(c, o) PROVE Goal
  BY <1>2, <1>t DEF createOperation, OpsTyped
<1>3. ASSUME NEW o \in Ops, NEW s, NEW p, Transition(o, s, p) PROVE Goal
  <2>1. \A x \in Ops : status[x] # "absent" =>
              status'[x] # "absent" /\ kind'[x] = kind[x] /\ target'[x] = target[x]
    BY <1>3, <1>t DEF Transition, SetStatus, OpsTyped, OpenStatuses, ClosedStatuses
  <2>2. p # "absent"
    BY <1>3, <1>t DEF Transition, RunsTyped, StubPatch, FailurePatch, SuccessPatch
  <2>3. /\ \A r \in Rows : resStatus[r] # "absent" => resStatus'[r] # "absent"
        /\ \A r \in Rows : deleted[r] => deleted'[r]
    BY <1>3, <1>t, <2>2 DEF Transition, ApplyPatch, RowsTyped
  <2> QED BY <2>1, <2>3
<1>4. CASE UNCHANGED <<status, kind, target, rowVars>>
  BY <1>4
<1> QED BY Shape, <1>1, <1>2, <1>3, <1>4 DEF StepShape

Stub(r) == Live(r) /\ resStatus[r] \in {"creating", "importing"}

LEMMA StubStep ==
    ASSUME IInv, [Next]_vars PROVE StubOwned'
<1> USE DEF IInv
<1>t. OpsTyped /\ RowsTyped /\ RunsTyped
  BY TypeParts
<1> SUFFICES ASSUME NEW r \in Rows, Stub(r)'
             PROVE  \E o \in Ops : Holds(o, r)' /\ kind'[o] \in StubKinds
  BY DEF StubOwned, Stub
<1> DEFINE Owned == \E o \in Ops : Holds(o, r)' /\ kind'[o] \in StubKinds
<1>o. ASSUME Stub(r)
      PROVE  \E o \in Ops : Holds(o, r) /\ kind[o] \in StubKinds /\ status[o] # "absent"
  BY <1>o DEF StubOwned, Stub, Holds, Open, OpenStatuses
<1>1. ASSUME NEW c \in Clients, NEW o \in Ops, NEW r0 \in Rows, InsertStub(c, o, r0)
      PROVE  Owned
  <2>1. CASE r = r0
    <3>1. status'[o] = "pending" /\ kind'[o] \in StubKinds /\ target'[o] = r
      BY <1>1, <1>t, <2>1, HandlerHas DEF InsertStub, OpsTyped
    <3> QED BY <3>1 DEF Holds, Open, OpenStatuses, LockingKinds, StubKinds
  <2>2. CASE r # r0
    <3>1. Stub(r)
      BY <1>1, <1>t, <2>2 DEF InsertStub, RowsTyped, Stub, Live
    <3>2. PICK x \in Ops : Holds(x, r) /\ kind[x] \in StubKinds /\ status[x] # "absent"
      BY <1>o, <3>1
    <3>3. x # o
      BY <3>2, <1>1 DEF InsertStub
    <3>4. Holds(x, r)' /\ kind'[x] \in StubKinds
      BY <1>1, <1>t, <3>2, <3>3 DEF InsertStub, OpsTyped, Holds, Open
    <3> QED BY <3>4
  <2> QED BY <2>1, <2>2
<1>2. ASSUME NEW c \in Clients, NEW o \in Ops, createOperation(c, o) PROVE Owned
  <2>1. Stub(r)
    BY <1>2 DEF createOperation, Stub, Live
  <2>2. PICK x \in Ops : Holds(x, r) /\ kind[x] \in StubKinds /\ status[x] # "absent"
    BY <1>o, <2>1
  <2>3. x # o
    BY <2>2, <1>2 DEF createOperation
  <2>4. Holds(x, r)' /\ kind'[x] \in StubKinds
    BY <1>2, <1>t, <2>2, <2>3 DEF createOperation, OpsTyped, Holds, Open
  <2> QED BY <2>4
<1>3. ASSUME NEW o \in Ops, NEW s, NEW p, Transition(o, s, p) PROVE Owned
  <2>1. \A x \in Ops : kind'[x] = kind[x] /\ target'[x] = target[x]
    BY <1>3 DEF Transition, SetStatus
  <2>2. \A x \in Ops : x # o => status'[x] = status[x]
    BY <1>3, <1>t DEF Transition, SetStatus, OpsTyped
  <2>3. status'[o] = s
    BY <1>3, <1>t DEF Transition, SetStatus, OpsTyped
  <2>4. CASE Stub(r)
    <3>1. PICK x \in Ops : Holds(x, r) /\ kind[x] \in StubKinds /\ status[x] # "absent"
      BY <1>o, <2>4
    <3>2. CASE x # o
      BY <3>1, <3>2, <2>1, <2>2 DEF Holds, Open
    <3>3. CASE x = o /\ s \in OpenStatuses
      BY <3>1, <3>3, <2>1, <2>3 DEF Holds, Open
    <3>4. CASE x = o /\ s \in ClosedStatuses
      <4>1. target[o] = r /\ kind[o] \in {"create", "import"}
        BY <3>1, <3>4 DEF Holds, StubKinds
      <4>2. p \in {"tombstone", "live"}
        BY <1>3, <3>4, <4>1
           DEF Transition, ClosedStatuses, OpenStatuses, StubPatch, FailurePatch, SuccessPatch, StubKinds
      <4>3. deleted'[r] \/ resStatus'[r] = "live"
        BY <1>3, <1>t, <4>1, <4>2 DEF Transition, ApplyPatch, RowsTyped, RowStatuses
      <4> QED BY <4>3 DEF Stub, Live
    <3> QED BY <1>3, <3>2, <3>3, <3>4 DEF Transition
  <2>5. CASE ~Stub(r)
    <3>1. target[o] = r /\ p \in {"creating", "importing"}
      BY <1>3, <1>t, <2>5 DEF Transition, ApplyPatch, RowsTyped, Stub, Live
    <3>2. \/ s = "failed" /\ kind[o] \in {"update", "delete"} /\ p = memo[o]
          \/ /\ s = "succeeded" /\ kind[o] = "read" /\ p = memo[o] /\ wf[o] = "complete"
      BY <1>3, <3>1 DEF Transition, StubPatch, FailurePatch, SuccessPatch
    <3>3. deleted[r]
      BY <3>1, <3>2 DEF StubsNotUpdated, ControlOK
    <3>4. deleted'[r]
      BY <3>3, Monotone
    <3> QED BY <3>4 DEF Stub, Live
  <2> QED BY <2>4, <2>5
<1>4. CASE UNCHANGED <<status, kind, target, rowVars>>
  BY <1>4, <1>o DEF Stub, Live, Holds, Open
<1> QED BY Shape, <1>1, <1>2, <1>3, <1>4 DEF StepShape

\* An update is not opened on a stub (its owner has the lock), and it never
\* carries the status of one.
LEMMA NotUpdatedStep ==
    ASSUME IInv, [Next]_vars PROVE StubsNotUpdated'
<1> USE DEF IInv
<1>t. OpsTyped /\ RowsTyped /\ RunsTyped
  BY TypeParts
<1> DEFINE Plain(o) == resStatus[target[o]] \notin {"creating", "importing"}
                       /\ memo[o] \notin {"creating", "importing"}
<1> SUFFICES ASSUME NEW o \in Ops, kind'[o] \in {"update", "delete", "forget"}
             PROVE  deleted'[target'[o]] \/ Plain(o)'
  BY DEF StubsNotUpdated
<1> DEFINE Goal == deleted'[target'[o]] \/ Plain(o)'
<1>o. ASSUME kind[o] = kind'[o]
      PROVE  target[o] \in Rows /\ (deleted[target[o]] \/ Plain(o)) /\ status[o] # "absent"
  BY <1>t, <1>o DEF StubsNotUpdated, OpsTyped
<1>1. ASSUME NEW c \in Clients, NEW x \in Ops, NEW r \in Rows, InsertStub(c, x, r) PROVE Goal
  <2>1. o # x
    BY <1>1, <1>t, HandlerHas DEF InsertStub, OpsTyped, StubKinds
  <2>2. kind[o] = kind'[o] /\ target'[o] = target[o] /\ UNCHANGED <<deleted, memo>>
    BY <1>1, <1>t, <2>1 DEF InsertStub, OpsTyped
  <2>3. target[o] # r
    BY <1>1, <1>o, <2>2 DEF InsertStub, ReferencesOK
  <2>4. resStatus'[target[o]] = resStatus[target[o]]
    BY <1>1, <1>t, <1>o, <2>2, <2>3 DEF InsertStub, RowsTyped
  <2> QED BY <1>o, <2>2, <2>4
<1>2. ASSUME NEW c \in Clients, NEW x \in Ops, createOperation(c, x) PROVE Goal
  <2>1. CASE o # x
    <3>1. kind[o] = kind'[o] /\ target'[o] = target[o] /\ UNCHANGED <<resStatus, deleted, memo>>
      BY <1>2, <1>t, <2>1 DEF createOperation, OpsTyped
    <3> QED BY <1>o, <3>1
  <2>2. CASE o = x
    <3>1. /\ kind'[o] = req[c].kind /\ target'[o] = req[c].row
          /\ UNCHANGED <<resStatus, deleted, memo>> /\ memo[o] = "none"
      BY <1>2, <1>t, <2>2 DEF createOperation, OpsTyped, ReferencesOK
    <3>2. req[c].row \in Rows /\ resStatus[req[c].row] # "absent" /\ LockFree(req[c].row)
      BY <1>2, <3>1, HandlerHas DEF createOperation, LockingKinds
    <3>3. ~Stub(req[c].row)
      BY <3>2 DEF StubOwned, Stub, LockFree
    <3>4. deleted[req[c].row] \/ resStatus[req[c].row] \notin {"creating", "importing"}
      BY <3>2, <3>3 DEF Stub, Live
    <3> QED BY <3>1, <3>4
  <2> QED BY <2>1, <2>2
<1>3. ASSUME NEW x \in Ops, NEW s, NEW p, Transition(x, s, p) PROVE Goal
  <2>1. kind'[o] = kind[o] /\ target'[o] = target[o] /\ memo' = memo
    BY <1>3 DEF Transition, SetStatus
  <2>2. CASE deleted[target[o]]
    BY <1>o, <2>1, <2>2, Monotone
  <2>3. CASE Plain(o) /\ ~deleted[target[o]]
    <3>1. CASE target[x] # target[o] \/ p \notin {"creating", "importing"}
      BY <1>3, <1>t, <1>o, <2>1, <2>3, <3>1 DEF Transition, ApplyPatch, RowsTyped
    <3>2. CASE target[x] = target[o] /\ p \in {"creating", "importing"}
      <4>1. \/ kind[x] \in {"update", "delete"} /\ p = memo[x]
            \/ kind[x] = "read" /\ p = memo[x] /\ wf[x] = "complete"
        BY <1>3, <3>2 DEF Transition, StubPatch, FailurePatch, SuccessPatch
      <4> QED BY <4>1, <3>2, <2>3 DEF StubsNotUpdated, ControlOK
    <3> QED BY <3>1, <3>2
  <2> QED BY <1>o, <2>1, <2>2, <2>3
<1>4. CASE /\ UNCHANGED <<status, kind, target, rowVars>>
           /\ \/ memo' = memo
              \/ \E x \in Ops : LoadResource(x) \/ \E p \in {"live", "missing", "none"} : ReadSucceeds(x, p)
  <2>1. memo'[o] \in {memo[o], resStatus[target[o]], "live", "missing", "none"}
    BY <1>4, <1>t DEF LoadResource, ReadSucceeds, RunsTyped
  <2> QED BY <1>4, <1>o, <2>1
<1> QED BY Shape, <1>1, <1>2, <1>3, <1>4 DEF StepShape

---------------------------------------------------------------------------
(* The control of the runs: one case per action that moves a run *)

RunMove == ControlOK' /\ ApprovalRespected' /\ HookRecorded' /\ GateLeft'

\* The statuses of an operation whose gate is still ahead.
BeforeGate == {"absent", "pending", "awaiting_approval"}

\* What a step never undoes: a closed operation stays closed, and one that
\* has left the statuses before the gate does not return to them.
LEMMA StatusMoves ==
    ASSUME TypeOK, HandlerOK, ReferencesOK, [Next]_vars, NEW o \in Ops
    PROVE  /\ Closed(o) => Closed(o)'
           /\ status[o] \notin BeforeGate => status'[o] \notin BeforeGate
<1>t. OpsTyped
  BY TypeParts
<1>1. ASSUME NEW c \in Clients, NEW x \in Ops,
             createOperation(c, x) \/ \E r \in Rows : InsertStub(c, x, r)
      PROVE  status[o] # "absent" => status'[o] = status[o]
  BY <1>1, <1>t DEF InsertStub, createOperation, OpsTyped
<1>2. ASSUME NEW x \in Ops, NEW s, NEW p, Transition(x, s, p)
      PROVE  /\ status'[o] = status[o] \/ status'[o] = s
             /\ status'[o] = s => x = o \/ s = status[o]
  BY <1>2, <1>t DEF Transition, OpsTyped
<1>3. ASSUME NEW x \in Ops, NEW s, NEW p, Transition(x, s, p)
      PROVE  /\ Closed(o) => Closed(o)'
             /\ status[o] \notin BeforeGate => status'[o] \notin BeforeGate
  BY <1>2, <1>3 DEF Transition, Closed, Open, OpenStatuses, ClosedStatuses, BeforeGate
<1> QED BY <1>1, <1>3, Shape DEF StepShape, Closed, ClosedStatuses, BeforeGate

\* A step that leaves an operation's run where it was.
LEMMA RunKept ==
    ASSUME IInv, NEW o \in Ops, status[o] # "absent" => kind'[o] = kind[o],
           wf'[o] = wf[o], memo'[o] = memo[o], hook'[o] = hook[o],
           approvedBy[o] => approvedBy'[o], Closed(o) => Closed(o)',
           status[o] \notin BeforeGate => status'[o] \notin BeforeGate
    PROVE  /\ wf'[o] = "begin" => kind'[o] \in {"read", "lookup"}
           /\ wf'[o] = "load" => kind'[o] # "lookup"
           /\ wf'[o] = "complete" /\ kind'[o] = "read" => memo'[o] \in {"live", "missing", "none"}
           /\ hook'[o] = "approved" => approvedBy'[o] \/ Closed(o)'
           /\ /\ GatedByPolicy(kind'[o])
              /\ wf'[o] \in {"granted", "mutating", "applying", "draining", "complete"}
              => approvedBy'[o] /\ status'[o] \notin BeforeGate
BY DEF IInv, ControlOK, ApprovalRespected, HookRecorded, GateLeft, PastGate, BeforeGate,
       ReferencesOK

LEMMA ControlStep ==
    ASSUME IInv, [Next]_vars PROVE RunMove
<1> SUFFICES ASSUME NEW o \in Ops
    PROVE  /\ wf'[o] = "begin" => kind'[o] \in {"read", "lookup"}
           /\ wf'[o] = "load" => kind'[o] # "lookup"
           /\ wf'[o] = "complete" /\ kind'[o] = "read" => memo'[o] \in {"live", "missing", "none"}
           /\ hook'[o] = "approved" => approvedBy'[o] \/ Closed(o)'
           /\ /\ GatedByPolicy(kind'[o])
              /\ wf'[o] \in {"granted", "mutating", "applying", "draining", "complete"}
              => approvedBy'[o] /\ status'[o] \notin BeforeGate
  BY DEF RunMove, ControlOK, ApprovalRespected, HookRecorded, GateLeft, PastGate, BeforeGate,
         GatedByPolicy
<1> DEFINE Goal ==
           /\ wf'[o] = "begin" => kind'[o] \in {"read", "lookup"}
           /\ wf'[o] = "load" => kind'[o] # "lookup"
           /\ wf'[o] = "complete" /\ kind'[o] = "read" => memo'[o] \in {"live", "missing", "none"}
           /\ hook'[o] = "approved" => approvedBy'[o] \/ Closed(o)'
           /\ /\ GatedByPolicy(kind'[o])
              /\ wf'[o] \in {"granted", "mutating", "applying", "draining", "complete"}
              => approvedBy'[o] /\ status'[o] \notin BeforeGate
           Kept == wf'[o] = wf[o] /\ memo'[o] = memo[o] /\ hook'[o] = hook[o]
                   /\ (approvedBy[o] => approvedBy'[o])
           Pre == /\ wf[o] = "begin" => kind[o] \in {"read", "lookup"}
                  /\ wf[o] = "load" => kind[o] # "lookup"
                  /\ wf[o] = "complete" /\ kind[o] = "read" => memo[o] \in {"live", "missing", "none"}
                  /\ hook[o] = "approved" => approvedBy[o] \/ Closed(o)
                  /\ /\ GatedByPolicy(kind[o])
                     /\ wf[o] \in {"granted", "mutating", "applying", "draining", "complete"}
                     => approvedBy[o] /\ status[o] \notin BeforeGate
                  /\ kind'[o] = kind[o]
                  /\ Closed(o) => Closed(o)'
                  /\ status[o] \notin BeforeGate => status'[o] \notin BeforeGate
<1>i. TypeOK /\ HandlerOK /\ ReferencesOK
  BY DEF IInv
<1>t. OpsTyped /\ RowsTyped /\ RunsTyped
  BY <1>i, TypeParts
<1>k. status[o] # "absent" => kind'[o] = kind[o]
  BY <1>i, Monotone
<1>m. /\ Closed(o) => Closed(o)'
      /\ status[o] \notin BeforeGate => status'[o] \notin BeforeGate
  BY <1>i, StatusMoves
<1>p. status[o] # "absent" => Pre
  BY <1>k, <1>m DEF IInv, ControlOK, ApprovalRespected, HookRecorded, GateLeft, PastGate, BeforeGate
<1>s. Kept => Goal
  BY <1>k, <1>m, RunKept
<1> HIDE DEF Kept
<1>1. ASSUME NEW c \in Clients, NewRequest(c) \/ Crash(c) PROVE Goal
  <2> Kept
    BY <1>1 DEF Kept, NewRequest, RequestStub, RequestOnRow, RequestLookup, RequestRetry,
                RequestApprove, RequestCancel, Crash
  <2> QED BY <1>s
<1>2. ASSUME NEW c \in Clients, HandlerStep(c) PROVE Goal
  <2>1. CASE (\E x \in Ops, r \in Rows : InsertStub(c, x, r)) \/ (\E x \in Ops : createOperation(c, x))
    <3> Kept
      BY <2>1 DEF Kept, InsertStub, createOperation
    <3> QED BY <1>s
  <2>2. CASE Conflict(c) \/ cancelPending(c) \/ markOperationCanceling(c)
    <3> Kept
      BY <2>2 DEF Kept, Conflict, cancelPending, markOperationCanceling, SetStatus
    <3> QED BY <1>s
  <2>8. CASE cancelAwaiting(c)
    <3>1. wf'[o] = wf[o] /\ memo'[o] = memo[o] /\ hook'[o] = hook[o]
      BY <2>8 DEF cancelAwaiting
    <3>2. CASE o = req[c].op /\ status[o] = "awaiting_approval" /\ status'[o] = "canceled"
      BY <3>1, <3>2, <1>p DEF BeforeGate, Closed, ClosedStatuses
    <3>3. CASE approvedBy'[o] = approvedBy[o]
      BY <3>1, <3>3, <1>s DEF Kept
    <3> QED BY <2>8, <3>2, <3>3, <1>t DEF cancelAwaiting, OpsTyped
  <2>3. CASE attachOperationWorkflowRun(c)
    <3> Kept
      BY <2>3 DEF Kept, attachOperationWorkflowRun
    <3> QED BY <1>s
  <2>4. CASE approveOperation(c)
    <3> Kept
      BY <2>4, <1>t DEF Kept, approveOperation, OpsTyped
    <3> QED BY <1>s
  <2>5. CASE StartRun(c)
    <3>1. req[c].op \in Ops /\ status[req[c].op] # "absent"
      BY <2>5, <1>i, HandlerHas DEF StartRun
    <3>2. CASE o # req[c].op
      <4> Kept
        BY <2>5, <3>2, <1>t DEF Kept, StartRun, Goto, RunsTyped
      <4> QED BY <1>s
    <3>3. CASE o = req[c].op
      <4>1. /\ wf'[o] = IF kind[o] \in {"read", "lookup"} THEN "begin" ELSE "load"
            /\ hook'[o] = hook[o] /\ approvedBy' = approvedBy
        BY <2>5, <3>3, <1>t DEF StartRun, Goto, RunsTyped
      <4> QED BY <3>1, <3>3, <4>1, <1>p
    <3> QED BY <3>2, <3>3
  <2>6. CASE ResumeHook(c)
    <3>1. req[c].op \in Ops /\ status[req[c].op] # "absent"
      BY <2>6, <1>i, HandlerHas DEF ResumeHook
    <3>2. CASE o # req[c].op
      <4> Kept
        BY <2>6, <3>2, <1>t DEF Kept, ResumeHook, RunsTyped
      <4> QED BY <1>s
    <3>3. CASE o = req[c].op
      <4>1. /\ hook'[o] \in {hook[o], "canceled", "approved"}
            /\ hook'[o] = "approved" => hook[o] = "approved" \/ req[c].kind = "approve"
            /\ UNCHANGED <<wf, memo, approvedBy>>
        BY <2>6, <3>3, <1>t DEF ResumeHook, RunsTyped
      <4>2. req[c].kind = "approve" => approvedBy[o] \/ Closed(o)
        BY <2>6, <3>3, <1>i DEF ResumeHook, HandlerOK
      <4> QED BY <3>1, <3>3, <4>1, <4>2, <1>p
    <3> QED BY <3>2, <3>3
  <2>7. CASE KillRun(c)
    <3>1. req[c].op \in Ops /\ status[req[c].op] # "absent"
      BY <2>7, <1>i, HandlerHas DEF KillRun
    <3>2. CASE o # req[c].op
      <4> Kept
        BY <2>7, <3>2, <1>t DEF Kept, KillRun, Goto, RunsTyped
      <4> QED BY <1>s
    <3>3. CASE o = req[c].op
      <4>1. /\ \/ wf'[o] \in {"killed", "done"}
               \/ wf'[o] = "draining" /\ wf[o] \in {"applying", "draining"}
            /\ UNCHANGED <<hook, memo, approvedBy>>
        BY <2>7, <3>3, <1>t DEF KillRun, Goto, RunsTyped
      <4> QED BY <3>1, <3>3, <4>1, <1>p
    <3> QED BY <3>2, <3>3
  <2> QED BY <1>2, <2>1, <2>2, <2>3, <2>4, <2>5, <2>6, <2>7, <2>8 DEF HandlerStep
<1>3. ASSUME NEW x \in Ops, RunStep(x) PROVE Goal
  <2>a. wf[x] # "none" => status[x] # "absent"
    BY <1>i DEF ReferencesOK
  <2>1. CASE o # x
    <3> Kept
      BY <1>3, <2>1, <1>t DEF Kept, RunStep, LoadResource, Gate, HookApproved, cancelAwaitingOperation,
         StartMutation, Dispatch, PrepareFails, SkipProvider, BeginObservation, ProviderSucceeds,
         ReadSucceeds, ProviderFails, Drain, Complete, Fail, markOperationRunning,
         markOperationAwaitingApproval, markOperationSucceeded, markOperationFailed,
         SetStatus, Goto, RunsTyped
    <3> QED BY <1>s
  <2>2. CASE o = x
    <3> USE <2>2 DEF Goto
    <3>g. GatedByPolicy(kind[o]) => kind[o] \notin {"read", "lookup"}
      BY DEF GatedByPolicy, LockingKinds
    <3>1. CASE LoadResource(o)
      BY <3>1, <2>a, <1>p, <1>t, <3>g DEF LoadResource, RunsTyped
    <3>2. CASE Gate(o)
      <4>1. /\ wf'[o] \in {"waiting", "catch", "granted"} /\ wf[o] = "gate"
            /\ wf'[o] = "granted" => ~GatedByPolicy(kind[o])
            /\ UNCHANGED <<hook, memo, approvedBy>>
        BY <3>2, <1>t DEF Gate, markOperationRunning, markOperationAwaitingApproval, SetStatus, RunsTyped
      <4> QED BY <4>1, <2>a, <1>p
    <3>3. CASE HookApproved(o)
      <4>1. /\ \/ wf'[o] = "catch"
               \/ wf'[o] = "granted" /\ ~Closed(o) /\ status'[o] = "running"
            /\ wf[o] = "waiting" /\ hook[o] = "approved"
            /\ UNCHANGED <<hook, memo, approvedBy>>
        BY <3>3, <1>t DEF HookApproved, markOperationRunning, RunnableFrom, SetStatus, OpsTyped,
                          RunsTyped, Closed, ClosedStatuses
      <4> QED BY <4>1, <2>a, <1>p DEF BeforeGate
    <3>4. CASE cancelAwaitingOperation(o)
      <4>1. /\ wf'[o] \in {"catch", "done"} /\ wf[o] = "waiting"
            /\ UNCHANGED <<hook, memo, approvedBy>>
        BY <3>4, <1>t DEF cancelAwaitingOperation, SetStatus, RunsTyped
      <4> QED BY <4>1, <2>a, <1>p
    <3>5. CASE StartMutation(o)
      <4>1. /\ wf'[o] \in {"catch", "mutating"} /\ wf[o] = "granted"
            /\ UNCHANGED <<hook, memo, approvedBy>>
        BY <3>5, <1>t DEF StartMutation, markOperationRunning, SetStatus, RunsTyped
      <4> QED BY <4>1, <2>a, <1>p
    <3>6. CASE Dispatch(o) \/ PrepareFails(o)
      <4>1. /\ wf'[o] \in {"catch", "applying"} /\ wf[o] \in {"granted", "mutating"}
            /\ UNCHANGED <<hook, memo, approvedBy>>
        BY <3>6, <1>t DEF Dispatch, PrepareFails, RunsTyped
      <4> QED BY <4>1, <2>a, <1>p
    <3>7. CASE SkipProvider(o)
      <4>1. /\ wf'[o] = "complete" /\ wf[o] = "granted" /\ kind[o] # "read"
            /\ UNCHANGED <<hook, memo, approvedBy>>
        BY <3>7, <1>t DEF SkipProvider, RunsTyped
      <4> QED BY <4>1, <2>a, <1>p
    <3>8. CASE BeginObservation(o)
      <4>1. /\ wf'[o] \in {"catch", "load", "applying"} /\ wf[o] = "begin"
            /\ wf'[o] = "load" => kind[o] = "read"
            /\ UNCHANGED <<hook, memo, approvedBy>>
        BY <3>8, <1>t DEF BeginObservation, markOperationRunning, SetStatus, RunsTyped
      <4> QED BY <4>1, <2>a, <1>p, <3>g
    <3>9. CASE ProviderSucceeds(o) \/ ProviderFails(o) \/ Drain(o)
      <4>1. /\ \/ wf'[o] = "complete" /\ wf[o] = "applying" /\ kind[o] # "read"
               \/ wf'[o] \in {"catch", "killed"} /\ wf[o] # "none"
            /\ UNCHANGED <<hook, memo, approvedBy>>
        BY <3>9, <1>t DEF ProviderSucceeds, ProviderFails, Drain, RunsTyped
      <4> QED BY <4>1, <2>a, <1>p
    <3>10. ASSUME NEW p \in {"live", "missing", "none"}, ReadSucceeds(o, p) PROVE Goal
      <4>1. /\ wf'[o] = "complete" /\ wf[o] = "applying" /\ memo'[o] = p
            /\ UNCHANGED <<hook, approvedBy>>
        BY <3>10, <1>t DEF ReadSucceeds, RunsTyped
      <4> QED BY <4>1, <2>a, <1>p
    <3>11. CASE Complete(o) \/ Fail(o)
      <4>1. /\ wf'[o] \in {"catch", "done"} /\ wf[o] # "none"
            /\ UNCHANGED <<hook, memo, approvedBy>>
        BY <3>11, <1>t DEF Complete, Fail, markOperationSucceeded, markOperationFailed, SetStatus, RunsTyped
      <4> QED BY <4>1, <2>a, <1>p
    <3> QED BY <1>3, <3>1, <3>2, <3>3, <3>4, <3>5, <3>6, <3>7, <3>8, <3>9, <3>10, <3>11 DEF RunStep
  <2> QED BY <2>1, <2>2
<1>4. CASE UNCHANGED vars
  <2> Kept
    BY <1>4 DEF Kept
  <2> QED BY <1>s
<1> QED BY <1>1, <1>2, <1>3, <1>4 DEF Next

LEMMA ReferencesStep ==
    ASSUME IInv, [Next]_vars PROVE ReferencesOK'
<1> USE DEF IInv
<1>t. OpsTyped /\ RowsTyped /\ RunsTyped
  BY TypeParts
<1>1. ASSUME NEW o \in Ops, target'[o] \in Rows PROVE resStatus'[target'[o]] # "absent"
  <2>1. ASSUME NEW c \in Clients, NEW x \in Ops, NEW r \in Rows, InsertStub(c, x, r)
        PROVE  target'[o] = target[o] \/ (target'[o] = r /\ resStatus'[r] # "absent")
    BY <2>1, <1>t DEF InsertStub, OpsTyped, RowsTyped
  <2>2. ASSUME NEW c \in Clients, NEW x \in Ops, createOperation(c, x)
        PROVE  target'[o] = target[o] \/ (target'[o] = req[c].row /\ resStatus' = resStatus)
    BY <2>2, <1>t DEF createOperation, OpsTyped
  <2>3. ASSUME NEW x \in Ops, NEW s, NEW p, Transition(x, s, p) PROVE target' = target
    BY <2>3 DEF Transition, SetStatus
  <2>4. ASSUME NEW c \in Clients, NEW x \in Ops, createOperation(c, x)
        PROVE  req[c].row \in Rows => resStatus[req[c].row] # "absent"
    BY <2>4, HandlerHas, ConstantsAssumption DEF createOperation
  <2>5. target[o] \in Rows => resStatus'[target[o]] # "absent"
    BY Monotone DEF ReferencesOK
  <2> QED BY <1>1, <2>1, <2>2, <2>3, <2>4, <2>5, Shape DEF StepShape
<1>2. ASSUME NEW o \in Ops, status'[o] = "absent" PROVE wf'[o] = "none" /\ memo'[o] = "none"
  <2>1. status[o] = "absent" /\ wf[o] = "none" /\ memo[o] = "none"
    BY <1>2, Monotone DEF ReferencesOK
  <2>2. ASSUME NEW c \in Clients, HandlerStep(c) PROVE wf'[o] = wf[o] /\ memo' = memo
    <3>1. CASE StartRun(c) \/ KillRun(c)
      <4>1. req[c].op # o
        BY <2>1, <3>1, HandlerHas DEF StartRun, KillRun
      <4> QED BY <3>1, <4>1, <1>t DEF StartRun, KillRun, Goto, RunsTyped
    <3>2. CASE ~(StartRun(c) \/ KillRun(c))
      BY <2>2, <3>2 DEF HandlerStep, InsertStub, createOperation, Conflict,
         attachOperationWorkflowRun, approveOperation, cancelAwaiting, cancelPending,
         markOperationCanceling, ResumeHook
    <3> QED BY <3>1, <3>2
  <2>3. ASSUME NEW c \in Clients, NewRequest(c) \/ Crash(c) PROVE UNCHANGED <<wf, memo>>
    BY <2>3 DEF NewRequest, RequestStub, RequestOnRow, RequestLookup, RequestRetry,
                RequestApprove, RequestCancel, Crash
  <2>4. ASSUME NEW x \in Ops, RunStep(x) PROVE wf'[o] = wf[o] /\ memo'[o] = memo[o]
    <3>1. x # o
      BY <2>1, <2>4 DEF RunStep, LoadResource, Gate, HookApproved, cancelAwaitingOperation,
         StartMutation, Dispatch, PrepareFails, SkipProvider, BeginObservation,
         ProviderSucceeds, ReadSucceeds, ProviderFails, Drain, Complete, Fail
    <3> QED BY <2>4, <3>1, <1>t DEF RunStep, LoadResource, Gate, HookApproved,
         cancelAwaitingOperation, StartMutation, Dispatch, PrepareFails, SkipProvider,
         BeginObservation, ProviderSucceeds, ReadSucceeds, ProviderFails, Drain, Complete,
         Fail, markOperationRunning, markOperationAwaitingApproval, Goto, RunsTyped
  <2> QED BY <2>1, <2>2, <2>3, <2>4 DEF Next
<1> QED BY <1>1, <1>2 DEF ReferencesOK

LEMMA ApprovalKept ==
    ASSUME IInv, [Next]_vars, NEW o \in Ops, approvedBy[o] \/ Closed(o)
    PROVE  approvedBy'[o] \/ Closed(o)'
<1>c. CASE Closed(o)
  BY <1>c, StatusMoves DEF IInv
<1> SUFFICES ASSUME approvedBy[o] PROVE approvedBy'[o] \/ Closed(o)'
  BY <1>c
<1>t. OpsTyped
  BY TypeParts DEF IInv
<1>1. ASSUME NEW c \in Clients, NewRequest(c) \/ Crash(c) PROVE approvedBy' = approvedBy
  BY <1>1 DEF NewRequest, RequestStub, RequestOnRow, RequestLookup, RequestRetry,
              RequestApprove, RequestCancel, Crash
<1>2. ASSUME NEW c \in Clients, HandlerStep(c) PROVE approvedBy'[o] \/ Closed(o)'
  <2>1. CASE approveOperation(c)
    BY <2>1, <1>t DEF approveOperation, OpsTyped
  <2>2. CASE cancelAwaiting(c)
    BY <2>2, <1>t DEF cancelAwaiting, OpsTyped, Closed, ClosedStatuses
  <2>3. CASE ~approveOperation(c) /\ ~cancelAwaiting(c)
    BY <1>2, <2>3 DEF HandlerStep, InsertStub, createOperation, Conflict, StartRun,
       attachOperationWorkflowRun, cancelPending,
       markOperationCanceling, ResumeHook, KillRun, SetStatus
  <2> QED BY <2>1, <2>2, <2>3
<1>3. ASSUME NEW x \in Ops, RunStep(x) PROVE approvedBy' = approvedBy
  BY <1>3 DEF RunStep, LoadResource, Gate, HookApproved, cancelAwaitingOperation,
       StartMutation, Dispatch, PrepareFails, SkipProvider, BeginObservation,
       ProviderSucceeds, ReadSucceeds, ProviderFails, Drain, Complete, Fail,
       markOperationRunning, markOperationAwaitingApproval, markOperationSucceeded,
       markOperationFailed, SetStatus
<1> QED BY <1>1, <1>2, <1>3 DEF Next

\* What one handler may rely on: the body of HandlerOK for one client.
HandlerOKFor(q) ==
    /\ q.at = "insertStub" => q.kind \in StubKinds
    /\ q.at = "insert" => q.kind \in Kinds \ StubKinds
    /\ q.at = "insertRetry" => q.kind \in Kinds
    /\ q.at \in {"insert", "insertRetry"} =>
          IF q.kind = "lookup" THEN q.row = NoRow
          ELSE q.row \in Rows /\ resStatus[q.row] # "absent"
    /\ q.at \in {"start", "attach", "approve", "cancel", "resume", "killRun"} =>
          q.op \in Ops /\ status[q.op] # "absent"
    /\ q.at = "resume" /\ q.kind = "approve" => approvedBy[q.op] \/ Closed(q.op)
    /\ q.at = "cancel" => q.seen \in CancelAt

LEMMA HandlerMoves ==
    ASSUME IInv, [Next]_vars PROVE HandlerOK'
<1> USE DEF IInv
<1>t. OpsTyped /\ RowsTyped /\ RunsTyped /\ ReqTyped
  BY TypeParts
<1> SUFFICES ASSUME NEW d \in Clients PROVE HandlerOKFor(req[d])'
  BY DEF HandlerOK, HandlerOKFor
<1>k. ASSUME req'[d] = req[d] PROVE HandlerOKFor(req[d])'
  <2>1. HandlerOKFor(req[d])
    BY DEF HandlerOK, HandlerOKFor
  <2> QED BY <1>k, <2>1, Monotone, ApprovalKept DEF HandlerOKFor
<1>i. ASSUME req'[d] = Idle PROVE HandlerOKFor(req[d])'
  BY <1>i DEF HandlerOKFor, Idle
<1>1. ASSUME NEW c \in Clients, NewRequest(c) \/ HandlerStep(c) \/ Crash(c)
      PROVE  HandlerOKFor(req[d])'
  <2>1. CASE d # c
    <3> req'[d] = req[d]
      BY <1>1, <2>1, <1>t DEF ReqTyped, NewRequest, RequestStub, RequestOnRow, RequestLookup,
         RequestRetry, RequestApprove, RequestCancel, Crash, HandlerStep, InsertStub,
         createOperation, Conflict, StartRun, attachOperationWorkflowRun, approveOperation,
         cancelAwaiting, cancelPending, markOperationCanceling, ResumeHook, KillRun
    <3> QED BY <1>k
  <2>2. CASE d = c
    <3> USE <2>2
    <3>1. CASE NewRequest(d)
      <4>1. ASSUME NEW k \in StubKinds, NEW s \in Slugs, RequestStub(d, k, s) PROVE HandlerOKFor(req[d])'
        BY <4>1, <1>t DEF RequestStub, ReqTyped, Idle, HandlerOKFor
      <4>2. ASSUME NEW k \in Kinds, NEW r \in Rows, RequestOnRow(d, k, r) PROVE HandlerOKFor(req[d])'
        BY <4>2, <1>t DEF RequestOnRow, ReqTyped, Idle, HandlerOKFor, Live, LockingKinds
      <4>3. CASE RequestLookup(d)
        BY <4>3, <1>t DEF RequestLookup, ReqTyped, Idle, HandlerOKFor, Kinds, StubKinds
      <4>4. ASSUME NEW o \in Ops, RequestRetry(d, o) PROVE HandlerOKFor(req[d])'
        <5>1. /\ kind[o] \in Kinds
              /\ IF kind[o] = "lookup" THEN target[o] = NoRow
                 ELSE target[o] \in Rows /\ resStatus[target[o]] # "absent"
          BY <4>4, <1>t DEF RequestRetry, OpsTyped, ReferencesOK
        <5>2. req'[d] = [Idle EXCEPT !.at = "insertRetry", !.kind = kind[o], !.row = target[o]]
              /\ resStatus' = resStatus
          BY <4>4, <1>t DEF RequestRetry, ReqTyped
        <5> QED BY <5>1, <5>2 DEF Idle, HandlerOKFor
      <4>5. ASSUME NEW o \in Ops, RequestApprove(d, o) \/ RequestCancel(d, o) PROVE HandlerOKFor(req[d])'
        <5>1. CASE RequestApprove(d, o)
          BY <4>5, <5>1, <1>t DEF RequestApprove, ReqTyped, Idle, HandlerOKFor
        <5>2. CASE RequestCancel(d, o)
          <6>1. /\ req'[d] = [Idle EXCEPT !.at = "cancel", !.op = o, !.seen = status[o],
                     !.run = status[o] = "pending" /\ attached[o],
                     !.approved = status[o] = "awaiting_approval" /\ approvedBy[o]]
                /\ status[o] \in CancelAt /\ status' = status
            BY <5>2, <1>t DEF RequestCancel, ReqTyped
          <6>2. status[o] # "absent"
            BY <6>1, ConstantsAssumption DEF OpenStatuses
          <6>3. /\ req'[d].at = "cancel" /\ req'[d].op = o
                /\ req'[d].seen = status[o]
            BY <6>1 DEF Idle
          <6> QED BY <6>1, <6>2, <6>3 DEF HandlerOKFor
        <5> QED BY <4>5, <5>1, <5>2
      <4> QED BY <3>1, <4>1, <4>2, <4>3, <4>4, <4>5 DEF NewRequest
    <3>2. CASE HandlerStep(d)
      <4>1. ASSUME NEW o \in Ops, NEW r \in Rows, InsertStub(d, o, r) PROVE HandlerOKFor(req[d])'
        BY <4>1, <1>t DEF InsertStub, ReqTyped, OpsTyped, Idle, HandlerOKFor
      <4>2. ASSUME NEW o \in Ops, createOperation(d, o) PROVE HandlerOKFor(req[d])'
        BY <4>2, <1>t DEF createOperation, ReqTyped, OpsTyped, Idle, HandlerOKFor
      <4>3. CASE Conflict(d) \/ attachOperationWorkflowRun(d) \/ markOperationCanceling(d)
                 \/ ResumeHook(d) \/ KillRun(d)
        <5> req'[d] = Idle
          BY <4>3, <1>t DEF Conflict, attachOperationWorkflowRun, markOperationCanceling,
                            ResumeHook, KillRun, ReqTyped
        <5> QED BY <1>i
      <4>4. CASE StartRun(d)
        <5>1. req[d].op \in Ops /\ status[req[d].op] # "absent" /\ UNCHANGED opVars
          BY <4>4, HandlerHas DEF StartRun
        <5> QED BY <4>4, <5>1, <1>t DEF StartRun, ReqTyped, Handler, HandlerOKFor
      <4>5. CASE approveOperation(d)
        <5>1. req[d].op \in Ops /\ status[req[d].op] # "absent" /\ UNCHANGED status
          BY <4>5, HandlerHas DEF approveOperation
        <5>2. CASE approvedBy' = [approvedBy EXCEPT ![req[d].op] = TRUE] /\ req'[d] # Idle
          <6>1. req'[d] = [Idle EXCEPT !.at = "resume", !.op = req[d].op, !.kind = "approve"]
            BY <4>5, <5>2, <1>t DEF approveOperation, ReqTyped
          <6>2. req'[d].op = req[d].op /\ req'[d].at = "resume"
            BY <6>1 DEF Idle
          <6>3. approvedBy'[req[d].op]
            BY <5>1, <5>2, <1>t DEF OpsTyped
          <6> QED BY <5>1, <6>2, <6>3 DEF HandlerOKFor
        <5>3. CASE req'[d] = Idle
          BY <5>3, <1>i
        <5> QED BY <4>5, <5>2, <5>3, <1>t DEF approveOperation, ReqTyped
      <4>6. CASE cancelAwaiting(d)
        <5>1. req[d].op \in Ops /\ status'[req[d].op] # "absent"
          BY <4>6, HandlerHas, Monotone DEF cancelAwaiting
        <5>2. \/ req'[d] = Idle
              \/ req'[d] = [Idle EXCEPT !.at = "resume", !.op = req[d].op, !.kind = "cancel"]
          BY <4>6, <1>t DEF cancelAwaiting, ReqTyped
        <5> QED BY <5>1, <5>2, <1>i DEF Idle, HandlerOKFor
      <4>7. CASE cancelPending(d)
        <5>1. req[d].op \in Ops /\ status'[req[d].op] # "absent"
          BY <4>7, HandlerHas, Monotone DEF cancelPending
        <5>2. \/ req'[d] = Idle
              \/ req'[d] = [Idle EXCEPT !.at = "killRun", !.op = req[d].op]
          BY <4>7, <1>t DEF cancelPending, ReqTyped
        <5> QED BY <5>1, <5>2, <1>i DEF Idle, HandlerOKFor
      <4> QED BY <3>2, <4>1, <4>2, <4>3, <4>4, <4>5, <4>6, <4>7 DEF HandlerStep
    <3>3. CASE Crash(d)
      <4> req'[d] = Idle
        BY <3>3, <1>t DEF Crash, ReqTyped
      <4> QED BY <1>i
    <3> QED BY <1>1, <3>1, <3>2, <3>3
  <2> QED BY <2>1, <2>2
<1>2. ASSUME NEW o \in Ops, RunStep(o) PROVE HandlerOKFor(req[d])'
  <2> req' = req
    BY <1>2 DEF RunStep, LoadResource, Gate, HookApproved, cancelAwaitingOperation,
       StartMutation, Dispatch, PrepareFails, SkipProvider, BeginObservation,
       ProviderSucceeds, ReadSucceeds, ProviderFails, Drain, Complete, Fail
  <2> QED BY <1>k
<1> QED BY <1>1, <1>2, <1>k DEF Next

---------------------------------------------------------------------------
(* Theorems *)

LEMMA Initially == Init => IInv
<1> SUFFICES ASSUME Init PROVE IInv
  OBVIOUS
<1>1. OpsTyped /\ RowsTyped /\ RunsTyped
  BY DEF Init, OpsTyped, RowsTyped, RunsTyped, Statuses, RowStatuses, RunStates
<1>2. ReqTyped
  BY HandlerRecords DEF Init, ReqTyped
<1>3. HandlerOK
  BY DEF Init, HandlerOK, Idle
<1>4. ReferencesOK /\ ControlOK
  BY ConstantsAssumption DEF Init, ReferencesOK, ControlOK
<1>5. StubsNotUpdated /\ HookRecorded /\ GateLeft /\ LockExclusive /\ StubOwned /\ ApprovalRespected
  BY DEF Init, StubsNotUpdated, HookRecorded, GateLeft, PastGate, LockExclusive, StubOwned, ApprovalRespected,
         Holds, Open, OpenStatuses, Live
<1> QED BY <1>1, <1>2, <1>3, <1>4, <1>5, TypeParts DEF IInv

LEMMA Inductive == IInv /\ [Next]_vars => IInv'
<1> SUFFICES ASSUME IInv, [Next]_vars PROVE IInv'
  OBVIOUS
<1>1. TypeOK' /\ LockExclusive'
  BY TypeStep, LockStep DEF IInv
<1>2. HandlerOK' /\ ReferencesOK' /\ StubsNotUpdated' /\ StubOwned'
  BY HandlerMoves, ReferencesStep, NotUpdatedStep, StubStep
<1>3. ControlOK' /\ ApprovalRespected' /\ HookRecorded' /\ GateLeft'
  BY ControlStep DEF RunMove
<1> QED BY <1>1, <1>2, <1>3 DEF IInv

\* The strengthening holds in every reachable state.
THEOREM Invariance == Spec => []IInv
BY Initially, Inductive, PTL DEF Spec

\* Every variable stays in its type, whatever handlers and runs do
\* (operations.ts, approval.ts, workflows/index.ts).
THEOREM TypeCorrect == Spec => []TypeOK
<1>1. IInv => TypeOK
  BY DEF IInv
<1> QED BY <1>1, Invariance, PTL

\* For any number of operations, resources and concurrent clients, with
\* crashes: two open operations never hold the lock of one resource
\* (operations_open_lock_unique; no mark* writer reopens an operation).
THEOREM LockSafety == Spec => []LockExclusive
<1>1. IInv => LockExclusive
  BY DEF IInv
<1> QED BY <1>1, Invariance, PTL

\* A live `creating` or `importing` row always has the open operation that
\* will settle it (createResourceWithOperation, tombstoneFailedResourceStub,
\* cancelStubResourcePatch).
THEOREM StubSafety == Spec => []StubOwned
<1>1. IInv => StubOwned
  BY DEF IInv
<1> QED BY <1>1, Invariance, PTL

\* A gated operation passes its gate only with a recorded approval
\* (waitForOperationApproval, approveOperation).
THEOREM ApprovalSafety == Spec => []ApprovalRespected
<1>1. IInv => ApprovalRespected
  BY DEF IInv
<1> QED BY <1>1, Invariance, PTL

\* An operation that closed is never open again: cancel, approve, retry and
\* the retried steps of a run all find a guard (RunnableFrom, CancelableFrom)
\* or write another closed status.
THEOREM ClosedForever == Spec => ClosedStaysClosed
<1>1. ASSUME IInv, [Next]_vars, NEW o \in Ops, Closed(o) PROVE Closed(o)'
  BY <1>1, StatusMoves DEF IInv
<1>2. IInv /\ [Next]_vars => [\A o \in Ops : Closed(o) => Closed(o)']_vars
  BY <1>1
<1> QED BY <1>2, Invariance, PTL DEF Spec, ClosedStaysClosed

---------------------------------------------------------------------------
(* The lock.  When no client decides a cancel on a snapshot `pending`, no  *)
(* run is killed and an operation at the provider keeps the status, and    *)
(* with it the lock, that its gate gave it.                                *)

NoPendingCancel == "pending" \notin CancelAt

NoKill == \A c \in Clients : req[c].at # "killRun"

\* Past its gate and up to the provider's answer an operation is running, or
\* canceling, which stops nothing.
BusyHolds ==
    \A o \in Ops :
        /\ wf[o] # "draining"
        /\ kind[o] \in LockingKinds /\ wf[o] \in {"granted", "mutating", "applying"} =>
             status[o] \in {"running", "canceling"}

LockInv == NoPendingCancel /\ IInv /\ NoKill /\ BusyHolds

\* What one step does to the lock and the run of one operation: it closes
\* only while it is not at the provider.
LockTouch(o) ==
    /\ UNCHANGED <<kind, target>>
    /\ \A x \in Ops \ {o} : status'[x] = status[x] /\ wf'[x] = wf[x]
    /\ Open(o)' => Open(o)
    /\ Open(o) /\ ~Open(o)' => ~Applying(o) /\ ~Applying(o)'
    /\ wf'[o] # "draining"
    /\ kind[o] \in LockingKinds /\ wf'[o] \in {"granted", "mutating", "applying"} =>
         status'[o] \in {"running", "canceling"}

LockShape ==
    \/ \E c \in Clients, o \in Ops, r \in Rows : InsertStub(c, o, r)
    \/ \E c \in Clients, o \in Ops : createOperation(c, o)
    \/ \E o \in Ops : LockTouch(o)
    \/ UNCHANGED <<status, kind, target, wf>>

\* markOperationRunning moves on a running operation only.
LEMMA RunningTouch ==
    ASSUME LockInv, NEW o \in Ops, NEW p, NEW next,
           wf[o] \in {"gate", "waiting", "granted", "begin"}, next # "draining",
           markOperationRunning(o, p, next)
    PROVE  LockTouch(o)
<1>t. OpsTyped /\ RunsTyped
  BY TypeParts DEF LockInv, IInv
<1>1. CASE status[o] \in RunnableFrom /\ SetStatus(o, "running") /\ Goto(o, next)
  BY <1>t, <1>1 DEF LockTouch, SetStatus, Goto, OpsTyped, RunsTyped, RunnableFrom, Open,
                    OpenStatuses
<1>2. CASE status[o] = "running" /\ Goto(o, next) /\ UNCHANGED opVars
  BY <1>t, <1>2 DEF LockTouch, Goto, RunsTyped, Open
<1>3. CASE Goto(o, "catch") /\ UNCHANGED opVars
  BY <1>t, <1>3 DEF LockTouch, Goto, RunsTyped, Open
<1> QED BY <1>1, <1>2, <1>3 DEF markOperationRunning

\* A run goes on and its operation's status stays.
LEMMA GotoTouch ==
    ASSUME LockInv, NEW o \in Ops, NEW next, UNCHANGED <<status, kind, target>>, Goto(o, next),
           next # "draining",
           \/ next \notin {"granted", "mutating", "applying"}
           \/ kind[o] \notin LockingKinds
           \/ wf[o] \in {"granted", "mutating"}
    PROVE  LockTouch(o)
<1>t. OpsTyped /\ RunsTyped /\ BusyHolds
  BY TypeParts DEF LockInv, IInv
<1> QED BY <1>t DEF LockTouch, Goto, RunsTyped, Open, BusyHolds

\* The writers that close: the body has left the provider behind it, or has
\* not come to it.
LEMMA CloseTouch ==
    ASSUME LockInv, NEW o \in Ops, NEW s \in ClosedStatuses, NEW next \in {"done", "catch"},
           wf[o] \in {"waiting", "complete", "catch"}, SetStatus(o, s), Goto(o, next)
    PROVE  LockTouch(o)
<1>t. OpsTyped /\ RunsTyped
  BY TypeParts DEF LockInv, IInv
<1> QED BY <1>t DEF LockTouch, SetStatus, Goto, OpsTyped, RunsTyped, Open, OpenStatuses,
                    ClosedStatuses, Applying

\* The writers of the cancel route.
LEMMA CancelTouch ==
    ASSUME LockInv, NEW o \in Ops, NEW s, status' = [status EXCEPT ![o] = s],
           UNCHANGED <<kind, target, wf>>,
           \/ status[o] = "awaiting_approval" /\ s = "canceled"
           \/ status[o] = "running" /\ s = "canceling"
    PROVE  LockTouch(o)
<1>t. OpsTyped /\ BusyHolds
  BY TypeParts DEF LockInv, IInv
<1>1. UNCHANGED <<kind, target>> /\ status'[o] = s
  BY <1>t DEF OpsTyped
<1>2. \A x \in Ops \ {o} : status'[x] = status[x] /\ wf'[x] = wf[x]
  BY <1>t DEF OpsTyped
<1>3. status[o] = "awaiting_approval" => ~Applying(o)
  BY <1>t DEF BusyHolds, Applying, MutationKinds, LockingKinds
<1>4. Applying(o)' <=> Applying(o)
  BY <1>1 DEF Applying
<1> QED BY <1>t, <1>1, <1>2, <1>3, <1>4 DEF LockTouch, Open, OpenStatuses, BusyHolds

LEMMA LockShapes == LockInv /\ [Next]_vars => LockShape
<1> SUFFICES ASSUME LockInv, [Next]_vars PROVE LockShape
  OBVIOUS
<1>t. /\ OpsTyped /\ RunsTyped /\ ReqTyped /\ HandlerOK /\ ControlOK /\ BusyHolds
      /\ NoKill /\ NoPendingCancel
  BY TypeParts DEF LockInv, IInv
<1>s. ASSUME UNCHANGED <<status, kind, target, wf>> PROVE LockShape
  BY <1>s DEF LockShape
<1>o. ASSUME NEW o \in Ops, LockTouch(o) PROVE LockShape
  BY <1>o DEF LockShape
<1>1. ASSUME NEW c \in Clients, NewRequest(c) PROVE LockShape
  <2>1. UNCHANGED <<status, kind, target, wf>>
    BY <1>1 DEF NewRequest, RequestStub, RequestOnRow, RequestLookup, RequestRetry,
                RequestApprove, RequestCancel
  <2> QED BY <2>1, <1>s
<1>2. ASSUME NEW c \in Clients, HandlerStep(c) PROVE LockShape
  <2> DEFINE o == req[c].op
  <2>1. (\E x \in Ops, r \in Rows : InsertStub(c, x, r)) \/ (\E x \in Ops : createOperation(c, x))
        => LockShape
    BY DEF LockShape
  <2>2. CASE \/ Conflict(c) \/ attachOperationWorkflowRun(c) \/ approveOperation(c)
             \/ ResumeHook(c)
    <3>1. UNCHANGED <<status, kind, target, wf>>
      BY <2>2 DEF Conflict, attachOperationWorkflowRun, approveOperation, ResumeHook
    <3> QED BY <3>1, <1>s
  <2>3. CASE StartRun(c)
    <3>1. /\ o \in Ops /\ UNCHANGED <<status, kind, target>>
          /\ Goto(o, IF kind[o] \in {"read", "lookup"} THEN "begin" ELSE "load")
      BY <1>t, <2>3 DEF StartRun, HandlerOK
    <3>2. LockTouch(o)
      BY <3>1, GotoTouch
    <3> QED BY <3>1, <3>2, <1>o
  <2>4. CASE cancelAwaiting(c)
    <3>1. o \in Ops /\ UNCHANGED wf
      BY <1>t, <2>4 DEF cancelAwaiting, HandlerOK
    <3>2. \/ /\ status[o] = "awaiting_approval" /\ UNCHANGED <<kind, target>>
             /\ status' = [status EXCEPT ![o] = "canceled"]
          \/ UNCHANGED opVars
      BY <2>4 DEF cancelAwaiting
    <3>3. CASE /\ status[o] = "awaiting_approval" /\ UNCHANGED <<kind, target>>
               /\ status' = [status EXCEPT ![o] = "canceled"]
      <4>1. LockTouch(o)
        BY <3>1, <3>3, CancelTouch, Zenon
      <4> QED BY <3>1, <4>1, <1>o
    <3> QED BY <3>1, <3>2, <3>3, <1>s
  <2>5. CASE cancelPending(c)
    BY <1>t, <2>5 DEF cancelPending, HandlerOK, NoPendingCancel
  <2>6. CASE markOperationCanceling(c)
    <3>1. o \in Ops /\ UNCHANGED wf
      BY <1>t, <2>6 DEF markOperationCanceling, HandlerOK
    <3>2. \/ status[o] = "running" /\ SetStatus(o, "canceling")
          \/ UNCHANGED opVars
      BY <2>6 DEF markOperationCanceling
    <3>3. CASE status[o] = "running" /\ SetStatus(o, "canceling")
      <4>1. LockTouch(o)
        BY <3>1, <3>3, CancelTouch, Zenon DEF SetStatus
      <4> QED BY <3>1, <4>1, <1>o
    <3> QED BY <3>1, <3>2, <3>3, <1>s
  <2>7. CASE KillRun(c)
    BY <1>t, <2>7 DEF KillRun, NoKill
  <2> QED BY <1>2, <2>1, <2>2, <2>3, <2>4, <2>5, <2>6, <2>7, Zenon DEF HandlerStep
<1>3. ASSUME NEW c \in Clients, Crash(c) PROVE LockShape
  BY <1>3, <1>s DEF Crash
<1>4. ASSUME NEW o \in Ops, RunStep(o) PROVE LockTouch(o)
  <2>1. CASE LoadResource(o)
    <3>1. /\ UNCHANGED <<status, kind, target>>
          /\ Goto(o, IF kind[o] = "read" THEN "applying" ELSE "gate")
      BY <2>1 DEF LoadResource
    <3> QED BY <3>1, GotoTouch DEF LockingKinds
  <2>2. CASE Gate(o)
    <3>1. CASE GatedByPolicy(kind[o])
      <4>1. CASE status[o] = "pending" /\ SetStatus(o, "awaiting_approval") /\ Goto(o, "waiting")
        BY <1>t, <4>1 DEF LockTouch, SetStatus, Goto, OpsTyped, RunsTyped, Open, OpenStatuses
      <4>2. CASE Goto(o, "catch") /\ UNCHANGED opVars
        BY <4>2, GotoTouch
      <4> QED BY <2>2, <3>1, <4>1, <4>2 DEF Gate, markOperationAwaitingApproval
    <3>2. CASE ~GatedByPolicy(kind[o])
      BY <2>2, <3>2, RunningTouch DEF Gate
    <3> QED BY <3>1, <3>2
  <2>3. CASE HookApproved(o)
    BY <2>3, RunningTouch DEF HookApproved
  <2>4. CASE cancelAwaitingOperation(o)
    <3>1. CASE SetStatus(o, "canceled") /\ Goto(o, "done")
      BY <2>4, <3>1, CloseTouch DEF cancelAwaitingOperation, ClosedStatuses
    <3>2. CASE UNCHANGED opVars /\ Goto(o, IF status[o] = "canceled" THEN "done" ELSE "catch")
      BY <3>2, GotoTouch
    <3> QED BY <2>4, <3>1, <3>2 DEF cancelAwaitingOperation
  <2>5. CASE StartMutation(o)
    BY <2>5, RunningTouch DEF StartMutation
  <2>6. CASE Dispatch(o)
    <3>1. /\ wf[o] \in {"granted", "mutating"} /\ Goto(o, "applying")
          /\ UNCHANGED <<status, kind, target>>
      BY <2>6 DEF Dispatch
    <3> QED BY <3>1, GotoTouch
  <2>7. CASE PrepareFails(o) \/ SkipProvider(o) \/ ProviderSucceeds(o) \/ ProviderFails(o)
    <3>1. /\ UNCHANGED <<status, kind, target>>
          /\ \E next \in {"catch", "complete"} : Goto(o, next)
      BY <2>7 DEF PrepareFails, SkipProvider, ProviderSucceeds, ProviderFails
    <3> QED BY <3>1, GotoTouch
  <2>8. CASE BeginObservation(o)
    BY <2>8, RunningTouch DEF BeginObservation
  <2>9. ASSUME NEW p, ReadSucceeds(o, p) PROVE LockTouch(o)
    <3>1. UNCHANGED <<status, kind, target>> /\ Goto(o, "complete")
      BY <2>9 DEF ReadSucceeds
    <3> QED BY <3>1, GotoTouch
  <2>10. CASE Drain(o)
    BY <1>t, <2>10 DEF Drain, BusyHolds
  <2>11. CASE Complete(o)
    <3>1. /\ wf[o] = "complete" /\ SetStatus(o, "succeeded")
          /\ Goto(o, IF target[o] = NoRow THEN "catch" ELSE "done")
      BY <2>11 DEF Complete, markOperationSucceeded
    <3> QED BY <3>1, CloseTouch DEF ClosedStatuses
  <2>12. CASE Fail(o)
    <3>1. wf[o] = "catch" /\ SetStatus(o, "failed") /\ Goto(o, "done")
      BY <2>12 DEF Fail, markOperationFailed
    <3> QED BY <3>1, CloseTouch DEF ClosedStatuses
  <2> QED BY <1>4, <2>1, <2>2, <2>3, <2>4, <2>5, <2>6, <2>7, <2>8, <2>9, <2>10, <2>11, <2>12
          DEF RunStep
<1>5. CASE UNCHANGED vars
  BY <1>5, <1>s
<1> QED BY <1>1, <1>2, <1>3, <1>4, <1>5, <1>o DEF Next

LEMMA NoKillKept ==
    ASSUME LockInv, [Next]_vars PROVE NoKill'
<1>t. ReqTyped /\ HandlerOK /\ NoKill /\ NoPendingCancel
  BY TypeParts DEF LockInv, IInv
<1> SUFFICES ASSUME NEW d \in Clients PROVE req'[d].at # "killRun"
  BY DEF NoKill
<1>d. req[d].at # "killRun"
  BY <1>t DEF NoKill
<1>h. ASSUME NEW c \in Clients, NEW h, h.at # "killRun", req' = [req EXCEPT ![c] = h]
      PROVE  req'[d].at # "killRun"
  BY <1>t, <1>d, <1>h DEF ReqTyped
<1>i. Idle.at = "idle" /\ \A a : [Idle EXCEPT !.at = a].at = a
  BY DEF Idle
<1>1. ASSUME NEW c \in Clients, NewRequest(c) PROVE req'[d].at # "killRun"
  <2>1. ASSUME NEW k, NEW s, RequestStub(c, k, s) PROVE req'[d].at # "killRun"
    BY <1>h, <2>1 DEF RequestStub, Idle
  <2>2. ASSUME NEW k, NEW r, RequestOnRow(c, k, r) PROVE req'[d].at # "killRun"
    BY <1>h, <2>2 DEF RequestOnRow, Idle
  <2>3. CASE RequestLookup(c)
    BY <1>h, <2>3 DEF RequestLookup, Idle
  <2>4. ASSUME NEW o, RequestRetry(c, o) \/ RequestApprove(c, o) \/ RequestCancel(c, o)
        PROVE  req'[d].at # "killRun"
    BY <1>h, <2>4 DEF RequestRetry, RequestApprove, RequestCancel, Idle
  <2> QED BY <1>1, <2>1, <2>2, <2>3, <2>4 DEF NewRequest
<1>2. ASSUME NEW c \in Clients, HandlerStep(c) PROVE req'[d].at # "killRun"
  <2>1. CASE Conflict(c) \/ attachOperationWorkflowRun(c) \/ ResumeHook(c)
    BY <1>h, <1>i, <2>1 DEF Conflict, attachOperationWorkflowRun, ResumeHook
  <2>2. CASE StartRun(c)
    <3>1. [req[c] EXCEPT !.at = "attach"].at = "attach"
      BY <1>t DEF ReqTyped, Handler
    <3>2. req' = [req EXCEPT ![c] = [req[c] EXCEPT !.at = "attach"]]
      BY <2>2 DEF StartRun
    <3> QED BY <1>h, <3>1, <3>2
  <2>3. CASE approveOperation(c)
    <3>1. \E h : h.at # "killRun" /\ req' = [req EXCEPT ![c] = h]
      <4>1. [Idle EXCEPT !.at = "resume", !.op = req[c].op, !.kind = "approve"].at # "killRun"
        BY DEF Idle
      <4> QED BY <1>i, <2>3, <4>1, Zenon DEF approveOperation
    <3> QED BY <1>h, <3>1
  <2>4. ASSUME NEW o, NEW r, InsertStub(c, o, r) PROVE req'[d].at # "killRun"
    BY <1>h, <2>4 DEF InsertStub, Idle
  <2>5. ASSUME NEW o, createOperation(c, o) PROVE req'[d].at # "killRun"
    <3> DEFINE h == IF req[c].at = "insert" THEN [Idle EXCEPT !.at = "start", !.op = o] ELSE Idle
    <3>1. req' = [req EXCEPT ![c] = h]
      BY <2>5, <1>t DEF createOperation, ReqTyped
    <3>2. h.at # "killRun"
      BY DEF Idle
    <3> QED BY <1>h, <3>1, <3>2, Zenon
  <2>6. CASE cancelAwaiting(c)
    <3>1. \E h : h.at # "killRun" /\ req' = [req EXCEPT ![c] = h]
      <4>1. [Idle EXCEPT !.at = "resume", !.op = req[c].op, !.kind = "cancel"].at # "killRun"
        BY DEF Idle
      <4> QED BY <1>i, <2>6, <4>1, Zenon DEF cancelAwaiting
    <3> QED BY <1>h, <3>1
  <2>7. CASE markOperationCanceling(c)
    BY <1>h, <1>i, <2>7 DEF markOperationCanceling
  <2>8. CASE cancelPending(c)
    BY <1>t, <2>8 DEF cancelPending, HandlerOK, NoPendingCancel
  <2>9. CASE KillRun(c)
    BY <1>t, <2>9 DEF KillRun, NoKill
  <2> QED BY <1>2, <2>1, <2>2, <2>3, <2>4, <2>5, <2>6, <2>7, <2>8, <2>9, Zenon DEF HandlerStep
<1>3. ASSUME NEW c \in Clients, Crash(c) PROVE req'[d].at # "killRun"
  BY <1>h, <1>i, <1>3 DEF Crash
<1>4. ASSUME NEW o \in Ops, RunStep(o) PROVE UNCHANGED req
  BY <1>4 DEF RunStep, LoadResource, Gate, HookApproved, cancelAwaitingOperation, StartMutation,
              Dispatch, PrepareFails, SkipProvider, BeginObservation, ProviderSucceeds,
              ReadSucceeds, ProviderFails, Drain, Complete, Fail
<1>5. CASE UNCHANGED vars
  BY <1>d, <1>5
<1> QED BY <1>d, <1>1, <1>2, <1>3, <1>4, <1>5 DEF Next

LEMMA LockInvInitially == Init /\ NoPendingCancel => LockInv
<1>1. Init => NoKill /\ BusyHolds
  BY DEF Init, NoKill, BusyHolds, Idle
<1> QED BY <1>1, Initially DEF LockInv

\* An insert takes the lock of a row no open operation has.
LEMMA Inserts ==
    ASSUME LockInv, NEW c \in Clients, NEW o \in Ops,
           createOperation(c, o) \/ \E r \in Rows : InsertStub(c, o, r)
    PROVE  /\ UNCHANGED wf /\ wf[o] = "none" /\ status[o] = "absent"
           /\ \A x \in Ops \ {o} : /\ status'[x] = status[x] /\ kind'[x] = kind[x]
                                   /\ target'[x] = target[x]
           /\ kind'[o] \in LockingKinds /\ target'[o] \in Rows =>
                \A x \in Ops : ~Holds(x, target'[o])
<1>t. OpsTyped /\ ReferencesOK /\ HandlerOK
  BY TypeParts DEF LockInv, IInv
<1>1. ASSUME NEW r \in Rows, InsertStub(c, o, r), NEW x \in Ops PROVE ~Holds(x, r)
  BY <1>t, <1>1 DEF InsertStub, ReferencesOK, Holds
<1>2. CASE createOperation(c, o)
  BY <1>t, <1>2 DEF createOperation, ReferencesOK, OpsTyped, LockFree
<1>3. ASSUME NEW r \in Rows, InsertStub(c, o, r)
      PROVE  /\ UNCHANGED wf /\ wf[o] = "none" /\ status[o] = "absent"
             /\ \A x \in Ops \ {o} : /\ status'[x] = status[x] /\ kind'[x] = kind[x]
                                     /\ target'[x] = target[x]
             /\ target'[o] = r
  BY <1>t, <1>3 DEF InsertStub, ReferencesOK, OpsTyped
<1> QED BY <1>1, <1>2, <1>3

LEMMA LockInvInductive == LockInv /\ [Next]_vars => LockInv'
<1> SUFFICES ASSUME LockInv, [Next]_vars PROVE LockInv'
  OBVIOUS
<1>1. IInv' /\ NoKill'
  BY Inductive, NoKillKept DEF LockInv
<1>2. LockShape
  BY LockShapes
<1>3. BusyHolds'
  <2> SUFFICES ASSUME NEW x \in Ops
               PROVE  /\ wf'[x] # "draining"
                      /\ kind'[x] \in LockingKinds /\ wf'[x] \in {"granted", "mutating", "applying"}
                           => status'[x] \in {"running", "canceling"}
    BY DEF BusyHolds
  <2>b. /\ wf[x] # "draining"
        /\ kind[x] \in LockingKinds /\ wf[x] \in {"granted", "mutating", "applying"}
             => status[x] \in {"running", "canceling"}
    BY DEF LockInv, BusyHolds
  <2>1. ASSUME NEW c \in Clients, NEW o \in Ops,
               createOperation(c, o) \/ \E r \in Rows : InsertStub(c, o, r)
        PROVE  /\ wf'[x] # "draining"
               /\ kind'[x] \in LockingKinds /\ wf'[x] \in {"granted", "mutating", "applying"}
                    => status'[x] \in {"running", "canceling"}
    <3>1. /\ UNCHANGED wf /\ wf[o] = "none"
          /\ x # o => status'[x] = status[x] /\ kind'[x] = kind[x]
      BY <2>1, Inserts
    <3> QED BY <2>b, <3>1
  <2>2. ASSUME NEW o \in Ops, LockTouch(o)
        PROVE  /\ wf'[x] # "draining"
               /\ kind'[x] \in LockingKinds /\ wf'[x] \in {"granted", "mutating", "applying"}
                    => status'[x] \in {"running", "canceling"}
    BY <2>b, <2>2 DEF LockTouch
  <2>3. CASE UNCHANGED <<status, kind, target, wf>>
    BY <2>b, <2>3
  <2> QED BY <1>2, <2>1, <2>2, <2>3 DEF LockShape
<1> QED BY <1>1, <1>3 DEF LockInv, NoPendingCancel

LEMMA LockInvariance == NoPendingCancel /\ Spec => []LockInv
BY LockInvInitially, LockInvInductive, PTL DEF Spec

(* The refinement mapping *)

\* Who owns a row in the abstract lock is who holds it.
HeldByHolder ==
    /\ HeldBy \in [Rows -> Ops \cup {NoOp}]
    /\ \A r \in Rows, o \in Ops : HeldBy[r] = o <=> Holds(o, r)

LEMMA HeldByIs == LockExclusive => HeldByHolder
<1> SUFFICES ASSUME LockExclusive PROVE HeldByHolder
  OBVIOUS
<1>1. ASSUME NEW r \in Rows, NEW o \in Ops, Holds(o, r) PROVE HeldBy[r] = o
  <2>1. HeldBy[r] = CHOOSE x \in Ops : Holds(x, r)
    BY <1>1 DEF HeldBy
  <2>2. (CHOOSE x \in Ops : Holds(x, r)) \in Ops /\ Holds(CHOOSE x \in Ops : Holds(x, r), r)
    BY <1>1, Zenon
  <2> QED BY <1>1, <2>1, <2>2 DEF LockExclusive
<1>2. ASSUME NEW r \in Rows, \A o \in Ops : ~Holds(o, r) PROVE HeldBy[r] = NoOp
  BY <1>2 DEF HeldBy
<1>3. \A r \in Rows : HeldBy[r] \in Ops \cup {NoOp}
  BY <1>1, <1>2
<1>4. HeldBy = [r \in Rows |-> HeldBy[r]]
  BY DEF HeldBy
<1>5. \A r \in Rows, o \in Ops : HeldBy[r] = o <=> Holds(o, r)
  BY <1>1, <1>2, ConstantsAssumption
<1> QED BY <1>3, <1>4, <1>5 DEF HeldByHolder

LEMMA HeldByIsNext == LockExclusive' => HeldByHolder'
BY HeldByIs, PTL

\* One step of the abstract lock, from what changes hands and who is busy.
LEMMA AcquireIs ==
    ASSUME HeldByHolder, HeldByHolder', NEW o \in Ops, NEW r \in Rows,
           \A x \in Ops, q \in Rows : Holds(x, q)' <=> Holds(x, q) \/ (x = o /\ q = r),
           \A x \in Ops : ~Holds(x, r), \A q \in Rows : ~Holds(o, q),
           UNCHANGED AtProvider
    PROVE  Lock!Next
<1>1. HeldBy[r] = NoOp /\ ~Lock!Owns(o)
  BY DEF HeldByHolder, Lock!Owns
<1>2. HeldBy' = [HeldBy EXCEPT ![r] = o]
  <2>1. HeldBy'[r] = o
    BY DEF HeldByHolder
  <2>2. ASSUME NEW q \in Rows, q # r PROVE HeldBy'[q] = HeldBy[q]
    <3>1. \A x \in Ops : HeldBy'[q] = x <=> HeldBy[q] = x
      BY <2>2 DEF HeldByHolder
    <3> QED BY <3>1 DEF HeldByHolder
  <2> QED BY <2>1, <2>2 DEF HeldByHolder
<1>3. Lock!Acquire(o, r)
  BY <1>1, <1>2 DEF Lock!Acquire
<1> QED BY <1>3 DEF Lock!Next

LEMMA ReleaseIs ==
    ASSUME HeldByHolder, HeldByHolder', NEW o \in Ops, NEW r \in Rows, Holds(o, r),
           \A x \in Ops, q \in Rows : Holds(x, q)' <=> Holds(x, q) /\ x # o,
           \A q \in Rows : Holds(o, q) => q = r,
           o \notin AtProvider, UNCHANGED AtProvider
    PROVE  Lock!Next
<1>1. HeldBy[r] = o
  BY DEF HeldByHolder
<1>2. HeldBy' = [HeldBy EXCEPT ![r] = NoOp]
  <2>1. HeldBy'[r] = NoOp
    BY DEF HeldByHolder
  <2>2. ASSUME NEW q \in Rows, q # r PROVE HeldBy'[q] = HeldBy[q]
    <3>1. \A x \in Ops : HeldBy'[q] = x <=> HeldBy[q] = x
      BY <2>2 DEF HeldByHolder
    <3> QED BY <3>1 DEF HeldByHolder
  <2> QED BY <2>1, <2>2 DEF HeldByHolder
<1>3. Lock!Release(r)
  BY <1>1, <1>2, ConstantsAssumption DEF Lock!Release
<1> QED BY <1>3 DEF Lock!Next

LEMMA SameHolder ==
    ASSUME HeldByHolder, HeldByHolder',
           \A x \in Ops, q \in Rows : Holds(x, q)' <=> Holds(x, q)
    PROVE  UNCHANGED HeldBy
<1>1. ASSUME NEW q \in Rows PROVE HeldBy'[q] = HeldBy[q]
  <2>1. \A x \in Ops : HeldBy'[q] = x <=> HeldBy[q] = x
    BY DEF HeldByHolder
  <2> QED BY <2>1 DEF HeldByHolder
<1> QED BY <1>1 DEF HeldByHolder

LEMMA LockRefined == LockInv /\ LockInv' /\ [Next]_vars => [Lock!Next]_(Lock!vars)
<1> SUFFICES ASSUME LockInv, LockInv', [Next]_vars PROVE [Lock!Next]_(Lock!vars)
  OBVIOUS
<1>h. HeldByHolder /\ HeldByHolder'
  BY HeldByIs, HeldByIsNext DEF LockInv, IInv
<1>t. OpsTyped /\ BusyHolds /\ BusyHolds' /\ OpsTyped'
  BY TypeParts, TypePartsNext DEF LockInv, IInv
<1>s. ASSUME UNCHANGED HeldBy, UNCHANGED AtProvider PROVE [Lock!Next]_(Lock!vars)
  BY <1>s DEF Lock!vars
<1>1. ASSUME NEW c \in Clients, NEW o \in Ops,
             createOperation(c, o) \/ \E r \in Rows : InsertStub(c, o, r)
      PROVE  [Lock!Next]_(Lock!vars)
  <2> DEFINE r == target'[o]
  <2>1. /\ UNCHANGED wf /\ wf[o] = "none" /\ status[o] = "absent"
        /\ \A x \in Ops \ {o} : /\ status'[x] = status[x] /\ kind'[x] = kind[x]
                                /\ target'[x] = target[x]
        /\ kind'[o] \in LockingKinds /\ r \in Rows => \A x \in Ops : ~Holds(x, r)
    BY <1>1, Inserts
  <2>2. UNCHANGED AtProvider
    BY <2>1 DEF AtProvider, Applying
  <2>3. \A x \in Ops \ {o}, q \in Rows : Holds(x, q)' <=> Holds(x, q)
    BY <2>1 DEF Holds, Open
  <2>4. \A q \in Rows : ~Holds(o, q)
    BY <2>1 DEF Holds, Open, OpenStatuses
  <2>5. CASE Open(o)' /\ kind'[o] \in LockingKinds /\ r \in Rows
    <3>1. \A q \in Rows : Holds(o, q)' <=> q = r
      BY <2>5 DEF Holds
    <3>2. \A x \in Ops, q \in Rows : Holds(x, q)' <=> Holds(x, q) \/ (x = o /\ q = r)
      BY <2>3, <2>4, <3>1
    <3>3. \A x \in Ops : ~Holds(x, r)
      BY <2>1, <2>5
    <3> HIDE DEF r
    <3> QED BY <1>h, <2>2, <2>4, <2>5, <3>2, <3>3, AcquireIs
  <2>6. CASE ~(Open(o)' /\ kind'[o] \in LockingKinds /\ r \in Rows)
    <3>1. \A q \in Rows : ~Holds(o, q)'
      BY <2>6 DEF Holds
    <3>2. \A x \in Ops, q \in Rows : Holds(x, q)' <=> Holds(x, q)
      BY <2>3, <2>4, <3>1
    <3> QED BY <1>h, <1>s, <2>2, <3>2, SameHolder
  <2> QED BY <2>5, <2>6
<1>2. ASSUME NEW o \in Ops, LockTouch(o) PROVE [Lock!Next]_(Lock!vars)
  <2>1. /\ UNCHANGED <<kind, target>>
        /\ \A x \in Ops \ {o} : status'[x] = status[x] /\ wf'[x] = wf[x]
        /\ Open(o)' => Open(o)
        /\ Open(o) /\ ~Open(o)' => ~Applying(o) /\ ~Applying(o)'
    BY <1>2 DEF LockTouch
  <2>2. \A x \in Ops \ {o}, q \in Rows : Holds(x, q)' <=> Holds(x, q)
    BY <2>1 DEF Holds, Open
  <2>3. \A x \in Ops \ {o} : Applying(x)' <=> Applying(x)
    BY <2>1 DEF Applying
  <2>4. CASE Open(o)' <=> Open(o)
    <3>1. \A x \in Ops, q \in Rows : Holds(x, q)' <=> Holds(x, q)
      BY <2>1, <2>2, <2>4 DEF Holds
    <3>2. UNCHANGED HeldBy
      BY <1>h, <3>1, SameHolder
    <3>3. CASE Applying(o)' <=> Applying(o)
      <4>1. UNCHANGED AtProvider
        BY <2>3, <3>3 DEF AtProvider
      <4> QED BY <1>s, <3>2, <4>1
    <3>4. CASE Applying(o)' /\ ~Applying(o)
      <4>1. kind[o] \in MutationKinds /\ wf'[o] = "applying"
        BY <1>t, <2>1, <3>4 DEF Applying, BusyHolds
      <4>2. Open(o) /\ target[o] \in Rows
        BY <1>t, <2>1, <2>4, <4>1
        DEF BusyHolds, OpsTyped, MutationKinds, LockingKinds, Open, OpenStatuses
      <4>3. Lock!Owns(o)
        BY <1>h, <4>1, <4>2 DEF Lock!Owns, HeldByHolder, Holds, MutationKinds, LockingKinds
      <4>4. o \notin AtProvider /\ AtProvider' = AtProvider \cup {o}
        BY <2>3, <3>4 DEF AtProvider
      <4>5. Lock!Enter(o)
        BY <3>2, <4>3, <4>4 DEF Lock!Enter
      <4> QED BY <4>5 DEF Lock!Next
    <3>5. CASE ~Applying(o)' /\ Applying(o)
      <4>1. o \in AtProvider /\ AtProvider' = AtProvider \ {o}
        BY <2>3, <3>5 DEF AtProvider
      <4>2. Lock!Leave(o)
        BY <3>2, <4>1 DEF Lock!Leave
      <4> QED BY <4>2 DEF Lock!Next
    <3> QED BY <3>3, <3>4, <3>5
  <2>5. CASE Open(o) /\ ~Open(o)'
    <3>1. UNCHANGED AtProvider /\ o \notin AtProvider
      BY <2>1, <2>3, <2>5 DEF AtProvider
    <3>2. \A q \in Rows : ~Holds(o, q)'
      BY <2>5 DEF Holds
    <3>3. CASE Holds(o, target[o]) /\ target[o] \in Rows
      <4>1. \A x \in Ops, q \in Rows : Holds(x, q)' <=> Holds(x, q) /\ x # o
        BY <2>2, <3>2
      <4>2. \A q \in Rows : Holds(o, q) => q = target[o]
        BY DEF Holds
      <4> QED BY <1>h, <3>1, <3>3, <4>1, <4>2, ReleaseIs
    <3>4. CASE ~(Holds(o, target[o]) /\ target[o] \in Rows)
      <4>1. \A q \in Rows : ~Holds(o, q)
        BY <3>4 DEF Holds
      <4>2. \A x \in Ops, q \in Rows : Holds(x, q)' <=> Holds(x, q)
        BY <2>2, <3>2, <4>1
      <4> QED BY <1>h, <1>s, <3>1, <4>2, SameHolder
    <3> QED BY <3>3, <3>4
  <2> QED BY <2>1, <2>4, <2>5
<1>3. CASE UNCHANGED <<status, kind, target, wf>>
  <2>1. \A x \in Ops, q \in Rows : Holds(x, q)' <=> Holds(x, q)
    BY <1>3 DEF Holds, Open
  <2>2. UNCHANGED AtProvider
    BY <1>3 DEF AtProvider, Applying
  <2> QED BY <1>h, <1>s, <2>1, <2>2, SameHolder
<1> QED BY <1>1, <1>2, <1>3, LockShapes DEF LockShape

\* Unless a client decides a cancel on a snapshot `pending`, the operations
\* implement a plain lock per resource, whoever creates, approves, cancels,
\* retries or crashes: it is acquired at the insert, an operation is at the
\* provider only while it holds it, and it is not given up before the call
\* has ended (operations_open_lock_unique, the guards of the mark* writers
\* and the order of the workflow bodies).
THEOREM LockRefinement == NoPendingCancel /\ Spec => ImplementsLock
<1>1. Init => Lock!Init
  BY DEF Init, Lock!Init, HeldBy, AtProvider, Holds, Applying, Open, OpenStatuses
<1>2. LockInv /\ LockInv' /\ [Next]_vars => [Lock!Next]_(Lock!vars)
  BY LockRefined
<1> QED BY <1>1, <1>2, LockInvariance, PTL DEF Spec, ImplementsLock, Lock!Spec
============================================================================
