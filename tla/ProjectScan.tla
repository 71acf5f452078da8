---------------------------- MODULE ProjectScan ----------------------------
(***************************************************************************)
(* The scan of a project (apps/api/src/projects): who starts one, the      *)
(* durable workflow that walks the applied resources in batches, and the   *)
(* alignment operations that write what the cloud says into the rows.      *)
(*                                                                         *)
(* Around it are what it runs beside: users' operations on the same        *)
(* resources (reduced to taking the lock and closing; Operations has their *)
(* steps), cancels and retries of the scan's own operations, the deletion  *)
(* of the integration, and a cloud that changes by itself.                 *)
(*                                                                         *)
(* Every await is a boundary between two steps.  A row's inputs and        *)
(* outputs are one value, its facts; the counts shown to a user are the    *)
(* outcomes of the rows.  A restart of the process is a retry of a step.   *)
(***************************************************************************)
EXTENDS Integers, FiniteSets, FiniteSetsExt

CONSTANTS
    Resources,       \* ids of resource rows, in the order of their ids
    Scans,           \* operations of kind scan, in the order of their insert
    Starters,        \* handlers and ticks that start scans
    SCAN_BATCH_SIZE,
    Facts,           \* what a cloud object may look like
    MaxEvents        \* how often users, the cloud and faults intervene

ASSUME ScanAssumption ==
    /\ Resources \subseteq Nat \ {0} /\ IsFiniteSet(Resources)
    /\ Scans \subseteq Nat \ {0} /\ IsFiniteSet(Scans)
    /\ SCAN_BATCH_SIZE \in Nat \ {0}
    /\ "gone" \notin Facts /\ MaxEvents \in Nat

VARIABLES
    row,          \* [status, facts] of each resource
    cloud,        \* what the provider would read of each resource
    holder,       \* who has the open operation on each resource
    integration,  \* of the project: live, its delete checked, or deleted
    due,          \* last_scan_claimed_at is older than the interval
    starter,      \* what each starter is about to do, and its scan
    scan,         \* the scan operations with their runs
    work,         \* what a run holds of each resource of its batch
    counted,      \* the resources a run has counted, under any outcome
    canceler,     \* a cancel of a scan between its read and its writes
    events        \* how often somebody intervened

vars == <<row, cloud, holder, integration, due, starter, scan, work, counted,
          canceler, events>>

rowVars == <<row, cloud, holder, integration>>
runVars == <<scan, work, counted>>

---------------------------------------------------------------------------
(* State *)

NoFacts == "none"
Gone == "gone"
NoScan == 0
\* Who has the lock of a resource: a scan, or one of
Nobody == 0
User == -1

\* "stub" has no identity yet; "deleted" is deleted_at, whatever the status.
RowStatuses == {"absent", "stub", "live", "missing", "deleted"}
OpenStatuses == {"pending", "running", "canceling"}
Statuses == OpenStatuses \cup {"absent", "succeeded", "failed", "canceled"}

\* Where scanProjectWorkflow is: not started, or at the step of that name.
Stages == {"none", "start", "next", "group", "page", "fail", "done", "killed"}

NoWork == [at |-> "none", was |-> "absent", facts |-> NoFacts, saw |-> NoFacts]

\* older: the rows created before the scan; applied (history): those of them
\* that were applied by then.
NoOp == [status |-> "absent", at |-> "none", attached |-> FALSE,
         older |-> {}, applied |-> {}, cursor |-> 0]

\* A closed operation whose run is over.
Over(s, status, at) ==
    scan' = [scan EXCEPT ![s] = [NoOp EXCEPT !.status = status, !.at = at]]

\* What a run holds in memory is gone with it.
Forget(s) ==
    /\ work' = [work EXCEPT ![s] = [r \in Resources |-> NoWork]]
    /\ counted' = [counted EXCEPT ![s] = {}]

NoCancel == [at |-> "idle", scan |-> NoScan, attached |-> FALSE]

Free == [at |-> "idle", scan |-> NoScan]

TypeOK ==
    /\ row \in [Resources -> [status : RowStatuses, facts : Facts \cup {NoFacts}]]
    /\ cloud \in [Resources -> Facts \cup {Gone}]
    /\ holder \in [Resources -> {Nobody, User} \cup Scans]
    /\ integration \in {"live", "checked", "deleted"}
    /\ due \in BOOLEAN
    /\ starter \in [Starters -> [at : {"idle", "insert", "claim", "start", "attach"},
                                 scan : Scans \cup {NoScan}]]
    /\ scan \in [Scans -> [status : Statuses, at : Stages, attached : BOOLEAN,
                           older : SUBSET Resources, applied : SUBSET Resources,
                           cursor : Resources \cup {0}]]
    /\ work \in [Scans -> [Resources ->
          [at : {"none", "group", "read", "got", "drift", "opened", "canceled"}, was : RowStatuses,
           facts : Facts \cup {NoFacts}, saw : Facts \cup {NoFacts, Gone}]]]
    /\ counted \in [Scans -> SUBSET Resources]
    /\ canceler \in [at : {"idle", "pending", "running", "kill"},
                     scan : Scans \cup {NoScan}, attached : BOOLEAN]
    /\ events \in 0..MaxEvents

\* A project with no resources yet, or with all applied, and in the cloud as
\* they were applied or not.
Init ==
    /\ \E there \in {{}, Resources}, f \in Facts, c \in Facts \cup {Gone} :
          /\ row = [r \in Resources |-> IF r \in there
                       THEN [status |-> "live", facts |-> f]
                       ELSE [status |-> "absent", facts |-> NoFacts]]
          /\ cloud = [r \in Resources |-> IF r \in there THEN c ELSE Gone]
    /\ holder = [r \in Resources |-> Nobody]
    /\ integration = "live"
    /\ due = FALSE
    /\ starter = [p \in Starters |-> Free]
    /\ scan = [s \in Scans |-> NoOp]
    /\ work = [s \in Scans |-> [r \in Resources |-> NoWork]]
    /\ counted = [s \in Scans |-> {}]
    /\ canceler = NoCancel
    /\ events = 0

---------------------------------------------------------------------------
(* Users, the cloud and the clock *)

\* An intervention of a user, of the cloud or of a fault.
Event == events < MaxEvents /\ events' = events + 1

Present(r) == row[r].status \notin {"absent", "deleted"}

\* createOperation on an existing row; the open-lock index admits one.
UserOpens(r) ==
    /\ Event
    /\ row[r].status \in {"live", "missing"} /\ holder[r] = Nobody
    /\ holder' = [holder EXCEPT ![r] = User]
    /\ UNCHANGED <<row, cloud, integration, due, starter, canceler>> /\ UNCHANGED runVars

\* createResourceWithOperation, with the integration resolved before.
UserCreates(r) ==
    /\ Event
    /\ row[r].status = "absent" /\ integration # "deleted"
    /\ row' = [row EXCEPT ![r].status = "stub"]
    /\ holder' = [holder EXCEPT ![r] = User]
    /\ UNCHANGED <<cloud, integration, due, starter, canceler>> /\ UNCHANGED runVars

\* The operation ends: applied, destroyed, or failed; a failed create leaves
\* a tombstone.
UserCloses(r) ==
    /\ holder[r] = User
    /\ holder' = [holder EXCEPT ![r] = Nobody]
    /\ \/ \E f \in Facts :
             /\ cloud' = [cloud EXCEPT ![r] = f]
             /\ row' = [row EXCEPT ![r] = [status |-> "live", facts |-> f]]
       \/ /\ row[r].status # "stub"
          /\ cloud' = [cloud EXCEPT ![r] = Gone]
          /\ row' = [row EXCEPT ![r].status = "deleted"]
       \/ /\ row' = IF row[r].status = "stub"
                    THEN [row EXCEPT ![r].status = "deleted"] ELSE row
          /\ UNCHANGED cloud
    /\ UNCHANGED <<events, integration, due, starter, canceler>> /\ UNCHANGED runVars

Drift(r) ==
    /\ Event
    /\ Present(r) /\ row[r].status # "stub"
    /\ \E c \in (Facts \cup {Gone}) \ {cloud[r]} : cloud' = [cloud EXCEPT ![r] = c]
    /\ UNCHANGED <<row, holder, integration, due, starter, canceler>> /\ UNCHANGED runVars

\* deleteIntegration looks for active resources, then deletes.
CheckIntegration ==
    /\ Event
    /\ integration = "live" /\ \A r \in Resources : ~Present(r)
    /\ integration' = "checked"
    /\ UNCHANGED <<row, cloud, holder, due, starter, canceler>> /\ UNCHANGED runVars

deleteIntegration ==
    /\ integration = "checked"
    /\ integration' = "deleted"
    /\ UNCHANGED <<events, row, cloud, holder, due, starter, canceler>> /\ UNCHANGED runVars

IntervalOver ==
    /\ ~due /\ due' = TRUE
    /\ UNCHANGED <<events, starter, canceler>> /\ UNCHANGED rowVars /\ UNCHANGED runVars

---------------------------------------------------------------------------
(* Starting a scan *)

Unused == {s \in Scans : scan[s].status = "absent"}
ScanOpen == \E s \in Scans : scan[s].status \in OpenStatuses

\* createOperation with the lock of the project's scan: the candidates are
\* the rows that exist by now.
InsertScan(s) ==
    scan' = [scan EXCEPT ![s] =
        [NoOp EXCEPT !.status = "pending",
                     !.older = {r \in Resources : row[r].status # "absent"},
                     !.applied = {r \in Resources : row[r].status \in {"live", "missing"}}]]

\* runScanLoopTick found the project eligible.
Tick(p) ==
    /\ starter[p].at = "idle" /\ due /\ Unused # {}
    /\ starter' = [starter EXCEPT ![p].at = "insert"]
    /\ UNCHANGED <<events, due, canceler>> /\ UNCHANGED rowVars /\ UNCHANGED runVars

\* POST /:project/scan; when the interval is over it does what a tick does.
PostScan(p) ==
    /\ Event
    /\ starter[p].at = "idle" /\ ~due /\ Unused # {}
    /\ starter' = [starter EXCEPT ![p].at = "insert"]
    /\ UNCHANGED <<due, canceler>> /\ UNCHANGED rowVars /\ UNCHANGED runVars

startProjectScan(p) ==
    /\ starter[p].at = "insert"
    /\ \/ /\ ~ScanOpen /\ Unused # {}
          /\ InsertScan(Min(Unused))
          /\ starter' = [starter EXCEPT ![p] = [at |-> "claim", scan |-> Min(Unused)]]
       \/ /\ ScanOpen \/ Unused = {}
          /\ starter' = [starter EXCEPT ![p] = Free]
          /\ UNCHANGED scan
    /\ UNCHANGED <<events, due, canceler, work, counted>> /\ UNCHANGED rowVars

claimProjectScan(p) ==
    /\ starter[p].at = "claim"
    /\ due' = FALSE
    /\ starter' = [starter EXCEPT ![p].at = "start"]
    /\ UNCHANGED <<events, canceler>> /\ UNCHANGED rowVars /\ UNCHANGED runVars

StartRun(p) ==
    /\ starter[p].at = "start"
    /\ scan' = [scan EXCEPT ![starter[p].scan].at = "start"]
    /\ starter' = [starter EXCEPT ![p].at = "attach"]
    /\ UNCHANGED <<events, due, canceler, work, counted>> /\ UNCHANGED rowVars

\* start() threw: the catch clause closes the operation.
StartRunFails(p) ==
    /\ Event
    /\ starter[p].at = "start"
    /\ scan' = [scan EXCEPT ![starter[p].scan].status = "failed"]
    /\ starter' = [starter EXCEPT ![p] = Free]
    /\ UNCHANGED <<due, canceler, work, counted>> /\ UNCHANGED rowVars

attachOperationWorkflowRun(p) ==
    /\ starter[p].at = "attach"
    /\ scan' = [scan EXCEPT ![starter[p].scan].attached = @ \/ scan[starter[p].scan].at \notin {"done", "killed"}]
    /\ starter' = [starter EXCEPT ![p] = Free]
    /\ UNCHANGED <<events, due, canceler, work, counted>> /\ UNCHANGED rowVars

\* The process dies, or the claim throws: nothing closes the operation.
StarterDies(p) ==
    /\ Event
    /\ starter[p].at # "idle"
    /\ starter' = [starter EXCEPT ![p] = Free]
    /\ UNCHANGED <<due, canceler>> /\ UNCHANGED rowVars /\ UNCHANGED runVars

\* retryOperation of a closed scan inserts another and starts nothing.
retryOperation(s) ==
    /\ Event
    /\ scan[s].status \in {"succeeded", "failed", "canceled"} /\ ~ScanOpen /\ Unused # {}
    /\ InsertScan(Min(Unused))
    /\ UNCHANGED <<due, starter, canceler, work, counted>> /\ UNCHANGED rowVars

---------------------------------------------------------------------------
(* scanProjectWorkflow *)

At(s, stage) == scan[s].at = stage
Goto(s, stage) == scan' = [scan EXCEPT ![s].at = stage]

\* markOperationRunning: a canceled scan makes it throw.
startScanOperation(s) ==
    /\ At(s, "start")
    /\ scan' = IF scan[s].status \in {"pending", "running"}
               THEN [scan EXCEPT ![s].status = "running", ![s].at = "next"]
               ELSE [scan EXCEPT ![s].at = "fail"]
    /\ UNCHANGED <<events, due, starter, canceler, work, counted>> /\ UNCHANGED rowVars

\* A run's page, and the loop's way to the next one: all of it is counted.
Page(s) == {r \in Resources : work[s][r].at # "none"}
AtNext(s) == At(s, "next") \/ (At(s, "page") /\ Page(s) = {})

\* A step of the body has used up its retries.
StepFails(s) ==
    /\ Event
    /\ At(s, "start") \/ AtNext(s) \/ At(s, "group")
    /\ Goto(s, "fail")
    /\ UNCHANGED <<due, starter, canceler, work, counted>> /\ UNCHANGED rowVars

scanCandidateFilter(s) ==
    {r \in scan[s].older : Present(r) /\ row[r].status # "stub"}

Batch(s) ==
    LET rest == {r \in scanCandidateFilter(s) : r > scan[s].cursor}
    IN  {r \in rest : Cardinality({q \in rest : q < r}) < SCAN_BATCH_SIZE}

\* Mutant: a page without a free row ends the loop.
getNextScanResources_Break(s) ==
    /\ AtNext(s) /\ Batch(s) # {}
    /\ LET free == {r \in Batch(s) : holder[r] = Nobody}
       IN  /\ work' = [work EXCEPT ![s] = [r \in Resources |-> IF r \in free
                          THEN [at |-> "group", was |-> row[r].status,
                                facts |-> row[r].facts, saw |-> NoFacts]
                          ELSE NoWork]]
           /\ counted' = [counted EXCEPT ![s] = @ \cup (Batch(s) \ free)]
           /\ scan' = [scan EXCEPT ![s].cursor = Max(IF free = {} THEN Resources ELSE Batch(s)),
                                   ![s].at = IF free = {} THEN "next" ELSE "group"]
    /\ UNCHANGED <<events, due, starter, canceler>> /\ UNCHANGED rowVars

\* The next rows by id, without those an open operation holds.
getNextScanResources(s) ==
    /\ AtNext(s) /\ Batch(s) # {}
    /\ LET free == {r \in Batch(s) : holder[r] = Nobody}
       IN  /\ work' = [work EXCEPT ![s] = [r \in Resources |-> IF r \in free
                          THEN [at |-> "group", was |-> row[r].status,
                                facts |-> row[r].facts, saw |-> NoFacts]
                          ELSE NoWork]]
           /\ counted' = [counted EXCEPT ![s] = @ \cup (Batch(s) \ free)]
           /\ scan' = [scan EXCEPT ![s].cursor = Max(Batch(s)),
                                   ![s].at = IF free = {} THEN "next" ELSE "group"]
    /\ UNCHANGED <<events, due, starter, canceler>> /\ UNCHANGED rowVars

\* Mutant: the close is guarded as the other writers are.
completeScanOperation_Guarded(s) ==
    /\ AtNext(s) /\ Batch(s) = {}
    /\ Over(s, IF scan[s].status = "running" THEN "succeeded" ELSE scan[s].status, "done")
    /\ Forget(s)
    /\ UNCHANGED <<events, due, starter, canceler>> /\ UNCHANGED rowVars

\* An empty page ends the loop.
completeScanOperation(s) ==
    /\ AtNext(s) /\ Batch(s) = {}
    /\ Over(s, "succeeded", "done") /\ Forget(s)
    /\ UNCHANGED <<events, due, starter, canceler>> /\ UNCHANGED rowVars

\* A row of the page is done with.
Settle(s, r) ==
    /\ counted' = [counted EXCEPT ![s] = @ \cup {r}]
    /\ work' = [work EXCEPT ![s][r] = NoWork]

\* Rows whose integration is deleted count as failed without a read; the
\* schemas only shape the patch.
getScanResourceIntegrationGroups(s) ==
    /\ At(s, "group")
    /\ \/ /\ integration # "deleted"
          /\ work' = [work EXCEPT ![s] = [r \in Resources |-> IF r \in Page(s)
                         THEN [@[r] EXCEPT !.at = "read"] ELSE @[r]]]
          /\ Goto(s, "page") /\ UNCHANGED counted
       \/ /\ integration = "deleted"
          /\ counted' = [counted EXCEPT ![s] = @ \cup Page(s)]
          /\ work' = [work EXCEPT ![s] = [r \in Resources |-> NoWork]]
          /\ Goto(s, "next")
    /\ UNCHANGED <<events, due, starter, canceler>> /\ UNCHANGED rowVars

\* The reads of a page run at once, each caught by itself; a failed one has
\* nothing to align.
readResourceState(s, r) ==
    /\ At(s, "page") /\ work[s][r].at = "read"
    /\ \/ work' = [work EXCEPT ![s][r].at = "got", ![s][r].saw = cloud[r]] /\ UNCHANGED <<counted, events>>
       \/ Event /\ Settle(s, r)
    /\ UNCHANGED <<due, starter, canceler, scan>> /\ UNCHANGED rowVars

\* What the row, as it was in the page, needs to be in line with the read.
NoDrift(w) ==
    IF w.saw = Gone THEN w.was = "missing" ELSE w.was = "live" /\ w.facts = w.saw

\* Promise.all: the alignments of a page start when all its reads are in.
Aligning(s) ==
    /\ scan[s].at \in {"page", "fail"}
    /\ \A r \in Resources : work[s][r].at # "read"

getScanResourcePatch(s, r) ==
    /\ Aligning(s) /\ work[s][r].at = "got"
    /\ \/ NoDrift(work[s][r]) /\ Settle(s, r)
       \/ /\ ~NoDrift(work[s][r])
          /\ work' = [work EXCEPT ![s][r].at = "drift"] /\ UNCHANGED counted
    /\ UNCHANGED <<events, due, starter, canceler, scan>> /\ UNCHANGED rowVars

\* Mutant: the operation is inserted without the lock key.
createScanAlignmentOperation_NoLock(s, r) ==
    /\ Aligning(s) /\ work[s][r].at = "drift"
    /\ work' = [work EXCEPT ![s][r].at = "opened"]
    /\ UNCHANGED <<events, counted, due, starter, canceler, scan>> /\ UNCHANGED rowVars

\* An update operation on the row's lock, or Conflict.
createScanAlignmentOperation(s, r) ==
    /\ Aligning(s) /\ work[s][r].at = "drift"
    /\ \/ /\ holder[r] = Nobody
          /\ holder' = [holder EXCEPT ![r] = s]
          /\ work' = [work EXCEPT ![s][r].at = "opened"] /\ UNCHANGED counted
       \/ /\ holder[r] # Nobody
          /\ Settle(s, r) /\ UNCHANGED holder
    /\ UNCHANGED <<events, row, cloud, integration, due, starter, canceler, scan>>

\* The insert commits and the step's answer is lost: its retry meets the lock
\* of the insert and reads as another's.
AlignmentAnswerLost(s, r) ==
    /\ Event
    /\ Aligning(s) /\ work[s][r].at = "drift" /\ holder[r] = Nobody
    /\ holder' = [holder EXCEPT ![r] = s]
    /\ Settle(s, r)
    /\ UNCHANGED <<row, cloud, integration, due, starter, canceler, scan>>

\* Any other error rejects Promise.all: the run goes on to fail while its
\* other alignments are under way.
createAlignmentThrows(s, r) ==
    /\ Event
    /\ At(s, "page") /\ work[s][r].at = "drift"
    /\ Goto(s, "fail")
    /\ work' = [work EXCEPT ![s][r] = NoWork]
    /\ UNCHANGED <<due, starter, canceler, counted>> /\ UNCHANGED rowVars

Release(s, r) == holder' = IF holder[r] = s THEN [holder EXCEPT ![r] = Nobody] ELSE holder

\* markOperationSucceeded writes by id: whatever the operation has become, it
\* is closed and the row is patched, in one transaction.
Patched(r, saw) ==
    [row EXCEPT ![r] =
        [status |-> IF @.status = "deleted" THEN "deleted"
                    ELSE IF saw = Gone THEN "missing" ELSE "live",
         facts |-> IF saw = Gone THEN @.facts ELSE saw]]

completeScanAlignmentOperation(s, r) ==
    /\ Aligning(s) /\ work[s][r].at \in {"opened", "canceled"}
    /\ row' = Patched(r, work[s][r].saw)
    /\ Release(s, r)
    /\ Settle(s, r)
    /\ UNCHANGED <<events, cloud, integration, due, starter, canceler, scan>>

failScanAlignmentOperation(s, r) ==
    /\ Event /\ Aligning(s) /\ work[s][r].at \in {"opened", "canceled"}
    /\ Release(s, r)
    /\ Settle(s, r)
    /\ UNCHANGED <<row, cloud, integration, due, starter, canceler, scan>>

failScanOperation(s) ==
    /\ At(s, "fail")
    /\ Over(s, "failed", "done") /\ Forget(s)
    /\ UNCHANGED <<events, due, starter, canceler>> /\ UNCHANGED rowVars

---------------------------------------------------------------------------
(* Cancels: cancelOperation decides on the status it read *)

CancelRead(s) ==
    /\ Event
    /\ canceler = NoCancel /\ scan[s].status \in {"pending", "running"}
    /\ canceler' = [at |-> scan[s].status, scan |-> s, attached |-> scan[s].attached]
    /\ UNCHANGED <<due, starter>> /\ UNCHANGED rowVars /\ UNCHANGED runVars

\* Decided on pending: any open status is closed, and the run that was
\* attached then is killed afterwards.
markOperationCanceled ==
    LET s == canceler.scan IN
    /\ canceler.at = "pending"
    /\ IF scan[s].status \in OpenStatuses
       THEN /\ scan' = [scan EXCEPT ![s].status = "canceled"]
            /\ canceler' = IF canceler.attached THEN [canceler EXCEPT !.at = "kill"] ELSE NoCancel
       ELSE UNCHANGED scan /\ canceler' = NoCancel
    /\ UNCHANGED <<events, due, starter, work, counted>> /\ UNCHANGED rowVars

KillRun ==
    LET s == canceler.scan IN
    /\ canceler.at = "kill"
    /\ IF At(s, "done") THEN UNCHANGED runVars
       ELSE Over(s, scan[s].status, "killed") /\ Forget(s)
    /\ canceler' = NoCancel
    /\ UNCHANGED <<events, due, starter>> /\ UNCHANGED rowVars

\* Decided on running: a status nobody reads.
markOperationCanceling ==
    LET s == canceler.scan IN
    /\ canceler.at = "running"
    /\ scan' = IF scan[s].status = "running" THEN [scan EXCEPT ![s].status = "canceling"] ELSE scan
    /\ canceler' = NoCancel
    /\ UNCHANGED <<events, due, starter, work, counted>> /\ UNCHANGED rowVars

\* An alignment is pending until it closes and has no run to kill; the run
\* that opened it does not see that it was canceled.
CancelAlignment(s, r) ==
    /\ Event /\ holder[r] = s
    /\ holder' = [holder EXCEPT ![r] = Nobody]
    /\ work' = IF work[s][r].at = "opened"
               THEN [work EXCEPT ![s][r].at = "canceled"] ELSE work
    /\ UNCHANGED <<row, cloud, integration, due, starter, canceler, scan, counted>>

---------------------------------------------------------------------------
(* Specification *)

UserStep ==
    \/ \E r \in Resources : UserOpens(r) \/ UserCreates(r) \/ UserCloses(r) \/ Drift(r)
    \/ CheckIntegration \/ deleteIntegration \/ IntervalOver

StarterStep(p) ==
    \/ Tick(p)
    \/ startProjectScan(p)
    \/ claimProjectScan(p)
    \/ StartRun(p)
    \/ StartRunFails(p)
    \/ attachOperationWorkflowRun(p)

ResourceStep(s, r) ==
    \/ readResourceState(s, r)
    \/ getScanResourcePatch(s, r)
    \/ createScanAlignmentOperation(s, r)
    \/ AlignmentAnswerLost(s, r)
    \/ createAlignmentThrows(s, r)
    \/ completeScanAlignmentOperation(s, r)
    \/ failScanAlignmentOperation(s, r)

RunStep(s) ==
    \/ startScanOperation(s)
    \/ StepFails(s)
    \/ getNextScanResources(s)
    \/ completeScanOperation(s)
    \/ getScanResourceIntegrationGroups(s)
    \/ failScanOperation(s)

CancelStep == markOperationCanceled \/ KillRun \/ markOperationCanceling

Next ==
    \/ UserStep
    \/ \E p \in Starters : PostScan(p) \/ StarterStep(p) \/ StarterDies(p)
    \/ \E s \in Scans : retryOperation(s) \/ RunStep(s) \/ CancelRead(s)
    \/ \E s \in Scans, r \in Resources : ResourceStep(s, r) \/ CancelAlignment(s, r)
    \/ CancelStep

\* The interval timer ticks, handlers and runs go on.  Nobody has to start,
\* cancel or retry anything, and no operation of a user has to end.
Fairness ==
    /\ \A p \in Starters : WF_vars(StarterStep(p))
    /\ \A s \in Scans : WF_vars(RunStep(s))
    /\ \A s \in Scans, r \in Resources : WF_vars(ResourceStep(s, r))

Spec == Init /\ [][Next]_vars /\ Fairness

---------------------------------------------------------------------------
(* Properties *)

\* A scan about to succeed has accounted for every row it should have: every one
\* that was applied before the scan and is still there was read, or is counted
\* as skipped or failed, although rows come, go and are locked between the
\* pages, pages may be all locked, and two scans may run after a cancel.
\* (getNextScanResources, the cursor, groups.failedResources)
ScanAccounts ==
    \A s \in Scans : AtNext(s) /\ Batch(s) = {} =>
        \A r \in scan[s].applied : Present(r) => r \in counted[s]

\* A row changes only under its lock, which the scan takes per row after the
\* read: no alignment overwrites a row another operation holds, except one
\* that a user canceled while its run was about to write
\* (createScanAlignmentOperation, Conflict as skippedDuringRun).
ScanYields ==
    [][\A r \in Resources : row'[r] # row[r] /\ row[r].status # "absent" =>
          \/ holder[r] # Nobody /\ holder'[r] = Nobody
          \/ \E s \in Scans : work[s][r].at = "canceled" /\ work'[s][r] = NoWork]_vars

\* A scan operation without a run, and nobody about to start one.
Abandoned(s) ==
    /\ scan[s].status = "pending" /\ scan[s].at = "none"
    /\ \A p \in Starters : starter[p].scan # s

\* When the interval is over the project is scanned again, whatever scans,
\* cancels and other starters do meanwhile, unless an abandoned operation has
\* the lock: the tick takes that Conflict for a scan under way
\* (runScanLoopTick, claimProjectScan).
DueServed == due ~> (~due \/ Unused = {} \/ \E s \in Scans : Abandoned(s))

============================================================================
