------------------------- MODULE ProjectScanProofs -------------------------
(* Proofs about ProjectScan, for every set of resources, scans and starters. *)
EXTENDS ProjectScan, FiniteSetTheorems, WellFoundedInduction, TLAPS

(***************************************************************************)
(* A scan writes rows under their lock.  What makes it so is that a run    *)
(* about to write holds the lock: nobody but a cancel takes it away, and   *)
(* the cancel leaves its mark in what the run holds.                       *)
(***************************************************************************)

WorkStages == {"none", "group", "read", "got", "drift", "opened", "canceled"}

Work == [at : WorkStages, was : RowStatuses,
         facts : Facts \cup {NoFacts}, saw : Facts \cup {NoFacts, Gone}]

WorkTyped ==
    /\ work \in [Scans -> [Resources -> Work]]
    /\ row \in [Resources -> [status : RowStatuses, facts : Facts \cup {NoFacts}]]
    /\ cloud \in [Resources -> Facts \cup {Gone}]
    /\ holder \in [Resources -> {Nobody, User} \cup Scans]

\* An alignment that was opened and not canceled still has the lock.
OpenedHolds ==
    \A s \in Scans, r \in Resources : work[s][r].at = "opened" => holder[r] = s

\* What is in a page exists: rows are never removed.
PageExists ==
    \A s \in Scans, r \in Resources : work[s][r].at # "none" => row[r].status # "absent"

LockInv == WorkTyped /\ OpenedHolds /\ PageExists

USE DEF vars, rowVars, runVars

LEMMA InitLock == Init => LockInv
BY ScanAssumption DEF Init, LockInv, WorkTyped, OpenedHolds, PageExists, NoWork, Work, WorkStages, RowStatuses,
       NoFacts, Gone, Nobody, User

\* The steps that leave rows, locks and what the runs hold alone.
Elsewhere == UNCHANGED <<row, cloud, holder, work>>

LEMMA ElsewhereLock == LockInv /\ Elsewhere => LockInv'
BY DEF LockInv, WorkTyped, OpenedHolds, PageExists, Elsewhere

LEMMA UserLock == ASSUME LockInv, UserStep PROVE LockInv'
<1> USE ScanAssumption DEF LockInv, RowStatuses, Nobody, User
<1>1. ASSUME NEW r \in Resources, UserOpens(r) PROVE LockInv'
  BY <1>1 DEF UserOpens, WorkTyped, OpenedHolds, PageExists
<1>2. ASSUME NEW r \in Resources, UserCreates(r) PROVE LockInv'
  <2>1. WorkTyped' BY <1>2 DEF UserCreates, WorkTyped
  <2>2. OpenedHolds' /\ PageExists'
    BY <1>2 DEF UserCreates, WorkTyped, OpenedHolds, PageExists
  <2> QED BY <2>1, <2>2
<1>3. ASSUME NEW r \in Resources, UserCloses(r) PROVE LockInv'
  <2>1. WorkTyped'
    <3>1. row' \in [Resources -> [status : RowStatuses, facts : Facts \cup {NoFacts}]]
      <4>1. row[r] \in [status : RowStatuses, facts : Facts \cup {NoFacts}] BY DEF WorkTyped
      <4>2. PICK v \in [status : RowStatuses, facts : Facts \cup {NoFacts}] :
                row' = [row EXCEPT ![r] = v]
        <5>1. CASE row' = [row EXCEPT ![r].status = "deleted"]
          BY <4>1, <5>1 DEF WorkTyped
        <5>2. CASE row' = row BY <4>1, <5>2 DEF WorkTyped
        <5>3. CASE \E f \in Facts : row' = [row EXCEPT ![r] = [status |-> "live", facts |-> f]]
          BY <5>3
        <5> QED BY <1>3, <5>1, <5>2, <5>3 DEF UserCloses
      <4> QED BY <4>2 DEF WorkTyped
    <3>2. cloud' \in [Resources -> Facts \cup {Gone}]
      BY <1>3 DEF UserCloses, WorkTyped
    <3> QED BY <1>3, <3>1, <3>2 DEF UserCloses, WorkTyped
  <2>2. OpenedHolds' BY <1>3 DEF UserCloses, WorkTyped, OpenedHolds
  <2>3. PageExists' BY <1>3 DEF UserCloses, WorkTyped, OpenedHolds, PageExists
  <2> QED BY <2>1, <2>2, <2>3
<1>4. ASSUME NEW r \in Resources, Drift(r) PROVE LockInv'
  BY <1>4 DEF Drift, WorkTyped, OpenedHolds, PageExists
<1>5. CASE CheckIntegration \/ deleteIntegration \/ IntervalOver
  BY <1>5, ElsewhereLock DEF CheckIntegration, deleteIntegration, IntervalOver, Elsewhere
<1> QED BY <1>1, <1>2, <1>3, <1>4, <1>5 DEF UserStep
LEMMA StarterLock ==
    ASSUME LockInv, NEW p \in Starters, PostScan(p) \/ StarterStep(p) \/ StarterDies(p)
    PROVE LockInv'
<1>1. Elsewhere
  BY DEF PostScan, StarterStep, StarterDies, Tick, startProjectScan, claimProjectScan,
         StartRun, StartRunFails, attachOperationWorkflowRun, Elsewhere
<1> QED BY <1>1, ElsewhereLock

\* A run forgets what it holds of a row: the row may be anybody's.
LEMMA SettleLock ==
    ASSUME LockInv, NEW s \in Scans, NEW r \in Resources, Settle(s, r),
           UNCHANGED <<row, cloud>>, UNCHANGED holder \/ Release(s, r)
    PROVE LockInv'
BY ScanAssumption DEF LockInv, WorkTyped, OpenedHolds, PageExists, Settle, Release,
   NoWork, Work, WorkStages, RowStatuses, Nobody, User

\* What a run holds of a row moves on without the lock.
LEMMA MoveLock ==
    ASSUME LockInv, NEW s \in Scans, NEW r \in Resources, NEW w \in Work,
           w.at # "opened",
           work[s][r].at # "none", work' = [work EXCEPT ![s][r] = w],
           UNCHANGED <<row, cloud, holder>>
    PROVE LockInv'
BY DEF LockInv, WorkTyped, OpenedHolds, PageExists, Work, WorkStages

\* A free row has no alignment that could write it.
LEMMA NobodyElse ==
    ASSUME LockInv, NEW r \in Resources, holder[r] = Nobody
    PROVE \A s \in Scans : work[s][r].at # "opened"
BY ScanAssumption DEF LockInv, OpenedHolds, Nobody

LEMMA ResourceLock ==
    ASSUME LockInv, NEW s \in Scans, NEW r \in Resources, ResourceStep(s, r)
    PROVE LockInv'
<1> USE ScanAssumption DEF LockInv
<1>1. CASE readResourceState(s, r)
  <2>1. CASE Settle(s, r)
    BY <1>1, <2>1, SettleLock DEF readResourceState
  <2>2. CASE work' = [work EXCEPT ![s][r].at = "got", ![s][r].saw = cloud[r]]
    <3>1. cloud[r] \in Facts \cup {Gone} BY DEF WorkTyped
    <3>2. work[s][r] \in Work BY DEF WorkTyped
    <3> DEFINE w == [work[s][r] EXCEPT !.at = "got", !.saw = cloud[r]]
    <3>3. w \in Work /\ w.at # "opened" BY <3>1, <3>2 DEF Work, WorkStages
    <3>4. work' = [work EXCEPT ![s][r] = w] BY <2>2 DEF WorkTyped
    <3>5. work[s][r].at # "none" /\ UNCHANGED <<row, cloud, holder>>
      BY <1>1 DEF readResourceState
    <3> HIDE DEF w
    <3> QED BY <3>3, <3>4, <3>5, MoveLock
  <2> QED BY <1>1, <2>1, <2>2 DEF readResourceState
<1>2. CASE getScanResourcePatch(s, r)
  <2>1. CASE Settle(s, r)
    BY <1>2, <2>1, SettleLock DEF getScanResourcePatch
  <2>2. CASE work' = [work EXCEPT ![s][r].at = "drift"]
    <3> DEFINE w == [work[s][r] EXCEPT !.at = "drift"]
    <3>0. work[s][r] \in Work BY DEF WorkTyped
    <3>1. w \in Work /\ w.at # "opened" BY <3>0 DEF Work, WorkStages
    <3>2. work' = [work EXCEPT ![s][r] = w] BY <2>2 DEF WorkTyped
    <3>3. work[s][r].at # "none" /\ UNCHANGED <<row, cloud, holder>>
      BY <1>2 DEF getScanResourcePatch
    <3> HIDE DEF w
    <3> QED BY <3>1, <3>2, <3>3, MoveLock
  <2> QED BY <1>2, <2>1, <2>2 DEF getScanResourcePatch
<1>3. CASE createScanAlignmentOperation(s, r)
  <2>1. CASE Settle(s, r) /\ UNCHANGED holder
    BY <1>3, <2>1, SettleLock DEF createScanAlignmentOperation
  <2>2. CASE holder[r] = Nobody /\ holder' = [holder EXCEPT ![r] = s]
             /\ work' = [work EXCEPT ![s][r].at = "opened"]
    <3>1. WorkTyped'
      <4>0. work[s][r] \in Work BY DEF WorkTyped
      <4>1. [work[s][r] EXCEPT !.at = "opened"] \in Work BY <4>0 DEF Work, WorkStages
      <4>2. work' \in [Scans -> [Resources -> Work]] BY <2>2, <4>1 DEF WorkTyped
      <4> QED BY <1>3, <2>2, <4>2 DEF createScanAlignmentOperation, WorkTyped
    <3>2. OpenedHolds'
      BY <2>2, NobodyElse DEF WorkTyped, OpenedHolds
    <3>3. PageExists'
      BY <1>3, <2>2 DEF createScanAlignmentOperation, WorkTyped, PageExists
    <3> QED BY <3>1, <3>2, <3>3
  <2> QED BY <1>3, <2>1, <2>2 DEF createScanAlignmentOperation
<1>4. CASE AlignmentAnswerLost(s, r)
  <2>1. holder[r] = Nobody /\ holder' = [holder EXCEPT ![r] = s] /\ Settle(s, r)
    BY <1>4 DEF AlignmentAnswerLost
  <2>2. WorkTyped'
    BY <1>4, <2>1 DEF AlignmentAnswerLost, Settle, WorkTyped, NoWork, Work, WorkStages, RowStatuses
  <2>3. OpenedHolds'
    BY <2>1, NobodyElse DEF WorkTyped, OpenedHolds, Settle, NoWork
  <2>4. PageExists'
    BY <1>4, <2>1 DEF AlignmentAnswerLost, Settle, WorkTyped, PageExists, NoWork
  <2> QED BY <2>2, <2>3, <2>4
<1>5. CASE createAlignmentThrows(s, r)
  BY <1>5 DEF createAlignmentThrows, WorkTyped, OpenedHolds, PageExists,
              NoWork, Work, WorkStages, RowStatuses
<1>6. CASE completeScanAlignmentOperation(s, r)
  <2>1. row' \in [Resources -> [status : RowStatuses, facts : Facts \cup {NoFacts}]]
    <3> DEFINE saw == work[s][r].saw
    <3>1. work[s][r] \in Work BY DEF WorkTyped
    <3>2. saw = Gone \/ saw \in Facts \cup {NoFacts} BY <3>1 DEF Work
    <3>3. row[r] \in [status : RowStatuses, facts : Facts \cup {NoFacts}] BY DEF WorkTyped
    <3> DEFINE v == [status |-> IF row[r].status = "deleted" THEN "deleted"
                                ELSE IF saw = Gone THEN "missing" ELSE "live",
                     facts |-> IF saw = Gone THEN row[r].facts ELSE saw]
    <3>4. v \in [status : RowStatuses, facts : Facts \cup {NoFacts}]
      BY <3>2, <3>3 DEF RowStatuses
    <3>5. row' = [row EXCEPT ![r] = v]
      BY <1>6 DEF completeScanAlignmentOperation, Patched, WorkTyped
    <3> HIDE DEF v
    <3> QED BY <3>4, <3>5 DEF WorkTyped
  <2>2. \A q \in Resources : row[q].status # "absent" => row'[q].status # "absent"
    BY <1>6 DEF completeScanAlignmentOperation, Patched, WorkTyped
  <2> QED
    BY <1>6, <2>1, <2>2 DEF completeScanAlignmentOperation, Settle, Release, WorkTyped,
       OpenedHolds, PageExists, NoWork, Work, WorkStages, RowStatuses, Nobody, User
<1>7. CASE failScanAlignmentOperation(s, r)
  BY <1>7, SettleLock DEF failScanAlignmentOperation
<1> QED BY <1>1, <1>2, <1>3, <1>4, <1>5, <1>6, <1>7 DEF ResourceStep
\* What a run held in memory is gone.
LEMMA ForgetLock ==
    ASSUME LockInv, NEW s \in Scans, Forget(s), UNCHANGED <<row, cloud, holder>>
    PROVE LockInv'
<1>1. NoWork \in Work
  BY DEF NoWork, Work, WorkStages, RowStatuses
<1>2. WorkTyped' BY <1>1 DEF LockInv, WorkTyped, Forget
<1>3. OpenedHolds' /\ PageExists'
  BY DEF LockInv, WorkTyped, OpenedHolds, PageExists, Forget, NoWork
<1> QED BY <1>2, <1>3 DEF LockInv

LEMMA RunLock == ASSUME LockInv, NEW s \in Scans, RunStep(s) PROVE LockInv'
<1>1. CASE startScanOperation(s) \/ StepFails(s)
  BY <1>1, ElsewhereLock DEF startScanOperation, StepFails, Goto, Elsewhere
<1>2. CASE getNextScanResources(s)
  <2> DEFINE free == {r \in Batch(s) : holder[r] = Nobody}
             page == [r \in Resources |-> IF r \in free
                          THEN [at |-> "group", was |-> row[r].status,
                                facts |-> row[r].facts, saw |-> NoFacts]
                          ELSE NoWork]
  <2>1. \A r \in free : r \in Resources => row[r].status # "absent"
    BY DEF Batch, scanCandidateFilter, Present
  <2>2. work' = [work EXCEPT ![s] = page] /\ UNCHANGED <<row, cloud, holder>>
    BY <1>2 DEF getNextScanResources
  <2>3. page \in [Resources -> Work]
    <3>1. NoWork \in Work BY DEF NoWork, Work, WorkStages, RowStatuses
    <3>2. ASSUME NEW r \in Resources
          PROVE [at |-> "group", was |-> row[r].status,
                 facts |-> row[r].facts, saw |-> NoFacts] \in Work
      <4>1. row[r] \in [status : RowStatuses, facts : Facts \cup {NoFacts}]
        BY DEF LockInv, WorkTyped
      <4> QED BY <4>1 DEF Work, WorkStages
    <3> QED BY <3>1, <3>2
  <2>4. \A r \in Resources : /\ page[r].at # "opened"
                             /\ page[r].at # "none" => row[r].status # "absent"
    BY <2>1 DEF NoWork
  <2> HIDE DEF page
  <2>5. WorkTyped' BY <2>2, <2>3 DEF LockInv, WorkTyped
  <2>6. OpenedHolds' /\ PageExists'
    BY <2>2, <2>4 DEF LockInv, WorkTyped, OpenedHolds, PageExists
  <2> QED BY <2>5, <2>6 DEF LockInv
<1>3. CASE completeScanOperation(s)
  BY <1>3, ForgetLock DEF completeScanOperation
<1>4. CASE getScanResourceIntegrationGroups(s)
  <2>1. UNCHANGED <<row, cloud, holder>>
    BY <1>4 DEF getScanResourceIntegrationGroups
  <2>2. PICK page \in [Resources -> Work] :
            /\ work' = [work EXCEPT ![s] = page]
            /\ \A r \in Resources : page[r].at = "opened" => FALSE
            /\ \A r \in Resources : page[r].at # "none" => work[s][r].at # "none"
    <3>1. CASE integration # "deleted"
      <4> DEFINE page == [r \in Resources |-> IF r \in Page(s)
                             THEN [work[s][r] EXCEPT !.at = "read"] ELSE work[s][r]]
      <4>1. work' = [work EXCEPT ![s] = page]
        BY <1>4, <3>1 DEF getScanResourceIntegrationGroups, LockInv, WorkTyped
      <4>2. \A r \in Resources : work[s][r] \in Work BY DEF LockInv, WorkTyped
      <4>3. page \in [Resources -> Work] BY <4>2 DEF Work, WorkStages
      <4>4. \A r \in Resources : page[r].at = "opened" => FALSE
        BY <4>2 DEF Page, Work
      <4>5. \A r \in Resources : page[r].at # "none" => work[s][r].at # "none"
        BY DEF Page
      <4> QED BY <4>1, <4>3, <4>4, <4>5
    <3>2. CASE integration = "deleted"
      <4>1. [r \in Resources |-> NoWork] \in [Resources -> Work]
        BY DEF NoWork, Work, WorkStages, RowStatuses
      <4> QED BY <1>4, <3>2, <4>1 DEF getScanResourceIntegrationGroups, NoWork
    <3> QED BY <3>1, <3>2
  <2>3. WorkTyped' BY <2>1, <2>2 DEF LockInv, WorkTyped
  <2>4. OpenedHolds' /\ PageExists'
    BY <2>1, <2>2 DEF LockInv, WorkTyped, OpenedHolds, PageExists
  <2> QED BY <2>3, <2>4 DEF LockInv
<1>5. CASE failScanOperation(s)
  BY <1>5, ForgetLock DEF failScanOperation
<1> QED BY <1>1, <1>2, <1>3, <1>4, <1>5 DEF RunStep

LEMMA CancelLock ==
    ASSUME LockInv,
           \/ CancelStep
           \/ \E s \in Scans : retryOperation(s) \/ CancelRead(s)
           \/ \E s \in Scans, r \in Resources : CancelAlignment(s, r)
    PROVE LockInv'
<1>1. CASE markOperationCanceled \/ markOperationCanceling
           \/ \E s \in Scans : retryOperation(s) \/ CancelRead(s)
  BY <1>1, ElsewhereLock DEF markOperationCanceled, markOperationCanceling,
     retryOperation, CancelRead, InsertScan, Elsewhere
<1>2. CASE KillRun
  <2>1. CASE At(canceler.scan, "done")
    BY <1>2, <2>1, ElsewhereLock DEF KillRun, Elsewhere
  <2>2. CASE ~At(canceler.scan, "done") /\ canceler.scan \in Scans
    BY <1>2, <2>2, ForgetLock DEF KillRun
  <2>3. CASE ~At(canceler.scan, "done") /\ canceler.scan \notin Scans
    BY <1>2, <2>3, ElsewhereLock DEF KillRun, Forget, Elsewhere, LockInv, WorkTyped
  <2> QED BY <2>1, <2>2, <2>3
<1>3. ASSUME NEW s \in Scans, NEW r \in Resources, CancelAlignment(s, r) PROVE LockInv'
  <2>1. work[s][r] \in Work BY DEF LockInv, WorkTyped
  <2>2. [work[s][r] EXCEPT !.at = "canceled"] \in Work BY <2>1 DEF Work, WorkStages
  <2>3. holder[r] = s /\ holder' = [holder EXCEPT ![r] = Nobody]
        /\ UNCHANGED <<row, cloud>>
    BY <1>3 DEF CancelAlignment
  <2>4. WorkTyped'
    <3>1. work' \in [Scans -> [Resources -> Work]]
      BY <1>3, <2>2 DEF CancelAlignment, LockInv, WorkTyped
    <3> QED BY <2>3, <3>1 DEF LockInv, WorkTyped
  <2>5. work'[s][r].at # "opened"
    BY <1>3, <2>1 DEF CancelAlignment, LockInv, WorkTyped, Work
  <2>6. \A q \in Scans, x \in Resources :
            (q # s \/ x # r) => work'[q][x] = work[q][x]
    BY <1>3 DEF CancelAlignment, LockInv, WorkTyped
  <2>7. OpenedHolds' BY <2>3, <2>5, <2>6 DEF LockInv, WorkTyped, OpenedHolds
  <2>8. PageExists'
    BY <1>3, <2>1, <2>3, <2>6 DEF CancelAlignment, LockInv, WorkTyped, PageExists
  <2> QED BY <2>4, <2>7, <2>8 DEF LockInv
<1> QED BY <1>1, <1>2, <1>3 DEF CancelStep

\* The lock is where it is thought to be: the types of rows, locks and pages,
\* and an alignment that was opened holds its row until it closes or a user
\* cancels it (createScanAlignmentOperation, markOperationSucceeded,
\* cancelOperation).
THEOREM LocksHeld == Spec => []LockInv
<1>1. Init => LockInv BY InitLock
<1>2. LockInv /\ [Next]_vars => LockInv'
  <2> SUFFICES ASSUME LockInv, [Next]_vars PROVE LockInv' OBVIOUS
  <2>1. CASE UNCHANGED vars BY <2>1, ElsewhereLock DEF Elsewhere
  <2>2. CASE Next
    BY <2>2, UserLock, StarterLock, RunLock, ResourceLock, CancelLock DEF Next
  <2> QED BY <2>1, <2>2
<1> QED BY <1>1, <1>2, PTL DEF Spec
-----------------------------------------------------------------------------
(* Rows are written under their locks *)

YieldsAt(r) ==
    row'[r] # row[r] /\ row[r].status # "absent" =>
       \/ holder[r] # Nobody /\ holder'[r] = Nobody
       \/ \E s \in Scans : work[s][r].at = "canceled" /\ work'[s][r] = NoWork

\* Only three actions write rows.
LEMMA Writers ==
    ASSUME Next, row' # row
    PROVE \E r \in Resources :
             \/ UserCreates(r)
             \/ UserCloses(r)
             \/ \E s \in Scans : completeScanAlignmentOperation(s, r)
<1>1. ASSUME NEW r \in Resources, UserOpens(r) \/ Drift(r) PROVE row' = row
  BY <1>1 DEF UserOpens, Drift
<1>2. CheckIntegration \/ deleteIntegration \/ IntervalOver => row' = row
  BY DEF CheckIntegration, deleteIntegration, IntervalOver
<1>3. ASSUME NEW p \in Starters, PostScan(p) \/ StarterStep(p) \/ StarterDies(p)
      PROVE row' = row
  BY <1>3 DEF PostScan, StarterDies, StarterStep, Tick, startProjectScan,
     claimProjectScan, StartRun, StartRunFails, attachOperationWorkflowRun
<1>4. ASSUME NEW s \in Scans, retryOperation(s) \/ RunStep(s) \/ CancelRead(s)
      PROVE row' = row
  BY <1>4 DEF retryOperation, RunStep, startScanOperation, StepFails,
     getNextScanResources, completeScanOperation, getScanResourceIntegrationGroups,
     failScanOperation, CancelRead
<1>5. CancelStep => row' = row
  BY DEF CancelStep, markOperationCanceled, KillRun, markOperationCanceling
<1>6. ASSUME NEW s \in Scans, NEW r \in Resources, CancelAlignment(s, r) PROVE row' = row
  BY <1>6 DEF CancelAlignment
<1>7. ASSUME NEW s \in Scans, NEW r \in Resources, ResourceStep(s, r),
             ~completeScanAlignmentOperation(s, r)
      PROVE row' = row
  BY <1>7 DEF ResourceStep, readResourceState, getScanResourcePatch,
     createScanAlignmentOperation, AlignmentAnswerLost, createAlignmentThrows,
     failScanAlignmentOperation
<1> QED BY <1>1, <1>2, <1>3, <1>4, <1>5, <1>6, <1>7 DEF Next, UserStep

\* A row changes only while its lock is given back, or by an alignment that a
\* user canceled while its run was about to write (createScanAlignmentOperation
\* takes the lock before markOperationSucceeded writes).
THEOREM YieldSafety == Spec => ScanYields
<1>1. LockInv /\ [Next]_vars => [\A r \in Resources : YieldsAt(r)]_vars
  <2> SUFFICES ASSUME LockInv, Next, row' # row, NEW r \in Resources PROVE YieldsAt(r)
    BY DEF YieldsAt
  <2>1. PICK q \in Resources :
             \/ UserCreates(q)
             \/ UserCloses(q)
             \/ \E s \in Scans : completeScanAlignmentOperation(s, q)
    BY Writers
  <2>2. CASE UserCreates(q)
    BY <2>2 DEF UserCreates, YieldsAt, LockInv, WorkTyped
  <2>3. CASE UserCloses(q)
    <3>1. r # q => row'[r] = row[r]
      BY <2>3 DEF UserCloses, LockInv, WorkTyped
    <3>2. holder[q] # Nobody /\ holder'[q] = Nobody
      BY <2>3 DEF UserCloses, LockInv, WorkTyped, User, Nobody
    <3> QED BY <3>1, <3>2 DEF YieldsAt
  <2>4. ASSUME NEW s \in Scans, completeScanAlignmentOperation(s, q) PROVE YieldsAt(r)
    <3>1. r # q => row'[r] = row[r]
      BY <2>4 DEF completeScanAlignmentOperation, Patched, LockInv, WorkTyped
    <3>2. CASE work[s][q].at = "opened"
      <4>1. holder[q] = s BY <3>2 DEF LockInv, OpenedHolds
      <4>2. holder'[q] = Nobody
        BY <2>4, <4>1 DEF completeScanAlignmentOperation, Release, LockInv, WorkTyped
      <4> QED BY <3>1, <4>1, <4>2, ScanAssumption DEF YieldsAt, Nobody
    <3>3. CASE work[s][q].at = "canceled"
      <4>1. work'[s][q] = NoWork
        BY <2>4 DEF completeScanAlignmentOperation, Settle, LockInv, WorkTyped
      <4> QED BY <3>1, <3>3, <4>1 DEF YieldsAt
    <3> QED BY <2>4, <3>2, <3>3 DEF completeScanAlignmentOperation
  <2> QED BY <2>1, <2>2, <2>3, <2>4
<1> QED BY <1>1, LocksHeld, PTL DEF Spec, ScanYields, YieldsAt
-----------------------------------------------------------------------------
(* A page is the beginning of what is left *)

\* A finite set of integers has a least and a greatest element: the element
\* with the fewest below it, and the one with the fewest above.
LEMMA FewestBelow ==
    \A S : IsFiniteSet(S) /\ S # {} =>
        \A Part \in [S -> SUBSET S] : \E r \in S : \A q \in S :
            ~(Part[q] \subseteq Part[r] /\ Part[q] # Part[r])
<1> SUFFICES ASSUME NEW S, IsFiniteSet(S), S # {}, NEW Part \in [S -> SUBSET S]
             PROVE \E r \in S : \A q \in S : ~(Part[q] \subseteq Part[r] /\ Part[q] # Part[r])
  OBVIOUS
<1> DEFINE T == {Part[r] : r \in S}
           R == StrictSubsetOrdering(S)
<1>1. T \subseteq FiniteSubsetsOf(S)
  <2> SUFFICES ASSUME NEW r \in S PROVE Part[r] \in FiniteSubsetsOf(S) OBVIOUS
  <2> QED BY FS_Subset DEF FiniteSubsetsOf
<1>2. PICK B \in T : \A C \in T : <<C, B>> \notin R
  <2>1. IsWellFoundedOn(R, FiniteSubsetsOf(S)) BY FS_StrictSubsetOrderingWellFounded
  <2>2. T # {} OBVIOUS
  <2> HIDE DEF T, R
  <2> QED BY <1>1, <2>1, <2>2, WFMin
<1>3. PICK r \in S : B = Part[r] OBVIOUS
<1>4. ASSUME NEW q \in S, Part[q] \subseteq Part[r], Part[q] # Part[r] PROVE FALSE
  <2>1. <<Part[q], Part[r]>> \in R BY <1>4 DEF StrictSubsetOrdering
  <2>2. Part[q] \in T OBVIOUS
  <2> QED BY <1>2, <1>3, <2>1, <2>2
<1> QED BY <1>4

LEMMA Minimum ==
    ASSUME NEW S, IsFiniteSet(S), S \subseteq Int, S # {}
    PROVE Min(S) \in S /\ \A y \in S : Min(S) <= y
<1> DEFINE Below == [r \in S |-> {q \in S : q < r}]
<1>0. Below \in [S -> SUBSET S] OBVIOUS
<1>1. PICK r \in S : \A q \in S : ~(Below[q] \subseteq Below[r] /\ Below[q] # Below[r])
  <2>1. \A Part \in [S -> SUBSET S] : \E r \in S : \A q \in S :
            ~(Part[q] \subseteq Part[r] /\ Part[q] # Part[r])
    BY FewestBelow
  <2> HIDE DEF Below
  <2> QED BY <1>0, <2>1, Zenon
<1>2. ASSUME NEW q \in S, ~(r <= q) PROVE FALSE
  <2>1. q \in Int /\ r \in Int /\ q < r BY <1>2
  <2>2. q \in Below[r] /\ q \notin Below[q] BY <2>1
  <2>3. ASSUME NEW x \in Below[q] PROVE x \in Below[r]
    <3>1. x \in Int /\ x \in S /\ x < q OBVIOUS
    <3> QED BY <2>1, <3>1
  <2> QED BY <1>1, <2>2, <2>3
<1> QED BY <1>2 DEF Min

LEMMA Maximum ==
    ASSUME NEW S, IsFiniteSet(S), S \subseteq Int, S # {}
    PROVE Max(S) \in S /\ \A y \in S : Max(S) >= y
<1> DEFINE Above == [r \in S |-> {q \in S : q > r}]
<1>0. Above \in [S -> SUBSET S] OBVIOUS
<1>1. PICK r \in S : \A q \in S : ~(Above[q] \subseteq Above[r] /\ Above[q] # Above[r])
  <2>1. \A Part \in [S -> SUBSET S] : \E r \in S : \A q \in S :
            ~(Part[q] \subseteq Part[r] /\ Part[q] # Part[r])
    BY FewestBelow
  <2> HIDE DEF Above
  <2> QED BY <1>0, <2>1, Zenon
<1>2. ASSUME NEW q \in S, ~(r >= q) PROVE FALSE
  <2>1. q \in Int /\ r \in Int /\ q > r BY <1>2
  <2>2. q \in Above[r] /\ q \notin Above[q] BY <2>1
  <2>3. ASSUME NEW x \in Above[q] PROVE x \in Above[r]
    <3>1. x \in Int /\ x \in S /\ x > q OBVIOUS
    <3> QED BY <2>1, <3>1
  <2> QED BY <1>1, <2>2, <2>3
<1> QED BY <1>2 DEF Max

Rest(s) == {r \in scanCandidateFilter(s) : r > scan[s].cursor}

LEMMA PageIsFirst ==
    ASSUME NEW s \in Scans, scan[s].older \subseteq Resources
    PROVE /\ Rest(s) # {} => Batch(s) # {}
          /\ Batch(s) # {} => /\ Max(Batch(s)) \in Resources
                              /\ \A r \in Rest(s) : r \in Batch(s) \/ r > Max(Batch(s))
<1> DEFINE Below(r) == {q \in Rest(s) : q < r}
<1>1. Rest(s) \subseteq Resources /\ IsFiniteSet(Rest(s)) /\ Rest(s) \subseteq Int
  <2>1. Rest(s) \subseteq Resources BY DEF Rest, scanCandidateFilter
  <2>2. IsFiniteSet(Resources) /\ Resources \subseteq Int BY ScanAssumption
  <2>3. IsFiniteSet(Rest(s)) BY <2>1, <2>2, FS_Subset
  <2> QED BY <2>1, <2>2, <2>3
<1>2. Batch(s) = {r \in Rest(s) : Cardinality(Below(r)) < SCAN_BATCH_SIZE}
  BY DEF Batch, Rest
<1>3. ASSUME Rest(s) # {} PROVE Batch(s) # {}
  <2> DEFINE m == Min(Rest(s))
  <2>1. m \in Rest(s) /\ \A y \in Rest(s) : m <= y BY <1>1, <1>3, Minimum
  <2> HIDE DEF m
  <2>2. Below(m) = {} BY <1>1, <2>1
  <2>3. Cardinality(Below(m)) = 0 BY <2>2, FS_EmptySet
  <2> QED BY <1>2, <2>1, <2>3, ScanAssumption
<1>4. ASSUME Batch(s) # {}
      PROVE /\ Max(Batch(s)) \in Resources
            /\ \A r \in Rest(s) : r \in Batch(s) \/ r > Max(Batch(s))
  <2> DEFINE m == Max(Batch(s))
  <2>1. Batch(s) \subseteq Rest(s) BY <1>2
  <2>2. IsFiniteSet(Batch(s)) /\ Batch(s) \subseteq Int BY <1>1, <2>1, FS_Subset
  <2>3. m \in Batch(s) BY <1>4, <2>2, Maximum
  <2> HIDE DEF m
  <2>4. ASSUME NEW r \in Rest(s), ~(r > m) PROVE r \in Batch(s)
    <3>1. Below(r) \subseteq Below(m) BY <1>1, <2>1, <2>3, <2>4
    <3>2. IsFiniteSet(Below(m)) /\ IsFiniteSet(Below(r)) BY <1>1, FS_Subset
    <3>3. Cardinality(Below(r)) <= Cardinality(Below(m)) BY <3>1, <3>2, FS_Subset
    <3>4. Cardinality(Below(m)) < SCAN_BATCH_SIZE BY <1>2, <2>3
    <3>5. Cardinality(Below(r)) \in Nat /\ Cardinality(Below(m)) \in Nat
      BY <3>2, FS_CardinalityType
    <3> QED BY <1>2, <3>3, <3>4, <3>5, ScanAssumption
  <2>5. m \in Resources BY <1>1, <2>1, <2>3
  <2> QED BY <2>4, <2>5 DEF m
<1> QED BY <1>3, <1>4
-----------------------------------------------------------------------------
(* A scan accounts for its rows *)

ScanRecord == [status : Statuses, at : Stages, attached : BOOLEAN,
               older : SUBSET Resources, applied : SUBSET Resources,
               cursor : Resources \cup {0}]

RunsTyped ==
    /\ scan \in [Scans -> ScanRecord]
    /\ counted \in [Scans -> SUBSET Resources]
    /\ starter \in [Starters -> [at : {"idle", "insert", "claim", "start", "attach"},
                                 scan : Scans \cup {NoScan}]]
    /\ canceler \in [at : {"idle", "pending", "running", "kill"},
                     scan : Scans \cup {NoScan}, attached : BOOLEAN]

\* A user's operation never works on a deleted row.
UserHolds == \A r \in Resources : holder[r] = User => row[r].status # "deleted"

\* A starter between insert and attach, and the scan it is starting, which
\* nobody else starts, whose run has not begun, and which no cancel can kill.
Starting(p) == starter[p].at \in {"claim", "start", "attach"}

StartersOK ==
    /\ \A p \in Starters : Starting(p) =>
         /\ starter[p].scan \in Scans
         /\ scan[starter[p].scan].status # "absent"
         /\ \A q \in Starters : Starting(q) /\ starter[q].scan = starter[p].scan => q = p
    /\ \A p \in Starters : starter[p].at \in {"claim", "start"} =>
         /\ scan[starter[p].scan].at = "none"
         /\ ~scan[starter[p].scan].attached
         /\ ~(canceler.at # "idle" /\ canceler.attached /\ canceler.scan = starter[p].scan)

CancelerOK ==
    canceler.at # "idle" =>
        /\ canceler.scan \in Scans
        /\ scan[canceler.scan].status # "absent"
        /\ canceler.at = "kill" => canceler.attached

\* A scan that is not there has no run.  What was applied when a scan began
\* has been applied since.  The cursor is where the pages have got to.  Every
\* row is ahead of the cursor, in the page, or counted, until the run fails.
Settled == {"live", "missing", "deleted"}

Accounted(s) ==
    \A r \in scan[s].applied : Present(r) =>
        r > scan[s].cursor \/ work[s][r].at # "none" \/ r \in counted[s]

PageEmpty(s) == \A r \in Resources : work[s][r].at = "none"

ScanOK(s) ==
    /\ scan[s].status = "absent" => scan[s].at = "none"
    /\ scan[s].applied \subseteq scan[s].older
    /\ \A r \in scan[s].applied : row[r].status \in Settled
    /\ scan[s].at \in {"none", "start"} => scan[s].cursor = 0
    /\ scan[s].at \in {"none", "start", "next"} => PageEmpty(s)
    /\ scan[s].at # "fail" => Accounted(s)

ScanInv ==
    /\ LockInv
    /\ RunsTyped
    /\ UserHolds
    /\ StartersOK
    /\ CancelerOK
    /\ \A s \in Scans : ScanOK(s)

LEMMA NoOpTyped == NoOp \in ScanRecord /\ NoOp.applied = {} /\ NoOp.older = {}
BY DEF NoOp, ScanRecord, Statuses, OpenStatuses, Stages

LEMMA InitScan == Init => ScanInv
<1> SUFFICES ASSUME Init PROVE ScanInv OBVIOUS
<1>1. LockInv BY InitLock
<1>2. RunsTyped
  BY NoOpTyped DEF Init, RunsTyped, Free, NoCancel, NoScan
<1>3. UserHolds BY DEF Init, UserHolds, Nobody, User
<1>4. StartersOK /\ CancelerOK
  BY DEF Init, StartersOK, CancelerOK, Starting, NoOp, Free, NoCancel
<1>5. \A s \in Scans : ScanOK(s)
  BY DEF Init, ScanOK, Accounted, PageEmpty, NoOp, NoWork
<1> QED BY <1>1, <1>2, <1>3, <1>4, <1>5 DEF ScanInv

\* Who may become the holder of a row, and what it finds there.
LEMMA NewHolder ==
    ASSUME LockInv, Next, NEW r \in Resources, holder'[r] = User, holder[r] # User
    PROVE UserOpens(r) \/ UserCreates(r)
<1> USE ScanAssumption DEF LockInv, WorkTyped, User, Nobody
<1>1. ASSUME NEW q \in Resources, UserOpens(q) \/ UserCreates(q) PROVE q = r
  BY <1>1 DEF UserOpens, UserCreates
<1>2. ASSUME NEW q \in Resources, UserCloses(q) \/ Drift(q) PROVE FALSE
  BY <1>2 DEF UserCloses, Drift
<1>3. ~(CheckIntegration \/ deleteIntegration \/ IntervalOver)
  BY DEF CheckIntegration, deleteIntegration, IntervalOver
<1>4. ASSUME NEW p \in Starters, PostScan(p) \/ StarterStep(p) \/ StarterDies(p)
      PROVE FALSE
  BY <1>4 DEF PostScan, StarterDies, StarterStep, Tick, startProjectScan,
     claimProjectScan, StartRun, StartRunFails, attachOperationWorkflowRun
<1>5. ASSUME NEW s \in Scans, retryOperation(s) \/ RunStep(s) \/ CancelRead(s)
      PROVE FALSE
  BY <1>5 DEF retryOperation, RunStep, startScanOperation, StepFails,
     getNextScanResources, completeScanOperation, getScanResourceIntegrationGroups,
     failScanOperation, CancelRead
<1>6. ~CancelStep
  BY DEF CancelStep, markOperationCanceled, KillRun, markOperationCanceling
<1>7. ASSUME NEW s \in Scans, NEW q \in Resources, CancelAlignment(s, q) PROVE FALSE
  BY <1>7 DEF CancelAlignment
<1>8. ASSUME NEW s \in Scans, NEW q \in Resources, ResourceStep(s, q) PROVE FALSE
  <2>1. s # User BY DEF User
  <2>2. holder' = holder \/ holder' = [holder EXCEPT ![q] = s]
                         \/ holder' = [holder EXCEPT ![q] = Nobody]
    BY <1>8 DEF ResourceStep, readResourceState, getScanResourcePatch,
       createScanAlignmentOperation, AlignmentAnswerLost, createAlignmentThrows,
       completeScanAlignmentOperation, failScanAlignmentOperation, Release
  <2> QED BY <2>1, <2>2
<1> QED BY <1>1, <1>2, <1>3, <1>4, <1>5, <1>6, <1>7, <1>8 DEF Next, UserStep

\* A row that was applied stays so or is deleted, and a deleted one does not
\* come back.
LEMMA RowsGoOn ==
    ASSUME LockInv, UserHolds, Next
    PROVE /\ \A r \in Resources : row[r].status \in Settled =>
                /\ row'[r].status \in Settled
                /\ row[r].status = "deleted" => row'[r].status = "deleted"
          /\ UserHolds'
<1> USE DEF LockInv, WorkTyped
<1>1. CASE row' = row
  <2>1. ASSUME NEW r \in Resources, holder'[r] = User, holder[r] # User
        PROVE row[r].status # "deleted"
    <3>1. UserOpens(r) \/ UserCreates(r) BY <2>1, NewHolder
    <3> QED BY <3>1 DEF UserOpens, UserCreates
  <2> QED BY <1>1, <2>1 DEF UserHolds
<1>2. CASE row' # row
  <2>1. PICK q \in Resources :
             \/ UserCreates(q)
             \/ UserCloses(q)
             \/ \E s \in Scans : completeScanAlignmentOperation(s, q)
    BY <1>2, Writers
  <2>2. CASE UserCreates(q)
    <3>1. row[q].status = "absent" /\ row'[q].status = "stub"
      BY <2>2 DEF UserCreates
    <3>2. \A r \in Resources : r # q => holder'[r] = holder[r] /\ row'[r] = row[r]
      BY <2>2 DEF UserCreates
    <3>3. row[q].status \notin Settled /\ row'[q].status # "deleted"
      BY <3>1 DEF Settled
    <3>4. UserHolds' BY <3>2, <3>3 DEF UserHolds
    <3>5. ASSUME NEW r \in Resources, row[r].status \in Settled PROVE row'[r] = row[r]
      BY <3>2, <3>3, <3>5
    <3>6. \A r \in Resources : row[r].status \in Settled =>
                /\ row'[r].status \in Settled
                /\ row[r].status = "deleted" => row'[r].status = "deleted"
      BY <3>5, Zenon
    <3> QED BY <3>4, <3>6
  <2>3. CASE UserCloses(q)
    <3>1. row[q].status # "deleted" BY <2>3 DEF UserCloses, UserHolds
    <3>2. holder'[q] = Nobody /\ \A r \in Resources : r # q =>
              holder'[r] = holder[r] /\ row'[r] = row[r]
      BY <2>3 DEF UserCloses
    <3>3. row[q].status \in Settled => row'[q].status \in Settled
      <4>1. row[q] \in [status : RowStatuses, facts : Facts \cup {NoFacts}] OBVIOUS
      <4> QED BY <2>3, <4>1 DEF UserCloses, Settled
    <3>4. UserHolds' BY <3>2 DEF UserHolds, Nobody, User
    <3>5. ASSUME NEW r \in Resources, row[r].status \in Settled
          PROVE /\ row'[r].status \in Settled
                /\ row[r].status = "deleted" => row'[r].status = "deleted"
      <4>1. CASE r = q BY <3>1, <3>3, <3>5, <4>1
      <4>2. CASE r # q BY <3>2, <3>5, <4>2
      <4> QED BY <4>1, <4>2
    <3> QED BY <3>4, <3>5
  <2>4. ASSUME NEW s \in Scans, completeScanAlignmentOperation(s, q)
        PROVE /\ \A r \in Resources : row[r].status \in Settled =>
                /\ row'[r].status \in Settled
                /\ row[r].status = "deleted" => row'[r].status = "deleted"
              /\ UserHolds'
    <3>1. /\ row'[q].status \in Settled
          /\ row'[q].status = "deleted" <=> row[q].status = "deleted"
          /\ \A r \in Resources : r # q => row'[r] = row[r]
      BY <2>4 DEF completeScanAlignmentOperation, Patched, Settled
    <3>2. \A r \in Resources : holder'[r] = User => holder[r] = User
      BY <2>4 DEF completeScanAlignmentOperation, Release, Nobody, User
    <3> QED BY <3>1, <3>2 DEF UserHolds
  <2> QED BY <2>1, <2>2, <2>3, <2>4
<1> QED BY <1>1, <1>2
LEMMA PresentBack ==
    ASSUME ScanInv, Next, NEW s \in Scans, NEW r \in scan[s].applied, Present(r)'
    PROVE Present(r)
<1>1. r \in Resources BY DEF ScanInv, RunsTyped, ScanRecord
<1>2. row[r].status \in Settled BY DEF ScanInv, ScanOK
<1>3. row'[r].status # "deleted" BY DEF Present
<1> QED BY <1>1, <1>2, <1>3, RowsGoOn DEF ScanInv, Present, Settled

\* A scan whose rows are neither lost nor read again stays accounted for.
LEMMA Keeps ==
    ASSUME ScanInv, Next, NEW s \in Scans, scan[s].at # "fail",
           scan'[s].applied = scan[s].applied, scan'[s].cursor = scan[s].cursor,
           \A r \in Resources : work[s][r].at # "none" \/ r \in counted[s]
                             => work'[s][r].at # "none" \/ r \in counted'[s]
    PROVE Accounted(s)'
<1> SUFFICES ASSUME NEW r \in scan[s].applied, Present(r)'
             PROVE r > scan[s].cursor \/ work'[s][r].at # "none" \/ r \in counted'[s]
  BY DEF Accounted
<1>1. r \in Resources BY DEF ScanInv, RunsTyped, ScanRecord
<1>2. Accounted(s) BY DEF ScanInv, ScanOK
<1> QED BY <1>1, <1>2, PresentBack DEF Accounted

LEMMA AppliedGoOn ==
    ASSUME ScanInv, Next, NEW s \in Scans, scan'[s].applied = scan[s].applied
    PROVE \A r \in scan'[s].applied : row'[r].status \in Settled
<1> SUFFICES ASSUME NEW r \in scan[s].applied PROVE row'[r].status \in Settled
  OBVIOUS
<1>1. r \in Resources BY DEF ScanInv, RunsTyped, ScanRecord
<1>2. row[r].status \in Settled BY DEF ScanInv, ScanOK
<1> QED BY <1>1, <1>2, RowsGoOn DEF ScanInv

Same(s) == scan'[s] = scan[s] /\ work'[s] = work[s] /\ counted'[s] = counted[s]

\* Whatever happens elsewhere.
LEMMA SameScan ==
    ASSUME ScanInv, Next, NEW s \in Scans, Same(s)
    PROVE ScanOK(s)'
<1>1. ScanOK(s) BY DEF ScanInv
<1>2. \A r \in scan'[s].applied : row'[r].status \in Settled
  BY AppliedGoOn DEF Same
<1>3. scan[s].at # "fail" => Accounted(s)'
  BY Keeps DEF Same
<1> QED BY <1>1, <1>2, <1>3 DEF ScanOK, Same, PageEmpty

\* A run that is over has nothing to account for.
LEMMA OverScan ==
    ASSUME ScanInv, NEW s \in Scans, NEW st \in Statuses \ {"absent"},
           NEW at \in {"done", "killed"}, Over(s, st, at)
    PROVE ScanOK(s)'
<1>1. scan'[s] = [NoOp EXCEPT !.status = st, !.at = at]
  BY DEF Over, ScanInv, RunsTyped
<1>2. scan'[s].status = st /\ scan'[s].at = at /\ scan'[s].applied = {} /\ scan'[s].older = {}
  BY <1>1 DEF NoOp
<1> QED BY <1>2 DEF ScanOK, Accounted

\* Starters and cancels do not notice what happens to other scans, or to a run
\* that has begun.
LEMMA StartersKept ==
    ASSUME ScanInv, UNCHANGED <<starter, canceler>>,
           \A s \in Scans : scan[s].status # "absent" =>
              /\ scan'[s].status # "absent"
              /\ scan[s].at = "none" => /\ scan'[s].at = "none"
                                        /\ scan'[s].attached => scan[s].attached
    PROVE StartersOK' /\ CancelerOK'
<1>1. CancelerOK' BY DEF ScanInv, CancelerOK
<1>2. StartersOK'
  <2>1. ASSUME NEW p \in Starters, Starting(p)'
        PROVE /\ starter'[p].scan \in Scans
              /\ scan'[starter'[p].scan].status # "absent"
              /\ \A q \in Starters : Starting(q)' /\ starter'[q].scan = starter'[p].scan => q = p
    BY <2>1 DEF ScanInv, StartersOK, Starting
  <2>2. ASSUME NEW p \in Starters, starter'[p].at \in {"claim", "start"}
        PROVE /\ scan'[starter'[p].scan].at = "none"
              /\ ~scan'[starter'[p].scan].attached
              /\ ~(canceler'.at # "idle" /\ canceler'.attached
                    /\ canceler'.scan = starter'[p].scan)
    <3>1. Starting(p) BY <2>2 DEF Starting
    <3>2. starter[p].scan \in Scans /\ scan[starter[p].scan].status # "absent"
      BY <3>1 DEF ScanInv, StartersOK
    <3>3. /\ scan[starter[p].scan].at = "none"
          /\ ~scan[starter[p].scan].attached
          /\ ~(canceler.at # "idle" /\ canceler.attached
                /\ canceler.scan = starter[p].scan)
      BY <2>2 DEF ScanInv, StartersOK
    <3> QED BY <3>2, <3>3
  <2> QED BY <2>1, <2>2 DEF StartersOK
<1> QED BY <1>1, <1>2
RunsOK == RunsTyped /\ StartersOK /\ CancelerOK /\ \A s \in Scans : ScanOK(s)

LEMMA QuietRuns ==
    ASSUME ScanInv, Next, UNCHANGED <<scan, work, counted, starter, canceler>>
    PROVE RunsOK'
<1>1. RunsTyped' BY DEF ScanInv, RunsTyped
<1>2. StartersOK' /\ CancelerOK' BY StartersKept
<1>3. \A s \in Scans : ScanOK(s)' BY SameScan DEF Same
<1> QED BY <1>1, <1>2, <1>3 DEF RunsOK

LEMMA UserRuns == ASSUME ScanInv, Next, UserStep PROVE RunsOK'
<1>1. UNCHANGED <<scan, work, counted, starter, canceler>>
  BY DEF UserStep, UserOpens, UserCreates, UserCloses, Drift, CheckIntegration,
         deleteIntegration, IntervalOver
<1> QED BY <1>1, QuietRuns

\* A run's own step.
LEMMA RunMoves ==
    ASSUME ScanInv, Next, NEW s \in Scans, NEW v \in ScanRecord,
           scan' = [scan EXCEPT ![s] = v], v.status # "absent", scan[s].at # "none",
           UNCHANGED <<starter, canceler>>,
           counted' \in [Scans -> SUBSET Resources],
           \A q \in Scans : q # s => work'[q] = work[q] /\ counted'[q] = counted[q],
           ScanOK(s)'
    PROVE RunsOK'
<1>1. RunsTyped' BY DEF ScanInv, RunsTyped
<1>2. StartersOK' /\ CancelerOK' BY StartersKept DEF ScanInv, RunsTyped
<1>3. ASSUME NEW q \in Scans PROVE ScanOK(q)'
  <2>1. CASE q = s BY <2>1
  <2>2. CASE q # s BY <2>2, SameScan DEF Same, ScanInv, RunsTyped
  <2> QED BY <2>1, <2>2
<1> QED BY <1>1, <1>2, <1>3 DEF RunsOK

\* What a run does to the rows of its page.
LEMMA PageMoves ==
    ASSUME ScanInv, Next, NEW s \in Scans, scan' = scan,
           scan[s].at \notin {"none", "start", "next"},
           UNCHANGED <<starter, canceler>>,
           counted' \in [Scans -> SUBSET Resources],
           \A q \in Scans : q # s => work'[q] = work[q] /\ counted'[q] = counted[q],
           \A r \in Resources : work[s][r].at # "none" \/ r \in counted[s]
                             => work'[s][r].at # "none" \/ r \in counted'[s]
    PROVE RunsOK'
<1>1. ScanOK(s)'
  <2>1. ScanOK(s) BY DEF ScanInv
  <2>2. \A r \in scan'[s].applied : row'[r].status \in Settled BY AppliedGoOn
  <2>3. scan[s].at # "fail" => Accounted(s)' BY Keeps
  <2> QED BY <2>1, <2>2, <2>3 DEF ScanOK
<1>2. scan[s] \in ScanRecord /\ scan' = [scan EXCEPT ![s] = scan[s]]
      /\ scan[s].status # "absent" /\ scan[s].at # "none"
  BY DEF ScanInv, RunsTyped, ScanOK
<1> QED BY <1>1, <1>2, RunMoves

LEMMA SettleRuns ==
    ASSUME ScanInv, Next, NEW s \in Scans, NEW r \in Resources, Settle(s, r), scan' = scan,
           scan[s].at \notin {"none", "start", "next"},
           UNCHANGED <<starter, canceler>>
    PROVE RunsOK'
<1>1. counted' \in [Scans -> SUBSET Resources]
  BY DEF ScanInv, RunsTyped, Settle
<1>2. \A q \in Scans : q # s => work'[q] = work[q] /\ counted'[q] = counted[q]
  BY DEF ScanInv, LockInv, WorkTyped, RunsTyped, Settle
<1>3. \A q \in Resources : work[s][q].at # "none" \/ q \in counted[s]
                        => work'[s][q].at # "none" \/ q \in counted'[s]
  BY DEF ScanInv, LockInv, WorkTyped, RunsTyped, Settle
<1> QED BY <1>1, <1>2, <1>3, PageMoves

LEMMA MoveRuns ==
    ASSUME ScanInv, Next, NEW s \in Scans, NEW r \in Resources, NEW a \in WorkStages \ {"none"},
           \/ work' = [work EXCEPT ![s][r].at = a]
           \/ work' = [work EXCEPT ![s][r].at = a, ![s][r].saw = cloud[r]],
           scan' = scan, counted' = counted,
           scan[s].at \notin {"none", "start", "next"},
           UNCHANGED <<starter, canceler>>
    PROVE RunsOK'
<1>1. \A q \in Scans : q # s => work'[q] = work[q]
  BY DEF ScanInv, LockInv, WorkTyped
<1>2. work[s][r] \in Work BY DEF ScanInv, LockInv, WorkTyped
<1>3. work'[s][r].at = a /\ \A q \in Resources : q # r => work'[s][q] = work[s][q]
  BY <1>2 DEF ScanInv, LockInv, WorkTyped, Work
<1>4. counted' \in [Scans -> SUBSET Resources] BY DEF ScanInv, RunsTyped
<1>5. \A q \in Resources : work[s][q].at # "none" \/ q \in counted[s]
                        => work'[s][q].at # "none" \/ q \in counted'[s]
  BY <1>3
<1> QED BY <1>1, <1>4, <1>5, PageMoves
\* The stages in which the rows of a page are at work.
LEMMA AligningStage ==
    ASSUME NEW s \in Scans, Aligning(s)
    PROVE scan[s].at \notin {"none", "start", "next"}
BY DEF Aligning

LEMMA ResourceRuns ==
    ASSUME ScanInv, Next, NEW s \in Scans, NEW r \in Resources, ResourceStep(s, r)
    PROVE RunsOK'
<1>1. CASE readResourceState(s, r)
  <2>1. scan[s].at \notin {"none", "start", "next"} BY <1>1 DEF readResourceState, At
  <2>2. CASE Settle(s, r) BY <1>1, <2>1, <2>2, SettleRuns DEF readResourceState
  <2>3. CASE work' = [work EXCEPT ![s][r].at = "got", ![s][r].saw = cloud[r]]
             /\ UNCHANGED counted
    <3>1. "got" \in WorkStages \ {"none"} BY DEF WorkStages
    <3>2. scan' = scan /\ counted' = counted /\ UNCHANGED <<starter, canceler>>
      BY <1>1, <2>3 DEF readResourceState
    <3>3. scan[s].at \notin {"none", "start", "next"} BY <2>1
    <3> QED BY <2>3, <3>1, <3>2, <3>3, MoveRuns, Zenon
  <2> QED BY <1>1, <2>2, <2>3 DEF readResourceState
<1>2. CASE getScanResourcePatch(s, r)
  <2>1. CASE Settle(s, r)
    BY <1>2, <2>1, AligningStage, SettleRuns DEF getScanResourcePatch
  <2>2. CASE work' = [work EXCEPT ![s][r].at = "drift"] /\ UNCHANGED counted
    <3>1. "drift" \in WorkStages \ {"none"} BY DEF WorkStages
    <3>2. scan' = scan /\ counted' = counted /\ UNCHANGED <<starter, canceler>>
      BY <1>2, <2>2 DEF getScanResourcePatch
    <3>3. scan[s].at \notin {"none", "start", "next"} BY <1>2, AligningStage DEF getScanResourcePatch
    <3> QED BY <2>2, <3>1, <3>2, <3>3, MoveRuns, Zenon
  <2> QED BY <1>2, <2>1, <2>2 DEF getScanResourcePatch
<1>3. CASE createScanAlignmentOperation(s, r)
  <2>1. CASE Settle(s, r)
    BY <1>3, <2>1, AligningStage, SettleRuns DEF createScanAlignmentOperation
  <2>2. CASE work' = [work EXCEPT ![s][r].at = "opened"] /\ UNCHANGED counted
    <3>1. "opened" \in WorkStages \ {"none"} BY DEF WorkStages
    <3>2. scan' = scan /\ counted' = counted /\ UNCHANGED <<starter, canceler>>
      BY <1>3, <2>2 DEF createScanAlignmentOperation
    <3>3. scan[s].at \notin {"none", "start", "next"} BY <1>3, AligningStage DEF createScanAlignmentOperation
    <3> QED BY <2>2, <3>1, <3>2, <3>3, MoveRuns, Zenon
  <2> QED BY <1>3, <2>1, <2>2 DEF createScanAlignmentOperation
<1>4. CASE AlignmentAnswerLost(s, r) \/ completeScanAlignmentOperation(s, r)
           \/ failScanAlignmentOperation(s, r)
  BY <1>4, AligningStage, SettleRuns DEF AlignmentAnswerLost,
     completeScanAlignmentOperation, failScanAlignmentOperation
<1>5. CASE createAlignmentThrows(s, r)
  <2> DEFINE v == [scan[s] EXCEPT !.at = "fail"]
  <2>1. scan[s] \in ScanRecord BY DEF ScanInv, RunsTyped
  <2>2. v \in ScanRecord /\ v.at = "fail" /\ v.status = scan[s].status
        /\ v.applied = scan[s].applied /\ v.older = scan[s].older
    BY <2>1 DEF ScanRecord, Stages
  <2>3. scan' = [scan EXCEPT ![s] = v] /\ UNCHANGED <<starter, canceler, counted>>
    BY <1>5 DEF createAlignmentThrows, Goto, ScanInv, RunsTyped
  <2>4. scan[s].at = "page" BY <1>5 DEF createAlignmentThrows, At
  <2>5. \A q \in Scans : q # s => work'[q] = work[q]
    BY <1>5 DEF createAlignmentThrows, ScanInv, LockInv, WorkTyped
  <2> HIDE DEF v
  <2>6. ScanOK(s)'
    <3>1. ScanOK(s) BY DEF ScanInv
    <3>2. scan'[s] = v BY <2>3 DEF ScanInv, RunsTyped
    <3>3. \A x \in scan'[s].applied : row'[x].status \in Settled
      BY <2>2, <3>2, AppliedGoOn
    <3> QED BY <2>2, <2>4, <3>1, <3>2, <3>3 DEF ScanOK
  <2>7. v.status # "absent" BY <2>2, <2>4 DEF ScanInv, ScanOK
  <2>8. counted' \in [Scans -> SUBSET Resources] BY <2>3 DEF ScanInv, RunsTyped
  <2> QED BY <2>2, <2>3, <2>4, <2>5, <2>6, <2>7, <2>8, RunMoves
<1> QED BY <1>1, <1>2, <1>3, <1>4, <1>5 DEF ResourceStep

\* A run is over, whoever ended it.
LEMMA OverRuns ==
    ASSUME ScanInv, Next, NEW s \in Scans, NEW st \in Statuses \ {"absent"},
           NEW at \in {"done", "killed"}, Over(s, st, at), Forget(s), scan[s].at # "none",
           UNCHANGED <<starter, canceler>>
    PROVE RunsOK'
<1> DEFINE v == [NoOp EXCEPT !.status = st, !.at = at]
<1>1. scan' = [scan EXCEPT ![s] = v] BY DEF Over
<1>2. v \in ScanRecord /\ v.status # "absent"
  BY NoOpTyped DEF ScanRecord, Stages, NoOp
<1>3. ScanOK(s)' BY OverScan
<1>4. counted' \in [Scans -> SUBSET Resources] /\
      \A q \in Scans : q # s => work'[q] = work[q] /\ counted'[q] = counted[q]
  BY DEF Forget, ScanInv, RunsTyped, LockInv, WorkTyped
<1> HIDE DEF v
<1> QED BY <1>1, <1>2, <1>3, <1>4, RunMoves

LEMMA StageRuns ==
    ASSUME ScanInv, Next, NEW s \in Scans, NEW st \in Statuses \ {"absent"},
           NEW at \in {"next", "fail"},
           scan' = [scan EXCEPT ![s].status = st, ![s].at = at],
           scan[s].at # "none", at = "next" => scan[s].at = "start",
           UNCHANGED <<starter, canceler, work, counted>>
    PROVE RunsOK'
<1> DEFINE v == [scan[s] EXCEPT !.status = st, !.at = at]
<1>1. scan[s] \in ScanRecord BY DEF ScanInv, RunsTyped
<1>2. /\ v \in ScanRecord /\ v.at = at /\ v.status = st /\ v.cursor = scan[s].cursor
      /\ v.applied = scan[s].applied /\ v.older = scan[s].older
  BY <1>1 DEF ScanRecord, Stages
<1>3. scan' = [scan EXCEPT ![s] = v] /\ scan'[s] = v
  BY DEF ScanInv, RunsTyped
<1> HIDE DEF v
<1>4. ScanOK(s)'
  <2>1. ScanOK(s) BY DEF ScanInv
  <2>2. \A x \in scan'[s].applied : row'[x].status \in Settled
    BY <1>2, <1>3, AppliedGoOn
  <2>3. at = "next" => Accounted(s)' BY <1>2, <1>3, Keeps
  <2>4. at = "next" => PageEmpty(s)' BY <2>1 DEF ScanOK, PageEmpty
  <2> QED BY <1>2, <1>3, <2>1, <2>2, <2>3, <2>4 DEF ScanOK
<1>5. counted' \in [Scans -> SUBSET Resources] BY DEF ScanInv, RunsTyped
<1> QED BY <1>2, <1>3, <1>4, <1>5, RunMoves

\* A run between two pages.
LEMMA BetweenPages ==
    ASSUME ScanInv, NEW s \in Scans, AtNext(s)
    PROVE PageEmpty(s) /\ scan[s].at \notin {"none", "start", "fail"}
          /\ scan[s].status # "absent"
BY DEF AtNext, At, Page, PageEmpty, ScanInv, ScanOK

\* The next page takes over what is up to its last row.
LEMMA NextPageRuns ==
    ASSUME ScanInv, Next, NEW s \in Scans, getNextScanResources(s)
    PROVE RunsOK'
<1> DEFINE free == {r \in Batch(s) : holder[r] = Nobody}
           at == IF free = {} THEN "next" ELSE "group"
           m == Max(Batch(s))
           v == [scan[s] EXCEPT !.cursor = m, !.at = at]
<1>1. scan[s] \in ScanRecord BY DEF ScanInv, RunsTyped
<1>2. scan[s].older \subseteq Resources BY <1>1 DEF ScanRecord
<1>3. Batch(s) # {} /\ Batch(s) \subseteq Resources
  BY <1>2 DEF getNextScanResources, Batch, scanCandidateFilter
<1>4. m \in Resources /\ \A r \in Rest(s) : r \in Batch(s) \/ r > m
  BY <1>2, <1>3, PageIsFirst
<1>5. /\ scan' = [scan EXCEPT ![s] = v]
      /\ counted' = [counted EXCEPT ![s] = @ \cup (Batch(s) \ free)]
      /\ work' = [work EXCEPT ![s] = [r \in Resources |-> IF r \in free
                     THEN [at |-> "group", was |-> row[r].status,
                           facts |-> row[r].facts, saw |-> NoFacts]
                     ELSE NoWork]]
      /\ UNCHANGED <<starter, canceler>>
  BY DEF getNextScanResources, ScanInv, RunsTyped
<1> HIDE DEF m
<1>6. /\ v \in ScanRecord /\ v.at = at /\ v.status = scan[s].status /\ v.cursor = m
      /\ v.applied = scan[s].applied /\ v.older = scan[s].older
  BY <1>1, <1>4 DEF ScanRecord, Stages
<1> HIDE DEF v
<1>7. scan'[s] = v BY <1>5 DEF ScanInv, RunsTyped
<1>8. /\ \A r \in Resources : work'[s][r].at # "none" <=> r \in free
      /\ counted'[s] = counted[s] \cup (Batch(s) \ free)
  BY <1>5 DEF ScanInv, LockInv, WorkTyped, RunsTyped, NoWork
<1>9. PageEmpty(s) /\ scan[s].at \notin {"none", "start", "fail"} /\ scan[s].status # "absent"
  BY BetweenPages DEF getNextScanResources
<1>10. ScanOK(s)'
  <2>1. ScanOK(s) BY DEF ScanInv
  <2>2. \A x \in scan'[s].applied : row'[x].status \in Settled
    BY <1>6, <1>7, AppliedGoOn
  <2>3. Accounted(s)'
    <3> SUFFICES ASSUME NEW r \in scan[s].applied, Present(r)'
                 PROVE r > m \/ work'[s][r].at # "none" \/ r \in counted'[s]
      BY <1>6, <1>7 DEF Accounted
    <3>1. r \in Resources /\ r \in scan[s].older BY <1>2, <2>1 DEF ScanOK
    <3>2. Present(r) /\ row[r].status # "stub" BY <2>1, PresentBack DEF ScanOK, Settled
    <3>3. r > scan[s].cursor \/ r \in counted[s]
      BY <1>9, <2>1, <3>1, <3>2 DEF ScanOK, Accounted, PageEmpty
    <3>4. CASE r > scan[s].cursor
      <4>1. r \in Rest(s) BY <3>1, <3>2, <3>4 DEF Rest, scanCandidateFilter
      <4> QED BY <1>4, <1>8, <3>1, <4>1
    <3> QED BY <1>8, <3>3, <3>4
  <2>4. at = "next" => PageEmpty(s)' BY <1>8 DEF PageEmpty
  <2> QED BY <1>6, <1>7, <1>9, <2>1, <2>2, <2>3, <2>4 DEF ScanOK
<1>11. counted' \in [Scans -> SUBSET Resources]
  BY <1>3, <1>5 DEF ScanInv, RunsTyped
<1>12. \A q \in Scans : q # s => work'[q] = work[q] /\ counted'[q] = counted[q]
  BY <1>5 DEF ScanInv, LockInv, WorkTyped, RunsTyped
<1> QED BY <1>5, <1>6, <1>9, <1>10, <1>11, <1>12, RunMoves

LEMMA GroupRuns ==
    ASSUME ScanInv, Next, NEW s \in Scans, getScanResourceIntegrationGroups(s)
    PROVE RunsOK'
<1>1. PICK at \in {"page", "next"} :
          /\ scan' = [scan EXCEPT ![s].at = at]
          /\ \A r \in Resources : work[s][r].at # "none" \/ r \in counted[s]
                               => work'[s][r].at # "none" \/ r \in counted'[s]
          /\ at = "next" => PageEmpty(s)'
          /\ \A q \in Scans : q # s => work'[q] = work[q] /\ counted'[q] = counted[q]
          /\ counted' \in [Scans -> SUBSET Resources]
  <2>1. CASE integration # "deleted"
    <3>1. scan' = [scan EXCEPT ![s].at = "page"] /\ counted' = counted
          /\ work' = [work EXCEPT ![s] = [r \in Resources |-> IF r \in Page(s)
                         THEN [@[r] EXCEPT !.at = "read"] ELSE @[r]]]
      BY <2>1 DEF getScanResourceIntegrationGroups, Goto
    <3>2. \A r \in Resources : work[s][r] \in Work BY DEF ScanInv, LockInv, WorkTyped
    <3>3. \A r \in Resources : work[s][r].at # "none" => work'[s][r].at = "read"
      BY <3>1, <3>2 DEF Page, ScanInv, LockInv, WorkTyped, Work
    <3>4. \A q \in Scans : q # s => work'[q] = work[q]
      BY <3>1 DEF ScanInv, LockInv, WorkTyped
    <3> QED BY <3>1, <3>3, <3>4 DEF ScanInv, RunsTyped
  <2>2. CASE integration = "deleted"
    <3>1. scan' = [scan EXCEPT ![s].at = "next"]
          /\ counted' = [counted EXCEPT ![s] = @ \cup Page(s)]
          /\ work' = [work EXCEPT ![s] = [r \in Resources |-> NoWork]]
      BY <2>2 DEF getScanResourceIntegrationGroups, Goto
    <3>2. counted'[s] = counted[s] \cup Page(s) /\ \A r \in Resources : work'[s][r] = NoWork
      BY <3>1 DEF ScanInv, RunsTyped, LockInv, WorkTyped
    <3>3. PageEmpty(s)' BY <3>2 DEF PageEmpty, NoWork
    <3>4. \A q \in Scans : q # s => work'[q] = work[q] /\ counted'[q] = counted[q]
      BY <3>1 DEF ScanInv, RunsTyped, LockInv, WorkTyped
    <3>5. \A r \in Resources : work[s][r].at # "none" \/ r \in counted[s] => r \in counted'[s]
      BY <3>2 DEF Page
    <3>6. counted' \in [Scans -> SUBSET Resources]
      BY <3>1 DEF ScanInv, RunsTyped, Page
    <3> QED BY <3>1, <3>3, <3>4, <3>5, <3>6
  <2> QED BY <2>1, <2>2
<1> DEFINE v == [scan[s] EXCEPT !.at = at]
<1>2. scan[s] \in ScanRecord BY DEF ScanInv, RunsTyped
<1>3. /\ v \in ScanRecord /\ v.at = at /\ v.status = scan[s].status
      /\ v.cursor = scan[s].cursor /\ v.applied = scan[s].applied /\ v.older = scan[s].older
  BY <1>2 DEF ScanRecord, Stages
<1>4. scan' = [scan EXCEPT ![s] = v] /\ scan'[s] = v /\ UNCHANGED <<starter, canceler>>
  BY <1>1 DEF ScanInv, RunsTyped, getScanResourceIntegrationGroups
<1> HIDE DEF v
<1>5. scan[s].at = "group" BY DEF getScanResourceIntegrationGroups, At
<1>6. scan[s].status # "absent" BY <1>5 DEF ScanInv, ScanOK
<1>7. ScanOK(s)'
  <2>1. ScanOK(s) BY DEF ScanInv
  <2>2. \A x \in scan'[s].applied : row'[x].status \in Settled
    BY <1>3, <1>4, AppliedGoOn
  <2>3. Accounted(s)' BY <1>1, <1>3, <1>4, <1>5, Keeps
  <2> QED BY <1>1, <1>3, <1>4, <1>6, <2>1, <2>2, <2>3 DEF ScanOK
<1> QED BY <1>1, <1>3, <1>4, <1>5, <1>6, <1>7, RunMoves

LEMMA RunRuns ==
    ASSUME ScanInv, Next, NEW s \in Scans, RunStep(s)
    PROVE RunsOK'
<1>1. scan[s] \in ScanRecord /\ (scan[s].at # "none" => scan[s].status # "absent")
  BY DEF ScanInv, RunsTyped, ScanOK
<1>2. scan[s].status \in Statuses BY <1>1 DEF ScanRecord
<1>3. ASSUME scan' = [scan EXCEPT ![s].at = "fail"], scan[s].at # "none",
             UNCHANGED <<starter, canceler, work, counted>>
      PROVE RunsOK'
  <2>1. scan' = [scan EXCEPT ![s].status = scan[s].status, ![s].at = "fail"]
    BY <1>1, <1>3 DEF ScanInv, RunsTyped, ScanRecord
  <2>2. scan[s].status \in Statuses \ {"absent"} BY <1>1, <1>2, <1>3
  <2> QED BY <1>3, <2>1, <2>2, StageRuns
<1>4. CASE startScanOperation(s)
  <2>1. scan[s].at = "start" /\ UNCHANGED <<starter, canceler, work, counted>>
    BY <1>4 DEF startScanOperation, At
  <2>2. CASE scan' = [scan EXCEPT ![s].at = "fail"] BY <1>3, <2>1, <2>2
  <2>3. CASE scan' = [scan EXCEPT ![s].status = "running", ![s].at = "next"]
    <3>1. "running" \in Statuses \ {"absent"} BY DEF Statuses, OpenStatuses
    <3> QED BY <2>1, <2>3, <3>1, StageRuns
  <2> QED BY <1>4, <2>2, <2>3 DEF startScanOperation
<1>5. CASE StepFails(s)
  BY <1>3, <1>5, BetweenPages DEF StepFails, At, Goto
<1>6. CASE getNextScanResources(s) BY <1>6, NextPageRuns
<1>7. CASE completeScanOperation(s)
  <2>1. scan[s].at # "none" BY <1>7, BetweenPages DEF completeScanOperation
  <2>2. "succeeded" \in Statuses \ {"absent"} BY DEF Statuses
  <2> QED BY <1>7, <2>1, <2>2, OverRuns DEF completeScanOperation
<1>8. CASE getScanResourceIntegrationGroups(s) BY <1>8, GroupRuns
<1>9. CASE failScanOperation(s)
  <2>1. "failed" \in Statuses \ {"absent"} BY DEF Statuses
  <2> QED BY <1>9, <2>1, OverRuns DEF failScanOperation, At
<1> QED BY <1>4, <1>5, <1>6, <1>7, <1>8, <1>9 DEF RunStep

\* What starters and cancels do to a scan: its run starts or goes on.
ScansOK == scan \in [Scans -> ScanRecord] /\ \A s \in Scans : ScanOK(s)

LEMMA HeadMoves ==
    ASSUME ScanInv, Next, NEW x \in Scans, NEW st \in Statuses \ {"absent"},
           NEW at \in Stages, NEW attached \in BOOLEAN,
           at = scan[x].at \/ (scan[x].at = "none" /\ at = "start"),
           scan' = [scan EXCEPT ![x] = [@ EXCEPT !.status = st, !.at = at, !.attached = attached]],
           UNCHANGED <<work, counted>>
    PROVE ScansOK'
<1> DEFINE v == [scan[x] EXCEPT !.status = st, !.at = at, !.attached = attached]
<1>1. scan[x] \in ScanRecord BY DEF ScanInv, RunsTyped
<1>2. /\ v \in ScanRecord /\ v.at = at /\ v.status = st /\ v.cursor = scan[x].cursor
      /\ v.applied = scan[x].applied /\ v.older = scan[x].older
  BY <1>1 DEF ScanRecord
<1>3. scan' = [scan EXCEPT ![x] = v] /\ scan'[x] = v
  BY DEF ScanInv, RunsTyped
<1> HIDE DEF v
<1>4. ScanOK(x)'
  <2>1. ScanOK(x) BY DEF ScanInv
  <2>2. \A r \in scan'[x].applied : row'[r].status \in Settled
    BY <1>2, <1>3, AppliedGoOn
  <2>3. scan[x].at # "fail" => Accounted(x)' BY <1>2, <1>3, Keeps
  <2> QED BY <1>2, <1>3, <2>1, <2>2, <2>3 DEF ScanOK, PageEmpty
<1>5. ASSUME NEW q \in Scans, q # x PROVE ScanOK(q)'
  BY <1>3, <1>5, SameScan DEF Same, ScanInv, RunsTyped
<1> QED BY <1>2, <1>3, <1>4, <1>5 DEF ScansOK, ScanInv, RunsTyped

LEMMA UnusedMin ==
    ASSUME Unused # {} PROVE Min(Unused) \in Scans /\ scan[Min(Unused)].status = "absent"
<1>1. Unused \subseteq Scans BY DEF Unused
<1>2. IsFiniteSet(Scans) /\ Scans \subseteq Int BY ScanAssumption
<1>3. IsFiniteSet(Unused) /\ Unused \subseteq Int BY <1>1, <1>2, FS_Subset
<1>4. Min(Unused) \in Unused BY <1>3, Minimum
<1> QED BY <1>4 DEF Unused

\* A new scan: the rows applied by now are all ahead of it.
LEMMA InsertOK ==
    ASSUME ScanInv, Next, NEW u \in Scans, scan[u].status = "absent", InsertScan(u),
           UNCHANGED <<row, work, counted>>
    PROVE /\ ScansOK'
          /\ scan'[u].status = "pending" /\ scan'[u].at = "none" /\ ~scan'[u].attached
          /\ \A q \in Scans : q # u => scan'[q] = scan[q]
<1> DEFINE older == {r \in Resources : row[r].status # "absent"}
           applied == {r \in Resources : row[r].status \in {"live", "missing"}}
           v == [NoOp EXCEPT !.status = "pending", !.older = older, !.applied = applied]
<1>1. scan' = [scan EXCEPT ![u] = v] BY DEF InsertScan
<1>2. /\ v \in ScanRecord /\ v.status = "pending" /\ v.at = "none" /\ ~v.attached
      /\ v.cursor = 0 /\ v.applied = applied /\ v.older = older
  BY DEF NoOp, ScanRecord, Statuses, OpenStatuses, Stages
<1>3. scan'[u] = v /\ \A q \in Scans : q # u => scan'[q] = scan[q]
  BY <1>1 DEF ScanInv, RunsTyped
<1> HIDE DEF v
<1>4. PageEmpty(u)' BY DEF ScanInv, ScanOK, PageEmpty
<1>5. applied \subseteq older /\ \A r \in applied : row'[r].status \in Settled
  BY DEF Settled
<1>6. Accounted(u)'
  <2>1. scan'[u].applied = applied /\ scan'[u].cursor = 0 BY <1>2, <1>3
  <2>2. \A r \in applied : r > 0 BY ScanAssumption
  <2> HIDE DEF applied
  <2> QED BY <2>1, <2>2 DEF Accounted
<1>7. ScanOK(u)' BY <1>2, <1>3, <1>4, <1>5, <1>6 DEF ScanOK
<1>8. ASSUME NEW q \in Scans, q # u PROVE ScanOK(q)'
  BY <1>3, <1>8, SameScan DEF Same
<1> QED BY <1>1, <1>2, <1>3, <1>7, <1>8 DEF ScansOK, ScanInv, RunsTyped

\* Nobody has to do with a scan that is not there.
LEMMA NewScan ==
    ASSUME ScanInv, NEW u \in Scans, scan[u].status = "absent"
    PROVE /\ \A p \in Starters : Starting(p) => starter[p].scan # u
          /\ canceler.at # "idle" => canceler.scan # u
BY DEF ScanInv, StartersOK, CancelerOK

LEMMA QuietScans ==
    ASSUME ScanInv, Next, UNCHANGED <<scan, work, counted>>
    PROVE ScansOK'
<1>1. \A s \in Scans : ScanOK(s)' BY SameScan DEF Same
<1> QED BY <1>1 DEF ScansOK, ScanInv, RunsTyped

LEMMA StarterRuns ==
    ASSUME ScanInv, Next, NEW p \in Starters, PostScan(p) \/ StarterStep(p) \/ StarterDies(p)
    PROVE RunsOK'
<1> DEFINE x == starter[p].scan
<1> USE DEF Starting, NoScan
<1>0. UNCHANGED <<row, work, counted, canceler>>
  BY DEF PostScan, StarterStep, StarterDies, Tick, startProjectScan, claimProjectScan,
         StartRun, StartRunFails, attachOperationWorkflowRun
<1>1. starter[p] \in [at : {"idle", "insert", "claim", "start", "attach"},
                      scan : Scans \cup {NoScan}]
      /\ counted' \in [Scans -> SUBSET Resources]
  BY <1>0 DEF ScanInv, RunsTyped
\* The starter turns away from its scan, or to what it has not begun.
<1>2. ASSUME ScansOK', NEW w \in [at : {"idle", "insert", "claim", "start", "attach"},
                                  scan : Scans \cup {NoScan}],
             starter' = [starter EXCEPT ![p] = w],
             \A s \in Scans : scan[s].status # "absent" => scan'[s].status # "absent",
             \A q \in Starters : q # p /\ starter[q].at \in {"claim", "start"} =>
                /\ scan'[starter[q].scan].at = "none"
                /\ ~scan'[starter[q].scan].attached,
             Starting(p)' => /\ w.scan \in Scans /\ scan'[w.scan].status # "absent"
                             /\ \A q \in Starters : q # p /\ Starting(q) => starter[q].scan # w.scan,
             w.at \in {"claim", "start"} =>
                /\ scan'[w.scan].at = "none" /\ ~scan'[w.scan].attached
                /\ ~(canceler.at # "idle" /\ canceler.attached /\ canceler.scan = w.scan)
      PROVE RunsOK'
  <2>1. RunsTyped' BY <1>0, <1>1, <1>2 DEF RunsTyped, ScansOK, ScanInv
  <2>2. CancelerOK' BY <1>0, <1>2 DEF CancelerOK, ScanInv
  <2>3. starter'[p] = w /\ \A q \in Starters : q # p => starter'[q] = starter[q]
    BY <1>2 DEF ScanInv, RunsTyped
  <2>4. StartersOK'
    <3>1. ASSUME NEW q \in Starters, Starting(q)'
          PROVE /\ starter'[q].scan \in Scans
                /\ scan'[starter'[q].scan].status # "absent"
                /\ \A o \in Starters : Starting(o)' /\ starter'[o].scan = starter'[q].scan => o = q
      BY <1>2, <2>3, <3>1 DEF ScanInv, StartersOK
    <3>2. ASSUME NEW q \in Starters, starter'[q].at \in {"claim", "start"}
          PROVE /\ scan'[starter'[q].scan].at = "none"
                /\ ~scan'[starter'[q].scan].attached
                /\ ~(canceler'.at # "idle" /\ canceler'.attached
                      /\ canceler'.scan = starter'[q].scan)
      <4>1. CASE q = p BY <1>0, <1>2, <2>3, <3>2, <4>1
      <4>2. CASE q # p BY <1>0, <1>2, <2>3, <3>2, <4>2 DEF ScanInv, StartersOK
      <4> QED BY <4>1, <4>2
    <3> QED BY <3>1, <3>2 DEF StartersOK
  <2> QED BY <1>2, <2>1, <2>2, <2>4 DEF RunsOK, ScansOK
<1>3. Starting(p) => /\ x \in Scans /\ scan[x].status # "absent"
                     /\ \A q \in Starters : q # p /\ Starting(q) => starter[q].scan # x
  BY DEF ScanInv, StartersOK
<1>4. \A q \in Starters : starter[q].at \in {"claim", "start"} =>
         /\ starter[q].scan \in Scans
         /\ scan[starter[q].scan].at = "none"
         /\ ~scan[starter[q].scan].attached
         /\ ~(canceler.at # "idle" /\ canceler.attached /\ canceler.scan = starter[q].scan)
  BY DEF ScanInv, StartersOK
<1>5. Free \in [at : {"idle", "insert", "claim", "start", "attach"}, scan : Scans \cup {NoScan}]
      /\ Free.at = "idle"
  BY DEF Free
<1>6. CASE Tick(p) \/ PostScan(p)
  <2> DEFINE w == [starter[p] EXCEPT !.at = "insert"]
  <2>1. w \in [at : {"idle", "insert", "claim", "start", "attach"}, scan : Scans \cup {NoScan}]
        /\ w.at = "insert"
    BY <1>1
  <2>2. starter' = [starter EXCEPT ![p] = w] /\ UNCHANGED scan
    BY <1>6 DEF Tick, PostScan, ScanInv, RunsTyped
  <2>3. ScansOK' BY <1>0, <2>2, QuietScans
  <2>4. starter'[p].at = "insert" BY <2>1, <2>2 DEF ScanInv, RunsTyped
  <2> HIDE DEF w
  <2> QED BY <1>2, <1>4, <2>1, <2>2, <2>3, <2>4
<1>7. CASE startProjectScan(p) /\ ~UNCHANGED scan
  <2> DEFINE u == Min(Unused)
             w == [at |-> "claim", scan |-> u]
  <2>1. Unused # {} /\ InsertScan(u) /\ starter' = [starter EXCEPT ![p] = w]
    BY <1>7 DEF startProjectScan
  <2>2. u \in Scans /\ scan[u].status = "absent" BY <2>1, UnusedMin
  <2> HIDE DEF u
  <2>3. w \in [at : {"idle", "insert", "claim", "start", "attach"}, scan : Scans \cup {NoScan}]
        /\ w.at = "claim" /\ w.scan = u
    BY <2>2
  <2>4. /\ ScansOK'
        /\ scan'[u].status = "pending" /\ scan'[u].at = "none" /\ ~scan'[u].attached
        /\ \A q \in Scans : q # u => scan'[q] = scan[q]
    BY <1>0, <2>1, <2>2, InsertOK
  <2>5. /\ \A q \in Starters : Starting(q) => starter[q].scan # u
        /\ canceler.at # "idle" => canceler.scan # u
    BY <2>2, NewScan
  <2> HIDE DEF w
  <2>6. \A q \in Starters : q # p /\ starter[q].at \in {"claim", "start"} =>
                /\ scan'[starter[q].scan].at = "none"
                /\ ~scan'[starter[q].scan].attached
    BY <1>4, <2>4, <2>5
  <2>7. \A s \in Scans : scan[s].status # "absent" => scan'[s].status # "absent"
    BY <2>2, <2>4
  <2> QED BY <1>2, <2>1, <2>2, <2>3, <2>4, <2>5, <2>6, <2>7
<1>8. CASE starter' = [starter EXCEPT ![p] = Free] /\ UNCHANGED scan
  <2>1. ScansOK' BY <1>0, <1>8, QuietScans
  <2>2. starter'[p].at = "idle" BY <1>5, <1>8 DEF ScanInv, RunsTyped
  <2> QED BY <1>2, <1>4, <1>5, <1>8, <2>1, <2>2
<1>9. CASE claimProjectScan(p)
  <2> DEFINE w == [starter[p] EXCEPT !.at = "start"]
  <2>1. w \in [at : {"idle", "insert", "claim", "start", "attach"}, scan : Scans \cup {NoScan}]
        /\ w.at = "start" /\ w.scan = x
    BY <1>1
  <2>2. starter' = [starter EXCEPT ![p] = w] /\ UNCHANGED scan /\ starter[p].at = "claim"
    BY <1>9 DEF claimProjectScan, ScanInv, RunsTyped
  <2>3. ScansOK' BY <1>0, <2>2, QuietScans
  <2>4. x \in Scans /\ scan'[x].status # "absent" /\ scan'[x].at = "none" /\ ~scan'[x].attached
        /\ ~(canceler.at # "idle" /\ canceler.attached /\ canceler.scan = x)
        /\ \A q \in Starters : q # p /\ Starting(q) => starter[q].scan # x
    BY <1>3, <1>4, <2>2
  <2>5. \A q \in Starters : q # p /\ starter[q].at \in {"claim", "start"} =>
                /\ scan'[starter[q].scan].at = "none"
                /\ ~scan'[starter[q].scan].attached
    BY <1>4, <2>2
  <2> HIDE DEF w, x
  <2> QED BY <1>2, <2>1, <2>2, <2>3, <2>4, <2>5
<1>10. CASE StartRun(p)
  <2> DEFINE w == [starter[p] EXCEPT !.at = "attach"]
  <2>1. w \in [at : {"idle", "insert", "claim", "start", "attach"}, scan : Scans \cup {NoScan}]
        /\ w.at = "attach" /\ w.scan = x
    BY <1>1
  <2>2. starter' = [starter EXCEPT ![p] = w] /\ scan' = [scan EXCEPT ![x].at = "start"]
        /\ starter[p].at = "start"
    BY <1>10 DEF StartRun, ScanInv, RunsTyped
  <2>3. x \in Scans /\ scan[x].at = "none" /\ scan[x].status # "absent"
    BY <1>3, <1>4, <2>2
  <2>4. scan[x] \in ScanRecord BY <2>3 DEF ScanInv, RunsTyped
  <2>5. scan' = [scan EXCEPT ![x] = [@ EXCEPT !.status = scan[x].status, !.at = "start",
                                              !.attached = scan[x].attached]]
    BY <2>2, <2>4 DEF ScanInv, RunsTyped, ScanRecord
  <2>6. scan[x].status \in Statuses \ {"absent"} /\ scan[x].attached \in BOOLEAN
        /\ "start" \in Stages
    BY <2>3, <2>4 DEF ScanRecord, Stages
  <2>7. ScansOK' BY <1>0, <2>3, <2>5, <2>6, HeadMoves
  <2>8. /\ \A q \in Scans : q # x => scan'[q] = scan[q]
        /\ scan'[x].status = scan[x].status
    BY <2>2, <2>3, <2>4 DEF ScanInv, RunsTyped, ScanRecord
  <2>9. \A q \in Starters : q # p /\ starter[q].at \in {"claim", "start"} =>
                /\ scan'[starter[q].scan].at = "none"
                /\ ~scan'[starter[q].scan].attached
    BY <1>3, <1>4, <2>2, <2>8
  <2>10. \A s \in Scans : scan[s].status # "absent" => scan'[s].status # "absent"
    BY <2>8
  <2> HIDE DEF w, x
  <2> QED BY <1>2, <1>3, <2>1, <2>2, <2>3, <2>7, <2>8, <2>9, <2>10
<1>11. ASSUME Starting(p), starter' = [starter EXCEPT ![p] = Free],
              NEW st \in Statuses \ {"absent"}, NEW a \in BOOLEAN,
              scan' = [scan EXCEPT ![x] = [@ EXCEPT !.status = st, !.at = scan[x].at, !.attached = a]]
       PROVE RunsOK'
  <2>1. scan[x] \in ScanRecord /\ scan[x].at \in Stages
    BY <1>3, <1>11 DEF ScanInv, RunsTyped, ScanRecord
  <2>2. ScansOK'
    <3>1. x \in Scans BY <1>3, <1>11
    <3> DEFINE at == scan[x].at
    <3>2. at \in Stages /\ (at = scan[x].at \/ (scan[x].at = "none" /\ at = "start")) BY <2>1
    <3>3. scan' = [scan EXCEPT ![x] = [@ EXCEPT !.status = st, !.at = at, !.attached = a]]
      BY <1>11
    <3>4. UNCHANGED <<work, counted>> BY <1>0
    <3> HIDE DEF x, at
    <3> QED BY <3>1, <3>2, <3>3, <3>4, HeadMoves
  <2>3. /\ \A q \in Scans : q # x => scan'[q] = scan[q]
        /\ scan'[x].status = st
    BY <1>3, <1>11, <2>1 DEF ScanInv, RunsTyped, ScanRecord
  <2>4. \A q \in Starters : q # p /\ starter[q].at \in {"claim", "start"} =>
                /\ scan'[starter[q].scan].at = "none"
                /\ ~scan'[starter[q].scan].attached
    BY <1>3, <1>4, <1>11, <2>3
  <2>5. \A s \in Scans : scan[s].status # "absent" => scan'[s].status # "absent"
    BY <2>3
  <2>6. starter'[p].at = "idle" BY <1>5, <1>11 DEF ScanInv, RunsTyped
  <2> HIDE DEF x
  <2> QED BY <1>2, <1>5, <1>11, <2>2, <2>4, <2>5, <2>6
<1>12. CASE StartRunFails(p)
  <2>1. starter' = [starter EXCEPT ![p] = Free] /\ scan' = [scan EXCEPT ![x].status = "failed"]
        /\ Starting(p)
    BY <1>12 DEF StartRunFails
  <2>2. scan[x] \in ScanRecord /\ scan[x].attached \in BOOLEAN
    BY <1>3, <2>1 DEF ScanInv, RunsTyped, ScanRecord
  <2>3. scan' = [scan EXCEPT ![x] = [@ EXCEPT !.status = "failed", !.at = scan[x].at,
                                              !.attached = scan[x].attached]]
    BY <1>3, <2>1, <2>2 DEF ScanInv, RunsTyped, ScanRecord
  <2>4. "failed" \in Statuses \ {"absent"} BY DEF Statuses
  <2> QED BY <1>11, <2>1, <2>2, <2>3, <2>4
<1>13. CASE attachOperationWorkflowRun(p)
  <2> DEFINE a == scan[x].attached \/ scan[x].at \notin {"done", "killed"}
  <2>1. starter' = [starter EXCEPT ![p] = Free] /\ scan' = [scan EXCEPT ![x].attached = a]
        /\ Starting(p)
    BY <1>13 DEF attachOperationWorkflowRun
  <2>2. scan[x] \in ScanRecord /\ scan[x].status \in Statuses \ {"absent"}
    BY <1>3, <2>1 DEF ScanInv, RunsTyped, ScanRecord
  <2>3. a \in BOOLEAN OBVIOUS
  <2> HIDE DEF a
  <2>4. scan' = [scan EXCEPT ![x] = [@ EXCEPT !.status = scan[x].status, !.at = scan[x].at,
                                              !.attached = a]]
    BY <1>3, <2>1, <2>2 DEF ScanInv, RunsTyped, ScanRecord
  <2> QED BY <1>11, <2>1, <2>2, <2>3, <2>4
<1>14. CASE (startProjectScan(p) /\ UNCHANGED scan) \/ StarterDies(p)
  <2>1. StarterDies(p) => starter' = [starter EXCEPT ![p] = Free] /\ UNCHANGED scan
    BY DEF StarterDies
  <2>2. ASSUME startProjectScan(p), UNCHANGED scan, Unused # {}, InsertScan(Min(Unused)) PROVE FALSE
    <3> DEFINE u == Min(Unused)
    <3>1. u \in Scans /\ scan[u].status = "absent" BY <2>2, UnusedMin
    <3>2. scan'[u].status = "pending" BY <1>0, <2>2, <3>1, InsertOK
    <3> QED BY <2>2, <3>1, <3>2
  <2>3. startProjectScan(p) /\ UNCHANGED scan => starter' = [starter EXCEPT ![p] = Free]
    BY <2>2 DEF startProjectScan
  <2> QED BY <1>8, <1>14, <2>1, <2>3
<1> QED BY <1>6, <1>7, <1>9, <1>10, <1>12, <1>13, <1>14 DEF StarterStep

\* A cancel that has nothing to do with starters.
LEMMA CancelKept ==
    ASSUME ScanInv, UNCHANGED starter,
           canceler' \in [at : {"idle", "pending", "running", "kill"},
                          scan : Scans \cup {NoScan}, attached : BOOLEAN],
           \A s \in Scans : scan[s].status # "absent" => scan'[s].status # "absent",
           \A p \in Starters : starter[p].at \in {"claim", "start"} =>
              /\ scan'[starter[p].scan].at = "none" /\ ~scan'[starter[p].scan].attached
              /\ ~(canceler'.at # "idle" /\ canceler'.attached
                    /\ canceler'.scan = starter[p].scan),
           counted' \in [Scans -> SUBSET Resources],
           CancelerOK', ScansOK'
    PROVE RunsOK'
<1>1. RunsTyped' BY DEF RunsTyped, ScansOK, ScanInv
<1>2. StartersOK' BY DEF StartersOK, Starting, ScanInv
<1> QED BY <1>1, <1>2 DEF RunsOK, ScansOK

LEMMA CancelRuns ==
    ASSUME ScanInv, Next,
           \/ CancelStep
           \/ \E s \in Scans : retryOperation(s) \/ CancelRead(s)
           \/ \E s \in Scans, r \in Resources : CancelAlignment(s, r)
    PROVE RunsOK'
<1> USE DEF NoScan
<1>1. /\ \A p \in Starters : starter[p].at \in {"claim", "start"} =>
            /\ starter[p].scan \in Scans
            /\ scan[starter[p].scan].status # "absent"
            /\ scan[starter[p].scan].at = "none"
            /\ ~scan[starter[p].scan].attached
            /\ ~(canceler.at # "idle" /\ canceler.attached /\ canceler.scan = starter[p].scan)
      /\ canceler \in [at : {"idle", "pending", "running", "kill"},
                       scan : Scans \cup {NoScan}, attached : BOOLEAN]
      /\ \A s \in Scans : scan[s] \in ScanRecord
      /\ counted \in [Scans -> SUBSET Resources]
  BY DEF ScanInv, StartersOK, Starting, RunsTyped
<1>2. NoCancel \in [at : {"idle", "pending", "running", "kill"},
                    scan : Scans \cup {NoScan}, attached : BOOLEAN] /\ NoCancel.at = "idle"
  BY DEF NoCancel
<1>3. canceler.at # "idle" => canceler.scan \in Scans /\ scan[canceler.scan].status # "absent"
  BY DEF ScanInv, CancelerOK
<1>4. ASSUME NEW s \in Scans, retryOperation(s) PROVE RunsOK'
  <2> DEFINE u == Min(Unused)
  <2>1. u \in Scans /\ scan[u].status = "absent" BY <1>4, UnusedMin DEF retryOperation
  <2>2. InsertScan(u) /\ UNCHANGED <<row, work, counted, starter, canceler>>
    BY <1>4 DEF retryOperation
  <2> HIDE DEF u
  <2>3. /\ ScansOK' /\ scan'[u].status = "pending"
        /\ \A q \in Scans : q # u => scan'[q] = scan[q]
    BY <2>1, <2>2, InsertOK
  <2>4. CancelerOK' BY <1>3, <2>1, <2>2, <2>3 DEF CancelerOK, ScanInv
  <2>5. \A p \in Starters : starter[p].at \in {"claim", "start"} => starter[p].scan # u
    BY <1>1, <2>1
  <2> QED BY <1>1, <2>1, <2>2, <2>3, <2>4, <2>5, CancelKept
<1>5. ASSUME NEW s \in Scans, CancelRead(s) PROVE RunsOK'
  <2> DEFINE c == [at |-> scan[s].status, scan |-> s, attached |-> scan[s].attached]
  <2>1. scan[s].attached \in BOOLEAN BY <1>1 DEF ScanRecord
  <2>2. canceler' = c /\ scan[s].status \in {"pending", "running"}
        /\ UNCHANGED <<starter, scan, work, counted>>
    BY <1>5 DEF CancelRead
  <2>3. c \in [at : {"idle", "pending", "running", "kill"},
               scan : Scans \cup {NoScan}, attached : BOOLEAN]
        /\ c.at \in {"pending", "running"} /\ c.scan = s /\ (c.attached => scan[s].attached)
    BY <2>1, <2>2
  <2> HIDE DEF c
  <2>4. ScansOK' BY <2>2, QuietScans
  <2>5. CancelerOK' BY <2>2, <2>3 DEF CancelerOK
  <2> QED BY <1>1, <2>2, <2>3, <2>4, <2>5, CancelKept
\* A cancel writes a status.
<1>6. ASSUME canceler.at # "idle", NEW st \in Statuses \ {"absent"},
             scan' = [scan EXCEPT ![canceler.scan].status = st],
             canceler' = NoCancel \/ (canceler.attached /\ canceler' = [canceler EXCEPT !.at = "kill"]),
             UNCHANGED <<starter, work, counted>>
      PROVE RunsOK'
  <2> DEFINE x == canceler.scan
             at == scan[x].at
             a == scan[x].attached
  <2>1. x \in Scans BY <1>3, <1>6
  <2>2. at \in Stages /\ a \in BOOLEAN BY <1>1, <2>1 DEF ScanRecord
  <2>3. scan' = [scan EXCEPT ![x] = [@ EXCEPT !.status = st, !.at = at, !.attached = a]]
    BY <1>1, <1>6, <2>1 DEF ScanInv, RunsTyped, ScanRecord
  <2>4. ScansOK'
    <3>1. at = scan[x].at \/ (scan[x].at = "none" /\ at = "start") OBVIOUS
    <3>2. UNCHANGED <<work, counted>> BY <1>6
    <3> HIDE DEF x, at, a
    <3> QED BY <2>1, <2>2, <2>3, <3>1, <3>2, HeadMoves
  <2>5. /\ scan'[x].status = st /\ scan'[x].at = scan[x].at
        /\ scan'[x].attached = scan[x].attached
        /\ \A q \in Scans : q # x => scan'[q] = scan[q]
    BY <1>1, <1>6, <2>1 DEF ScanInv, RunsTyped, ScanRecord
  <2>6. /\ canceler' \in [at : {"idle", "pending", "running", "kill"},
                          scan : Scans \cup {NoScan}, attached : BOOLEAN]
        /\ canceler'.at # "idle" => /\ canceler'.scan = x /\ canceler'.attached
                                    /\ canceler.attached
    BY <1>1, <1>2, <1>6
  <2>7. CancelerOK' BY <2>1, <2>5, <2>6 DEF CancelerOK
  <2>8. \A p \in Starters : starter[p].at \in {"claim", "start"} =>
           /\ scan'[starter[p].scan].at = "none" /\ ~scan'[starter[p].scan].attached
           /\ ~(canceler'.at # "idle" /\ canceler'.attached
                 /\ canceler'.scan = starter[p].scan)
    BY <1>1, <1>6, <2>5, <2>6
  <2>9. \A q \in Scans : scan[q].status # "absent" => scan'[q].status # "absent"
    BY <2>5
  <2> HIDE DEF x
  <2> QED BY <1>1, <1>6, <2>4, <2>6, <2>7, <2>8, <2>9, CancelKept
<1>7. ASSUME canceler' = NoCancel, UNCHANGED <<scan, starter, work, counted>> PROVE RunsOK'
  <2>1. ScansOK' BY <1>7, QuietScans
  <2>2. CancelerOK' BY <1>2, <1>7 DEF CancelerOK
  <2> QED BY <1>1, <1>2, <1>7, <2>1, <2>2, CancelKept
<1>8. CASE markOperationCanceled
  <2>1. "canceled" \in Statuses \ {"absent"} BY DEF Statuses
  <2> QED BY <1>6, <1>7, <1>8, <2>1 DEF markOperationCanceled
<1>9. CASE markOperationCanceling
  <2>1. "canceling" \in Statuses \ {"absent"} BY DEF Statuses, OpenStatuses
  <2> QED BY <1>6, <1>7, <1>9, <2>1 DEF markOperationCanceling
<1>10. CASE KillRun
  <2> DEFINE x == canceler.scan
             st == scan[x].status
  <2>1. CASE At(x, "done") BY <1>7, <1>10, <2>1 DEF KillRun
  <2>2. CASE ~At(x, "done")
    <3>1. Over(x, st, "killed") /\ Forget(x) /\ canceler' = NoCancel /\ UNCHANGED starter
      BY <1>10, <2>2 DEF KillRun
    <3>2. x \in Scans /\ canceler.attached /\ canceler.at = "kill"
      BY <1>10 DEF KillRun, ScanInv, CancelerOK
    <3>3. st \in Statuses \ {"absent"} BY <1>1, <1>3, <3>2 DEF ScanRecord
    <3>4. scan' = [scan EXCEPT ![x] = [NoOp EXCEPT !.status = st, !.at = "killed"]]
      BY <3>1 DEF Over
    <3>5. [NoOp EXCEPT !.status = st, !.at = "killed"] \in ScanRecord
      BY <3>3 DEF NoOp, ScanRecord, Stages
    <3>6. scan'[x].status = st /\ \A q \in Scans : q # x => scan'[q] = scan[q]
      BY <3>2, <3>4 DEF ScanInv, RunsTyped, NoOp
    <3>7. counted' \in [Scans -> SUBSET Resources] /\
          \A q \in Scans : q # x => work'[q] = work[q] /\ counted'[q] = counted[q]
      BY <3>1, <3>2 DEF Forget, ScanInv, RunsTyped, LockInv, WorkTyped
    <3>8. PICK y \in Scans : y = x BY <3>2
    <3>9. ScanOK(y)' BY <3>1, <3>3, <3>8, OverScan
    <3>10. ScansOK'
      <4>1. scan' \in [Scans -> ScanRecord] BY <3>4, <3>5 DEF ScanInv, RunsTyped
      <4>2. ASSUME NEW q \in Scans, q # y PROVE ScanOK(q)'
        BY <3>6, <3>7, <3>8, <4>2, SameScan DEF Same
      <4>3. \A q \in Scans : ScanOK(q)' BY <3>9, <4>2
      <4> QED BY <4>1, <4>3 DEF ScansOK
    <3>11. CancelerOK' BY <1>2, <3>1 DEF CancelerOK
    <3>12. \A p \in Starters : starter[p].at \in {"claim", "start"} => starter[p].scan # x
      BY <1>1, <3>2
    <3>13. \A q \in Scans : scan[q].status # "absent" => scan'[q].status # "absent"
      BY <3>6
    <3> HIDE DEF x, st
    <3> QED BY <1>1, <1>2, <3>1, <3>6, <3>7, <3>10, <3>11, <3>12, <3>13, CancelKept
  <2> QED BY <2>1, <2>2
<1>11. ASSUME NEW s \in Scans, NEW r \in Resources, CancelAlignment(s, r) PROVE RunsOK'
  <2>1. UNCHANGED <<scan, counted, starter, canceler>> BY <1>11 DEF CancelAlignment
  <2>2. CASE work[s][r].at = "opened"
    <3>1. work' = [work EXCEPT ![s][r].at = "canceled"]
      BY <1>11, <2>2 DEF CancelAlignment
    <3>2. "canceled" \in WorkStages \ {"none"} BY DEF WorkStages
    <3>3. scan[s].at \notin {"none", "start", "next"}
      BY <2>2 DEF ScanInv, ScanOK, PageEmpty
    <3> QED BY <2>1, <3>1, <3>2, <3>3, MoveRuns, Zenon
  <2>3. CASE work[s][r].at # "opened"
    BY <1>11, <2>1, <2>3, QuietRuns DEF CancelAlignment
  <2> QED BY <2>2, <2>3
<1> QED BY <1>4, <1>5, <1>8, <1>9, <1>10, <1>11 DEF CancelStep

LEMMA ScanInductive == ScanInv /\ [Next]_vars => ScanInv'
<1> SUFFICES ASSUME ScanInv, [Next]_vars PROVE ScanInv' OBVIOUS
<1>1. CASE UNCHANGED vars
  BY <1>1 DEF ScanInv, LockInv, WorkTyped, OpenedHolds, PageExists, RunsTyped, UserHolds,
     StartersOK, Starting, CancelerOK, ScanOK, Accounted, PageEmpty, Present
<1>2. CASE Next
  <2>1. RunsOK'
    BY <1>2, UserRuns, StarterRuns, RunRuns, ResourceRuns, CancelRuns DEF Next
  <2>2. LockInv'
    BY <1>2, UserLock, StarterLock, RunLock, ResourceLock, CancelLock DEF Next, ScanInv
  <2>3. UserHolds' BY <1>2, RowsGoOn DEF ScanInv
  <2> QED BY <2>1, <2>2, <2>3 DEF ScanInv, RunsOK
<1> QED BY <1>1, <1>2

\* A scan that meets an empty page has counted every row that was applied
\* before it began and is still there, however rows, locks, other scans and
\* cancels moved between its pages (getNextScanResources: the cursor passes no
\* row that is neither in the page nor counted as skipped).
THEOREM AccountSafety == Spec => []ScanAccounts
<1>1. ScanInv => ScanAccounts
  <2> SUFFICES ASSUME ScanInv, NEW s \in Scans, AtNext(s), Batch(s) = {},
                      NEW r \in scan[s].applied, Present(r)
               PROVE r \in counted[s]
    BY DEF ScanAccounts
  <2>1. ScanOK(s) /\ scan[s] \in ScanRecord BY DEF ScanInv, RunsTyped
  <2>2. scan[s].older \subseteq Resources /\ r \in scan[s].older /\ r \in Resources
    BY <2>1 DEF ScanOK, ScanRecord
  <2>3. r \notin Rest(s) BY <2>2, PageIsFirst
  <2>4. row[r].status # "stub" BY <2>1 DEF ScanOK, Settled
  <2>5. ~(r > scan[s].cursor) BY <2>2, <2>3, <2>4 DEF Rest, scanCandidateFilter
  <2>6. PageEmpty(s) /\ scan[s].at # "fail" BY BetweenPages
  <2> QED BY <2>1, <2>2, <2>5, <2>6 DEF ScanOK, Accounted, PageEmpty
<1>2. Init => ScanInv BY InitScan
<1> QED BY <1>1, <1>2, ScanInductive, PTL DEF Spec
=============================================================================
