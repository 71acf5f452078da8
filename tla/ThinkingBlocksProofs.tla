------------------------ MODULE ThinkingBlocksProofs ------------------------
(* Proofs about ThinkingBlocks, for any number of artifacts, runners and      *)
(* callers, any budget and any parallelism.                                   *)
EXTENDS ThinkingBlocks, TLAPS

(***************************************************************************)
(* Work on an artifact.  Whoever works on one owns its row: the row is     *)
(* running, and only its worker moves it.                                  *)
(***************************************************************************)

\* How many attempts a run makes plays no part.
JobRecords == [at : Stages, tries : Nat, saw : SUBSET Artifacts]

Typed ==
    /\ status \in [Artifacts -> Statuses]
    /\ runs \in [Artifacts -> Nat]
    /\ job \in [Runners -> [Artifacts -> JobRecords]]

\* A row that does not exist has no runs, and a claim has a run left.
RunsLeft ==
    /\ \A a \in Artifacts : status[a] = "absent" => runs[a] < MAX_OPERATIONAL_RUNS
    /\ \A r \in Runners, a \in Artifacts :
         job[r][a].at = "claimed" => runs[a] < MAX_OPERATIONAL_RUNS

WorkInv == Typed /\ OneWorker /\ RetryBudget /\ RunsLeft /\ OneReady

USE DEF vars

LEMMA NoJobTyped == NoJob \in JobRecords /\ NoJob.at = "idle"
BY BlocksAssumption DEF NoJob, JobRecords, Stages

LEMMA InitWork == Init => WorkInv
<1> SUFFICES ASSUME Init PROVE WorkInv OBVIOUS
<1>1. Typed BY NoJobTyped DEF Init, Typed, Statuses
<1>2. OneWorker /\ RetryBudget /\ RunsLeft
  BY NoJobTyped, BlocksAssumption DEF Init, OneWorker, RetryBudget, RunsLeft, Working
<1>3. OneReady BY DEF Init, OneReady, Ready
<1> QED BY <1>1, <1>2, <1>3 DEF WorkInv

\* The steps that leave rows and jobs alone.
Elsewhere == UNCHANGED <<status, runs, job>>

LEMMA ElsewhereWork == WorkInv /\ Elsewhere => WorkInv'
BY DEF WorkInv, Typed, OneWorker, RetryBudget, RunsLeft, OneReady, Ready, Elsewhere

\* A fulfilment goes on, or is over; it never begins to work by itself.
LEMMA JobMoves ==
    ASSUME WorkInv, NEW r \in Runners, NEW a \in Artifacts, NEW j \in JobRecords,
           job' = [job EXCEPT ![r][a] = j], j.at # "claimed",
           j.at \in Working => job[r][a].at \in Working,
           UNCHANGED <<status, runs>>
    PROVE WorkInv'
<1>1. job'[r][a] = j /\ \A q \in Runners, b \in Artifacts :
          (q # r \/ b # a) => job'[q][b] = job[q][b]
  BY DEF WorkInv, Typed
<1>2. Typed' BY DEF WorkInv, Typed
<1>3. \A q \in Runners, b \in Artifacts :
          job'[q][b].at \in Working => job[q][b].at \in Working
  BY <1>1
<1>4. OneWorker' BY <1>3 DEF WorkInv, OneWorker
<1>5. RetryBudget' /\ OneReady' BY DEF WorkInv, RetryBudget, OneReady, Ready
<1>6. RunsLeft' BY <1>1 DEF WorkInv, RunsLeft
<1> QED BY <1>2, <1>4, <1>5, <1>6 DEF WorkInv

\* The worker of an artifact writes its outcome and is no longer its worker.
LEMMA Outcomes ==
    ASSUME WorkInv, NEW r \in Runners, NEW a \in Artifacts, job[r][a].at \in Working,
           NEW j \in JobRecords, j.at \notin Working, job' = [job EXCEPT ![r][a] = j],
           status' \in [Artifacts -> Statuses], status'[a] \in {"ready", "rejected", "failed"},
           \A b \in Artifacts \ {a} :
              \/ status'[b] = status[b]
              \/ status[b] = "ready" /\ status'[b] = "superseded",
           UNCHANGED runs
    PROVE Typed' /\ OneWorker' /\ RetryBudget' /\ RunsLeft'
<1>1. job'[r][a] = j /\ \A q \in Runners, b \in Artifacts :
          (q # r \/ b # a) => job'[q][b] = job[q][b]
  BY DEF WorkInv, Typed
<1>2. Typed' BY DEF WorkInv, Typed
<1>3. \A q \in Runners, b \in Artifacts :
          job'[q][b].at \in Working => b # a /\ job[q][b].at \in Working
  BY <1>1 DEF WorkInv, OneWorker
<1>4. OneWorker' BY <1>3 DEF WorkInv, OneWorker
<1>5. RetryBudget' BY DEF WorkInv, RetryBudget
<1>6. "claimed" \in Working BY DEF Working
<1>7. RunsLeft' BY <1>1, <1>6 DEF WorkInv, RunsLeft
<1> QED BY <1>2, <1>4, <1>5, <1>7

LEMMA FulfilWork ==
    ASSUME WorkInv, NEW r \in Runners, NEW a \in Artifacts, Fulfil(r, a)
    PROVE WorkInv'
<1>0. job[r][a] \in JobRecords /\ status[a] \in Statuses /\ runs[a] \in Nat
  BY DEF WorkInv, Typed
<1>e. \A at \in Stages : /\ [NoJob EXCEPT !.at = at] \in JobRecords
                          /\ [NoJob EXCEPT !.at = at].at = at
  BY NoJobTyped DEF JobRecords
<1>1. ASSUME NEW at \in Stages \ {"claimed"}, To(r, a, at),
             at \in Working => job[r][a].at \in Working, UNCHANGED <<status, runs>>
      PROVE WorkInv'
  <2> DEFINE j == [job[r][a] EXCEPT !.at = at]
  <2>1. j \in JobRecords /\ j.at = at BY <1>0, <1>1 DEF JobRecords
  <2>2. job' = [job EXCEPT ![r][a] = j] BY <1>1 DEF To, WorkInv, Typed
  <2> HIDE DEF j
  <2> QED BY <1>1, <2>1, <2>2, JobMoves
<1>2. CASE StartRun(r, a)
  <2> DEFINE j == [job[r][a] EXCEPT !.at = "generate"]
  <2>1. j \in JobRecords /\ j.at = "generate" BY <1>0 DEF JobRecords, Stages
  <2>2. job' = [job EXCEPT ![r][a] = j] /\ runs' = [runs EXCEPT ![a] = @ + 1]
        /\ job[r][a].at = "claimed" /\ status' = status
    BY <1>2 DEF StartRun, To, WorkInv, Typed
  <2> HIDE DEF j
  <2>3. /\ job'[r][a] = j
        /\ \A q \in Runners, b \in Artifacts : (q # r \/ b # a) => job'[q][b] = job[q][b]
        /\ runs'[a] = runs[a] + 1
        /\ \A b \in Artifacts : b # a => runs'[b] = runs[b]
    BY <2>2 DEF WorkInv, Typed
  <2>4. Typed' BY <1>0, <2>1, <2>2 DEF WorkInv, Typed
  <2>5. "claimed" \in Working BY DEF Working
  <2>6. status[a] = "running" /\ runs[a] < MAX_OPERATIONAL_RUNS
        /\ \A q \in Runners : q # r => job[q][a].at \notin Working
    BY <2>2, <2>5 DEF WorkInv, OneWorker, RunsLeft
  <2>7. OneWorker'
    <3>1. \A q \in Runners, b \in Artifacts :
              job'[q][b].at \in Working => job[q][b].at \in Working
      BY <2>2, <2>3, <2>5
    <3> QED BY <2>2, <3>1 DEF WorkInv, OneWorker
  <2>8. RetryBudget'
    <3>1. runs'[a] <= MAX_OPERATIONAL_RUNS BY <1>0, <2>3, <2>6, BlocksAssumption
    <3> QED BY <2>2, <2>3, <2>6, <3>1 DEF WorkInv, RetryBudget
  <2>9. RunsLeft' BY <2>1, <2>2, <2>3, <2>5, <2>6 DEF WorkInv, RunsLeft
  <2>10. OneReady' BY <2>2 DEF WorkInv, OneReady, Ready
  <2> QED BY <2>4, <2>7, <2>8, <2>9, <2>10 DEF WorkInv
<1>3. CASE Attempt(r, a)
  <2>1. CASE To(r, a, "commit")
    BY <1>1, <1>3, <2>1 DEF Attempt, Stages, Working
  <2>2. CASE job' = [job EXCEPT ![r][a].tries = @ + 1,
                                ![r][a].at = IF job[r][a].tries + 1 < MaxAttempts
                                             THEN "generate" ELSE "reject"]
    <3> DEFINE at == IF job[r][a].tries + 1 < MaxAttempts THEN "generate" ELSE "reject"
               j == [job[r][a] EXCEPT !.tries = @ + 1, !.at = at]
    <3>1. job' = [job EXCEPT ![r][a] = j] BY <2>2 DEF WorkInv, Typed
    <3>2. j \in JobRecords /\ j.at \in {"generate", "reject"}
      <4>1. at \in {"generate", "reject"} OBVIOUS
      <4>2. job[r][a].tries + 1 \in Nat BY <1>0 DEF JobRecords
      <4> HIDE DEF at
      <4> QED BY <1>0, <4>1, <4>2 DEF JobRecords, Stages
    <3> HIDE DEF j
    <3> QED BY <1>3, <3>1, <3>2, JobMoves DEF Attempt, Working
  <2> QED BY <1>3, <2>1, <2>2 DEF Attempt
<1>4. CASE AttemptThrows(r, a) \/ Escape(r, a)
  <2>1. PICK at \in {"failing", "escaped"} :
          /\ job' = [job EXCEPT ![r][a] = [NoJob EXCEPT !.at = at]]
          /\ at = "failing" => job[r][a].at \in Working
    BY <1>4 DEF AttemptThrows, Escape, Ends, Working
  <2>2. at \in Stages BY DEF Stages
  <2>3. UNCHANGED <<status, runs>> BY <1>4 DEF AttemptThrows, Escape
  <2>4. \E j \in JobRecords : j.at = at /\ job' = [job EXCEPT ![r][a] = j]
    BY <1>e, <2>1, <2>2
  <2> QED BY <2>1, <2>3, <2>4, JobMoves DEF Working
<1>5. CASE SupersedeOthers(r, a)
  <2> DEFINE j == [job[r][a] EXCEPT !.at = "mark", !.saw = Ready(KeyOf[a]) \ {a}]
  <2>1. job' = [job EXCEPT ![r][a] = j] BY <1>5 DEF SupersedeOthers, WorkInv, Typed
  <2>2. j \in JobRecords /\ j.at = "mark"
    BY <1>0 DEF JobRecords, Stages, Ready
  <2> HIDE DEF j
  <2> QED BY <1>5, <2>1, <2>2, JobMoves DEF SupersedeOthers, Working
<1>7. CASE Fulfilled(r, a)
  BY <1>7, NoJobTyped, JobMoves DEF Fulfilled, Working
\* The three outcomes.
<1>8. ASSUME NEW at \in {"marked", "rejected", "failed"}, Ends(r, a, at)
      PROVE \E j \in JobRecords : j.at \notin Working /\ job' = [job EXCEPT ![r][a] = j]
  <2>1. at \in Stages /\ at \notin Working BY DEF Stages, Working
  <2> QED BY <1>8, <1>e, <2>1 DEF Ends
<1>9. CASE MarkReady(r, a)
  <2>1. PICK j \in JobRecords : j.at \notin Working /\ job' = [job EXCEPT ![r][a] = j]
    BY <1>8, <1>9 DEF MarkReady
  <2>2. status' = [b \in Artifacts |->
                    IF b = a THEN "ready"
                    ELSE IF b \in job[r][a].saw \cap Ready(KeyOf[a])
                         THEN "superseded" ELSE status[b]]
    BY <1>9 DEF MarkReady
  <2>3. Typed' /\ OneWorker' /\ RetryBudget' /\ RunsLeft'
    <3>1. job[r][a].at \in Working BY <1>9 DEF MarkReady, Working
    <3>2. status' \in [Artifacts -> Statuses] BY <2>2 DEF WorkInv, Typed, Statuses
    <3>3. \A b \in Artifacts \ {a} : \/ status'[b] = status[b]
                                     \/ status[b] = "ready" /\ status'[b] = "superseded"
      BY <2>2 DEF Ready
    <3>4. status'[a] = "ready" /\ UNCHANGED runs BY <1>9, <2>2 DEF MarkReady
    <3> QED BY <2>1, <3>1, <3>2, <3>3, <3>4, Outcomes
  <2>4. OneReady'
    <3> SUFFICES ASSUME NEW k \in Keys, NEW b \in Ready(k)', NEW c \in Ready(k)' PROVE b = c
      BY DEF OneReady
    <3>1. b \in Artifacts /\ c \in Artifacts /\ KeyOf[b] = k /\ KeyOf[c] = k
          /\ status'[b] = "ready" /\ status'[c] = "ready"
      BY DEF Ready
    <3>2. \A d \in Artifacts : d # a /\ status'[d] = "ready" =>
              /\ status[d] = "ready"
              /\ d \notin job[r][a].saw \cap Ready(KeyOf[a])
      BY <2>2
    <3>3. \A d \in Artifacts : d # a /\ status'[d] = "ready" => KeyOf[d] # KeyOf[a]
      BY <1>9, <3>2 DEF MarkReady, Blocked, Ready
    <3>4. CASE k = KeyOf[a] BY <3>1, <3>3, <3>4
    <3>5. CASE k # KeyOf[a]
      BY <3>1, <3>2, <3>5 DEF WorkInv, OneReady, Ready
    <3> QED BY <3>4, <3>5
  <2> QED BY <2>3, <2>4 DEF WorkInv
<1>10. CASE MarkRejected(r, a) \/ MarkFailed(r, a)
  <2>1. PICK j \in JobRecords : j.at \notin Working /\ job' = [job EXCEPT ![r][a] = j]
    BY <1>8, <1>10 DEF MarkRejected, MarkFailed
  <2>2. PICK st \in {"rejected", "failed"} : status' = [status EXCEPT ![a] = st]
    BY <1>10 DEF MarkRejected, MarkFailed
  <2>3. /\ status'[a] \in {"rejected", "failed"}
        /\ \A b \in Artifacts \ {a} : status'[b] = status[b]
        /\ status' \in [Artifacts -> Statuses]
    BY <2>2 DEF WorkInv, Typed, Statuses
  <2>4. Typed' /\ OneWorker' /\ RetryBudget' /\ RunsLeft'
    <3>1. job[r][a].at \in Working /\ UNCHANGED runs
      BY <1>10 DEF MarkRejected, MarkFailed, Working
    <3> QED BY <2>1, <2>3, <3>1, Outcomes
  <2>5. OneReady'
    <3>1. \A b \in Artifacts : status'[b] = "ready" => status[b] = "ready" BY <2>3
    <3> QED BY <3>1 DEF WorkInv, OneReady, Ready
  <2> QED BY <2>4, <2>5 DEF WorkInv
<1> QED BY <1>2, <1>3, <1>4, <1>5, <1>7, <1>9, <1>10 DEF Fulfil

\* Rows that nobody runs are queued, claimed apart, or superseded.
LEMMA QueueWork ==
    ASSUME WorkInv,
           status' \in [Artifacts -> Statuses],
           \A a \in Artifacts :
              \/ status'[a] = status[a]
              \/ /\ status[a] # "running" /\ status'[a] = "pending"
                 /\ runs[a] < MAX_OPERATIONAL_RUNS
              \/ status[a] = "ready" /\ status'[a] = "superseded",
           UNCHANGED <<runs, job>>
    PROVE WorkInv'
<1>1. Typed' BY DEF WorkInv, Typed
<1>2. OneWorker' BY DEF WorkInv, OneWorker
<1>3. RetryBudget' BY DEF WorkInv, RetryBudget
<1>4. RunsLeft' BY DEF WorkInv, RunsLeft
<1>5. \A a \in Artifacts : status'[a] = "ready" => status[a] = "ready" OBVIOUS
<1>6. OneReady' BY <1>5 DEF WorkInv, OneReady, Ready
<1> QED BY <1>1, <1>2, <1>3, <1>4, <1>6 DEF WorkInv

LEMMA CreateWork ==
    ASSUME WorkInv, NEW c \in Callers, NEW a \in Artifacts, Create(c, a) PROVE WorkInv'
BY QueueWork DEF Create, WorkInv, Typed, Statuses, RunsLeft

LEMMA DumpWork == ASSUME WorkInv, NEW k \in Keys, Dump(k) PROVE WorkInv'
<1>1. status' \in [Artifacts -> Statuses] BY DEF Dump, WorkInv, Typed, Statuses
<1> QED BY <1>1, QueueWork DEF Dump, Ready

LEMMA RequeueWork ==
    ASSUME WorkInv, NEW r \in Runners, NEW S \in SUBSET Artifacts, Requeue(r, S)
    PROVE WorkInv'
<1>1. status' \in [Artifacts -> Statuses] BY DEF Requeue, WorkInv, Typed, Statuses
<1> QED BY <1>1, QueueWork DEF Requeue, Retryable

LEMMA CrashWork == ASSUME WorkInv, NEW r \in Runners, Crash(r) PROVE WorkInv'
<1>1. job' = [job EXCEPT ![r] = [a \in Artifacts |-> NoJob]] /\ UNCHANGED <<status, runs>>
  BY DEF Crash
<1>2. Typed' BY <1>1, NoJobTyped DEF WorkInv, Typed
<1>3. \A q \in Runners, a \in Artifacts :
         job'[q][a] = job[q][a] \/ job'[q][a].at = "idle"
  BY <1>1, NoJobTyped DEF WorkInv, Typed
<1>4. OneWorker'
  <2>1. \A q \in Runners, a \in Artifacts :
            job'[q][a].at \in Working => job[q][a].at \in Working
    BY <1>3 DEF Working
  <2> QED BY <1>1, <2>1 DEF WorkInv, OneWorker
<1>5. RunsLeft' BY <1>1, <1>3 DEF WorkInv, RunsLeft
<1>6. RetryBudget' /\ OneReady' BY <1>1 DEF WorkInv, RetryBudget, OneReady, Ready
<1> QED BY <1>2, <1>4, <1>5, <1>6 DEF WorkInv

\* Whoever claims a pending row finds nobody at work on it.
LEMMA ClaimWork ==
    ASSUME WorkInv, NEW r \in Runners, NEW S \in SUBSET Artifacts, Claim(r, S)
    PROVE WorkInv'
<1>1. /\ status' = [a \in Artifacts |-> IF a \in S THEN "running" ELSE status[a]]
      /\ job' = [job EXCEPT ![r] = [a \in Artifacts |->
                  IF a \in S \ Active(r) THEN [NoJob EXCEPT !.at = "claimed"]
                  ELSE job[r][a]]]
      /\ UNCHANGED runs
  BY DEF Claim
<1>2. \A a \in S : status[a] = "pending" BY DEF Claim, Claimable
<1>3. \A a \in S : /\ \A q \in Runners : job[q][a].at \notin Working
                   /\ runs[a] < MAX_OPERATIONAL_RUNS
  BY <1>2 DEF WorkInv, OneWorker, RetryBudget
<1>4. [NoJob EXCEPT !.at = "claimed"] \in JobRecords
      /\ [NoJob EXCEPT !.at = "claimed"].at = "claimed"
  BY NoJobTyped DEF JobRecords, Stages
<1>5. Typed' BY <1>1, <1>4 DEF WorkInv, Typed, Statuses
<1>6. /\ \A q \in Runners \ {r}, a \in Artifacts : job'[q][a] = job[q][a]
      /\ \A a \in Artifacts : \/ job'[r][a] = job[r][a]
                              \/ a \in S /\ job'[r][a].at = "claimed"
  BY <1>1, <1>4 DEF WorkInv, Typed
<1>7. OneWorker'
  <2> SUFFICES ASSUME NEW q \in Runners, NEW a \in Artifacts, job'[q][a].at \in Working
               PROVE /\ status'[a] = "running"
                     /\ \A p \in Runners : job'[p][a].at \in Working => p = q
    BY DEF OneWorker
  <2>1. CASE a \in S
    <3>1. q = r /\ \A p \in Runners \ {r} : job'[p][a].at \notin Working
      BY <1>3, <1>6, <2>1
    <3> QED BY <1>1, <2>1, <3>1
  <2>2. CASE a \notin S
    <3>1. \A p \in Runners : job'[p][a] = job[p][a] BY <1>6, <2>2
    <3>2. status'[a] = status[a] BY <1>1, <2>2
    <3> QED BY <3>1, <3>2 DEF WorkInv, OneWorker
  <2> QED BY <2>1, <2>2
<1>8. RetryBudget' BY <1>1 DEF WorkInv, RetryBudget
<1>9. RunsLeft'
  <2>1. \A a \in Artifacts : status'[a] = "absent" => status[a] = "absent" BY <1>1
  <2> QED BY <1>1, <1>3, <1>6, <2>1 DEF WorkInv, RunsLeft
<1>10. OneReady'
  <2>1. \A a \in Artifacts : status'[a] = "ready" => status[a] = "ready" BY <1>1
  <2> QED BY <2>1 DEF WorkInv, OneReady, Ready
<1> QED BY <1>5, <1>7, <1>8, <1>9, <1>10 DEF WorkInv

LEMMA CallerElsewhere ==
    ASSUME NEW c \in Callers, CallerStep(c), \A a \in Artifacts : ~Create(c, a)
    PROVE Elsewhere
BY DEF CallerStep, Get, Generate, Background, Arrive, GetCached, FindNone, Budget, Poll,
       Answer, CountForWaiter, Completed, Abort, FindLatest, Elsewhere

LEMMA RunnerWork == ASSUME WorkInv, NEW r \in Runners, RunnerStep(r) PROVE WorkInv'
<1>1. Start(r) => Elsewhere BY DEF Start, Elsewhere
<1>2. \A a \in Artifacts : Expire(r, a) => Elsewhere BY DEF Expire, Elsewhere
<1> QED
  BY <1>1, <1>2, ElsewhereWork, CrashWork, RequeueWork, ClaimWork, FulfilWork
     DEF RunnerStep

LEMMA WorkInductive == WorkInv /\ [Next]_vars => WorkInv'
<1> SUFFICES ASSUME WorkInv, [Next]_vars PROVE WorkInv' OBVIOUS
<1>1. CASE UNCHANGED vars BY <1>1, ElsewhereWork DEF Elsewhere
<1>2. ASSUME NEW c \in Callers, CallerStep(c) PROVE WorkInv'
  BY <1>2, CallerElsewhere, ElsewhereWork, CreateWork
<1> QED BY <1>1, <1>2, RunnerWork, DumpWork DEF Next

LEMMA WorkAlways == Spec => []WorkInv
BY InitWork, WorkInductive, PTL DEF Spec

\* Nobody else is at work on an artifact that a runner works on, which is
\* running, however runners claim, requeue, replace each other and die
\* (claimPendingArtifacts, runRunnerTick).
THEOREM WorkerSafety == Spec => []OneWorker
BY WorkAlways, PTL DEF WorkInv

\* All runners together keep to the budget of an artifact, since a run begins
\* only from a claim, and only one claim can be under way
\* (requeueRetryableArtifacts, startRun).
THEOREM BudgetSafety == Spec => []RetryBudget
BY WorkAlways, PTL DEF WorkInv

\* One artifact of a key is ready at most, whoever commits meanwhile: the
\* unique index refuses whatever the first statement did not see
\* (markArtifactReady).
THEOREM ReadySafety == Spec => []OneReady
BY WorkAlways, PTL DEF WorkInv
-----------------------------------------------------------------------------
(* Outcomes are final *)

FinalAt(a) ==
    /\ status[a] \in {"rejected", "superseded"} => status'[a] = status[a]
    /\ status[a] = "ready" => status'[a] \in {"ready", "superseded"}
    /\ (status[a] = "failed" /\ runs[a] = MAX_OPERATIONAL_RUNS) => status'[a] = "failed"

\* A worker writes only its own row, which is running, and what it supersedes.
LEMMA FulfilFinal ==
    ASSUME WorkInv, NEW r \in Runners, NEW a \in Artifacts, Fulfil(r, a),
           NEW b \in Artifacts
    PROVE FinalAt(b)
<1>1. CASE status' = status BY <1>1 DEF FinalAt
<1>2. CASE MarkRejected(r, a) \/ MarkFailed(r, a)
  <2>1. job[r][a].at \in Working /\ \E st \in {"rejected", "failed"} :
            status' = [status EXCEPT ![a] = st]
    BY <1>2 DEF MarkRejected, MarkFailed, Working
  <2>2. status[a] = "running" BY <2>1 DEF WorkInv, OneWorker
  <2>3. b # a => status'[b] = status[b] BY <2>1 DEF WorkInv, Typed
  <2> QED BY <2>2, <2>3 DEF FinalAt
<1>3. CASE MarkReady(r, a)
  <2>1. job[r][a].at \in Working BY <1>3 DEF MarkReady, Working
  <2>2. status[a] = "running" BY <2>1 DEF WorkInv, OneWorker
  <2>3. b # a => \/ status'[b] = status[b]
                 \/ status[b] = "ready" /\ status'[b] = "superseded"
    BY <1>3 DEF MarkReady, Ready
  <2> QED BY <2>2, <2>3 DEF FinalAt
<1> QED
  BY <1>1, <1>2, <1>3 DEF Fulfil, StartRun, Attempt, AttemptThrows, SupersedeOthers,
     Escape, Fulfilled

LEMMA StepFinal == ASSUME WorkInv, Next, NEW b \in Artifacts PROVE FinalAt(b)
<1>1. ASSUME NEW c \in Callers, CallerStep(c) PROVE FinalAt(b)
  <2>1. ASSUME NEW a \in Artifacts, Create(c, a) PROVE FinalAt(b)
    BY <2>1 DEF Create, FinalAt, WorkInv, Typed
  <2> QED BY <1>1, <2>1, CallerElsewhere DEF Elsewhere, FinalAt
<1>2. ASSUME NEW k \in Keys, Dump(k) PROVE FinalAt(b)
  BY <1>2 DEF Dump, Ready, FinalAt
<1>3. ASSUME NEW r \in Runners, RunnerStep(r) PROVE FinalAt(b)
  <2>1. CASE Start(r) \/ Crash(r) \/ \E a \in Artifacts : Expire(r, a)
    BY <2>1 DEF Start, Crash, Expire, FinalAt
  <2>2. ASSUME NEW S \in SUBSET Artifacts, Requeue(r, S) PROVE FinalAt(b)
    BY <2>2, BlocksAssumption DEF Requeue, Retryable, FinalAt, WorkInv, Typed
  <2>3. ASSUME NEW S \in SUBSET Artifacts, Claim(r, S) PROVE FinalAt(b)
    BY <2>3 DEF Claim, Claimable, FinalAt
  <2> QED BY <1>3, <2>1, <2>2, <2>3, FulfilFinal DEF RunnerStep
<1> QED BY <1>1, <1>2, <1>3 DEF Next

\* A rejected or superseded artifact, and one that failed its last run, stays
\* what it is, and a ready one is only superseded, although the writers go by
\* id alone (markArtifactReady, markArtifactRejected, markArtifactFailed).
THEOREM FinalSafety == Spec => OutcomeFinal
<1>1. WorkInv /\ [Next]_vars => [\A a \in Artifacts : FinalAt(a)]_vars
  BY StepFinal
<1> QED BY <1>1, WorkAlways, PTL DEF Spec, OutcomeFinal, FinalAt
-----------------------------------------------------------------------------
(* Callers are told the truth *)

\* What a settled promise says of its artifact, and goes on saying.
Told(a, x) ==
    /\ x = "ok" => status[a] \in {"ready", "superseded"}
    /\ x = "rejected" => status[a] = "rejected"
    /\ x = "error" => runs[a] = MAX_OPERATIONAL_RUNS

CallsTyped ==
    /\ kept \in [Runners -> [Artifacts -> {"none", "open"} \cup Settled]]
    /\ call \in [Callers -> Calls]

JobTold ==
    \A r \in Runners, a \in Artifacts :
        /\ job[r][a].at = "marked" => status[a] \in {"ready", "superseded"}
        /\ job[r][a].at = "rejected" => status[a] = "rejected"

KeptTold == \A r \in Runners, a \in Artifacts : Told(a, kept[r][a])

\* What an answer says of the artifact, and goes on saying.
Answered(a, x) ==
    /\ x \in {"ok", "unreadable"} => status[a] \in {"ready", "superseded"}
    /\ x = "rejected" => status[a] = "rejected"
    /\ x = "error" => runs[a] = MAX_OPERATIONAL_RUNS

Telling == {"ok", "unreadable", "rejected", "error"}

Waiting == {"wait", "count", "read"}

CallOK(c) ==
    /\ call[c].at \in {"latest", "budget", "create"} \cup Waiting => call[c].home \in Runners
    /\ call[c].at \in {"budget"} \cup Waiting => call[c].art \in Artifacts
    /\ call[c].at \in Waiting => Told(call[c].art, call[c].comp)
    /\ call[c].at = "read" => status[call[c].art] \in {"ready", "superseded", "rejected"}
    /\ call[c].at = "done" /\ call[c].result \in Telling =>
         call[c].art \in Artifacts /\ Answered(call[c].art, call[c].result)

AnswerInv == WorkInv /\ CallsTyped /\ JobTold /\ KeptTold /\ \A c \in Callers : CallOK(c)

LEMMA InitAnswer == Init => AnswerInv
<1> SUFFICES ASSUME Init PROVE AnswerInv OBVIOUS
<1>1. WorkInv BY InitWork
<1>2. CallsTyped BY DEF Init, CallsTyped, NoCall, Calls, NoArtifact, Results
<1>3. JobTold BY NoJobTyped DEF Init, JobTold
<1>4. KeptTold BY DEF Init, KeptTold, Told
<1>5. \A c \in Callers : CallOK(c) BY DEF Init, CallOK, NoCall, Waiting
<1> QED BY <1>1, <1>2, <1>3, <1>4, <1>5 DEF AnswerInv

\* A run begins only where a run is left.
LEMMA RunsSpent ==
    ASSUME WorkInv, Next, NEW a \in Artifacts, runs[a] = MAX_OPERATIONAL_RUNS
    PROVE runs'[a] = MAX_OPERATIONAL_RUNS
<1>1. CASE runs' = runs BY <1>1
<1>2. ASSUME NEW r \in Runners, NEW b \in Artifacts, StartRun(r, b)
      PROVE runs'[a] = MAX_OPERATIONAL_RUNS
  <2>1. runs[b] < MAX_OPERATIONAL_RUNS BY <1>2 DEF StartRun, WorkInv, RunsLeft
  <2>2. b # a BY <2>1, BlocksAssumption
  <2> QED BY <1>2, <2>2 DEF StartRun, WorkInv, Typed
<1>3. ASSUME NEW c \in Callers, CallerStep(c) PROVE runs' = runs
  BY <1>3, CallerElsewhere DEF Create, Elsewhere
<1>4. ASSUME NEW k \in Keys, Dump(k) PROVE runs' = runs BY <1>4 DEF Dump
<1>5. ASSUME NEW r \in Runners, RunnerStep(r) PROVE runs'[a] = MAX_OPERATIONAL_RUNS
  <2>1. ASSUME NEW b \in Artifacts, Fulfil(r, b), ~StartRun(r, b) PROVE runs' = runs
    BY <2>1 DEF Fulfil, Attempt, AttemptThrows, SupersedeOthers, MarkReady,
       Escape, MarkRejected, MarkFailed, Fulfilled
  <2>2. ASSUME NEW b \in Artifacts, Expire(r, b) PROVE runs' = runs BY <2>2 DEF Expire
  <2>3. ASSUME NEW S \in SUBSET Artifacts, Requeue(r, S) \/ Claim(r, S) PROVE runs' = runs
    BY <2>3 DEF Requeue, Claim
  <2>4. Start(r) \/ Crash(r) => runs' = runs BY DEF Start, Crash
  <2> QED BY <1>1, <1>2, <1>5, <2>1, <2>2, <2>3, <2>4 DEF RunnerStep
<1> QED BY <1>1, <1>3, <1>4, <1>5 DEF Next

LEMMA StaysTold ==
    ASSUME WorkInv, Next, NEW a \in Artifacts, NEW x, Told(a, x)
    PROVE Told(a, x)'
BY StepFinal, RunsSpent DEF Told, FinalAt

LEMMA JobsTold == ASSUME AnswerInv, Next PROVE JobTold'
<1> SUFFICES ASSUME NEW r \in Runners, NEW a \in Artifacts
             PROVE /\ job'[r][a].at = "marked" => status'[a] \in {"ready", "superseded"}
                   /\ job'[r][a].at = "rejected" => status'[a] = "rejected"
  BY DEF JobTold
<1>1. FinalAt(a) BY StepFinal DEF AnswerInv
<1>2. ASSUME job'[r][a].at = job[r][a].at \/ job'[r][a].at \notin {"marked", "rejected"}
      PROVE /\ job'[r][a].at = "marked" => status'[a] \in {"ready", "superseded"}
            /\ job'[r][a].at = "rejected" => status'[a] = "rejected"
  BY <1>1, <1>2 DEF AnswerInv, JobTold, FinalAt
<1>3. CASE job' = job BY <1>2, <1>3
<1>4. ASSUME NEW c \in Callers, CallerStep(c) PROVE job' = job
  BY <1>4, CallerElsewhere DEF Create, Elsewhere
<1>5. ASSUME NEW k \in Keys, Dump(k) PROVE job' = job BY <1>5 DEF Dump
<1>6. ASSUME NEW q \in Runners, RunnerStep(q)
      PROVE /\ job'[r][a].at = "marked" => status'[a] \in {"ready", "superseded"}
            /\ job'[r][a].at = "rejected" => status'[a] = "rejected"
  <2> USE DEF AnswerInv, WorkInv, Typed
  <2>1. CASE Start(q) \/ (\E b \in Artifacts : Expire(q, b))
             \/ (\E S \in SUBSET Artifacts : Requeue(q, S))
    BY <1>3, <2>1 DEF Start, Expire, Requeue
  <2>2. CASE Crash(q)
    <3>1. job'[r][a] = job[r][a] \/ job'[r][a] = NoJob BY <2>2 DEF Crash
    <3> QED BY <1>2, <3>1, NoJobTyped
  <2>3. ASSUME NEW S \in SUBSET Artifacts, Claim(q, S)
        PROVE job'[r][a].at = job[r][a].at \/ job'[r][a].at \notin {"marked", "rejected"}
    <3>1. job'[r][a] = job[r][a] \/ job'[r][a] = [NoJob EXCEPT !.at = "claimed"]
      BY <2>3 DEF Claim
    <3> QED BY <3>1 DEF NoJob
  <2>4. ASSUME NEW b \in Artifacts, Fulfil(q, b)
        PROVE /\ job'[r][a].at = "marked" => status'[a] \in {"ready", "superseded"}
              /\ job'[r][a].at = "rejected" => status'[a] = "rejected"
    <3>1. CASE q = r /\ a = b
      <4>1. job[r][a] \in JobRecords OBVIOUS
      <4>2. CASE MarkReady(q, b) \/ MarkRejected(q, b)
        BY <2>4, <3>1, <4>1, <4>2 DEF MarkReady, MarkRejected, Ends, NoJob
      <4>3. CASE Attempt(q, b) BY <1>2, <3>1, <4>1, <4>3 DEF Attempt, To, JobRecords
      <4>4. CASE StartRun(q, b) \/ AttemptThrows(q, b) \/ SupersedeOthers(q, b)
                 \/ Escape(q, b) \/ MarkFailed(q, b)
        BY <1>2, <3>1, <4>1, <4>4 DEF StartRun, AttemptThrows, SupersedeOthers,
           Escape, MarkFailed, To, Ends, NoJob, JobRecords
      <4>5. CASE Fulfilled(q, b) BY <1>2, <3>1, <4>5, NoJobTyped DEF Fulfilled
      <4> QED BY <2>4, <4>2, <4>3, <4>4, <4>5 DEF Fulfil
    <3>2. CASE q # r \/ a # b
      <4>1. job'[r][a] = job[r][a]
        BY <2>4, <3>2 DEF Fulfil, StartRun, Attempt, AttemptThrows, SupersedeOthers,
           MarkReady, Escape, MarkRejected, MarkFailed, Fulfilled, To, Ends
      <4> QED BY <1>2, <4>1
    <3> QED BY <3>1, <3>2
  <2> QED BY <1>2, <1>6, <2>1, <2>2, <2>3, <2>4 DEF RunnerStep
<1> QED BY <1>3, <1>4, <1>5, <1>6 DEF Next
\* A step changes a promise or a caller only to tell the truth.
LEMMA Tell ==
    ASSUME AnswerInv, Next, CallsTyped',
           \A r \in Runners, a \in Artifacts :
              kept'[r][a] = kept[r][a] \/ Told(a, kept[r][a])',
           \A c \in Callers : call'[c] = call[c] \/ CallOK(c)'
    PROVE AnswerInv'
<1>1. WorkInv' BY WorkInductive DEF AnswerInv
<1>2. JobTold' BY JobsTold
<1>3. KeptTold'
  <2> SUFFICES ASSUME NEW r \in Runners, NEW a \in Artifacts PROVE Told(a, kept[r][a])'
    BY DEF KeptTold
  <2>1. Told(a, kept[r][a]) BY DEF AnswerInv, KeptTold
  <2>2. FinalAt(a) /\ (runs[a] = MAX_OPERATIONAL_RUNS => runs'[a] = MAX_OPERATIONAL_RUNS)
    BY StepFinal, RunsSpent DEF AnswerInv
  <2>3. CASE kept'[r][a] = kept[r][a] BY <2>1, <2>2, <2>3 DEF Told, FinalAt
  <2> QED BY <2>3
<1>4. ASSUME NEW c \in Callers PROVE CallOK(c)'
  <2>1. CallOK(c) BY DEF AnswerInv
  <2>2. \A a \in Artifacts :
            FinalAt(a) /\ (runs[a] = MAX_OPERATIONAL_RUNS => runs'[a] = MAX_OPERATIONAL_RUNS)
    BY StepFinal, RunsSpent DEF AnswerInv
  <2>3. CASE call'[c] = call[c]
    BY <2>1, <2>2, <2>3 DEF CallOK, Told, Answered, FinalAt, Waiting
  <2> QED BY <2>3
<1> QED BY <1>1, <1>2, <1>3, <1>4 DEF AnswerInv

LEMMA AwaitTells ==
    ASSUME AnswerInv, Next, NEW c \in Callers, NEW a \in Artifacts,
           call[c].home \in Runners, Await(c, a)
    PROVE AnswerInv'
<1> DEFINE r == call[c].home
           shared == IF kept[r][a] = "none" THEN "open" ELSE kept[r][a]
           new == [NoCall EXCEPT !.at = "wait", !.home = r, !.art = a, !.comp = shared]
<1>1. kept' = [kept EXCEPT ![r][a] = shared] /\ call' = [call EXCEPT ![c] = new]
  BY DEF Await
<1>2. shared \in {"open"} \cup Settled /\ (shared = "open" \/ shared = kept[r][a])
  BY DEF AnswerInv, CallsTyped
<1>3. Told(a, shared) BY <1>2 DEF AnswerInv, KeptTold, Told
<1>4. WorkInv BY DEF AnswerInv
<1>5. \A x : Told(a, x) => (Told(a, x))' BY <1>4, StaysTold
<1>6. /\ shared = "ok" => status'[a] \in {"ready", "superseded"}
      /\ shared = "rejected" => status'[a] = "rejected"
      /\ shared = "error" => runs'[a] = MAX_OPERATIONAL_RUNS
  BY <1>3, <1>5 DEF Told
<1>7. /\ new.at = "wait" /\ new.home = r /\ new.art = a /\ new.comp = shared
      /\ new \in Calls
  BY <1>2 DEF NoCall, Calls, NoArtifact, Results
<1> HIDE DEF new, shared
<1>8. CallsTyped' BY <1>1, <1>2, <1>7 DEF AnswerInv, CallsTyped
<1>9. ASSUME NEW q \in Runners, NEW b \in Artifacts
      PROVE kept'[q][b] = kept[q][b] \/ Told(b, kept[q][b])'
  <2>1. kept'[q][b] = kept[q][b] \/ (b = a /\ kept'[q][b] = shared)
    BY <1>1 DEF AnswerInv, CallsTyped
  <2> QED BY <2>1, <1>6 DEF Told
<1>10. ASSUME NEW d \in Callers PROVE call'[d] = call[d] \/ CallOK(d)'
  <2>1. CASE d = c
    <3>1. call'[d] = new BY <1>1, <2>1 DEF AnswerInv, CallsTyped
    <3> QED BY <3>1, <1>6, <1>7 DEF CallOK, Told
  <2>2. CASE d # c BY <1>1, <2>2
  <2> QED BY <2>1, <2>2
<1> QED BY <1>8, <1>9, <1>10, Tell

LEMMA LeaveTells ==
    ASSUME AnswerInv, Next, NEW c \in Callers, call[c].at \in Waiting,
           NEW x \in Results, Leave(c, x), UNCHANGED <<status, runs>>,
           x \in Telling => Answered(call[c].art, x)
    PROVE AnswerInv'
<1> DEFINE r == call[c].home
           a == call[c].art
           drops == call[c].comp \in {"open", "lost"}
<1>1. r \in Runners /\ a \in Artifacts BY DEF AnswerInv, CallOK
<1>2. /\ kept' = IF drops THEN [kept EXCEPT ![r][a] = "none"] ELSE kept
      /\ call' = [d \in Callers |->
                     IF d = c THEN Done(a, x)
                     ELSE IF drops /\ call[d].home = r /\ call[d].art = a
                             /\ call[d].comp = "open"
                          THEN [call[d] EXCEPT !.comp = "lost"]
                          ELSE call[d]]
  BY DEF Leave
<1>3. /\ Done(a, x).at = "done" /\ (x \in Telling => Done(a, x).art = a)
      /\ Done(a, x).result = x /\ Done(a, x) \in Calls
  BY <1>1 DEF Done, NoCall, Calls, NoArtifact, Results, Settled, Telling
<1>4. \A d \in Callers : [call[d] EXCEPT !.comp = "lost"] \in Calls
  BY DEF AnswerInv, CallsTyped, Calls
<1>5. CallsTyped'
  <2>1. kept' \in [Runners -> [Artifacts -> {"none", "open"} \cup Settled]]
    BY <1>1, <1>2 DEF AnswerInv, CallsTyped
  <2>2. call' \in [Callers -> Calls] BY <1>2, <1>3, <1>4 DEF AnswerInv, CallsTyped
  <2> QED BY <2>1, <2>2 DEF CallsTyped
<1>6. ASSUME NEW q \in Runners, NEW b \in Artifacts
      PROVE kept'[q][b] = kept[q][b] \/ Told(b, kept[q][b])'
  <2>1. kept'[q][b] = kept[q][b] \/ kept'[q][b] = "none"
    BY <1>2 DEF AnswerInv, CallsTyped
  <2> QED BY <2>1 DEF Told
<1>7. ASSUME NEW d \in Callers PROVE call'[d] = call[d] \/ CallOK(d)'
  <2>1. CASE d = c
    <3>1. call'[d] = Done(a, x) BY <1>2, <2>1
    <3> QED BY <1>1, <1>3, <3>1 DEF CallOK, Answered, Waiting
  <2>2. CASE d # c
    <3>1. call'[d] = call[d] \/ call'[d] = [call[d] EXCEPT !.comp = "lost"] BY <1>2, <2>2
    <3>2. call[d] \in Calls /\ CallOK(d) BY DEF AnswerInv, CallsTyped
    <3> QED BY <3>1, <3>2 DEF CallOK, Told, Answered, Calls
  <2> QED BY <2>1, <2>2
<1> QED BY <1>5, <1>6, <1>7, Tell

LEMMA SettleTells ==
    ASSUME AnswerInv, Next, NEW r \in Runners, NEW a \in Artifacts, NEW x \in Settled,
           Settle(r, a, x), UNCHANGED <<status, runs>>, Told(a, x)
    PROVE AnswerInv'
<1>1. /\ kept' = IF kept[r][a] = "open" THEN [kept EXCEPT ![r][a] = x] ELSE kept
      /\ call' = [c \in Callers |->
                    IF call[c].home = r /\ call[c].art = a /\ call[c].comp = "open"
                    THEN [call[c] EXCEPT !.comp = x]
                    ELSE call[c]]
  BY DEF Settle
<1>2. \A d \in Callers : [call[d] EXCEPT !.comp = x] \in Calls
  BY DEF AnswerInv, CallsTyped, Calls
<1>3. CallsTyped'
  <2>1. kept' \in [Runners -> [Artifacts -> {"none", "open"} \cup Settled]]
    BY <1>1 DEF AnswerInv, CallsTyped
  <2>2. call' \in [Callers -> Calls] BY <1>1, <1>2 DEF AnswerInv, CallsTyped
  <2> QED BY <2>1, <2>2 DEF CallsTyped
<1>4. ASSUME NEW q \in Runners, NEW b \in Artifacts
      PROVE kept'[q][b] = kept[q][b] \/ Told(b, kept[q][b])'
  <2>1. kept'[q][b] = kept[q][b] \/ (b = a /\ kept'[q][b] = x)
    BY <1>1 DEF AnswerInv, CallsTyped
  <2> QED BY <2>1 DEF Told
<1>5. ASSUME NEW d \in Callers PROVE call'[d] = call[d] \/ CallOK(d)'
  <2>1. \/ call'[d] = call[d]
        \/ call[d].art = a /\ call'[d] = [call[d] EXCEPT !.comp = x]
    BY <1>1
  <2>2. call[d] \in Calls /\ CallOK(d) BY DEF AnswerInv, CallsTyped
  <2> QED BY <2>1, <2>2 DEF CallOK, Told, Answered, Calls
<1> QED BY <1>3, <1>4, <1>5, Tell

\* A caller goes on alone.
LEMMA MoveTells ==
    ASSUME AnswerInv, Next, NEW c \in Callers, NEW j \in Calls,
           call' = [call EXCEPT ![c] = j], UNCHANGED kept, CallOK(c)'
    PROVE AnswerInv'
<1>1. CallsTyped' BY DEF AnswerInv, CallsTyped
<1>2. \A r \in Runners, a \in Artifacts :
          kept'[r][a] = kept[r][a] \/ Told(a, kept[r][a])'
  OBVIOUS
<1>3. \A d \in Callers : call'[d] = call[d] \/ CallOK(d)' BY DEF AnswerInv, CallsTyped
<1> QED BY <1>1, <1>2, <1>3, Tell

\* A caller that asks, that chooses to insert, or that is about to count.
LEMMA AskTells ==
    ASSUME AnswerInv, Next, NEW c \in Callers, NEW j \in Calls,
           call' = [call EXCEPT ![c] = j], UNCHANGED kept,
           \/ j.at = "latest" /\ j.home \in Runners
           \/ j.at = "create" /\ j.home \in Runners
           \/ j.at = "budget" /\ j.home \in Runners /\ j.art \in Artifacts
    PROVE AnswerInv'
<1>1. call'[c] = j BY DEF AnswerInv, CallsTyped
<1>2. CallOK(c)' BY <1>1 DEF CallOK, Waiting
<1> QED BY <1>2, MoveTells

LEMMA DoneTells ==
    ASSUME AnswerInv, Next, NEW c \in Callers, NEW a \in Artifacts, NEW x \in Results,
           call' = [call EXCEPT ![c] = Done(a, x)], UNCHANGED kept,
           x \in Telling => Answered(a, x)'
    PROVE AnswerInv'
<1>1. /\ Done(a, x).at = "done" /\ (x \in Telling => Done(a, x).art = a)
      /\ Done(a, x).result = x /\ Done(a, x) \in Calls
  BY DEF Done, NoCall, Calls, NoArtifact, Results, Settled, Telling
<1>2. call'[c] = Done(a, x) BY DEF AnswerInv, CallsTyped
<1>3. CallOK(c)' BY <1>1, <1>2 DEF CallOK, Answered, Waiting
<1> QED BY <1>1, <1>3, MoveTells

LEMMA ArriveTells ==
    ASSUME AnswerInv, Next, NEW c \in Callers, NEW r \in Runners, NEW k \in Keys,
           NEW m \in {"get", "generate", "background"}, Arrive(c, r, k, m)
    PROVE AnswerInv'
<1> DEFINE j == [call[c] EXCEPT !.at = "latest", !.mode = m, !.home = r, !.key = k]
<1>1. call' = [call EXCEPT ![c] = j] /\ UNCHANGED kept
  BY DEF Arrive, AnswerInv, CallsTyped
<1>2. j \in Calls /\ j.at = "latest" /\ j.home = r BY DEF AnswerInv, CallsTyped, Calls
<1> HIDE DEF j
<1> QED BY <1>1, <1>2, AskTells

LEMMA FindTells ==
    ASSUME AnswerInv, Next, NEW c \in Callers, NEW a \in Artifacts, FindLatest(c, a)
    PROVE AnswerInv'
<1>1. call[c] \in Calls /\ call[c].home \in Runners
  BY DEF FindLatest, AnswerInv, CallsTyped, CallOK
<1>2. CASE Await(c, a) BY <1>1, <1>2, AwaitTells
<1>3. CASE call' = [call EXCEPT ![c].at = "budget", ![c].art = a] /\ UNCHANGED kept
  <2> DEFINE j == [call[c] EXCEPT !.at = "budget", !.art = a]
  <2>1. call' = [call EXCEPT ![c] = j] BY <1>3 DEF AnswerInv, CallsTyped
  <2>2. j \in Calls /\ j.at = "budget" /\ j.home \in Runners /\ j.art = a
    BY <1>1 DEF Calls
  <2> HIDE DEF j
  <2> QED BY <1>3, <2>1, <2>2, AskTells
<1>4. CASE call' = [call EXCEPT ![c].at = "create"] /\ UNCHANGED kept
  <2> DEFINE j == [call[c] EXCEPT !.at = "create"]
  <2>1. call' = [call EXCEPT ![c] = j] BY <1>4 DEF AnswerInv, CallsTyped
  <2>2. j \in Calls /\ j.at = "create" /\ j.home \in Runners BY <1>1 DEF Calls
  <2> HIDE DEF j
  <2> QED BY <1>4, <2>1, <2>2, AskTells
<1>5. CASE /\ UNCHANGED <<kept, status>>
           /\ call' = [call EXCEPT ![c] = Done(a, CASE status[a] = "ready" -> "ok"
                                                    [] status[a] = "rejected" -> "rejected"
                                                    [] OTHER -> "none")]
  <2>1. PICK x \in {"ok", "rejected", "none"} :
          /\ call' = [call EXCEPT ![c] = Done(a, x)]
          /\ x = "ok" => status[a] = "ready"
          /\ x = "rejected" => status[a] = "rejected"
    BY <1>5
  <2>2. x \in Results /\ (x \in Telling => Answered(a, x)')
    BY <1>5, <2>1 DEF Results, Settled, Telling, Answered
  <2> QED BY <1>5, <2>1, <2>2, DoneTells
<1> QED BY <1>2, <1>3, <1>4, <1>5 DEF FindLatest

LEMMA BudgetTells ==
    ASSUME AnswerInv, Next, NEW c \in Callers, Budget(c)
    PROVE AnswerInv'
<1> DEFINE a == call[c].art
<1>1. call[c] \in Calls /\ call[c].home \in Runners /\ a \in Artifacts
  BY DEF Budget, AnswerInv, CallsTyped, CallOK
<1>2. CASE Await(c, a) BY <1>1, <1>2, AwaitTells
<1>3. CASE call' = [call EXCEPT ![c].at = "create"] /\ UNCHANGED kept
  <2> DEFINE j == [call[c] EXCEPT !.at = "create"]
  <2>1. call' = [call EXCEPT ![c] = j] BY <1>3 DEF AnswerInv, CallsTyped
  <2>2. j \in Calls /\ j.at = "create" /\ j.home \in Runners BY <1>1 DEF Calls
  <2> HIDE DEF j
  <2> QED BY <1>3, <2>1, <2>2, AskTells
<1>4. CASE /\ call' = [call EXCEPT ![c] = Done(a, IF runs[a] < MAX_OPERATIONAL_RUNS
                                                THEN "none" ELSE "error")]
           /\ UNCHANGED <<kept, runs>>
  <2>1. runs[a] \in Nat /\ runs[a] <= MAX_OPERATIONAL_RUNS
    BY <1>1 DEF AnswerInv, WorkInv, Typed, RetryBudget
  <2>2. CASE runs[a] < MAX_OPERATIONAL_RUNS
    <3>1. call' = [call EXCEPT ![c] = Done(a, "none")] BY <1>4, <2>2
    <3>2. "none" \in Results /\ "none" \notin Telling BY DEF Results, Telling
    <3> QED BY <1>1, <1>4, <3>1, <3>2, DoneTells
  <2>3. CASE ~(runs[a] < MAX_OPERATIONAL_RUNS)
    <3>1. call' = [call EXCEPT ![c] = Done(a, "error")] BY <1>4, <2>3
    <3>2. runs[a] = MAX_OPERATIONAL_RUNS BY <2>1, <2>3, BlocksAssumption
    <3>3. \A b \in Artifacts : b = a => Answered(b, "error")'
      BY <1>4, <3>2 DEF Answered
    <3> QED BY <1>1, <1>4, <3>1, <3>3, DoneTells DEF Results, Settled
  <2> QED BY <2>2, <2>3
<1> QED BY <1>2, <1>3, <1>4 DEF Budget

LEMMA WaitTells ==
    ASSUME AnswerInv, Next, NEW c \in Callers,
           \/ Poll(c) \/ Answer(c) \/ CountForWaiter(c) \/ Completed(c)
           \/ Abort(c) /\ call[c].at \in Waiting
    PROVE AnswerInv'
<1> DEFINE a == call[c].art
<1>1. /\ call[c].at \in Waiting /\ call[c] \in Calls /\ call[c].home \in Runners
      /\ a \in Artifacts /\ Told(a, call[c].comp)
  BY DEF Poll, Answer, CountForWaiter, Completed, AnswerInv, CallsTyped, CallOK, Waiting
<1>2. UNCHANGED <<status, runs>> BY DEF Poll, Answer, CountForWaiter, Completed, Abort
<1>3. ASSUME NEW x \in Results, Leave(c, x), x \in Telling => Answered(a, x)
      PROVE AnswerInv'
  BY <1>1, <1>2, <1>3, LeaveTells
\* Between the poll, the count and the reading.
<1>4. ASSUME NEW at \in Waiting, call' = [call EXCEPT ![c] = [@ EXCEPT !.at = at]],
             at = "read" => status[a] \in {"ready", "rejected"}, UNCHANGED kept
      PROVE AnswerInv'
  <2> DEFINE j == [call[c] EXCEPT !.at = at]
  <2>1. call' = [call EXCEPT ![c] = j] /\ call'[c] = j BY <1>4 DEF AnswerInv, CallsTyped
  <2>2. j \in Calls /\ j.at = at /\ j.home = call[c].home /\ j.art = a
        /\ j.comp = call[c].comp
    BY <1>1 DEF Calls, Waiting
  <2> HIDE DEF j
  <2>3. CallOK(c)' BY <1>1, <1>2, <1>4, <2>1, <2>2 DEF CallOK, Told, Waiting
  <2> QED BY <1>4, <2>1, <2>2, <2>3, MoveTells
<1>n. "none" \in Results /\ "none" \notin Telling BY DEF Results, Telling
<1>5. CASE Poll(c)
  <2>1. CASE Leave(c, "none") BY <1>3, <1>n, <2>1
  <2>2. CASE /\ status[a] \in {"ready", "rejected", "failed"} /\ UNCHANGED kept
             /\ call' = [call EXCEPT ![c].at = IF status[a] = "failed" THEN "count" ELSE "read"]
    <3> DEFINE at == IF status[a] = "failed" THEN "count" ELSE "read"
    <3>1. at \in Waiting /\ (at = "read" => status[a] \in {"ready", "rejected"})
      BY <2>2 DEF Waiting
    <3> QED BY <1>4, <2>2, <3>1
  <2> QED BY <1>5, <2>1, <2>2 DEF Poll
<1>6. CASE CountForWaiter(c)
  <2>1. runs[a] \in Nat /\ runs[a] <= MAX_OPERATIONAL_RUNS
    BY <1>1 DEF AnswerInv, WorkInv, Typed, RetryBudget
  <2>2. ~(runs[a] < MAX_OPERATIONAL_RUNS) => Answered(a, "error")
    BY <2>1, BlocksAssumption DEF Answered
  <2>3. "wait" \in Waiting /\ "error" \in Results BY DEF Waiting, Results, Settled
  <2> QED BY <1>3, <1>4, <1>6, <2>2, <2>3 DEF CountForWaiter
<1>7. CASE Completed(c)
  <2>1. call[c].comp \in Settled /\ Leave(c, call[c].comp) BY <1>7 DEF Completed
  <2>2. call[c].comp \in Results /\ Answered(a, call[c].comp)
    BY <1>1, <2>1 DEF Settled, Results, Told, Answered
  <2> QED BY <1>3, <2>1, <2>2
<1>8. CASE Abort(c) /\ call[c].at \in Waiting
  BY <1>3, <1>n, <1>8 DEF Abort, Waiting
<1>9. CASE Answer(c)
  <2> DEFINE local == kept[call[c].home][a]
  <2>1. status[a] \in {"ready", "superseded", "rejected"} /\ Told(a, local)
    BY <1>1, <1>9 DEF Answer, AnswerInv, CallOK, KeptTold
  <2>2. CASE local \in Settled /\ Leave(c, local)
    <3>1. local \in Results /\ Answered(a, local)
      BY <2>1, <2>2 DEF Settled, Results, Told, Answered
    <3> QED BY <1>3, <2>2, <3>1
  <2>3. CASE status[a] = "rejected" /\ Leave(c, "rejected")
    BY <1>3, <2>3 DEF Results, Settled, Answered
  <2>4. CASE status[a] # "rejected" /\ (Leave(c, "ok") \/ Leave(c, "unreadable"))
    BY <1>3, <2>1, <2>4 DEF Results, Settled, Answered
  <2> QED BY <1>9, <2>2, <2>3, <2>4 DEF Answer
<1> QED BY <1>5, <1>6, <1>7, <1>8, <1>9

\* A call that ends before it waits.
LEMMA AbortTells ==
    ASSUME AnswerInv, Next, NEW c \in Callers, Abort(c)
    PROVE AnswerInv'
<1>1. CASE call[c].at \in Waiting BY <1>1, WaitTells
<1>2. CASE call[c].at \notin Waiting
  <2> DEFINE j == Done(NoArtifact, "none")
  <2>1. call' = [call EXCEPT ![c] = j] /\ UNCHANGED kept BY <1>2 DEF Abort, Waiting
  <2>2. j \in Calls /\ j.at = "done" /\ j.result = "none"
    BY DEF Done, NoCall, Calls, NoArtifact, Results
  <2> HIDE DEF j
  <2>3. call'[c] = j BY <2>1 DEF AnswerInv, CallsTyped
  <2>4. CallOK(c)' BY <2>2, <2>3 DEF CallOK, Waiting, Telling
  <2> QED BY <2>1, <2>2, <2>4, MoveTells
<1> QED BY <1>1, <1>2

LEMMA CallerTells == ASSUME AnswerInv, Next, NEW c \in Callers, CallerStep(c) PROVE AnswerInv'
<1>1. ASSUME NEW r \in Runners, NEW k \in Keys,
             Get(c, r, k) \/ Generate(c, r, k) \/ Background(c, r, k)
      PROVE AnswerInv'
  BY <1>1, ArriveTells DEF Get, Generate, Background
<1>2. ASSUME NEW r \in Runners, NEW k \in Keys, NEW a \in Artifacts, GetCached(c, r, k, a)
      PROVE AnswerInv'
  <2>1. Answered(a, "ok")' BY <1>2 DEF GetCached, Ready, Answered
  <2> QED BY <1>2, <2>1, DoneTells DEF GetCached, Results, Settled
<1>3. CASE FindNone(c)
  <2> DEFINE j == [call[c] EXCEPT !.at = "create"]
  <2>1. call' = [call EXCEPT ![c] = j] /\ UNCHANGED kept
    BY <1>3 DEF FindNone, AnswerInv, CallsTyped
  <2>2. j \in Calls /\ j.at = "create" /\ j.home \in Runners
    BY <1>3 DEF FindNone, AnswerInv, CallsTyped, CallOK, Calls
  <2> HIDE DEF j
  <2> QED BY <2>1, <2>2, AskTells
<1>4. ASSUME NEW a \in Artifacts, Create(c, a) PROVE AnswerInv'
  <2>1. call[c].home \in Runners BY <1>4 DEF Create, AnswerInv, CallOK
  <2>2. CASE Await(c, a) BY <2>1, <2>2, AwaitTells
  <2>3. CASE call' = [call EXCEPT ![c] = Done(a, "none")] /\ UNCHANGED kept
    BY <2>3, DoneTells DEF Results, Telling
  <2> QED BY <1>4, <2>2, <2>3 DEF Create
<1> QED BY <1>1, <1>2, <1>3, <1>4, FindTells, BudgetTells, WaitTells, AbortTells
       DEF CallerStep

LEMMA CrashTells == ASSUME AnswerInv, Next, NEW r \in Runners, Crash(r) PROVE AnswerInv'
<1>1. /\ kept' = [kept EXCEPT ![r] = [a \in Artifacts |-> "none"]]
      /\ call' = [c \in Callers |->
                    IF call[c].home = r /\ call[c].at # "done"
                    THEN Done(NoArtifact, "none") ELSE call[c]]
  BY DEF Crash
<1>2. /\ Done(NoArtifact, "none") \in Calls /\ Done(NoArtifact, "none").at = "done"
      /\ Done(NoArtifact, "none").result = "none"
  BY DEF Done, NoCall, Calls, NoArtifact, Results
<1>3. CallsTyped' BY <1>1, <1>2 DEF AnswerInv, CallsTyped
<1>4. ASSUME NEW q \in Runners, NEW a \in Artifacts
      PROVE kept'[q][a] = kept[q][a] \/ Told(a, kept[q][a])'
  BY <1>1 DEF AnswerInv, CallsTyped, Told
<1>5. ASSUME NEW c \in Callers PROVE call'[c] = call[c] \/ CallOK(c)'
  BY <1>1, <1>2 DEF CallOK, Telling, Waiting
<1> QED BY <1>3, <1>4, <1>5, Tell

LEMMA ExpireTells ==
    ASSUME AnswerInv, Next, NEW r \in Runners, NEW a \in Artifacts, Expire(r, a)
    PROVE AnswerInv'
<1>1. kept' = [kept EXCEPT ![r][a] = "none"] /\ call' = call BY DEF Expire
<1>2. CallsTyped' BY <1>1 DEF AnswerInv, CallsTyped
<1>3. ASSUME NEW q \in Runners, NEW b \in Artifacts
      PROVE kept'[q][b] = kept[q][b] \/ Told(b, kept[q][b])'
  BY <1>1 DEF AnswerInv, CallsTyped, Told
<1> QED BY <1>1, <1>2, <1>3, Tell

\* The fulfilment settles the promise by the stage it reached.
LEMMA FulfilledTells ==
    ASSUME AnswerInv, Next, NEW r \in Runners, NEW a \in Artifacts, Fulfilled(r, a)
    PROVE AnswerInv'
<1>1. UNCHANGED <<status, runs>> BY DEF Fulfilled
<1>2. CASE job[r][a].at = "marked" /\ Settle(r, a, "ok")
  <2>1. Told(a, "ok") BY <1>2 DEF AnswerInv, JobTold, Told
  <2> QED BY <1>1, <1>2, <2>1, SettleTells DEF Settled
<1>3. CASE job[r][a].at = "rejected" /\ Settle(r, a, "rejected")
  <2>1. Told(a, "rejected") BY <1>3 DEF AnswerInv, JobTold, Told
  <2> QED BY <1>1, <1>3, <2>1, SettleTells DEF Settled
<1>4. CASE runs[a] >= MAX_OPERATIONAL_RUNS /\ Settle(r, a, "error")
  <2>1. runs[a] \in Nat /\ runs[a] <= MAX_OPERATIONAL_RUNS
    BY DEF AnswerInv, WorkInv, Typed, RetryBudget
  <2>2. Told(a, "error") BY <1>4, <2>1, BlocksAssumption DEF Told
  <2> QED BY <1>1, <1>4, <2>2, SettleTells DEF Settled
<1>5. CASE UNCHANGED <<kept, call>>
  <2>1. CallsTyped' BY <1>5 DEF AnswerInv, CallsTyped
  <2> QED BY <1>5, <2>1, Tell
<1> QED BY <1>2, <1>3, <1>4, <1>5 DEF Fulfilled

LEMMA AnswerInductive == AnswerInv /\ [Next]_vars => AnswerInv'
<1> SUFFICES ASSUME AnswerInv, [Next]_vars PROVE AnswerInv' OBVIOUS
<1>1. CASE UNCHANGED vars
  <2>1. WorkInv' BY <1>1, WorkInductive DEF AnswerInv
  <2> QED BY <1>1, <2>1 DEF AnswerInv, CallsTyped, JobTold, KeptTold, Told, CallOK, Answered
<1>2. ASSUME Next, UNCHANGED <<kept, call>> PROVE AnswerInv'
  <2>1. CallsTyped' BY <1>2 DEF AnswerInv, CallsTyped
  <2> QED BY <1>2, <2>1, Tell
<1>3. ASSUME Next, NEW r \in Runners, RunnerStep(r) PROVE AnswerInv'
  <2>1. ASSUME NEW a \in Artifacts, Fulfil(r, a), ~Fulfilled(r, a) PROVE UNCHANGED <<kept, call>>
    BY <2>1 DEF Fulfil, StartRun, Attempt, AttemptThrows, SupersedeOthers, MarkReady,
       Escape, MarkRejected, MarkFailed
  <2>2. ASSUME NEW S \in SUBSET Artifacts, Requeue(r, S) \/ Claim(r, S)
        PROVE UNCHANGED <<kept, call>>
    BY <2>2 DEF Requeue, Claim
  <2>3. Start(r) => UNCHANGED <<kept, call>> BY DEF Start
  <2> QED BY <1>2, <1>3, <2>1, <2>2, <2>3, CrashTells, ExpireTells, FulfilledTells
          DEF RunnerStep
<1>4. ASSUME NEW k \in Keys, Dump(k) PROVE UNCHANGED <<kept, call>> BY <1>4 DEF Dump
<1> QED BY <1>1, <1>2, <1>3, <1>4, CallerTells DEF Next

\* What a caller is told about the artifact it waited for is so, and stays so,
\* whether the row or the promise told it, whoever else dropped the promise,
\* wherever the run threw before or after the row was marked, and in whichever
\* process it was (waitForTerminalArtifact, resultForTerminalArtifact,
\* fulfillClaimedArtifact).
THEOREM AnswerSafety == Spec => []AnswerTrue
<1>1. AnswerInv => AnswerTrue BY DEF AnswerInv, CallOK, Telling, Answered, AnswerTrue
<1> QED BY <1>1, InitAnswer, AnswerInductive, PTL DEF Spec
=============================================================================
