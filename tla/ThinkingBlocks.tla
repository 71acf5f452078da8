--------------------------- MODULE ThinkingBlocks ---------------------------
(***************************************************************************)
(* The runtime of one thinking block (packages/thinking-blocks/src/        *)
(* thinking-block.ts) over the shared artifact table                       *)
(* (apps/api/src/thinking-blocks/thinking-blocks.ts).                      *)
(*                                                                         *)
(* Callers ask for the artifact of an identity key (get, generate, or get  *)
(* in mode background) and wait for it; runners, one per live instance of  *)
(* the block, requeue failed artifacts, claim pending ones and run them.   *)
(* Every await of the code is a boundary between two steps.                *)
(*                                                                         *)
(* A run's attempts are model calls: each either throws or produces an     *)
(* output that the validators accept or refuse.  What the calls say,       *)
(* their telemetry and the phases shown to a user are left out.  An abort  *)
(* signal that reaches the agent is one of the ways an attempt throws.     *)
(* Every statement of the store may throw, and the adapter may commit, or  *)
(* read, in vain.                                                          *)
(***************************************************************************)
EXTENDS Integers, FiniteSets

CONSTANTS
    Keys,                   \* identity keys of one (block name, version)
    Artifacts,              \* rows, numbered in the order of createdAt
    KeyOf,                  \* the key a row would be inserted for
    Runners,                \* instances of the block, over all processes
    Callers,                \* calls of get/generate, one each
    Parallelism,            \* config.parallelism
    MAX_OPERATIONAL_RUNS,   \* runs an artifact may use
    MaxAttempts,            \* attempts of one run
    MayCrash                \* whether a process may die

ASSUME BlocksAssumption ==
    /\ Artifacts \subseteq Nat
    /\ KeyOf \in [Artifacts -> Keys]
    /\ Parallelism \in Nat \ {0}
    /\ MAX_OPERATIONAL_RUNS \in Nat \ {0}
    /\ MaxAttempts \in Nat \ {0}
    /\ MayCrash \in BOOLEAN

VARIABLES
    status,   \* artifacts.status, "absent" before the insert
    runs,     \* number of rows of thinking_block_runs for the artifact
    life,     \* a runner's life: not yet built, on, stopped, or dead
    tick,     \* where runRunnerTick of a runner is
    job,      \* fulfillClaimedArtifact per runner and artifact
    kept,     \* this.completions per runner and artifact
    call      \* what each caller is doing

vars == <<status, runs, life, tick, job, kept, call>>

-----------------------------------------------------------------------------
(* State *)

Statuses == {"absent", "pending", "running", "ready", "rejected", "failed",
             "superseded"}

\* Where a fulfilment is.  "claimed": before startRun; "generate": in the
\* attempts; "commit": an output passed, before the supersede statement of
\* markArtifactReady; "mark": between that statement and the row's own update;
\* "marked", "reject", "rejected", "failing", "failed": in commitReady,
\* commitRejected and commitFailed; "escaped": an error that left the row
\* running, past every handler that would have marked it.
Stages == {"idle", "claimed", "generate", "commit", "mark", "marked", "reject",
           "rejected", "failing", "failed", "escaped"}

\* saw: the rows the supersede statement of markArtifactReady found ready.
Jobs == [at : Stages, tries : 0..MaxAttempts, saw : SUBSET Artifacts]

NoJob == [at |-> "idle", tries |-> 0, saw |-> {}]

\* A completion promise: absent, unsettled, or settled with a result.
Settled == {"ok", "rejected", "error"}

\* comp is the caller's own completion: "open" while it is the one in the map,
\* "lost" once the map has dropped it.
NoArtifact == -1

NoCall == [at |-> "idle", mode |-> "get", home |-> "none", key |-> "none",
           art |-> NoArtifact, comp |-> "none", result |-> "none"]

\* What an answer says of the artifact: "ok" for one that is ready, "error" for
\* one that has failed or whose run threw; "none" for answers that tell no
\* outcome (still queued, superseded) and for calls that end without one, of
\* which it does not matter which artifact they were about.
Results == {"none", "unreadable"} \cup Settled

Done(a, result) ==
    [NoCall EXCEPT !.at = "done", !.result = result,
                   !.art = IF result = "none" THEN NoArtifact ELSE a]

Calls ==
    [at : {"idle", "latest", "budget", "create", "wait", "count", "read", "done"},
     mode : {"get", "generate", "background"},
     home : Runners \cup {"none"}, key : Keys \cup {"none"},
     art : Artifacts \cup {NoArtifact},
     comp : {"none", "open", "lost"} \cup Settled,
     result : Results]

TypeOK ==
    /\ status \in [Artifacts -> Statuses]
    /\ runs \in [Artifacts -> Nat]
    /\ life \in [Runners -> {"unborn", "on", "stopped", "down"}]
    /\ tick \in [Runners -> {"idle", "claim"}]
    /\ job \in [Runners -> [Artifacts -> Jobs]]
    /\ kept \in [Runners -> [Artifacts -> {"none", "open"} \cup Settled]]
    /\ call \in [Callers -> Calls]

Init ==
    /\ status = [a \in Artifacts |-> "absent"]
    /\ runs = [a \in Artifacts |-> 0]
    /\ life = [r \in Runners |-> "unborn"]
    /\ tick = [r \in Runners |-> "idle"]
    /\ job = [r \in Runners |-> [a \in Artifacts |-> NoJob]]
    /\ kept = [r \in Runners |-> [a \in Artifacts |-> "none"]]
    /\ call = [c \in Callers |-> NoCall]

-----------------------------------------------------------------------------
(* The store's queries *)

\* Rows of a key that are not superseded, and the last of them by createdAt.
Current(k) == {a \in Artifacts : KeyOf[a] = k /\ status[a] \notin {"absent", "superseded"}}
IsLatest(k, a) == a \in Current(k) /\ \A b \in Current(k) : b <= a

Ready(k) == {a \in Artifacts : KeyOf[a] = k /\ status[a] = "ready"}

\* activeArtifacts of a runner.
Active(r) == {a \in Artifacts : job[r][a].at # "idle"}

-----------------------------------------------------------------------------
(* Completions *)

\* resolveCompletion and rejectCompletion: the promise in the map, if there is
\* one, settles for everyone who holds it.
Settle(r, a, result) ==
    /\ kept' = IF kept[r][a] = "open" THEN [kept EXCEPT ![r][a] = result] ELSE kept
    /\ call' = [c \in Callers |->
                  IF call[c].home = r /\ call[c].art = a /\ call[c].comp = "open"
                  THEN [call[c] EXCEPT !.comp = result]
                  ELSE call[c]]

\* expireCompletion, a second after the promise settled.
Expire(r, a) ==
    /\ kept[r][a] \in Settled
    /\ kept' = [kept EXCEPT ![r][a] = "none"]
    /\ UNCHANGED <<status, runs, life, tick, job, call>>

\* waitForTerminalArtifact begins: completionFor takes the promise in the map,
\* or puts a new one there.
Await(c, a) ==
    LET r == call[c].home
        shared == IF kept[r][a] = "none" THEN "open" ELSE kept[r][a]
    IN /\ kept' = [kept EXCEPT ![r][a] = shared]
       /\ call' = [call EXCEPT ![c] = [NoCall EXCEPT !.at = "wait", !.home = r,
                                              !.art = a, !.comp = shared]]

\* The finally of waitForTerminalArtifact: a waiter whose own promise is
\* unsettled drops the map's entry, whoever else holds it.
Leave(c, result) ==
    LET r == call[c].home
        a == call[c].art
        drops == call[c].comp \in {"open", "lost"}
    IN /\ kept' = IF drops THEN [kept EXCEPT ![r][a] = "none"] ELSE kept
       /\ call' = [d \in Callers |->
                     IF d = c
                     THEN Done(a, result)
                     ELSE IF drops /\ call[d].home = r /\ call[d].art = a
                             /\ call[d].comp = "open"
                          THEN [call[d] EXCEPT !.comp = "lost"]
                          ELSE call[d]]

-----------------------------------------------------------------------------
(* Callers *)

Arrive(c, r, k, mode) ==
    /\ call[c].at = "idle"
    /\ life[r] \in {"on", "stopped"}
    /\ call' = [call EXCEPT ![c].at = "latest", ![c].mode = mode,
                            ![c].home = r, ![c].key = k]
    /\ UNCHANGED <<status, runs, life, tick, job, kept>>

\* get: the ready artifact of the key answers at once, if the adapter can
\* read it.
GetCached(c, r, k, a) ==
    /\ call[c].at = "idle"
    /\ life[r] \in {"on", "stopped"}
    /\ a \in Ready(k)
    /\ call' = [call EXCEPT ![c] = Done(a, "ok")]
    /\ UNCHANGED <<status, runs, life, tick, job, kept>>

\* get: no ready artifact, or one whose adapter reads null.
Get(c, r, k) == Arrive(c, r, k, "get")
Generate(c, r, k) == Arrive(c, r, k, "generate")
Background(c, r, k) == Arrive(c, r, k, "background")

\* findLatestNonSupersededArtifact found a row.  get waits for whatever is not
\* ready; generate waits for what is queued; background answers with what it
\* found.  A failed row's budget is another query.
FindLatest(c, a) ==
    LET m == call[c].mode
        s == status[a]
    IN /\ call[c].at = "latest"
       /\ IsLatest(call[c].key, a)
       /\ \/ /\ \/ m = "get" /\ s # "ready"
                \/ m = "generate" /\ s \in {"pending", "running"}
             /\ Await(c, a)
          \/ /\ m \in {"generate", "background"} /\ s = "failed"
             /\ call' = [call EXCEPT ![c].at = "budget", ![c].art = a]
             /\ UNCHANGED kept
          \/ /\ \/ m = "get" /\ s = "ready"
                \/ m = "generate" /\ s \in {"ready", "rejected"}
             /\ call' = [call EXCEPT ![c].at = "create"]
             /\ UNCHANGED kept
          \/ /\ m = "background" /\ s # "failed"
             /\ call' = [call EXCEPT ![c] = Done(a, CASE s = "ready" -> "ok"
                                                      [] s = "rejected" -> "rejected"
                                                      [] OTHER -> "none")]
             /\ UNCHANGED kept
       /\ UNCHANGED <<status, runs, life, tick, job>>

FindNone(c) ==
    /\ call[c].at = "latest"
    /\ Current(call[c].key) = {}
    /\ call' = [call EXCEPT ![c].at = "create"]
    /\ UNCHANGED <<status, runs, life, tick, job, kept>>

\* isRetryableFailed for generate and background.
Budget(c) ==
    LET a == call[c].art
        left == runs[a] < MAX_OPERATIONAL_RUNS
    IN /\ call[c].at = "budget"
       /\ \/ /\ call[c].mode = "generate" /\ left
             /\ Await(c, a)
          \/ /\ call[c].mode = "generate" /\ ~left
             /\ call' = [call EXCEPT ![c].at = "create"]
             /\ UNCHANGED kept
          \/ /\ call[c].mode = "background"
             /\ call' = [call EXCEPT ![c] = Done(a, IF left THEN "none" ELSE "error")]
             /\ UNCHANGED kept
       /\ UNCHANGED <<status, runs, life, tick, job>>

\* createArtifact: a new pending row, whatever was inserted since the query.
Create(c, a) ==
    /\ call[c].at = "create"
    /\ KeyOf[a] = call[c].key /\ status[a] = "absent"
    /\ \A b \in Artifacts : b < a => status[b] # "absent" \/ KeyOf[b] # KeyOf[a]
    /\ status' = [status EXCEPT ![a] = "pending"]
    /\ IF call[c].mode = "background"
       THEN /\ call' = [call EXCEPT ![c] = Done(a, "none")]
            /\ UNCHANGED kept
       ELSE Await(c, a)
    /\ UNCHANGED <<runs, life, tick, job>>

\* Mutated form, as if a waiter left ready rows to the completion promise.
Poll_TrustsPromise(c) ==
    /\ call[c].at = "wait"
    /\ \/ status[call[c].art] = "superseded" /\ Leave(c, "none")
       \/ /\ status[call[c].art] = "failed"
          /\ call' = [call EXCEPT ![c].at = "count"]
          /\ UNCHANGED kept
    /\ UNCHANGED <<status, runs, life, tick, job>>

\* A poll of waitForTerminalArtifact that finds a terminal row.
Poll(c) ==
    LET s == status[call[c].art]
    IN /\ call[c].at = "wait"
       /\ \/ s = "superseded" /\ Leave(c, "none")
          \/ /\ s \in {"ready", "rejected", "failed"}
             /\ call' = [call EXCEPT ![c].at = IF s = "failed" THEN "count" ELSE "read"]
             /\ UNCHANGED kept
       /\ UNCHANGED <<status, runs, life, tick, job>>

\* resultForTerminalArtifact for a row that was ready or rejected.  The promise
\* in the map has the word when it settled, or settles within the grace period;
\* or else the row, which the adapter may not be able to read.
Answer(c) ==
    LET a == call[c].art
        local == kept[call[c].home][a]
    IN /\ call[c].at = "read"
       /\ \/ local \in Settled /\ Leave(c, local)
          \/ /\ local \notin Settled
             /\ IF status[a] = "rejected"
                THEN Leave(c, "rejected")
                ELSE Leave(c, "ok") \/ Leave(c, "unreadable")
       /\ UNCHANGED <<status, runs, life, tick, job>>

\* The budget of the failed row that the poll read.
CountForWaiter(c) ==
    /\ call[c].at = "count"
    /\ IF runs[call[c].art] < MAX_OPERATIONAL_RUNS
       THEN call' = [call EXCEPT ![c].at = "wait"] /\ UNCHANGED kept
       ELSE Leave(c, "error")
    /\ UNCHANGED <<status, runs, life, tick, job>>

\* The race of the wait is won by the completion.
Completed(c) ==
    /\ call[c].at = "wait"
    /\ call[c].comp \in Settled
    /\ Leave(c, call[c].comp)
    /\ UNCHANGED <<status, runs, life, tick, job>>

\* The caller's abort signal, or a query that throws, ends its call.
Abort(c) ==
    /\ \/ call[c].at \in {"wait", "count"} /\ Leave(c, "none")
       \/ /\ call[c].at \in {"latest", "budget", "create"}
          /\ call' = [call EXCEPT ![c] = Done(NoArtifact, "none")]
          /\ UNCHANGED kept
    /\ UNCHANGED <<status, runs, life, tick, job>>

\* Mutated form, as if dump superseded whatever is current, runs in flight included.
Dump_Current(k) ==
    /\ Ready(k) # {}
    /\ status' = [a \in Artifacts |-> IF a \in Current(k) THEN "superseded" ELSE status[a]]
    /\ UNCHANGED <<runs, life, tick, job, kept, call>>

\* dump: the ready artifact of a key is superseded.
Dump(k) ==
    /\ Ready(k) # {}
    /\ status' = [a \in Artifacts |-> IF a \in Ready(k) THEN "superseded" ELSE status[a]]
    /\ UNCHANGED <<runs, life, tick, job, kept, call>>

-----------------------------------------------------------------------------
(* Runners *)

\* The constructor: a new instance, in a process of its own or in that of an
\* earlier instance, which replaceRegisteredRunner then stops.
Start(r) ==
    /\ life[r] = "unborn"
    /\ \/ life' = [life EXCEPT ![r] = "on"]
       \/ \E old \in Runners :
             life[old] = "on" /\ life' = [life EXCEPT ![r] = "on", ![old] = "stopped"]
    /\ UNCHANGED <<status, runs, tick, job, kept, call>>

\* A process dies: its fulfilments and its callers are gone, and the rows stay
\* as they are.
Crash(r) ==
    /\ MayCrash
    /\ life[r] \in {"on", "stopped"}
    /\ life' = [life EXCEPT ![r] = "down"]
    /\ tick' = [tick EXCEPT ![r] = "idle"]
    /\ job' = [job EXCEPT ![r] = [a \in Artifacts |-> NoJob]]
    /\ kept' = [kept EXCEPT ![r] = [a \in Artifacts |-> "none"]]
    /\ call' = [c \in Callers |->
                  IF call[c].home = r /\ call[c].at # "done"
                  THEN Done(NoArtifact, "none")
                  ELSE call[c]]
    /\ UNCHANGED <<status, runs>>

\* Mutated form, as if rows that look stale while running were requeued too.
Retryable_Running(r) == {a \in Artifacts : /\ status[a] \in {"failed", "running"}
                                           /\ runs[a] < MAX_OPERATIONAL_RUNS
                                           /\ a \notin Active(r)}

\* Mutated form, as if the loop over run counts included the budget itself.
Retryable_OneMore(r) == {a \in Artifacts : /\ status[a] = "failed"
                                           /\ runs[a] <= MAX_OPERATIONAL_RUNS
                                           /\ a \notin Active(r)}

\* requeueRetryableArtifacts: the rows S are failed, have runs left, are not
\* among this runner's own active ones, and have waited out their backoff.
Retryable(r) == {a \in Artifacts : /\ status[a] = "failed"
                                   /\ runs[a] < MAX_OPERATIONAL_RUNS
                                   /\ a \notin Active(r)}

Requeue(r, S) ==
    /\ life[r] = "on"
    /\ tick[r] = "idle"
    /\ S \subseteq Retryable(r)
    /\ status' = [a \in Artifacts |-> IF a \in S THEN "pending" ELSE status[a]]
    /\ tick' = [tick EXCEPT ![r] = "claim"]
    /\ UNCHANGED <<runs, life, job, kept, call>>

\* The rest of runRunnerTick: with slots left, claimPendingArtifacts turns that
\* many pending rows to running.  Rows another claim has locked are skipped, so
\* that any choice of them is possible.  A claimed row that this runner still
\* holds active is passed over.  The runner may have been stopped meanwhile.
Claimable(r, S) ==
    LET pending == {a \in Artifacts : status[a] = "pending"}
        available == Parallelism - Cardinality(Active(r))
    IN /\ S \subseteq pending
       /\ Cardinality(S) <= available \/ S = {}
       /\ S # pending => Cardinality(S) = available \/ (S = {} /\ available <= 0)

Claim(r, S) ==
    /\ tick[r] = "claim"
    /\ Claimable(r, S)
    /\ status' = [a \in Artifacts |-> IF a \in S THEN "running" ELSE status[a]]
    /\ job' = [job EXCEPT ![r] = [a \in Artifacts |->
                  IF a \in S \ Active(r) THEN [NoJob EXCEPT !.at = "claimed"]
                  ELSE job[r][a]]]
    /\ tick' = [tick EXCEPT ![r] = "idle"]
    /\ UNCHANGED <<runs, life, kept, call>>

-----------------------------------------------------------------------------
(* Fulfilment of a claimed artifact *)

To(r, a, stage) == job' = [job EXCEPT ![r][a].at = stage]

\* The attempts are over.
Ends(r, a, stage) == job' = [job EXCEPT ![r][a] = [NoJob EXCEPT !.at = stage]]

StartRun(r, a) ==
    /\ job[r][a].at = "claimed"
    /\ runs' = [runs EXCEPT ![a] = @ + 1]
    /\ To(r, a, "generate")
    /\ UNCHANGED <<status, life, tick, kept, call>>

\* Whether an output passes every validator; a model's verdict is free.
validateOutput == BOOLEAN

\* One attempt of runAttempts: the model call, then validateOutput, which stops
\* at the first validator that fails.
Attempt(r, a) ==
    /\ job[r][a].at = "generate"
    /\ \E passed \in validateOutput :
         IF passed
         THEN To(r, a, "commit")
         ELSE job' = [job EXCEPT ![r][a].tries = @ + 1,
                                 ![r][a].at = IF job[r][a].tries + 1 < MaxAttempts
                                              THEN "generate" ELSE "reject"]
    /\ UNCHANGED <<status, runs, life, tick, kept, call>>

\* The model call, a validator or the preparation throws: the catch of
\* generateOnArtifact takes over.
AttemptThrows(r, a) ==
    /\ job[r][a].at = "generate"
    /\ Ends(r, a, "failing")
    /\ UNCHANGED <<status, runs, life, tick, kept, call>>

\* markArtifactReady, first statement: the other ready rows of the key, as
\* the statement's snapshot has them.
SupersedeOthers(r, a) ==
    /\ job[r][a].at = "commit"
    /\ job' = [job EXCEPT ![r][a].at = "mark", ![r][a].saw = Ready(KeyOf[a]) \ {a}]
    /\ UNCHANGED <<status, runs, life, tick, kept, call>>

\* Mutated form, as if the table had no unique index on ready rows.
Blocked_NoIndex(r, a) == FALSE

\* A row that became ready since the first statement, which the unique index on
\* ready rows does not let a second one join.
Blocked(r, a) == (Ready(KeyOf[a]) \ {a}) \ job[r][a].saw # {}

\* markArtifactReady, second statement and commit.
MarkReady(r, a) ==
    /\ job[r][a].at = "mark"
    /\ ~Blocked(r, a)
    /\ status' = [b \in Artifacts |->
                    IF b = a THEN "ready"
                    ELSE IF b \in job[r][a].saw \cap Ready(KeyOf[a])
                         THEN "superseded" ELSE status[b]]
    /\ Ends(r, a, "marked")
    /\ UNCHANGED <<runs, life, tick, kept, call>>

MarkRejected(r, a) ==
    /\ job[r][a].at = "reject"
    /\ status' = [status EXCEPT ![a] = "rejected"]
    /\ Ends(r, a, "rejected")
    /\ UNCHANGED <<runs, life, tick, kept, call>>

MarkFailed(r, a) ==
    /\ job[r][a].at = "failing"
    /\ status' = [status EXCEPT ![a] = "failed"]
    /\ Ends(r, a, "failed")
    /\ UNCHANGED <<runs, life, tick, kept, call>>

\* startRun, the adapter's commit or the statement that marks the row throws,
\* the latter also when the unique index refuses: commitReady and commitRejected
\* are returned and not awaited inside the try, so that their errors are past
\* its catch, and nothing marks the row.
Escape(r, a) ==
    /\ job[r][a].at \in {"claimed", "commit", "mark", "reject", "failing"}
    /\ Ends(r, a, "escaped")
    /\ UNCHANGED <<status, runs, life, tick, kept, call>>

\* Mutated form, as if any error rejected the promise.
Fulfilled_AnyError(r, a) ==
    /\ job[r][a].at \in {"marked", "rejected", "failed", "escaped"}
    /\ \/ job[r][a].at = "marked" /\ Settle(r, a, "ok")
       \/ job[r][a].at = "rejected" /\ Settle(r, a, "rejected")
       \/ Settle(r, a, "error")
    /\ job' = [job EXCEPT ![r][a] = NoJob]
    /\ UNCHANGED <<status, runs, life, tick>>

\* fulfillClaimedArtifact ends: the run's row is closed and the promise settles.
\* After an error, which may still come from finishRun, cleanup or rejectRun once
\* the row is marked, it settles only when the budget is spent, and not when the
\* count throws too.
Fulfilled(r, a) ==
    /\ job[r][a].at \in {"marked", "rejected", "failed", "escaped"}
    /\ \/ job[r][a].at = "marked" /\ Settle(r, a, "ok")
       \/ job[r][a].at = "rejected" /\ Settle(r, a, "rejected")
       \/ runs[a] >= MAX_OPERATIONAL_RUNS /\ Settle(r, a, "error")
       \/ UNCHANGED <<kept, call>>
    /\ job' = [job EXCEPT ![r][a] = NoJob]
    /\ UNCHANGED <<status, runs, life, tick>>

-----------------------------------------------------------------------------
(* Specification *)

CallerStep(c) ==
    \/ \E r \in Runners, k \in Keys :
         \/ Get(c, r, k)
         \/ Generate(c, r, k)
         \/ Background(c, r, k)
         \/ \E a \in Artifacts : GetCached(c, r, k, a)
    \/ FindNone(c)
    \/ Budget(c)
    \/ Poll(c)
    \/ Answer(c)
    \/ CountForWaiter(c)
    \/ Completed(c)
    \/ Abort(c)
    \/ \E a \in Artifacts : FindLatest(c, a) \/ Create(c, a)

Fulfil(r, a) ==
    \/ StartRun(r, a)
    \/ Attempt(r, a)
    \/ AttemptThrows(r, a)
    \/ SupersedeOthers(r, a)
    \/ MarkReady(r, a)
    \/ MarkRejected(r, a)
    \/ MarkFailed(r, a)
    \/ Escape(r, a)
    \/ Fulfilled(r, a)

RunnerStep(r) ==
    \/ Start(r)
    \/ Crash(r)
    \/ \E S \in SUBSET Artifacts : Requeue(r, S) \/ Claim(r, S)
    \/ \E a \in Artifacts : Fulfil(r, a) \/ Expire(r, a)

Next ==
    \/ \E c \in Callers : CallerStep(c)
    \/ \E r \in Runners : RunnerStep(r)
    \/ \E k \in Keys : Dump(k)

\* A tick always follows a tick (wakeRunner in the finally of runnerTick), a
\* backoff runs out, and a promise that can settle does: the runner's steps are
\* fair.  A row whose backoff is over at one tick is requeued by a later one,
\* hence the strong fairness.  A waiter polls.
Fairness ==
    /\ \A r \in Runners :
         /\ WF_vars(\E S \in SUBSET Artifacts : Requeue(r, S))
         /\ WF_vars(\E S \in SUBSET Artifacts : Claim(r, S))
         /\ \A a \in Artifacts :
              /\ SF_vars(\E S \in SUBSET Artifacts : a \in S /\ Requeue(r, S))
              /\ WF_vars(Fulfil(r, a))
    /\ \A c \in Callers : WF_vars(Poll(c) \/ Answer(c) \/ CountForWaiter(c) \/ Completed(c))

Spec == Init /\ [][Next]_vars /\ Fairness


-----------------------------------------------------------------------------
(* Properties *)

\* At most one artifact of an identity is ready, however many runners commit
\* one at the same time (markArtifactReady and the unique index behind it).
OneReady == \A k \in Keys : \A a, b \in Ready(k) : a = b

\* The stages in which a fulfilment still owes its artifact an outcome.
Working == {"claimed", "generate", "commit", "mark", "reject", "failing"}

\* An artifact that some runner is working on is running, and no other runner
\* is working on it: claims, requeues and the stages after a mark never let two
\* runs of one artifact overlap (claimPendingArtifacts, runRunnerTick).
OneWorker ==
    \A r \in Runners, a \in Artifacts : job[r][a].at \in Working =>
        /\ status[a] = "running"
        /\ \A q \in Runners : job[q][a].at \in Working => q = r

\* No artifact is run more often than the budget allows, by all runners
\* together, and one that waits to be run has a run left
\* (requeueRetryableArtifacts, startRun).
RetryBudget ==
    \A a \in Artifacts :
        /\ runs[a] <= MAX_OPERATIONAL_RUNS
        /\ status[a] = "pending" => runs[a] < MAX_OPERATIONAL_RUNS

\* A caller is told the truth about the artifact it waited for: success, or that
\* it cannot be read, for one that was ready, rejection for one that was
\* rejected, failure and the error of a run only when no run is left, though the
\* row may be marked before its run throws (waitForTerminalArtifact,
\* resultForTerminalArtifact, fulfillClaimedArtifact).
AnswerTrue ==
    \A c \in Callers : call[c].at = "done" =>
        LET a == call[c].art IN
        /\ call[c].result \in {"ok", "unreadable"} => status[a] \in {"ready", "superseded"}
        /\ call[c].result = "rejected" => status[a] = "rejected"
        /\ call[c].result = "error" => runs[a] = MAX_OPERATIONAL_RUNS

\* An outcome is final: a rejected or superseded artifact keeps its status, a
\* ready one can only be superseded, and a failed one whose budget is spent
\* stays failed (markArtifactReady and its siblings write by id alone).
OutcomeFinal ==
    [][\A a \in Artifacts :
         /\ status[a] \in {"rejected", "superseded"} => status'[a] = status[a]
         /\ status[a] = "ready" => status'[a] \in {"ready", "superseded"}
         /\ (status[a] = "failed" /\ runs[a] = MAX_OPERATIONAL_RUNS)
               => status'[a] = "failed"]_vars

\* An artifact that is running and that no runner works on.
Orphaned(a) ==
    /\ status[a] = "running"
    /\ \A r \in Runners : job[r][a].at \notin Working

\* A caller that waits is answered, even when its completion promise was
\* dropped by another waiter or the run happens in another process, unless its
\* artifact was orphaned or no runner is left
\* (waitForTerminalArtifact polls; runnerTick re-arms itself).
Served ==
    \A c \in Callers : \A a \in Artifacts :
        (call[c].at = "wait" /\ call[c].art = a)
            ~> \/ call[c].at = "done"
               \/ Orphaned(a)
               \/ \A r \in Runners : life[r] # "on"

=============================================================================
