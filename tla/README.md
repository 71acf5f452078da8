# Opsy in TLA+

Opsy is a control plane for cloud resources: an HTTP API (`apps/api`) keeps
resources, operations and changesets in PostgreSQL, durable workflows drive
the operations, and a Go bridge (`bridge`) runs the Terraform providers that
talk to the clouds. This directory models the parts of it that are hard to get
right: who may act on a resource, in which order, what is left when a step
fails, a process dies or two users act at once, and what a client gets to see.

## Inventory

| component | state | operations | talks to | hard behaviour | correct when | module |
|---|---|---|---|---|---|---|
| operations and approval (`operations/`, `policies/`) | operation rows, lock index, approval hook | create, mark*, approve, cancel, retry | resources (patch in the same transaction), workflow engine, notify | handlers act on what they read; hook and row written apart | one lock holder per resource, closed stays closed, gate respected, operations close | `Operations` |
| resources and workflows (`resources/`) | resource rows, tombstones, the run's program counter | create, update, import, read, delete, forget, lookup | operations, provider runtime, references | failure of any step, retries of steps, in-flight provider calls | stubs always owned, apply only under the lock | `Operations` |
| changesets (`changesets/changesets.ts`, `workflows/`) | changeset status, items | stage, update, delete, apply, discard; run: levels, reopen, close, cancel | operations, dry runs, plan | `assertDraft` on a snapshot, unconditional writes at the end of the run | an applied changeset has every item applied, a discarded one runs nothing | `Changesets` |
| dry runs (`changesets/workflows/`) | one row per item, with a compare-and-set token | seed, plan, defer, fail, cascade | provider runtime, plan | restarts of dependents while they run, overtaken writers | a settled dry run is about the item's present inputs, the cascades end | `DryRuns` |
| apply plan (`changesets/plan.ts`, `validation.ts`) | none (pure) | blockers, levels, order | changesets | cycles, transitive blocking, a plan half applied | levels respect dependencies and cover all unblocked items | `ApplyPlan` |
| project scan (`projects/`) | scan operation, cursor, page, `last_scan_claimed_at` | tick, claim, start, page, read, align | operations, resources, integrations | rows come, go and are locked between pages; the lock is taken after the read | every row is accounted for, a row is written under its lock, a due project is scanned | `ProjectScan` |
| bridge: pool and handlers (`bridge/provider`, `schema`, `handler`) | instances, in-flight spawns, schema cache, semaphores | extract, get, evict, call, apply, shutdown | provider processes | single flight, eviction of a busy instance, shutdown during a spawn, drift between plan and apply | no process lost, no foreign credentials, only what was approved is asked for, every request answered | `Bridge` |
| bridge client (`packages/bridge-client`) | calls in flight, timers, promises | call, retry, time out, cancel, stream | bridge | answers of earlier attempts | every call settles once, retries are bounded | `BridgeClient` |
| notify bus and streams (`lib/notify.ts`, `events/`, `operations/sse.ts`, the clients' `fetch-sse.ts`) | listeners, bounded queues, connections | subscribe, publish, drop, reconnect | every writer | overflow, LISTEN over an await, end of a stream | the close of an operation reaches its watcher, a view shows the row | `Notifications` |
| thinking blocks (`packages/thinking-blocks`, `thinking-blocks/`) | artifacts, runs, claims, completion promises | get, generate, tick, claim, retry, commit | model provider, store | several processes, dropped promises, crashes | one ready artifact, one worker, a bounded number of runs, callers told the truth | `ThinkingBlocks` |
| organizations (`auth/`), integrations (`integrations/`) | memberships, defaults | delete user, set default, delete | projects | check, then act | one default, no organization without an owner | deletion of an integration in `ProjectScan` |
| web, landing, CLI, contracts, schema catalog, audit, infrastructure | none of interest | rendering, parsing, deployment | API | | | not modelled |

The parts meet in three places. A workflow step writes an operation and its
resource in one transaction and then notifies; a changeset and a scan work
through operations, so the lock of a resource orders them against everybody
else; and every provider call goes through the bridge client to the bridge.
`PROJECT.json` says of each component what is left out, and lists what is hard
to test, each hazard at its line.

## Modules

In all of them an action is what happens between two awaits (in Go: between
two points where a goroutine may be overtaken). Database transactions are
atomic; a handler can be overtaken between any two of its actions. Steps of a
workflow are durable, so a crash of the process is a retry of the step: the
order of steps is all that is kept.

### Operations and the lock

`Operations.tla` is one module for the operation row, the resource row, the
workflow run and the HTTP handlers, because every transition touches two of
them in one transaction.

| TLA+ | code |
|---|---|
| `status`, `kind`, `target`, `attached`, `approvedBy` | columns of `operations` |
| `resStatus`, `deleted` | `resources.status`, `resources.deleted_at` |
| `hook` | first payload `operationApprovalHook` was resumed with |
| `wf`, `memo` | where the body of the workflow is, and the local it carries (`priorStatus`; the patch of a read) |
| `req` | a handler between two awaits: what it read and what it will do next |
| `RequestX` | the handler's first read (its snapshot) |
| `createOperation`, `InsertStub`, `Conflict` | the insert and the two unique indexes |
| `approveOperation`, `cancelAwaiting`, `cancelPending`, `markOperationCanceling`, then `ResumeHook` / `KillRun` | the branches of approve and cancel, then the call outside the transaction |
| `LoadResource` ... `Fail` | the steps of the workflow bodies |

A cancel of an awaiting operation writes the whole `approval` column from the
row it read, so it may erase an approval recorded since; its snapshot carries
whether there was one (`req[c].approved`).

With `HandlersMayCrash` a handler can die between its actions. The two
provider calls that are never retried (`maxRetries` 0) fail instead. What is
abstracted: inputs, outputs and identity of a resource, actors, project
scoping, soft-delete timestamps (a flag), the reasons of an error, the choice
of an integration. Row and operation ids are finite, so a behaviour ends when
they are used up; that is why no run checks deadlock.

`ResourceLock.tla` is what the operations promise: a lock per resource which
its holder acquires once and keeps while it is at the provider.

### Changesets

`Changesets.tla`: the changesets of a project, the handlers that edit and
apply them, and the workflow that applies them level by level.

| TLA+ | code |
|---|---|
| `cs` | `change_sets.status`; `DraftFree` is the unique index of drafts |
| `owner`, `edits` | the item's changeset, and how often its content was written (`updated_at`) |
| `dry` | the action of the item's dry-run row |
| `run` | `applyChangeSetWorkflow`: the view it was started with, what of the plan is left, and what it does at its end |
| `op`, `opAt` | the operation of a run for an item, and the edits it came after (`created_at`) |
| `req` | a handler between its read and its write |
| `Begin` ... `discard`, `ApplyRead`, `ApplyGate`, `ApplyMark`, `ApplyStart` | the awaits of the handlers |
| `StartItem`, `FetchPlan`, `EndItem`, `LevelDone`, `Finish`, `reopenChangeSet` | the awaits of the workflow |
| `MayThrow` | which writes may commit and then throw, because their notification does: `apply`'s update (no run starts and nothing is put back), the revert, the close or cancel of a run (its retries end in the catch, which reopens: `RunGoes`), the reopening (it is written again) |

An operation is reduced to its outcome: the steps between are those of
`Operations`. A dry run is reduced to the action of its row, which a cascade
may reset at any moment (`DryRunReset`); `DryRuns` has its steps. The
dependencies of the items are a constant: `ApplyPlan` computes them, and its
`LevelsPeel` is what `Level` assumes here.

`ChangesetLifecycle.tla` is what the changesets promise: at most one draft, one
run at work on a changeset, and no end undone except by the run that wrote it,
before it is over; then applied, discarded and canceled are final.

`DryRuns.tla`: the dry runs of a draft.

| TLA+ | code |
|---|---|
| `row` | `resource_dry_runs`: the action, and what the plan in it was made from |
| `flows` | a bag of `dryRunChangeWorkflow` executions; several may be about one item |
| `fresh` | the execution's `updated_at` is still that of its row |
| `staged`, `draft` | the items, and whether the changeset is a draft |
| `stageItem`, `updateItem`, `deleteItem`, `refreshDryRuns`, `apply` | the handlers up to their commit, each with the rows it resets and the `start()` calls then due |
| `refreshing`, `resetChangeSetDryRuns`, `RefreshFails` | executions of `refreshDryRunsWorkflow` and its first step; its second is `Start` at `step` |
| the stages of a flow | a `start()` that is due (`call`, `step`), then the steps of `dryRunChangeWorkflow`: inputs, plan, compare and set, dependents |
| `Start`, `Orphan` | the `start()` takes effect, or it throws or its caller dies |
| `startDependentDryRuns`, `TriggerFails` | the trigger commits and calls `start()`, maybe again in a retry, or is given up |
| `retries`, `MaxRetries` | the retries of steps that write or start; throws are free |
| `orphaned`, `missed` | history: the pending rows whose `start()` or whose `markDryRunFailed` was lost, the items whose restart was given up |

Timestamps are not numbered: only whether a token is still the row's counts,
and a plan remembers which of the rows it was made from have not been written
since. What a plan says is reduced to whether it has a planned state.

`ApplyPlan.tla`: the planner and the validator of `plan.ts` and
`validation.ts` as operators, and around them the smallest machine that uses
them: items are staged, edited and deleted, an accepted changeset runs its
levels, every item succeeds, fails or is canceled, and a failed run leaves a
draft that may be edited and applied again against the rows it changed. An
item is its kind, its slug and its references. An item whose operation failed
may have changed `depends_on` (an update writes it before the provider is
called). The loops of the planner are recursive functions: `Rounds` for
`blocked_dependency`, `Queue` for the order (`Drain` is the queue when all of it
was taken), `Depths` for the levels. `acted` has the items that changed their
resource since they were last edited, and `withdrawn` the slugs of those that
were then edited or deleted: what they did stays, and no item speaks for it any
more. Left out: the lock keys of the validator, and the parse of an item's
JSON, which only refuse more.

### Project scan

`ProjectScan.tla`: who starts a scan, the workflow that walks the rows, and
the alignments that write what the cloud says.

| TLA+ | code |
|---|---|
| `scan` | the scan operations with their runs: status, step, cursor, whether `workflowRunId` is attached; `older` and `applied` remember the rows of its start (`createdAt` before the operation's) |
| `work` | what a run holds of each row of its page: the row as read, the read of the cloud, where `alignScanResource` is |
| `counted` | the rows that got an outcome in `counts` |
| `row`, `cloud`, `holder` | `resources`, the provider's truth, and who has the open operation `resource:<id>` |
| `starter`, `due` | `startProjectScan` between its awaits, `last_scan_claimed_at` |
| `canceler` | `cancelOperation` between its read and its writes |
| `Tick`, `PostScan`, `startProjectScan`, `claimProjectScan`, `StartRun` | the interval and the route |
| `startScanOperation` ... `failScanOperation` | the steps of the workflow |
| `AlignmentAnswerLost` | an insert that commits while the step's answer is lost, so the retry meets its own lock |

Users' operations on the rows are reduced to taking the lock and closing.
A row's inputs and outputs are one value. All rows are of one integration; the
schemas of the types only shape the patch. An alignment that throws anything
but Conflict rejects `Promise.all` while its siblings go on: `fail` is a stage
in which alignments may still write.

### Bridge and its client

`Bridge.tla`: the handlers of the bridge, the pool and the processes.

| TLA+ | code |
|---|---|
| `pool`, `maxSize`, `used` | `Pool.instances`, its size, and the ranks of `lastUsed`, the least for the one used longest ago |
| `flight` | the calls of the singleflight group, with the instance they are starting |
| `proc`, `conf` | the provider processes, and the configuration each was given |
| `schema` | the cache of extracted schemas |
| `req` | `ServeHTTP` of a handler between two of its waits, with the slot of `Instance.sem` it may hold |
| `world`, `asked` | what exists of the request's resource, and what it asked the provider to apply |

`RePlan` chooses what the provider answers: a state or null, and whether it
names attributes that require a replacement (`requires`), whatever else it
says. `forced` remembers that the branch to destroy and create was taken for a
plan that is no replacement.

A provider call may fail with or without its effect, a process may die at any
time, the resource may drift between plan and apply, and a deadline or a
disconnect may come at any step. The queries (data sources, imports, plans)
are one action: they only read. Encoding is left out: a state is null or not.

`BridgeClient.tla`: the reducer of `core/state.ts` and the shell of
`client.ts`. `inflight` is the reducer's map; `pending`, `timer` and `wire`
are the shell's promises, timers and requests. Events carry the id of the call
and not of the attempt, so each send is kept on the wire until it ends by
itself.

### Notifications

`Notifications.tla`: writers that commit and then notify, the bus of
`lib/notify.ts`, and the two kinds of streams. `listen` and `members` are a
`ChannelState`; `sub` is a stream with its queue (`buf`), what it has passed
on (`out`) and what its client has seen. An operation stream passes on the
payload it was sent. So does a project stream on its channels of operations and
changesets (`raw`), whose client then fetches its query again (`invalid`,
`Refetch`), and for a resource's deletion; for another change of a resource it
reads the row, and the client shows what the event carries. The run has both
kinds of channel, chosen in `Init`. `missed` is a history variable: a full
queue has dropped the notification of a resource's deletion. `base` is the row
when the stream began to listen: what changed before is not the stream's to
tell. One row and one channel stand for all; heartbeats and the format of
events are left out.

### Thinking blocks

`ThinkingBlocks.tla`: the runtime of one block over the shared table.

| TLA+ | code |
|---|---|
| `status`, `runs` | `thinking_block_artifacts.status`, the number of rows in `thinking_block_runs` |
| `life`, `tick` | an instance of the block in a process, and where its `runRunnerTick` is |
| `job` | `fulfillClaimedArtifact` for an artifact: the awaits from `startRun` to the mark |
| `kept` | `this.completions` |
| `call` | a caller of `get`, `generate` or `get` in mode `background`, until its answer |
| `Dump` | `dump`: the ready artifact of a key is superseded |

A waiter polls the row (`Poll`), asks for the budget of a failed one
(`CountForWaiter`), and reads a ready or rejected one (`Answer`): the completion
promise has the first word, and a ready row may turn out unreadable. A query
that throws ends the call (`Abort`).

Model calls are attempts that throw or yield an output which the validators
accept or refuse. A run that has marked its row may still throw in `finishRun`,
`cleanup` or `rejectRun`; `Fulfilled` then settles the promise with the error if
the budget is spent. A process may die at any step (`MayCrash`), and an error may
escape every handler of `generateOnArtifact`.

The modules `MC*.tla` are instances for TLC; the modules `*Proofs.tla` hold the
theorems about `Operations`, `Changesets`, `ProjectScan`,
`ThinkingBlocks`, `Bridge`, `BridgeClient` and `Notifications`.


## Runs

Every run checks with TLC that its properties hold; none expects a violation.

| run | question | instance |
|---|---|---|
| `operations_safe` | one lock holder, stubs owned, gate respected, closed stays closed | 2 operations, 2 rows of one slug, 2 clients, always-approve policy, crashes |
| `operations_live` | the operations implement `ResourceLock`; they close, approvals are not lost | 2 operations, 1 row, 2 clients, `CancelAt` without `pending`, no crash, `FairSpec` |
| `changesets_one` | lifecycle, applied is complete and current, nothing applied twice, an apply ends | 2 items in a chain, 2 applies, 1 client, 2 writes per item, throws of apply's notification and of a run's end, no crash, `FairSpec` |
| `changesets_two` | a run keeps to its plan and closes only when complete | 2 items, 2 applies, 2 clients, crashes, throws after every commit |
| `plan` | no dangling reference, references there in time, blockers and levels exact | 3 slugs, 3 items, 2 edits, up to 3 resources; only the first item with more than one reference, only the third a second item about a slug |
| `dryruns` | a pending row has its workflow, no overtaken plan has the last word, the cascades come to rest | 3 items in a chain, the first of them live, 3 requests, 1 retry, any number of throws |
| `scan` | a scan accounts for its rows, writes under their locks, and comes when due | 3 resources in pages of 2, 2 scans, 1 starter, 2 interventions of users, cloud or faults |
| `bridge` | the pool's size, no lost process, credentials kept apart, only what was approved, no duplicates, every request answered | 3 requests, 2 credentials (one written in two ways), 2 processes, pools of 1 and 2, 1 slot |
| `client` | reducer and shell agree, attempts bounded, every call settles | 2 calls of at most 3 attempts, 1 stream |
| `streams` | LISTEN held while needed, a view at rest is fresh, the close reaches who listens | 1 watcher, 1 view on either kind of channel, 3 versions of the row, a queue of 1, 2 connections each |
| `blocks_safe` | one ready artifact, one worker, the retry budget, true answers, final outcomes | 2 runners, 2 callers, 2 artifacts of one key, budget 2, crashes |
| `blocks_live` | a caller that waits is answered | 1 runner with parallelism 1, 3 callers, 1 artifact, crashes |

Bounds. Two clients are enough for every race of two handlers; the run is a
third actor. Two operations are enough for a conflict on a lock and for a
retry; two rows that share a slug let a deleted resource be created again. Two
items in a chain have a level below and one above; one is applied from its
cached plan and one is gated. Two applies are an apply and its retry, or two
concurrent ones. Three items over three slugs have every shape the planner
tells apart: a cycle, an item behind it, a delete behind a delete behind an
update; two edits withdraw a success and then stage something against what it
left. A chain of three lets a cascade meet one that is still under way.
Three resources in pages of two make a second page that is not full, and a
page that is all locked; the second scan is the one a cancel lets in. Two
processes and three requests are an instance in use, one that has to be
evicted for it, and a waiter; a pool of one makes every second credential an
eviction. A queue of one drops at the second notification. Three attempts are
one that times out, one that fails late, and one that the late failure may
take from the call. Three callers of one artifact are one that leaves, one that loses its promise
by it, and one that finds a new one. One retry makes a step write a second
time, over what its first try started. `MaxEdits`, `MaxRetries`, `MaxEvents`,
`MaxConnects` and `MaxAttempts` bound how often users, steps, faults, clients
and model calls repeat themselves.

`CancelAt` is the set of statuses a cancel may have been decided on. With
`pending` in it, `operations_live` would show `ImplementsLock` violated:
`cancelOperation` then calls `markOperationCanceled`, which closes an operation
that has become `running` and gives its lock away while the provider is at
work (see below). `operations_safe` has it, and shows that the lock still has
one holder at most. A cancel decided on `canceling` changes nothing and is in
no run.

`changesets_one` has one client: one user whose requests come one after the
other while the applies run. With two, `assertDraft` is a check on an old read
(see below). Nor does its `MayThrow` have `reopen`: a reopening that committed
and is written again makes a draft of what its user has made of the changeset
meanwhile, which violates the same properties. What holds nevertheless is
`changesets_two`, which has both.

The properties with an escape name it: `ScanYields` and `DueServed` except a
canceled alignment and an abandoned scan, `Served` an orphaned artifact,
`CloseReaches` a writer that dies, `ApplyEnds` an apply whose notification threw
and another draft, `PendingOwned` and `SettledCurrent` what throws left behind,
`ApprovedOnly` and `NoDuplicate` a forced replacement, `ViewFresh` a deletion the
queue has dropped, and `ReferencesLive` and `LevelReady` the slugs of withdrawn
items. Of the last eight TLC finds each violated in the same instance when its
escape is taken out (`ApplyEnds`: the throw). They are in the next section, with
where the code leaves them.

## Seen while modelling, and not among the runs

Operations and resources:

* a cancel decided on `pending` closes a running operation: `markOperationCanceled`
  (called at `operations.ts:750`) admits every open status, so the lock is
  released, and a stub tombstoned, while Apply is in flight. `operations.ts:694-696`
  expects a "never-applied create/import";
* `markOperationFailed` (`operations.ts:544`) has no guard: when an approve and a
  cancel race, the resumed run marks the canceled operation failed, although
  `operationStatus.test.ts:11-12` calls both terminal;
* `cancelStubResourcePatch` (`operations.ts:697`) looks at the kind only: the cancel
  of a retried create tombstones a resource that is live;
* an update never shows `updating` on its resource (`operations.ts:443`,
  `schema/resources.ts:56-57`); a lookup can be marked failed after it was
  marked succeeded (`resources/workflows/steps.ts:409`); retry inserts an
  operation and starts no workflow (`operations.ts:768`); nothing reads
  `canceling` (`operations.ts:759`); a failed update writes back the status it
  read, over a `missing` observed meanwhile (`resources/workflows/steps.ts:511`);
* `cancelOperation` writes back the approval it read (`operations.ts:709-719`): one
  recorded in between is erased although the hook was resumed with it. The
  same update closes the row, so the run stops at `markOperationRunning`;
* a handler that dies after the insert and before `start()` leaves a `pending`
  operation that holds the lock (`resources.ts:352`).

Changesets and dry runs:

* the result of apply's conditional update is not looked at
  (`changesets.ts:919`): two applies of one draft both start;
* `updateItem` (`changesets.ts:790`) may land after the snapshot of an apply, and the
  success of the old content counts for the new one;
* `reopenChangeSet` (`changesets/workflows/steps.ts:262`) is refused by the index of
  drafts when another draft was made: the changeset stays `applying`;
* the notification of an apply is awaited before the `try` (`changesets.ts:925`):
  when it throws, the changeset stays `applying` without a run;
* the close of a run may commit, have its notification throw to the last retry,
  and be caught: the changeset that was applied is a draft again
  (`changesets/workflows/index.ts:99-106`). So may the reopening, which is then
  written a second time over what came after;
* a `start()` that throws after the rows were committed (`changesets.ts:761`, `815`)
  leaves a pending row without a workflow, which apply refuses until a refresh
  or an edit; so does a second step of a refresh, and a cascade's step that
  commits and is given up (`changesets/workflows/index.ts:152-158`). A trigger
  given up before its commit leaves dependents with plans made from an old
  one;
* `validateChangeSetItems` (`validation.ts:220`) refuses a reopened changeset whose
  delete has succeeded already;
* an item that has run in a failed apply may be edited or deleted in the draft
  (`changesets.ts:836`), and its effect stays. A create of a slug is done, a
  delete of it is done as well and then dropped from the draft: the create
  counts as a live target still (`validation.ts:263-275`, `plan.ts:51-59`), so a
  later item may refer to what is gone. Or a create with a reference is done and
  dropped, and the delete of what it refers to is planned against the items
  that are left; nothing checks dependents again when the delete runs;
* a dry run in error passes the gate of apply (`changesets.ts:902`), and so does an
  apply between the settling of a dry run and the restart of its dependents;
* `deleteItem` does not plan the dependents again; two items that refer to each
  other restart each other's dry run for ever.

Project scan:

* the patch of an alignment comes from a row and a read taken before the lock:
  an operation that ran completely in between is overwritten;
* an alignment is `pending` until it closes, so a user may cancel it; its run
  writes the row nevertheless, even under another operation's lock, and turns
  the operation `succeeded` (`operations.ts:511`);
* when the answer of `createScanAlignmentOperation` is lost, its retry meets its
  own lock: the row counts as skipped and stays locked
  (`projects/workflows/steps.ts:258`);
* a claim that throws, a crash after `createOperation`, or a retry of a scan
  leaves a `pending` scan without a run, and the tick ignores the Conflict it
  then meets for ever (`projects.ts:215`);
* a canceled scan runs on, so two may run at once; an error other than Conflict
  fails the scan while its other alignments are under way; a tombstone may get
  a status; `scanned` may exceed `totalResources`;
* `deleteIntegration` and `deleteProject` check, then act.

Bridge and its client:

* a spawn in flight during `Shutdown` is put into the pool and never stopped; a
  spawn is given the context of its first caller;
* eviction may stop an instance that is busy with an apply
  (`resource_apply.go:134-136` knows); `lastUsed` is written without the lock;
* a replacement that has destroyed and cannot create leaves nothing; an
  approved update whose re-plan is a no-op is applied (`staleplan.go:64-65`);
* destroy and create follow from `RequiresReplace` alone (`resource_apply.go:123`):
  a delete whose re-plan names any is destroyed and then created again, and a
  no-op that names any is created;
* an attempt that times out and fails later counts twice, so a call may be
  rejected after fewer sends than `maxAttempts` (`retry.ts:6`); a retry has no
  timeout, although `state.ts:174-175` says "the runner re-arms"; a cancel does not
  abort the request; a stream whose consumer stops early leaves its entry
  behind. The default policy is one attempt and no timeout;
* the API does not start a bridge again that has died (`lib/providers.ts`), nor
  stop one that did not come up in time.

Streams:

* an operation is read before its stream listens (`operations/sse.ts:16`): a close
  in between, or a writer that dies before it notifies, is never told, and the
  watcher waits;
* notifications are sent after the commit and may overtake each other; late
  ones may push the close out of a full queue, or the deletion of a resource,
  of which `projectEvents.ts:90-92` says that it "will reach the client": the
  client then shows what is gone until it connects again;
* a read that fails ends the events of its channel while the heartbeats go on;
* the web client reads its lists before the new stream listens
  (`fetch-sse.ts:54`), although "we refetch the lists on every reconnect to pick up
  missed state" (`-useProjectEventStream.ts:38-39`).

Thinking blocks:

* `commitReady` is returned without await inside a `try`
  (`thinking-block.ts:671-680`): when it rejects, the artifact stays `running`,
  although the package's README promises `failed`; so it does when `startRun`
  or `parseInput` throws before the `try`, and after a crash. Nothing requeues
  a running artifact;
* an artifact claimed by a runner that already has it in `activeArtifacts` is
  skipped after the claim, and orphaned when the two claims were of different
  processes;
* a waiter may report a failure while the artifact's last run is under way,
  because the row and its count of runs are two queries (`thinking-block.ts:476`,
  `461`);
* a ready artifact whose row cannot be read throws, whatever its budget
  (`thinking-block.ts:528-532`); a promise may be rejected although the row is
  ready, when `finishRun` throws after the last run's mark (`:716`, `:894`);
* `generate` is documented to force a new run and reuses one that is pending.

## Fairness

Weak fairness of what the runtime drives: the event loop resumes a handler
whose await is settled, the workflow engine resumes a run and retries its
steps, timers fire, goroutines run, and provider calls return (if only because
their deadline passes or the process exits). No request of a user is fair:
nobody has to approve, cancel, retry, edit or abort, and in `ProjectScan` no
operation of a user has to end. In `Changesets` an approval is not fair
either, so `ApplyEnds` says that an apply ends or waits for a decision.
Liveness of operations and changesets is stated for `HandlersMayCrash = FALSE`
because nothing restarts a handler; a throw between a write and the call that
follows it (an approve whose notification fails before it resumes the hook) is
such a crash.

* `DryRuns`: some execution that can go on does; which one is open.
* `ProjectScan`: a starter (the interval tick comes again), a run, and what a
  run does with each row. Interventions, faults among them, are bounded by
  `MaxEvents`.
* `Bridge`: each request, extraction, flight and stop. Exits, drift and
  shutdown are not fair.
* `BridgeClient`: a request that was sent ends, and a retry timer fires. A
  timeout is not fair: the answer may always be faster.
* `Notifications`: a writer notifies or dies, the database answers a LISTEN,
  the pump and the streams go on, clients connect again.
* `ThinkingBlocks`: a tick follows a tick, so claims and fulfilments are weakly
  fair; a row whose backoff is over is picked by some later tick although the
  set of rows changes between two, which is strong fairness of `Requeue` for
  each artifact. A waiter polls.

## Proofs

TLAPS proves, for every value of the constants that satisfies the named
assumptions:

`OperationsProofs.tla`, for every finite or infinite set of operations, rows and
clients, every policy and every set of requests (`ConstantsAssumption` asks
only that the null values are not ids and that the sets hold values of the
right kind):

* `LockSafety`, `StubSafety`, `ApprovalSafety`, `ClosedForever`: the four properties
  of `operations_safe`;
* `TypeCorrect`, and `Invariance`: their strengthening `IInv`;
* `LockRefinement`: the operations implement `ResourceLock`, when no client
  decides a cancel on a snapshot `pending` (`NoPendingCancel`, below).

None of the invariants is inductive alone. `IInv` adds what a handler carries
over an await (`HandlerOK`: a row it found exists still, an operation it holds
exists, a pending resume with an approval has it recorded), foreign keys
(`ReferencesOK`: so a new row has no holder), where a run of each kind can be
(`ControlOK`), that an approved hook has a recorded approval or a closed row,
since the cancel that erases an approval closes (`HookRecorded`), that past its
gate an operation is not awaiting approval any more, so that no cancel can
erase what `ApprovalRespected` asks for (`GateLeft`),
and that an update never carries the status of a stub (`StubsNotUpdated`: the
status a failed update writes back cannot make a settled row a stub again;
this needs the lock, because an update opened beside a create would have read
`creating`). The proof first shows that a step has one of four shapes on
operations and rows (`Shape`: a stub insert, an operation insert, a
`Transition` with the patch that rides on it, or nothing), and then takes each
conjunct through the four; the control of the runs is proved action by action.

The refinement maps the holder of a row to its open operation (`HeldBy`) and a
busy holder to a body between its gate and its close (`AtProvider`). Beyond
`IInv` it needs `LockInv`: a body at the provider has the open status its gate
gave it (`BusyHolds`). A body loses that status to nobody but itself, because
cancel on a row past its gate writes `canceling`, which is open, or kills the
run of a row it saw `pending`. The second is why the theorem assumes
`NoPendingCancel`: a run killed on a stale `pending` may be past its gate, and
then the lock is given back while the body is at the provider. The code lets
that happen, so without the assumption the refinement is false, and
`operations_safe`, which has `pending` among the statuses, does not check it.
With it `LockShapes` shows that a step inserts an operation, enters the
provider or closes an operation, and each of the three is `Acquire`, a step
of the holder, or `Release` of the abstract lock, or changes nothing of it.

`ChangesetsProofs.tla`, for every set of changesets, items, runs and clients,
every dependency relation (cyclic ones too: then nothing starts) and with
crashes:

* `OrderSafety` and `CompleteSafety`: the two properties of `changesets_two`;
* `TypeCorrect`, with the foreign key of dry-run rows, and `Invariance`.

`IInv` adds to the types that handlers name what their request named
(`RequestsNamed`: otherwise an edit could write outside the items) and what a
run has behind and before it (`RunsInOrder`). The second is the point: what a
run has taken off its plan was applied, and an operation exists only for
items that wait for nothing that is left. Both theorems follow from it in a
step, and it is kept because only `LevelDone` takes anything off the plan, and
only after it looked at every outcome of the level. Handlers and other runs do
not touch a run's snapshot or its operations.

Under the further assumption that there is at most one client and that no
reopening is written again after its commit (`OneAtATime`), with any number of
changesets, items and runs, with handlers that die, and with every other write
throwing after its commit:

* `AppliedSafety`, `SuccessSafety`, `NoSecondApplySafety`: the other safety
  properties of `changesets_one`;
* `LifecycleRefinement`: `Changesets` implements `ChangesetLifecycle`.

With a second client TLC finds each of the four violated (see "Seen while
modelling"; `SuccessIsCurrent` by an edit, so with two writes per item), and with
`reopen` in `MayThrow` the refinement, so the assumption is needed. Their invariant is `SerialInv`: a run under way has
its applying changeset to itself, and what it took as a snapshot is still what
the tables hold (`RunAlone`, `Kept`); what a handler saw across an await is
still so (`HandlerAlone`); an operation is for an item its run took and does
not skip, one under way is of the present level, and a success came after the
content the run had seen (`OpAlone`); an item in a changeset has content
(`RowsWritten`). A client's request cannot write items of an applying changeset
(its `assertDraft` saw the status as it is), a run's end closes or reopens only
its own changeset, and no second run of it is started before that. Hence a
success is always a current one and what a closing run leaves behind is
complete. A run whose end throws after its commit finds its changeset applied,
canceled or still applying (`Standing`): nobody can have touched it in between,
so the only terminal status a write by id undoes is the run's own, which is
the refinement, with `Working` as the changesets a run is at work on. TLC had
agreed to `SerialInv` on two changesets, two items, two runs, one client,
crashes and throws (0.7 million states).

`DryRunsProofs.tla`, for every set of items, every dependency relation (cyclic ones
too: then the dry runs do not come to rest, and what the theorems say of them
holds all the same) and any number of requests (`DryRunsAssumption`):

* `OwnerSafety` and `CurrentSafety`: `PendingOwned` and `SettledCurrent`, with
  `TypeCorrect` and `Invariance`.

Throws are part of what is proved: a `start()`, a step or a trigger may be lost
at any point, and the theorems say what is left but for `orphaned` and `missed`,
which name exactly the rows and items that a throw has cost their workflow or
their restart and that nothing has reset since.
`Inv` extends `PendingOwned` to items that are not staged (`OwnersOK`: none of
their executions may settle a row). `ContentOK` says that an execution which may
still settle its row has read the item as it is, since an edit overtakes it.
`PlansOK` is what replaces rest while the cascades are under way: of every
sibling that has a plan, a plan of a draft knows this plan, or the restart of
the sibling's dependents is still in flight or was given up; the same holds for
an execution on its way from its inputs to its plan. A restart resets or keeps: either it
carries what was in flight (`Carries`) or the rows concerned are among those it
resets (`RestartKeeps`, for staging, edits, refreshes and triggers alike).
Executions are a bag, because two stale ones may be alike. The model counts the
image of a bag by its copies (`Copies`, `Image`) instead of adding up numbers,
so that facts of finite sets give what an overtaken bag holds (`ImageIs`,
`ImageKeeps`), and no induction is needed.

`ProjectScanProofs.tla`, for every finite set of resources and of scans, every
set of starters and facts, every page size and any number of interventions
(`ScanAssumption`):

* `YieldSafety`: `ScanYields`. Its invariant is `LockInv` (`LocksHeld`): an
  alignment that was opened holds its row, because only its own close and a
  cancel give the lock back, and a cancel leaves its mark in what the run
  holds; and what is in a page exists, because rows are never removed.
* `AccountSafety`: `ScanAccounts`. `ScanInv` says that every row applied before
  the scan and still there is ahead of the cursor, in the page, or counted
  (`Accounted`), until the run fails. That needs more than the scan: a row that
  was applied never becomes a stub again and a tombstone never comes back
  (`RowsGoOn`, and for it that a user's operation never holds a tombstone); a
  run begins with an empty page and a cursor before all rows; and no starter
  and no cancel touches a run that has begun (`StartersOK`, `CancelerOK`: two
  starters never have the same scan, and a scan about to start cannot be
  killed). The step to the next page is `PageIsFirst`: a page is not empty
  while anything is left, and whatever is left is in it or after its last row.
  It rests on the extrema of finite sets (`Minimum`, `Maximum`), proved from the
  well-foundedness of strict inclusion.

`ThinkingBlocksProofs.tla`, for every set of rows (`BlocksAssumption`), any
number of runners and callers, any budget and any parallelism:

* `WorkerSafety`, `BudgetSafety` and `ReadySafety`: `OneWorker`, `RetryBudget`
  and `OneReady`. Their common invariant `WorkInv` adds that a row which does
  not exist yet has no spent budget, and that a claim has a run left
  (`RunsLeft`). The three support each other: a claim finds its row pending, so
  nobody works on it and its budget allows a run; only the worker of a running
  row moves it, so no claim can overlap another; and the commit of a worker
  finds, besides the rows it saw and supersedes, no ready row of its key.
* `FinalSafety`: `OutcomeFinal`, since whoever writes an outcome is the worker
  of a row that is running.
* `AnswerSafety`: `AnswerTrue`. `AnswerInv` says of every promise, in the map or
  held by a caller whose entry was dropped, that its result is so (`Told`), and
  of every fulfilment past its commit that the row says so (`JobTold`); an answer
  may also be that a ready row cannot be read. All of
  it survives the steps of others because outcomes are final and a spent budget
  stays spent (`RunsSpent`); this is where `FinalSafety` is needed.

`BridgeProofs.tla`, for every set of requests, finite sets of credentials and of
processes (`BridgeAssumption`) and every size of the pool:

* `ApprovedSafety` and `DuplicateSafety`: `ApprovedOnly` and `NoDuplicate`.
  `HandlerInv` says for each stage of a handler what it can have asked for so
  far, what it knows of the resource and what there can be of it, also after a
  call that failed with its effect; both properties are what it says of the
  last stage. Nothing is assumed of what a provider answers to the second plan:
  `Allowed` says what a request may ask for when its plan was one the
  comparison of actions accepts, and what more when it was forced.
* `PoolSafety` and `IsolationSafety`: `PoolSound` and `Isolation`. `PoolInv` says
  that a process belongs to one key from its launch on: first only the flight
  that started it knows it, then the map, then handlers (`FlightOK`, `PoolOK`,
  `UsersOK`), so a process is configured before anyone can use it. A flight only
  replaces an entry whose process is no longer up (`Replaceable`), which the
  second look under the lock is there for; and a full pool always has a least
  recently used process to make room with (`OldestPooled`, from the
  well-foundedness of strict inclusion), which is why the size is kept
  (`SizeOK`).

The second part of `BridgeProofs.tla` is about `BridgeClient`, for every set of
calls and streams and every number of attempts (`ClientAssumption`):
`RegistriesSafety`, that is `RegistriesAgree`.
`ClientInv` names the sends of a call that were made (`CallOK`): they are the
first ones, the reducer's count of attempts is never behind them, and while a
retry is scheduled it is ahead. An attempt that times out and then fails counts
twice in the reducer and once on the wire; this is why a call can be sent fewer
times than the policy says but never more often.

`NotificationsProofs.tla`, for every number of clients, versions, places in the
queue and connections (`NotificationsAssumption`): `ListenSafety` and
`ViewSafety`, that is `ListenHeld` and `ViewFresh`. `StreamsInv` adds that the
subscribers are the streams in certain stages (`MembersAre`), and that a project
stream in its loop has seen no change, or one of the following (`FreshStream`).
On a channel of payloads (`FreshRaw`): it is still to be told of a change
(unsent, lost, on its way, queued, in hand or written), or its client has a
query to fetch, or shows the row. On the one of resources (`FreshResource`): it
is still to be told, or the last event it queued shows the row, and of a deleted
row the notification that counts is that of the deletion (`Ending`), unless the
queue has dropped it. `EarlyBus` and `EarlyStream` say that nothing speaks of the
last version before it is committed. `ListenHeld` supports it: a notification is not dropped on its
way while a stream is in its loop.

`ApplyPlanProofs.tla`, for any number of items and edits, any references, any
slugs, and any resources to begin with that refer only to each other
(`ChoicesAssumption`): the four properties of `plan`.

* What the loops compute, for every draft. `Recursion` gives functions on the
  numbers by a start and a step, from well-founded `<` (the library's
  induction takes an operator, so `NatSetInduction` is stated about sets). By
  it `Rounds`, `Queue` and `Depths` satisfy their equations (`RoundsSteps`,
  `QueueSteps`, `DepthsSteps`), and each has its loop invariant.
  `BlockedLeast`: after as many rounds as there are items the blocked ones are
  the least set closed under depending, because a round that changes anything
  adds an item. `Drained`, by `QueueInv`: the queue has each item once, after
  all that it waits for, and every item whose dependencies it has. `AllPlaced`:
  an item ends just below the deepest that it waits for, because its
  dependencies come before it in the order and are not touched again.
* `BlockersExactAlways`: `BlockersExact`. The order is sound by `Drained`; and
  of a sound set that is not all in the order, an item that waits for nothing
  in the rest would be in it.
* `LevelsPeelAlways`: `LevelsPeel`, from `AllPlaced`: in what is left of the
  draft the least depth is that of the next level.
* `ReferencesStayLive` and `LevelsReady`: `ReferencesLive` and `LevelReady`, by
  `InvHolds`. `Inv` says between applies who had the last word: a resource with
  an item that acted on it refers to what some such item says (`LastWord`), and
  what was created is there or an item that acted deleted it (`Created`), both
  except for withdrawn slugs. While applying, no two items of the draft exclude
  each other (`NoTwins`), nothing is deleted that an item refers to
  (`NoneDeletes`), targets and free slugs are as they have to be (`Targets`), and
  the levels that are left make up for the rest: what an item refers to is
  there or created in an earlier one (`RefsBefore`), and what refers to a
  resource that is deleted is rewritten or deleted in an earlier one
  (`RewrittenBefore`). `AcceptedRuns` gets all of it from an accepted plan;
  there `LastWord` shows that an item the plan waits for has not run already
  without letting go. `Inv` was an invariant of the run `plan` before it was
  proved.

Only model-checked: liveness (`OpenOperationsClose`, `ApprovedOperationsClose`,
`ApplyEnds`, `Served`, `Settles`, `Answered`, `CloseReaches`, `CallSettles`,
`DueServed`), which is out of the prover's reach. Every safety property of every
run is proved.

## Not modelled

* The web application, the landing page, the UI of the thinking blocks and the
  command line, some 35 000 lines: they render what the API serves and keep
  nothing; only their event-stream client is in `Notifications`.
* The schema catalog, references, the provider runtime of the API, the codecs
  and the protocol adapter of the bridge, contracts: conversions and types.
  Their result is a value that the models choose.
* The thinking-block audit and onboarding: reports over what is there.
* Authentication: sessions and tokens are a library's. `auth/lifecycle.ts`
  (the membership checks of a deletion) keeps state and is not modelled yet.
* Integrations beside `deleteIntegration`: the default is one transaction under
  a unique index, the rest I/O.
* The row of a project; infrastructure and migrations.

What has state and control is a small part of the repository: `PROJECT.json`
maps the definitions to their lines, and most of what is left of the API and
the packages shapes requests, answers and schemas.

## Plan

1. done: operations, resources, runs, handlers; lock, stub and approval proofs.
2. done: changesets, their lifecycle, the order and completeness proofs; the
   apply plan against reference definitions, proved exact and safe.
3. done: dry runs, project scan, bridge, bridge client, notifications and
   thinking blocks, each with its run and its safety proofs.
4. done: the refinement of `ResourceLock` by `Operations` and of
   `ChangesetLifecycle` by `Changesets`, with the other safety properties of
   one client.
5. `auth/lifecycle.ts`: the deletion of a user beside changes of membership.
