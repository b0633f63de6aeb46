# Omni-context: TLA+ models of the path from an approved plan to its outcome

Omni-context takes an agent's decision through five stages: **qualify** the
evidence, **bind** the decision to an owner's approval, **execute** it once in a
native process, **read back** what it did, and **reopen** the decision when the
outcome disagrees. The Brain server (TypeScript, one thread) owns evidence,
authorization, outcomes and revisions; the desktop daemon (Rust, many threads)
owns approvals, execution and receipts. These modules model the part where a
mistake is an effect in the outside world that nobody approved, or one that
happens twice, or one that leaves no trace; the database connection under all of
the Brain; and two paths by which knowledge is lost or claimed falsely: captures
submitted by the browser extension, and the rebuild of the vector indexes.

## 1. Inventory

| Component (source) | State | Operations | Hard because | Correct when |
|---|---|---|---|---|
| Execution broker (`desktop-daemon/src-tauri/src/execution_broker/mod.rs`, `approval/`) | approval records, plan ledger, receipts: a map under a mutex and a JSON file each, an OS lock per file | `execute`, `grant`, `verify`, `deny`, `revoke`, start-up | threads, crash at any write, failed writes, a second process | one process per plan, under a consumed approval, whatever fails |
| Runner (`runner.rs`, `process_tree.rs`) | process tree, registry of active executions | spawn, wait, time out, cancel | error paths between spawn and marker | the receipt says truly what happened |
| Receipts and read-back (`readback/`) | receipt map, its file, its temporary file, attempts | insert, mark, migrate on restart, reserve / run / settle an attempt | the file is written outside the mutex | the file is readable, complete, never rewinds; read-backs are bounded |
| Plan authorization (`brain-server/src/approval`) | map of records in memory | `authorize`, `applyApproval`, `denyApproval`, `revokeApproval`, `sweepExpired`, `discardUncommitted` | an await between read and write | ready only through one verified grant |
| Approval facade (`brain-server/src/control`) | audit table (SQLite) | `approve` | three remote steps, each may fail | fail closed, audited first |
| Outcome verification (`control/verification-runtime.ts`, `outcome/`) | maps of cases, pending attempts and outcomes, in memory | register receipt, begin / complete attempt, verify | two observations at once, attempts left pending, a restart forgets everything | an attempt begun is the one completed; a decision is concluded once |
| Decision revision (`revision/`) | chain of revisions (SQLite) | `reopen` | racing reopens, a plan made for the loser | one line without forks, no stray plan |
| SQLite access (`db/sqlite.ts`) | gate, queue, set of running operations | `withTransaction`, single operations | promises of several owners on one connection | transactions one after the other, whole or not at all; no deadlock |
| Embedding indexes (`db/sqlite.ts`) | active and shadow tables, build state | rebuild, resume, swap | rows written outside of any transaction, an operator's Ctrl+C, rows that change between two runs | a resumed rebuild completes |
| Evidence (`evidence/`) | guard runs, qualified evidence | guard rounds, eligibility | eviction at capacity | authorization rests on evidence still held |
| Memory decay (`memory/decay-scheduler.ts`) | weights and stamps | periodic decay | read outside the transaction, thresholds | weights follow the decay law |
| Pairing (`security/auth.ts`) | pair code, in-progress flag, device tokens | exchange | await between check and use | one code, one token, which is on disk |
| Import jobs (`api/handlers/ingest.ts`) | jobs in memory, receipts in SQLite | accept, run, cancel, ask, forget | memory and receipt apart, eviction, restart | an answer "success" means stored |
| Browser extension (`browser-extension/background.js`) | audit, pending jobs, signatures, alarms in `chrome.storage` | submit in chunks, poll, recover | the browser stops the worker at any await, lost answers, polls that overlap | one true outcome per capture, told once |
| Brain supervision (`brain_server.rs`, `startup_instance.rs`) | child, PID file, flags | start, stop, restart, recover | orphan processes | one Brain per data directory |
| Agent loop, skills, retrieval, extraction, desktop capture, mobile, CLI, firmware, benchmark | caches, queues, data | pipelines and clients | mostly data | outside the plan below |

How they interact: the Brain calls the daemon over a loopback bridge (`/internal/native/approve`,
`/internal/native/verify`); the desktop fetches a ready plan from the Brain, runs
it in the broker and posts the receipt and, later, the observation of a read-back
to the Brain. A reopened decision makes a fresh plan, which goes the same way
again. Inside the daemon all threads share one `Broker`; between daemons
only the files and their locks are shared. Inside the Brain every component shares
one thread and one SQLite connection. The extension reaches the Brain by HTTP only:
an upload is answered with a job id, which it polls.

`PROJECT.json` lists the components with their sources and status, and the
hazards, each at its line and with the property that covers it or the reason why
none does.

## 2. Modules

| Module | Role |
|---|---|
| `SingleUseExecution` | abstract: a plan is fresh, then committed, then executed, once |
| `BrokerExecution` | the broker: threads and processes over memory and files |
| `BrokerExecution_proofs` | inductive invariant, single spawn and refinement, for all constants |
| `BrokerAccounting_proofs` | on top of it: consumption, withdrawals, grants, receipts |
| `ReceiptStore` | the receipt file step by step, its two writers, restart |
| `PlanAuthorization` | approval in the Brain: facade, store, native grant, audit |
| `DecisionChain` | abstract: a decision is concluded once; a line of revisions grows at its end |
| `OutcomeVerification` | executed plan, receipt, observations, attempts, outcome |
| `DecisionRevision` | `reopen`, composed with `OutcomeVerification`; implements `DecisionChain` |
| `SerialStore` | abstract: a log of whole transactions and single statements |
| `SqliteTransactions` | one connection: queue, gate, running statements; implements `SerialStore` |
| `StoreClients` | pairing and the decay cycle, composed with `SqliteTransactions` |
| `IngestJobs` | the Brain's import jobs and their receipts |
| `CaptureSubmission` | the extension's worker, composed with `IngestJobs` |
| `EmbeddingRebuild` | the rebuild of the vector indexes, row by row |
| `ReceiptStore_proofs`, `PlanAuthorization_proofs`, `DecisionRevision_proofs`, `SqliteTransactions_proofs`, `StoreClients_proofs`, `CaptureSubmission_proofs` | invariants, theorems and refinements of those modules |
| `MC...` | symmetry sets, constant functions and small instances for TLC |

Operators named `..._Bug`, `..._Early` or `..._Stuck` are deliberate mistakes (a
dropped guard, a forgotten write, an off-by-one). No specification uses them;
substituting one for the definition that follows it must violate the property it
is paired with in `PROJECT.json` ("mutants"), which shows that the property can
notice the mistake.

### BrokerExecution

A call is a thread with a place (`pc`) and what it works on (`job`). An action is
what the code does under one mutex or in one write:

| Code | Actions |
|---|---|
| `configure_global_broker_with_persistence`: approvals, ledger, receipts opened in turn, each under its lock or degraded | `OpenApprovals`, `OpenLedger`, `OpenReceipts` |
| `grant_at`, then `ApprovalStore::persist` | `Grant`, `PersistGrant` |
| `deny`, `revoke` | `Withdraw`, `PersistWithdraw` |
| the gate of `execute`: stores healthy, plan unexpired, approval verified against the stored record | `Execute` |
| `PlanLedger::accept`, `reserve` | `Accept`, `PersistAccept`, `Reserve`, `PersistReserve` |
| `consume_if_granted` | `Consume`, `PersistConsume` |
| receipt inserted and marked, through `run_with_observer` | `InsertAccepted`, `SpawnFails`, `SpawnProcess`, `MarkSpawnStarted`, `MarkCompleted`, `MarkUnknown` |
| `ReceiptStore::persist` (snapshot under the mutex, write outside) | `SnapshotReceipts`, `WriteReceipts` |
| `record_execution_id` | `RecordExecutionId` |
| process death | `Crash` |

Every persist may fail, which leaves memory ahead of the file, as in the code.
The approval store and the ledger write under their mutex, so a persist is one
step; the receipt store does not, so it takes two. Writes are atomic in this
module (rename); `ReceiptStore` opens that step up. `SpawnProcess` may leave the call
"marking" (the process is contained and runs) or "aborting": on Windows
`ProcessTree::spawn` creates the child first, and kills it and returns an error when
it cannot be assigned to its job object or resumed. `SpawnFails` is that error or one
from before the creation; `run_with_observer` cannot tell them apart. `spawns`, `spawnedWith` and
`withdrawn` are history variables. Data that cannot change during a call
(digests, policy snapshots, argument schemas) are abstracted to whether the gate
lets the call pass; `Guarded` says which plans a compiled policy makes wait for
an approval. Lock acquisition that fails for reasons other than an owner is
part of `OpensDegraded`, like an unreadable file.

### ReceiptStore

Names point at files, and an open handle keeps its file when the name moves.
`std::fs::write` is two steps (create or truncate, then write through the
handle), `sync_all` reopens the name, `rename` moves whatever the name points at.
A file that was truncated, or over which two writers wrote, holds `Torn`: it does
not parse. This is the file behaviour of POSIX systems and of Windows with the
share modes that the Rust standard library opens files with. A write that is
reported synced survives a crash of the process; power loss is not modelled. The
migration at start runs alone (the store serves nobody before `open` returns), so
it is one step that succeeds or leaves the store degraded. `taken` stands for the plan
ledger of `BrokerExecution`: a receipt is inserted for a plan once.

### PlanAuthorization

The Brain runs on one JavaScript thread, so an action is the code between two
awaits of one call of `approve`:

| Code | Actions |
|---|---|
| `authorizeInternal`, `computePlanExpiry`, `AuthorizationStore.put` | `Authorize`, `PlanExpiries` |
| `ControlApprovalFacade.approve` up to the native grant | `Approve`, `EnsureWritable` |
| the bridge and the native store | `NativeGrant`, `NativeRefuses`, `NativeVerify` |
| audit appended, then `applyApproval` before and after its await | `RecordApproved`, `BeginApply`, `FinishApply` |
| every refusal | `RecordFailure` |
| `denyApproval`, `revokeApproval`, `sweepExpired`, `discardUncommitted` | `Deny`, `Revoke`, `SweepExpired`, `DiscardUncommitted` |
| `execute_ready_plan` and consumption of the grant | `FetchReadyPlan`, `ConsumeGrant` |
| the Brain restarts: records are memory, audit and grants are not | `Restart` |

`NativeGrant` may record the grant and still look like a failure to the caller (a
lost reply, or a native file that could not be written while memory keeps the
grant). Both processes run on one host and read one clock. At this commit
`denyApproval`, `revokeApproval` and `sweepExpired` are called by tests only;
they are modelled as the operations they are.

### OutcomeVerification and DecisionRevision

An action is the code between two awaits of one request. A decision has one plan,
so it names its plan, case and outcome. `post[d][n]` follows the receipt (attempt
0) and each observation through its handler; a Brain that is down when it is sent
is a post that goes from "unsent" to "over".

| Code | Actions |
|---|---|
| approval, denial, revocation, sweep: the state of the plan that `PlanAuthorization` arrives at | `ApprovePlan`, `Block` |
| `execute_ready_plan` and its one post; a read-back and its one post | `ExecuteReadyPlan`, `VerifyPendingPlan` |
| `registerNativeReceipt`, around its await of `openOutcome` | `RegisterNativeReceipt`, `LinkOutcome` |
| `completeNativeVerification`, up to, and after the await of the parsed observation | `ReceiveObservation`, `BeginAttempt` |
| `completeVerificationAttempt`, before and after the awaited update, with its `finally` | `CompleteAttempt`, `ClearSlot`, `Release` |
| `verifyPlan` | `VerifyPlan` |
| `reopen`: guards, idempotency lookup, chain, requalified evidence and fresh plan, transaction | `StartReopen`, `ReadIntent`, `ReadChain`, `Prepare`, `Commit` |
| `createResolvedOrGet` inside its transaction; `discardUncommitted` | `MayInsert`, `Discard` |
| the Brain restarts | `Restart`, `ForgetRuntime` |

`concluded` is a history variable: it remembers, over restarts, what the outcome
of a decision was. The transaction of `reopen` takes one step here because
`SqliteTransactions` shows that it may be taken for one; `GateOpen` is what that
module demands of the statements outside it. Data that the evaluators judge are a
choice among `Conclusions`.

### SqliteTransactions and StoreClients

The database is the log of the statements that took effect, in order, so that
where a read happens matters too. `Durable`, the log up to the BEGIN in force,
is what the refinement maps to the log of `SerialStore`.

| Code | Actions |
|---|---|
| `withTransaction`: place in the queue and gate; the transaction before it is over; the drain of what is in flight and BEGIN; the function; COMMIT; ROLLBACK; `finally` | `RequestTxn`, `Drain`, `Begin`, `RunStatement`, `Commit`, `Rollback`, `Ends` |
| `withConnection`: context, gate, in flight; waiting again when a new gate was installed; the statement | `RequestCall`, `Submits`, `Retry`, `Execute` |
| the process ends | `CrashStore` |
| `handlePairExchange` | `StartExchange`, `StoreToken`, `FinishExchange`, `BadBody` |
| the desktop's code file | `RegeneratePairCode` |
| the decay cycle: its tasks in order, ended by a failure | `CycleTask`, `CycleStep` |
| any other call; a new Brain process | `SingleCall`, `RestartBrain` |

A function that catches a failed statement (`Tolerant`) goes on, as the decay
scheduler's marking of stale rows does. A call left behind by a function that has
returned (`Owner`) carries a context that is no longer active.

### IngestJobs and CaptureSubmission

| Code | Actions |
|---|---|
| `POST /api/ingest/file`; cancellation; the pipeline's ends; `updateJob` | `AcceptFile`, `CancelJob`, `Cancelled`, `FailStage`, `StoreText`, `Finish`, `SaveEnd` |
| `GET /api/ingest/job/:jobId` | `Answer`, `AskJob` |
| old jobs evicted; a new Brain process | `ForgetJob`, `RestartBrain` |
| `prepareCapture`, `submitChunksAndPoll`, `submitChunk` | `PrepareCapture`, `StartChunks`, `SendChunk`, `TrackChunk`, `RecordChunk`, `GiveUp` |
| `pollOnce`, from an alarm or from `startFastPoll` | `AskPoll`, `TimeOutPoll`, `PollAnswer`, `PollLate` |
| `recordCaptureChunkOutcome`, `commitCaptureSignature`, `untrackPendingJob` | `RecordOutcome`, `PollSign`, `PollUntrack` |
| `notifyCaptureOutcome`, after the outcome is written | `Tell` |
| the worker is started again | `RestartWorker`, `RecoverCapture`, `ResumePolls` |

Every write to a key of `chrome.storage` goes through a queue of that key, so a
read-modify-write is one step; writes to different keys are different steps, and
the worker may stop between them. An outcome is told by the call that wrote it, a step
later (`telling`): a worker that stops in between never tells it. Queued and running are one status, since no
client tells them apart. The writes of the extension's storage are assumed to
succeed, but for the signature's, whose failure the code handles.

### EmbeddingRebuild

`NextRow` looks at a row, passes it over when the shadow has its present text and
deletes what the shadow has of an older one; `Embed` is the answer of the embedding
service and the INSERTs of the row; `Swap` is the final transaction, `Mixed` the
count check that fails. `Interrupt` is an embedding that fails, or the operator's stop,
for which the tool waits until a row is done (`scripts/re-embed.mjs:149-158`); a kill
in the middle of a row is not modelled. `Edit` and `Retire` are the Brain's writers,
which do not know the shadow tables (an assertion invalidated, an entity merged into
another).

## 3. Runs

| Run | Instance | Checks | States |
|---|---|---|---|
| `BrokerOnePlan` | 2 processes, 2 threads, 1 guarded plan, 2 approvals, clock 0..2 | `TypeOK`, `AtMostOneSpawn`, `SpawnIsAccounted`, `WithdrawalHolds`, `OneLiveGrantPerPlan` | 1.4 M |
| `BrokerTwoPlans` | 1 process, 2 threads, 2 plans (one guarded), 1 approval | `ReceiptsKnowTheProcess`, `InFlightHasAThread`, `SingleUseSpec`, `CallsReturn` | 157 k |
| `ReceiptOneWriter` | 1 thread, 2 receipts, 2 attempts, bound 1 | `TypeOK`, `FileReadable`, `ReceiptBeforeSpawn`, `NothingLost`, `ReadsBounded`, `FileNeverRewinds` | 13 k |
| `ReceiptTwoThreads` | 2 threads, 1 receipt, 2 attempts, bound 1 | `FileNeverAhead`, `ReadbackStaysEligible`, `AttemptsExclusive` | 105 k |
| `ReceiptTorn` | 2 threads, 2 receipts | `ReceiptBeforeSpawn`: **violated** | |
| `AuthApprovals` | 2 plans, 2 calls, 2 grants, audit of 2 events, store of 2 records, clock 0..2 | `TypeOK`, `OneApprovalPerPlan`, `ApprovedIsAudited`, `RequestAgrees`, `GoneStaysGone` | 1.1 M |
| `AuthLateGrant` | 1 plan, 1 call | `ReadyOnLiveGrant`: **violated** | |
| `ReviseChain` | 1 root and 2 revisions, 2 read-backs of the root, 2 calls of `reopen`, 1 restart | `TypeOK`, `BegunHoldsSlot`, `NoOrphanPlan`, `NativeAttemptReleased`, `DecisionChainSpec` | 340 k |
| `StoreClients` | 2 pairing exchanges, a decay cycle (read, then transaction), 1 detached call, 2 codes, 1 restart | `TypeOK`, `PairingCodeOnce`, `PairedIsDurable`, `SerialStoreSpec`, `EveryCallEnds`, `PairingIsFreed` | 234 k |
| `CaptureSubmission` | 1 capture of 2 chunks, 2 alarms and a fast poll, 1 restart of worker or Brain | `TypeOK`, `SuccessIsStored`, `OutcomeKnowsItsChunks`, `NotifiedOnce`, `OutcomeStays`, `CaptureSettles` | 647 k |
| `CaptureTwoRestarts` | the same with 2 restarts | `AcceptedJobsSettle`: **violated** | |
| `RebuildResumed` | 1 entity, 1 assertion, 1 interruption, 1 edit each | `ResumeCompletes`: **violated** | |

Why the bounds are enough. A double spawn needs two calls that both pass the
ledger: two threads in one process, or one in each of two, or one before and one
after a crash; `BrokerOnePlan` has all three, and the proof below removes the
bound for `AtMostOneSpawn`. Two approvals are what it takes to consume one and
revoke the other, and a clock of three instants has a grant that expires before
its plan. Effects of one plan's receipt on another's need two plans
(`BrokerTwoPlans`); there the single process restarts too. In `ReceiptStore` the
number of attempts is one above the bound, so that the bound can be exceeded, and
there are enough files for every name and handle to point at its own.
`ReceiptOneWriter` asks what crashes, failed writes and restarts do to a persist; what
two persists at once do is the question of `ReceiptTwoThreads` and `ReceiptTorn`. In
`AuthApprovals` two calls race for one plan or share the audit and the store,
both of which fill up. Counters need no bounds of their own: a plan is accepted
once, attempts and grants are used once, and the only unbounded quantity, time,
ends at `MaxTime` or `MaxClock`.

`ReviseChain`: a lost slot needs two observations of one outcome (`Readbacks` of the
root is 2); a fork needs two reopens of one parent, with the same reason and with
different ones (`Reasons`); a chain needs a second link, so a revised decision is
executed, read back and reopened as well (`Executable`), while its successor is
not. Of the four verdicts two are tried, one that may be reopened and one that may
not; the code treats the others as one of these. `StoreClients`: three transactions
are enough for a queue behind the one that runs; one statement in flight when the
gate closes, and one held by it, need two calls; each transaction has two
statements, so that it can be undone in the middle, and one of the three goes on
past a failure. A second exchange with the same code, with a new one, and after a
restart need two codes and one restart. `CaptureSubmission`: an outcome made of
different chunks, an upload lost after another was accepted, and a signature that
waits for the last chunk need two chunks; two pollers of one job are enough for
overlap. Cancellation and eviction hit the first job only, and the restart (of
either process) happens once, at any step: both are bounds of the model. With two
restarts the safety properties and `OutcomeStays` were checked as well (1.6 million
states), and the theorems below have no bound; `CaptureTwoRestarts` asks the one
question whose answer depends on the second restart.
`MaxCode`, `MaxRestarts`, `MaxText` and `MaxInterrupts` bound what is unbounded.

Deadlock is checked in the first seven runs. The last five have it off, because
those systems do come to rest: all posts are over and nothing is pending, every
call was answered, the capture has its outcome, the rebuild is done. That nothing
is left hanging is what their liveness properties say. Symmetry is used over
interchangeable identifiers only, and not in runs that check liveness.

**Fairness.** `FairSpec` of `BrokerExecution` assumes weak fairness of `Progress(t)` for
every thread: a running thread takes its next step. This is what the operating
system's scheduler gives; no step of a call waits for a lock that another call
holds across steps, and the wait for the child ends at the plan's timeout at the
latest. Nothing is assumed of crashes, of time, or of new calls. `CallsReturn`
then says that a call ends even if all its writes fail, because a failed receipt
write degrades the store and is not retried.

`DecisionRevision` assumes weak fairness of each handler's continuation (`Handle`,
`Continue`): JavaScript's event loop comes back to every await whose promise is
settled. Nobody must post, verify, approve or reopen. `StoreClients` assumes that
SQLite answers, that the event loop runs what is ready, and that an HTTP request
ends or is cut off by the server's request timeout; nobody must ask.
`CaptureSubmission` assumes that a worker that runs goes on, that the alarm of a
pending job comes back every minute, and that the clock passes the job's five
minutes at some alarm (strong fairness of `TimeOutPoll`, since the alarm's poll may
be busy with an earlier answer in between); and that storage which is asked for a
signature again and again accepts it once. Nothing is assumed of the Brain, which may be down or answer
"running" for ever, and nothing of fast polls. `EmbeddingRebuild` assumes that the
operator runs the rebuild again until it is through, and that a row ends.
The other modules assume no fairness: their properties are safety properties.

## 4. What the checks show

The order accept, reserve, consume, receipt, spawn, each durable before the next,
makes execution single-use over crashes, failed writes and a second process. An
acknowledged withdrawal is final, since consumption checks the record again under
its mutex. The Brain's approval is fail-closed: no plan is ready, and no grant
spent, without the audit event written before it, and two sessions never both
succeed.

A decision's outcome is concluded once, over restarts that forget it, because a
conclusion needs a registered receipt and a ready plan, and neither is made again.
The attempt in flight is what makes two observations of one outcome harmless: if a
second one could begin, both would be refused, since a refusal clears the slot
whoever holds it. An observation that finds the slot taken (by another or by
`verifyPlan`) is refused, and its read-back is spent. Racing reopens make one line
of revisions: the transaction decides, and the loser's plan is gone before anybody
can have approved it, because the approval's audit is a statement that waits for
the transactions before it.

The connection's transactions are whole and one after the other although
everything shares one connection, and nobody waits for ever. A pairing code makes
at most one device, which has its token on disk when it is told so.

The file of receipts lags behind the memory but is never ahead of it
(`FileNeverAhead`): however persists overlap, a restart may find too little, never an
outcome or an attempt the running process did not stand by.

The extension never calls a capture successful unless the text of all of its chunks
is in the Brain (of what is extracted from it nothing is promised, see section 6), tells the user at most once, and settles every capture whose chunks it had begun to send.
This rests on three things that are easy to lose: pending jobs count as accepted in
the recovery though the entry may not name them, the signature is written before the
job is untracked, and settled jobs are not counted again.

Five places disagree with the repository's own text.

* **A process can run without a receipt that can be read** (`ReceiptTorn`).
  `mod.rs:626-631` calls the receipt durable before the spawn, `readback/store.rs:5`
  says writes are serialized and atomic. `ReceiptStore::persist` snapshots under the
  mutex and writes after it, through one temporary name, and nothing orders two
  writers: one truncates the file that the other renames over the store, and the
  other goes on to create its process. By the same window an older snapshot may
  land last and erase a receipt. In memory the receipt exists, and the next write
  repairs the file; a crash in between leaves an effect without a receipt. Single
  use is not affected: the ledger and the approval hold their mutex while they
  write. `FileReadable`, `NothingLost`, `ReadsBounded` and `FileNeverRewinds` are
  results of one call at a time (`ReceiptOneWriter`) only; no theorem claims them.
* **`spawn_failed` does not prove that there was no process** (`SpawnProcess`,
  then `SpawnFails`; no run is spent on it).
  `runner.rs:249` and `:133-134` and `readback/types.rs:48` say that the receipt is
  written only if provably no process existed. On Windows a child that was created but
  could not be assigned to its job object (`process_tree.rs:543-557`; a trusted
  background child is already running) or resumed (`567-577`) is killed, and the
  error is recorded as `spawn_failed` (`runner.rs:281-288`). What does hold is
  `ReceiptsKnowTheProcess`: the receipt never says so while a call has the process in
  its care, and it never claims a process that never was. The plan is used up
  either way.
* **An accepted job may never be waited for** (`CaptureTwoRestarts`).
  `background.test.js:506` expects accepted jobs to settle while the unconfirmed
  chunk remains uncertain. A recovery that finds all chunks accepted writes the job
  ids to the entry only while it says "submitting" (`background.js:363-371`), which
  it no longer does once one chunk was recorded. If the worker was stopped before it
  recorded the last chunk, and is stopped again when that chunk's job has settled and
  is no longer pending, the second recovery counts one chunk too few, calls the
  capture uncertain at once, and ignores the result of the job that still runs. With
  one restart every run of TLC agreed with the test; the attempt to prove it for any
  number found the second.
* **A plan can become ready on an expired grant** (`AuthLateGrant`).
  `authorization-service.ts:16-20` requires an unexpired grant; `applyApproval`
  compares with the time it read before it awaited the native verifier. The
  broker checks the expiry again before it consumes, so nothing runs on it.
* **A resumed rebuild may fail for ever** (`RebuildResumed`).
  `docs/embedding-migration-plan.md:93` and `:127` say that re-running a partial build
  continues, and that a resumed run completes and swaps. A row embedded before the
  stop and retired before the next run is not listed any more, but its metadata stays
  in the shadow tables, and the count check (`sqlite.ts:3514-3517`) refuses the swap,
  in every later run too, since only another profile makes the code drop the shadow
  (`3793-3808`). With no row retired in between the rebuild completes.

## 5. What is proved

The safety properties that the passing runs check, but for four of `ReceiptOneWriter`
and its instance of `ReceiptBeforeSpawn`, and the three refinements, for every
value of the constants that satisfies the named assumptions: sets of any size, any
capacities, lifetimes and numbers of restarts. Each theorem rests on an inductive
invariant, which TLC checked on an instance before it was proved.

| Module | Theorem | Statement |
|---|---|---|
| `BrokerExecution_proofs` | `TypeCorrect`, `Inductive` | `[]TypeOK`, `[]IInv` |
| | `SingleSpawn` | `[]AtMostOneSpawn` |
| | `ImplementsSingleUse` | `SingleUseSpec` |
| `BrokerAccounting_proofs` | `Accounts` | `[]AccountInv` |
| | `EverySpawnAccounted` | `[]SpawnIsAccounted` |
| | `WithdrawalsHold` | `[]WithdrawalHolds` |
| | `OneGrant` | `[]OneLiveGrantPerPlan` |
| | `ReceiptsAreTrue` | `[]ReceiptsKnowTheProcess` |
| | `NoOrphanReceipt` | `[]InFlightHasAThread` |
| `ReceiptStore_proofs` | `TypeCorrect`, `Inductive` | `[]TypeOK`, `[]IInv` |
| | `ReadbackEligible` | `[]ReadbackStaysEligible` |
| | `AttemptsAreExclusive` | `[]AttemptsExclusive` |
| | `FileIsBehind` | `[]FileNeverAhead` |
| `PlanAuthorization_proofs` | `TypeCorrect`, `Inductive` | `[]TypeOK`, `[]IInv` |
| | `SingleApproval` | `[]OneApprovalPerPlan` |
| | `AuditFirst` | `[]ApprovedIsAudited` |
| | `RequestsAgree` | `[]RequestAgrees` |
| | `GoneForGood` | `GoneStaysGone` |
| `DecisionRevision_proofs` | `TypeCorrect`, `Inductive` | `[]TypeOK`, `[]IInv` |
| | `AttemptStays` | `[]BegunHoldsSlot` |
| | `NoPlanWithoutRevision` | `[]NoOrphanPlan` |
| | `ImplementsDecisionChain` | `DecisionChainSpec` |
| `StoreClients_proofs` (with `SqliteTransactions_proofs`) | `TypeCorrect`, `Inductive` | `[]TypeOK`, `[]IInv` |
| | `OneDevicePerCode` | `[]PairingCodeOnce` |
| | `TokensLast` | `[]PairedIsDurable` |
| | `ImplementsSerialStore` | `SerialStoreSpec` |
| `CaptureSubmission_proofs` | `TypeCorrect`, `Inductive` | `[]TypeOK`, `[]IInv` |
| | `SuccessStored` | `[]SuccessIsStored` |
| | `OutcomeKnows` | `[]OutcomeKnowsItsChunks` |
| | `ToldOnce` | `[]NotifiedOnce` |
| | `OutcomesStay` | `OutcomeStays` |

Each is a consequence of `Spec` alone.

### Assumptions on the constants

They are named `...Assumption` in the modules that declare the constants, and TLC
evaluates them in every run. Beyond what says which set is part of which:

* `None` is no member of the sets it is an absence of, and `Torn` is no snapshot: they
  stand for `null` and for bytes that do not parse.
* `IsFiniteSet(Txns)`, `IsFiniteSet(Decisions)`, `IsFiniteSet(Reopens)`: up to any
  point of a behaviour finitely many were asked for. The queue and the chain are
  numbered, so this is what makes their lengths numbers.
* `Exchanges \subseteq Txns \ Tolerant`: the transaction in `exchangePairCode` catches
  no error. A read of the decay cycle that may stop it (`MayStop`) is followed by
  another task.
* `CaptureAssumption`: a capture has at least one chunk (text is refused when it is
  empty), every upload gets a job id of its own, and a poll is of some capture's job.

### Arguments

**Broker.** `AtMostOneSpawn` is not inductive: nothing in it says why a second call
cannot reach the spawn. `IInv` adds

* `JobOK`: a thread within a call works for a started process, on a plan;
* `OwnerOK`: a call past the gate runs in the process that holds the ledger's
  lock, and a process whose ledger is healthy holds that lock, so at most one
  process takes part;
* `MemoryCoversDisk`: the owner's memory of the ledger knows every plan its file
  knows, at every stage of the start-up and after every failed write;
* `AcceptanceOK`: a plan that a thread is working on is in the ledger's memory,
  and only one thread works on it; once that thread has persisted the acceptance,
  the plan is in the ledger's file;
* `SpawnOK`: a plan that was spawned is in the ledger's file, and no thread is
  about to spawn it again.

`Accept` succeeds only for a plan absent from memory, memory covers the file and the
file covers the spawned plans; a crash removes the threads with the memory, and the
next owner starts from the file. The proof that a step preserves `IInv` has one step
per action; calls that touch other stores share the lemmas `BeginCall`,
`AdvanceCall`, `EndCall` and `OtherStore`, and persists of the ledger share
`PersistLedgerInv`. The refinement maps a plan to `executed` once it is spawned, to
`committed` once the ledger file names it, and to `fresh` before; a persist of the
ledger may commit several plans at once (those an earlier failed write left in
memory), which is why `Commit` of `SingleUseExecution` takes a set.

`AccountInv` does the same for the other two stores. Approvals only move forward in
memory, which covers the file (`ApprovalsCovered`); a call keeps what it has checked
(`CallOK`) because nothing takes a consumed or refused record back; so a spawn finds
its approval consumed on disk, and a refusal written there is never overwritten by a
consumption. For receipts, `FailedOK` says that a receipt which says `spawn_failed`, in
memory, in a snapshot or on disk, is of a plan whose process no thread can still create
or have in its care, `StartedOK` that one which says that it started is of a plan that
had a process, and
`InFlightOK` finds the thread of every receipt in flight.

**Receipt file.** For any number of threads, `ReadingOK` says that a read-back which
passed its check works on a receipt whose state has left the ones it may not be in, since
states only move forward, and that an attempt is held by the thread that made it.
`AheadOK` is what `FileNeverAhead` needs to be inductive: not only the file, but every
snapshot that is still to be written, and the temporary file while anyone writes it, is
`Behind` the memory, an order on snapshots that goes along the transition table and is
transitive. Memory only moves along that order, so an old snapshot stays behind;
`write` puts a snapshot, or `Torn`, where the handle points, which may be the store
file itself; `rename` moves one such file. A failed write degrades the store, which
takes the promise back until the next start reads the file.

**Plan authorization.** `CallOK` says what a call has in each place (a plan, a grant
given to it, its event in the audit, the record it read); `GrantOK` that a grant which
reached a record, the desktop or an execution was applied by the call it was given to;
`OneLiveGrant` and `ApprovedOK` exclude that two calls are between the checks of one
plan when one of them has succeeded. The await of the verifier is where an invariant
that speaks only of the store breaks: the record read before it (`call[c].record`) is
compared again after it.

**Outcomes and revisions.** `SlotOK` ties the attempt in flight to the request that
began it; `ReceiptOK` and `ConcludedOK` that a conclusion comes once although a restart
forgets the outcome. `RowsOK` says that the rows of a root are numbered from one without
gaps, by counting (`Cardinality(Chain(root))` is the next index), `CommitOK` that the
decision of a reopen about to commit is nobody else's and its plan is not ready, and
`QueueOK` that the queue is those reopens: with the approval's audit event waiting for
the queue, an approval cannot come between. In the refinement the line of a root is
the sequence of its rows by index.

**Connection and pairing.** `QueueOK` exhibits the queue that the code keeps only as
promises: a numbering of the transactions that are not over, in which each waits for
the one before it. `FlightOK` says that nothing is in flight while a transaction has
the connection: the statements let in before the gate closed are drained, and those
that come later wait for a gate. `LogOK` then gives the statements since BEGIN in order,
which is what the commit appends. Pairing adds that one exchange is under way at a time
(`PairingOK`) and that a code which paired a device is used up or behind (`CodeOK`).

**Captures.** `EntryOK` is what an entry says of its chunks, `SubmitOK` that while a
capture is submitted exactly the sent chunks are in its entry and only they can be polled
or settled, so that no outcome comes early; `LiveOK` that a job which is polled, pending
or in recovery's snapshot belongs to a capture that knows how many chunks it has, so that
no poll completes an entry whose count is unknown; `SignOK` that a signature is of a
success; `BrainOK` that no answer says "success" of a text that is not stored. The count of an
uncertain outcome (`OutcomeKnowsItsChunks`) is an inequality: a chunk that was
accepted, settled and forgotten by the entry is counted twice, which is the defect that
`CaptureTwoRestarts` shows.

### What stays with TLC

Liveness (`CallsReturn`, `NativeAttemptReleased`, `EveryCallEnds`, `PairingIsFreed`,
`CaptureSettles`, `ResumeCompletes`) needs fairness and `ENABLED`, which the prover does
not do; the refinements are of specifications without fairness. `AcceptedJobsSettle`,
`ReadyOnLiveGrant` and, for several threads,
`ReceiptBeforeSpawn` are false. `FileReadable`, `NothingLost`, `ReadsBounded` and
`FileNeverRewinds` are checked with one thread; two threads break what they rest on, so
there is no theorem of them.
`EmbeddingRebuild` has no safety property that a run checks, and no proof. No module has
a RECURSIVE operator, and nothing proved rests on induction over data.

## 6. What is not modelled

Process trees and job objects (the operating system's guarantees), digests and
canonical JSON (pure functions with cross-language vectors), HTTP and framing,
user interface, desktop capture, language-model pipelines, ranking, the evidence
stores, process supervision, the agent loop, and the clients other than the
extension. Power loss below a synced write. The registry of active executions.

Within the modules:

* Outcomes: `FileOutcomeStore` and `registerControlledCase` are used by tests only;
  plans that only read have nothing to verify.
* Receipts: the four properties of the file that are checked with one thread.
* Audit: that appending keeps the number of events within its bound is the guard of
  the append itself and no property of the runs.
* Transactions: a `withTransaction` inside another, which throws
  (`sqlite.ts:3318-3320`); a call that the function does not wait for and that is
  issued while its context is still active (`1123-1124`): a detached call is taken to
  come when the owner is over; the gate of the database's initialization; a ROLLBACK
  that fails, which the code logs and swallows (`3350-3354`); errors after which
  SQLite ends the transaction by itself.
* Pairing: the desktop's new code is always written. `brain_server.rs:693` ignores a
  write that fails, so after a restart the file may still hold a code that was used, and
  a Brain that has its code from `PAIR_CODE` only (`auth.ts:427-433`) accepts it anew
  after a restart. `PairingCodeOnce` is under the assumption, which follows
  `brain_server.rs:390`, that a restarted Brain has a new code.
* Decay: weights and stamps. That a cycle may overwrite a reinforcement made between
  its read and its transaction is listed as a hazard.
* Import jobs: imports of archives and retries of failed chunks and imports; the
  stages before the text is stored are one step. `stored` is the text in the archival
  memory. A job succeeds although assertions could not be written
  (`ingest.ts:662-667`) and although chunks, even all of them, could not be extracted
  (`567-629`, `727`): success says nothing of extracted knowledge.
  The retry of such a chunk has a window that the models do not reach yet
  (`ingest.ts:1179`): a Brain that stops while the chunk is "processing" leaves it so,
  no later retry selects it, and its document may be called "success" without it.
* Extension: writes of the audit and of the pending jobs that fail; the trimming of the
  audit to 200 entries (`background.js:202`), which may drop an unsettled one; two captures
  with one signature key, where an older capture's signature may overwrite a newer
  one's. A cancelled job is polled until it is too old. The entry of a worker
  stopped between its creation and the next write does not know how many chunks it
  has; recovery leaves it "queued", which is why `CaptureSettles` speaks of captures
  whose number of chunks is known.
* Rebuild: a kill in the middle of a row, whose INSERTs are separate statements; writes
  made while it runs reach the active indexes, which the swap
  replaces; whether they are in the new ones is not modelled, nor is the indexing of
  single rows.

## 7. Plan

In order:

1. Proofs for `EmbeddingRebuild` (that an attempt keeps the active tables whole until
   the swap) and the lemmas of `SingleUseExecution`, `DecisionChain` and `SerialStore`
   about themselves (a plan executed once, a line without forks, a log without
   fragments), so that the refinements say what they are for without the reader's
   inference.
2. `ChunkRetry` (chunk and document status against a crash in the middle of a
   retry), `EvidenceStores` (eviction and tombstones behind the disposition that
   `DecisionRevision` chooses), `BrainSupervision` (the PID file behind the
   restarts that the Brain's modules take as an action).
3. Composition: `PlanAuthorization`'s `ConsumeGrant` replaced by the calls of
   `BrokerExecution`, so that an effect is traced back to the owner's approval.
