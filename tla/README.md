# Verification of himawari-agent

TLA+ modules, TLC configurations and TLAPS proofs about the Agent Service of
himawari-agent, a local-first personal agent. Paths below are relative to the
repository root. Every definition is translated from the source it is mapped to
in `PROJECT.json`.

## 1. The system

The product is one long-running **Agent Service** that owns an SQLite database,
an **execution worker** that carries out delegated work and tool calls, a
**control center** (web UI) and an **admin CLI**. The packages follow ports and
adapters: `domain` (pure state), `application` (services and ports),
`persistence-sqlite` (transactions), `platform-node` (files, transports,
capabilities), `runtime-pi` (the model runtime), `runtime-sandbox`,
`memory-mem0`, `integration-*`.

### Inventory

| Component | State | Operations | Interacts with | What is hard |
|---|---|---|---|---|
| Run Coordinator (`packages/application/src/services/run-coordinator.ts`) | an in-memory attempt per Run; the stored checkpoint | execute, cancel, interrupt, expire a wait | SQLite ports, context, workers, runtime, trace | two rows (Run, checkpoint) written by different transactions; the Owner cancels at any await; external calls cannot be undone |
| Run dispatcher, reconciler (`apps/agent-service/src/production-run-dispatcher.ts`, `production-run-reconciler.ts`) | accepting, operations in flight, renewal timers | pump, recover, drain | dispatch port, coordinator, authority | list then claim; renewal failing during execution; what a thrown error means |
| Dispatch loop (`production-run-dispatch-loop.ts`) | state, active pump, pending wake, timer | start, wakeup, stop | dispatcher, HTTP (wakeups) | coalescing, stop against a late wakeup, failing closed |
| SQLite Run operations (`packages/persistence-sqlite/src/sqlite-run-*-operations.ts`) | runs, checkpoints, execution leases | list, claim, renew, release, quarantine, transition, complete, cancel, compare-and-set | authority leases, approvals, budgets | conditions repeated inside each transaction; revisions as generations |
| Authority (`production-authority-lifecycle.ts`, `sqlite-worker.ts`) | lease with fencing token, mirror file | start, renew, assert, stop | everything that writes | an operation superseded between two awaits; loss |
| Model budget and model invocations (`sqlite-model-budget-operations.ts`, `sqlite-model-invocation-operations.ts`, `model-invocation-admission-service.ts`, the call sites in `pi-runtime-adapter.ts`, `trusted-model-provider.ts`, `production-run-memory.ts`) | accounts, allocations, invocation identities | reserve, permit, start, settle, mark unknown, release, finalize | runtime, memory jobs, Runs | a paid request cannot be taken back; the claim is lost between permit and request; unknown cost after a crash |
| Governed tool calls (`production-runtime-tools.ts`, `production-file-read-workflow.ts`, `production-coding-workflow.ts`, `worker-delegation-service.ts`, `sqlite-capability-invocation-operations.ts`, `production-payload-broker-handler.ts`) | frozen contexts, handles, recorded requests and results, receipts | call, suspend, resume, admit, send, poll, settle, replay | approvals, capability registry, worker, Run | a call executed again from its start after every approval; a withdrawal between any two checks; a worker that never answers |
| Sandbox execution (`sqlite-sandbox-execution-operations.ts`, `production-sandbox-*.ts`, `production-sandbox-execution-v2.ts`) | execution records, workspace occupancy, intents, Job Hosts | reserve, bind, launch, observe, reconcile, disclose, recover | worker, Job Host, Run | a job outliving its starter; evidence that goes stale in a second; a result handed over twice or not at all |
| Background work (`durable-background-work-service.ts`, `sqlite-durable-operations.ts`) | occurrences, leases, attempts, reservations | dispatch, admit, claim, settle | admission port, budget | three transactions behind one call; a holder taken over; an unknown result retried |
| Commands and outbox (`sqlite-worker.ts`) | command results, events | commit, replay, publish | all | replay against a changed request |
| Governed deletion (`sqlite-governed-deletion.ts`, the delete commands of the admin CLI) | tombstones, payload rows and files, derived artifacts | trash, restore, delete, purge expired | Threads, tasks and memories the service changes; the state-root lock | files that no row knows any more after a crash; a list made without the lock; content shared by objects |
| Service process (`service-main.ts`, `production-service-lifecycle.ts`) | registered resources, the phase of a shutdown | boot, serve, stop accepting, drain, close | lock, dispatch loop, authority, HTTP, worker | a failure at any point of boot; a drain that times out; what is still running when the lock is released |
| Threads (`sqlite-thread-operations.ts`) | Threads, turns, messages | submit, delete | Runs | turn order, deletion during a Run |
| Approvals, permissions (`action-policy-service.ts`, `approval-service.ts`, `governance-gateway-adapter.ts`) | requests, one-time grants | evaluate, decide, expire, consume, revoke | tools, Runs | decision against expiry; a grant revoked after it was listed |
| Capability lifecycle (`capability-lifecycle-service.ts`, `capability-handle-service.ts`) | registry rows, handles | review, update, roll back, disable, issue | tool calls | a handle issued under a version that is switched or disabled meanwhile |
| Workspace commits (`commit-gate-service.ts`, `git-index-transaction.ts`) | previews, operations, journal, lock files | prepare, commit, reconcile | the Owner's repository and git | files, HEAD and rows that no step writes together; the Owner's git in between |
| State-root lock (`packages/persistence-sqlite/src/state-root-lock.ts`) | a directory with an owner record | acquire, recover, release | service and offline commands | path operations after a check; deaths anywhere |
| Authority transfer (`sqlite-authority-transfer.ts`, `state-root-layout.ts`) | deployment and transfer rows, `authority.json`, packages | export, import, activate, abandon | service start, admin CLI | two stores that no step writes together; a command cut off anywhere |
| Recovery point, migrations (`sqlite-recovery-point.ts`, `migration-engine.ts`) | copies of the data directory | create, restore, migrate | service start | old rows meet a newer file |

The full list, with what is left out and why, is under `components` in
`PROJECT.json`; what is hard to test, at its line, under `hazards`.

### Correctness, component by component

* Run execution: an external call (runtime, worker) is never repeated for the
  same stretch of a Run; one final outcome, published exactly when the Run
  completes; no Run is lost after a crash between any two transactions; turns
  of a Thread reach the runtime in order; a suspended Run waits for its decision;
  every Run comes to rest.
* Dispatch loop: accepted wakeups are served; a stop that reports "drained"
  leaves nothing behind; a failure is final.
* Authority: at most one holder may write; an old holder's writes are refused;
  a superseded operation leaks no lease and restores no authority.
* State-root lock: one process at a time; a dead owner blocks nobody.
* Service process: it gives up the state root with nothing of the loop left
  running, and a failed loop always takes it off the lock.
* Deletion: content is never forgotten on disk; a verified deletion is true but for
  titles; Trash is kept for its retention, except after a restore by the service.
* Model calls: a logical call reaches the provider at most once, and what was
  sent stays on record; the ledger balances; an unknown cost is never forgotten.
* Background work: limits hold through retries and takeovers; an occurrence is
  settled by its holder only; an unknown result is not run again.
* Sandbox: overlapping work excludes a writer; a workspace is given back only on
  proof; a result is delivered only when settled.
* Tool calls: the worker acts at most once per phase and only on what the Owner
  approved; a withdrawal holds from the moment it commits; a call is always
  answered.
* Workspace commits: the Owner's lock and staged entries are never lost; a
  recorded result is what happened; what a kill leaves can be told apart.
* Transfer and recovery: at most one root may serve; a source never comes back;
  nobody serves under an earlier authority.

## 2. Modules

| Module | Models |
|---|---|
| `RunExecution` | Run Coordinator, dispatcher, reconciler and the SQLite transactions they use, with the Owner, the clock, budgets, crashes and restarts |
| `MCRunExecution` | small instances of `RunExecution` |
| `RunExecutionProofs` | theorems about `RunExecution` |
| `DispatchLoop` | the single-flight loop around the dispatcher |
| `AuthorityLifecycle` | claim, renewal, validation and release of the authority lease by any number of processes |
| `FencedAuthority` | what the authority lease promises; `AuthorityLifecycle` implements it |
| `AuthorityLifecycleProofs` | theorems about `AuthorityLifecycle`: the refinement, its leases and its mirror |
| `StateRootLock` | acquisition, recovery and release of the state-root lock, one action per file-system call |
| `ServiceProcess` | composes `StateRootLock` and `DispatchLoop`: the service from boot to the release of the lock, beside offline commands |
| `GovernedDeletion` | Trash, restore, permanent deletion and purge by the admin CLI, with the service's changes between the commands |
| `Budget` | the policy all accounts are held against, and the sum of the ledger's queries |
| `ModelInvocation` | model calls of Runs and embedding jobs: call sites, identity journal and budget ledger |
| `BackgroundWork` | occurrences of durable jobs: dispatch, admission, claim, settlement, capacity and budget |
| `SandboxExecution` | a sandboxed tool call across service, worker and Job Host |
| `ToolInvocation` | governed tool calls: workflow, approvals and grants, handles, capability lifecycle, invocation journal, worker |
| `WorkspaceCommit` | the commit gate and the git index transaction beside the Owner's own git |
| `AuthorityTransfer` | transfer of authority between state roots, recovery points, and the service start that meets them |
| `ServiceProcessProofs` | theorems about `StateRootLock`, `DispatchLoop` and their composition |
| `OwnerDataProofs` | theorems about `GovernedDeletion` and `WorkspaceCommit` |
| `SandboxExecutionProofs`, `ToolInvocationProofs`, `AuthorityTransferProofs` | theorems about the module named |
| `BudgetProofs` | theorems about `ModelInvocation` and `BackgroundWork` |
| `MCModelInvocation`, `MCBackgroundWork`, `MCSandboxExecution`, `MCAuthorityTransfer`, `MCToolInvocation`, `MCWorkspaceCommit`, `MCGovernedDeletion` | small instances |

How they fit together: `RunExecution` has the authority as a token with a
liveness flag, one service process, a budget that may become unknown and a
runtime that is a stream. `AuthorityLifecycle` opens up the token, `StateRootLock`
the one process, `ModelInvocation` the budget and the model calls of a stream,
`ToolInvocation` its tool calls with the approvals a Run waits for, and
`SandboxExecution` the worker's side of a sandboxed one. `AuthorityTransfer` takes a
service start as the two writes `AuthorityLifecycle` shows it to be, and adds the offline commands
that change deployment and file; it takes the state-root lock to be exclusive.
`BackgroundWork` has the occurrence accounts of the ledger whose Run and job
accounts are in `ModelInvocation`; both extend `Budget`, which has the limits they
share. `ServiceProcess` extends `StateRootLock` and
instantiates `DispatchLoop`, so that its run checks the actions of both as they are;
`GovernedDeletion` is one of the offline commands that rely on the lock.

### RunExecution

*State.* `status`, `rev`, `cp`, `lease`, `approval`, `budget`, `authority` are
database rows. `ex` is the memory of the one service process: where the pump and
the attempt wait (`pc`), the Coordinator's copies of the Run (`seen`, `seenRev`)
and of the checkpoint (`ck`), the checkpoint about to be written (`wck`), the
lease generation (`held`), the interruption flags. A crash loses `ex` and nothing
else. `starts`, `workerStarts`, `waits`, `published` count what cannot be undone.

*Actions.* The service is JavaScript, so the code between two awaits is atomic
and each SQLite transaction is atomic; nothing larger is. Each `ex.pc` is one
await. Operators `AtPlan`, `AtContext`, `AtResume`, `AtWorkers`, `AtLaunch`,
`AtSettled` are the straight-line pieces of `executeAttempt`; `Checked` is
`assertExecutionActive`; `IssueSave`/`SaveCheckpoint`/`SaveRefused`/`SaveConflict`
are `saveCheckpoint` with its adoption of a stored terminal checkpoint;
`TransitionRead`/`Write`/`Refused`/`Back` are `transition`. `Claim`, `Release`,
`Quarantine`, `OwnerCancels`, `CompleteRun` are the SQLite transactions, with the
conditions the code checks inside them.

*Abstractions.*
* One service process at a time: the state-root lock is taken to be exclusive.
* Time is a condition, not a clock: a lease is live, expired or released; a
  deadline has passed or not. Renewal keeps the lease's revision, so it is left
  out and a renewed lease expires only by a fault.
* A pump handles one candidate at a time, and whether it reconciles or claims
  next is left open. The code reconciles a batch first; the model allows more.
* A port that throws (disk headroom, closed Thread, trace, context, runtime) is
  `StepFails`. Replay of a command and of a claim is not modelled.
* A trace record awaited just before a checkpoint save is one step with it.
* One delegated task per Run. Contexts, outputs and results are booleans: only
  whether they are recorded matters to the code modelled.
* The runtime and the workers are streams that progress, end with an event, or
  vanish. The approval request exists before the runtime suspends.

### DispatchLoop

The loop's private fields, one action per callback. `pump` distinguishes a pump
that is reconciling from one that may claim, and a settled pump whose
`#finishPump` has not run. `serving` is the dispatcher's own flag, cleared by
`drain()`. `owed` is a history variable: a wakeup was accepted and no pump has
begun since. The dispatcher's `drain()` does not reject, so neither does the
model's. The module has no constants; its state space, by itself, is complete with
111 states, and it is checked as part of `ServiceProcess`.

### AuthorityLifecycle

`state`, `gen` and `record` are the private fields of
`ProductionAuthorityLifecycle`; `start`, `renewal`, `check` and `stopping` are its
operations in progress, each with the generation and the token it began with.
`lease`, `fence` and `mirror` are the lease rows, the deployment's fencing token
and the authority file. A lease is known by its token, because every `start()`
makes a fresh lease identity.

A step is the code between two awaits together with the database request it ends
in. The SQLite worker serves the requests of a process in order, so a request
can be moved forward to the moment it is made without changing what any
operation observes. A mirror write, which does not pass through that queue, has a
step of its own. The deployment stays active in one epoch, and its revision
follows the token. `stop()` is called once at a time, because
`ProductionServiceLifecycle.shutdown` is; `start()` may overlap an earlier start
that was superseded, which the generations are there for. `abandoned` is a
history variable: leases left to expire by a crash, a loss or a failed release.

### StateRootLock

`lock` and `stale` are paths, `pc` tells where a process is. Reading the owner and
asking whether it lives are two steps, because the read is awaited. Removing a
directory is two steps, contents first, so a crash may leave an empty directory,
which a later rename replaces. A candidate that was not installed is removed by
its own process and seen by nobody. Left out: foreign hosts and corrupt records
(acquisition throws), other I/O errors, reuse of process identifiers.

### ServiceProcess

*State.* That of the lock and of the loop, `phase` (where `runAgentService` is, from
boot through the phases of `ProductionServiceLifecycle.#stop`) and `gaveUp` (the
second `stop()` of the loop ended undrained too).

*Actions.* The process `Service` takes the lock (`repository.open`), starts the loop,
serves when its recovery scan has ended, and shuts down on a signal, a loss or an
error: `StopAccepting` (the dispatcher's flag), `Drain` and `Close` (`stop()` of the
loop, the second time only if the first did not drain) and `CloseRepository`, which
releases the lock. `ServiceDies` may come anywhere and takes the memory with it. The
other processes are offline commands: lock, work, release.

*Abstractions.* The other resources (authority, memory worker, channels, HTTP) are
closed between the same points. Before the service serves nobody handles signals,
and a signal is a death; an error of boot is thrown between two awaits, and never
while `start()` waits for the recovery scan. `interruptAllExecutions`, awaited before the
loop's stop, is taken to settle: every attempt is aborted, and `RunExecution` has
what that does to a Run.

### GovernedDeletion

*State.* `row`, `binding` and `provider` are Threads, tasks and memories, `tomb` the
`deletion_tombstones`, `payloads` and `files` the payload rows and their ciphertext
files, `artifacts` what is derived on disk, `cmd` the command that holds the lock,
`expired` the list of a purge. `HeldBy` says which references a payload has, and with
which objects each of them goes. `asked`, `since` and `reopened` are history variables:
what the Owner asked to delete, since when an object is in Trash (whoever put it there;
a restore by the CLI or the service ends it), and which Threads the service has
restored while their tombstone stays.

*Actions.* `TrashObject`, `RestoreObject` and `DeleteImmediately` are the commands up to
the end of their transaction, with `#deleteCore` (rows, detached tasks, payloads that
nothing refers to) in `DeleteRows`; then files one by one, artifacts, and the last
write of the tombstone. `ListExpired` and `PurgeNext` are `purgeExpiredTrash`, which takes
the lock for each object. `Crash` may end a command anywhere, `FilesFail` and
`RemoveArtifacts` have the I/O errors. Between the commands the service restores,
trashes and gives up Threads, resolves their tasks, archives and deletes memories and
completes their projection.

*Exceptions.* Two things the documents promise do not hold (section 6), and the two
properties of the passing run say so. `VerifiedIsGone` is about all content but the
titles of Threads. `RetentionHonoured` asks of every purge that the tombstone's deadline
has passed, and of all objects but the `reopened` ones that they have been in Trash for
the whole retention.

*Abstractions.* Every payload is a file. A Thread that is archived is `open`, as its
row says. A projection may complete whenever the memory's status fits, whatever its
revision. The cutoff of a purge is not in the future. Tombstones of single Runs and
payloads, and the outbox, audit and projection rows deleted with the rest, are left
out.

### ModelInvocation

*State.* `acct`, `alloc` are the ledger's rows, `ident` the status of the identity
rows, `claim`/`held` the execution claim of a Run or projection job, `caller` the
memory of a call site between two awaits. `sent` counts physical requests and
`overrun` cost above a reservation.

*Actions.* `begin` reserves and writes the identity in one transaction, or replays
what is there; then the permit, `markStarted`, the request, and `settle`,
`markUnknown` or `release`. Between any two the claim or the authority may be
lost, the claim taken again, or the process restarted, after which the call
sites are gone and the rows are left to the late settlement and to `finalize`.

*Abstractions.* Costs are small numbers; models, providers, prices and token
counts are left out. The three call sites (Pi stream, trusted provider,
embedding client) differ in which step they leave out, which the actions' guards
show. The retry of one logical call is its next sequence number.

### BackgroundWork

*State.* `occ` and `budget` are the occurrence rows and their accounts, `dsp` a
`dispatch()` between its three transactions, `wrk` a worker with the row it listed
or the lease it holds, `fence` and `now` the deployment's token and the clock.

*Actions.* `Dispatch` (`createOccurrence`), `Ingest` (the admission port), `Reserve`
(`reserveBackgroundAdmission` with every way it blocks), `claimOccurrence` and
`settleOccurrence` with their refusals, deaths of either side, `Tick` and
`Supersede`.

*Abstractions.* See the module's head: the Run of an occurrence, child allocations
and `missed` are left out. The revisions of each row are bounded by `MaxRev`, which
bounds retries and not the number of actors.

### SandboxExecution

*State.* `row`, `occ`, `intent` are the journal: the latest observation of a job, its
claim on the workspace, and the tool-result intent. `host` is the process the
claim is about. `worker`, `rec` and `tool` are the three coroutines (the Worker's
`run()`, a `reconcile()`, the runtime tool's `execute()`), each with the record it has
read. `auth` says what the frozen authority still permits.

*Actions.* One per transaction and per await, of the service, the worker and the
host, with a restart of either process. Evidence of supervision is valid for a
second in the code; `Elapse` makes it stale at any time.

*Abstractions.* Plans, facts and digests are reduced to known or unknown; the v1
ledger, output streaming and readiness probes are left out.

### ToolInvocation

*State.* `cap`, `dir`, `approval`, `used`, `revoked`, `handle`, `receipt` are database
rows (the capability, the directory grant's revision, approval requests, one-time
grants, handles, consumed invocations); `context`, `saved`, `intent` and `result` are
the records a call keeps under its own keys; `run` and `fence` the Run and the
authority. `at` is where the service is in the call in progress, `job` the worker's
view of a phase. `late` and `over` say which deadlines have passed: the expiry
frozen for a call, shared by its approvals, grants and handles, and the deadline
of one worker request.

*Actions.* A call goes through the steps of its workflow (`ReadSteps`,
`CodingSteps`). Each step is authorized (`Active`, `Check`, `List`, `Consume`, `Ask`:
`ActionPolicyService.evaluate` with one action per await); if it is a phase, a handle
is loaded or issued (`Load`, `Issue`, `Create`, `Keep`) and the phase executed
(`Enter`, `Replay`, `Record`, `Admit`, `Send`, `Poll`, `Event`, `Settle`, `Final`,
`GiveUp`: `#execute`). A step that needs the Owner suspends the Run, and `Resume`
starts the call over from its first step. The worker fetches its input under the
live receipt (`Work`) or is refused (`Decline`). The Owner answers, revokes,
cancels, disables, reviews and switches versions at any point.

*Abstractions.* One Run, whose tools are called one after the other, as the runtime
does. Arguments, paths, targets, digests and classifications are checked against
frozen values in the code and are left out, except the two that change under a
call: the authority's token and the directory grant's revision. The policy of
these tools has no rules, so that a grant is the only way to be allowed. The
sandboxed path of a request is in `SandboxExecution`. `barred`, `closed` and `effects`
are history variables.

### WorkspaceCommit

*State.* `preview` and `operation` are the gate's rows, `journal` the transaction's
journal file. `private`, `lock` and `index` are paths that point to inodes, `content`
what is in an inode: the version of the Owner's staged entries and the task
entries added. `head` is the commit HEAD names, `call` the service's calls in
progress, `active` the in-process set `activeIndexes`, `boot` the process identifier,
`git` the lock the Owner's git process holds.

*Actions.* One per await of `CommitGateService.commit` and of `GitIndexTransaction`'s
`commit` and `reconcile`, among them the exceptions' paths through catch and
finally. A kill may come between any two; a failing write is `Fail`. The Owner's
git takes `index.lock` by exclusive creation, stages or commits, and renames it in.

*Abstractions.* Equal contents have equal digests. Building the tree and the next
index is one step: it touches private files only. The two looks of
`removeOwnedLock` (`lstat`, then `unlink`) are one step, because a lock with the
service's identity is removed by nobody else.

### AuthorityTransfer

*State.* `db[r]` is the database of root `r` (deployment and transfer rows, the latest
lease), `file[r]` its `authority.json`, `packages` and `backups` what export and
`backup create` leave, `job[r]` the command or service that holds the lock, `seen[r]`
what a command has read of the file before it asked for the lock. `tenures` is a
history variable: the row each root last served under.

*Actions.* Each write of database, file or directory is one action, in the order of
the code, and `Die` may end a process between any two. `RestoreFails` is the
failure path of restore, which puts the previous data back.

*Abstractions.* A check that fails (digest, key, schema, manifest) is a command
that ends early. Waiting for a dead service's lease is left out, as a start after
the wait is the same start.

## 3. Runs

| Run | Instance | States | Shows |
|---|---|---|---|
| `attempt` | one delegating Run, one wait, one report of its worker, two faults, fairness | 702,049 | `AtMostOnce`, `SingleOutcome`, `NoOrphan`, `EvidenceKept`, `DecisionAwaited`, `EventuallyAtRest` |
| `faulty_turns` | two turns of a Thread, the first of an older release, a wait each, one progress event, one fault | 3,884,151 | `ThreadOrder` |
| `service` | the service and two offline commands, two at the lock at a time, three deaths, fairness | 123,829 | `ExclusiveAmongLiving`, `ReleasedIsQuiet`, `DeadOwnerBlocksNobody`, `WakeupServed`, `FailureEndsService` |
| `authority` | one process and its restarts, two overlapping starts, two faults, fairness | 155,526 | `NoLeakedLease`, `MirrorRecoverable`, `LossNoticed`, `Fenced` |
| `model_invocation` | a Run with two calls and a job with one, two call sites, two claims, two sequences, one fault | 1,523,678 | `AtMostOneSend`, `LedgerBalances`, `WithinLimits`, `NoOrphanReservation` |
| `background` | three occurrences of two jobs, one dispatcher, two workers, two attempts, three instants, two tokens | 1,484,346 | `AdmissionLimits`, `ReservationFollowsWork`, `SettledByHolder`, `OutcomeIsKept` |
| `sandbox` | a foreground writer and a background reader that overlap, one restart | 1,147,259 | `WriterIsAlone`, `ReleaseIsSafe`, `DeliveredIsSettled` |
| `transfer` | three roots, two successive transfers, two claims a root, a recovery point, one fault | 1,209,192 | `OneAuthority`, `SourceStaysRetired`, `NeverGoesBack` |
| `tools` | a file read or a coding tool, three troubles, fairness | 360,719 | `EffectsAreApproved`, `WithdrawalHolds`, `CallIsAnswered` |
| `workspace_commit` | one preview, two commands for it, two calls at once, an edit and a move of HEAD by the Owner, one kill | 1,949,681 | `OwnerLockKept`, `OwnerIndexKept`, `ResultIsTrue`, `IdentifiableLock` |
| `deletion` | two Threads, a task, a memory, four payloads (one with two references, one a title), three commands, two transactions of the service, two faults, one retention | 5,590,904 | `ContentTracked`, `VerifiedIsGone`, `RetentionHonoured` |
| `lock_takeover` | small instance | | `Exclusive` is violated, see 6 |

*Bounds.* `MaxFaults` counts crashes, failing steps, lost leases, lost renewals,
unknown costs, authority losses and stops together. In `attempt` two are needed for
the deep cases: one to interrupt the attempt, one to interrupt its recovery.
`MaxWaits = 1` gives a stretch before and one after a wait; an event (`MaxEvents`) or
a worker's report (`MaxReports`) a save between the call and its end. With a runtime
event as well, all of `attempt`'s properties hold on 1,512,481 states. Two Runs are
enough for the turn order, which compares pairs. Three processes share the state
root in `service`: a takeover needs a dead owner, somebody who recovers
it, and a third to find what that leaves. Two are at the lock at a time; what the lock promises however many contend is proved
(section 4), and `lock_takeover` has all three at once. To exhaust the four rounds of an
acquisition takes more, and that bound is left to the proof of `TypeOK`. Type
invariants that are proved, `CallsRecorded`, `PendingHasPump`, `StoppedIsQuiet` and
`FailureIsFinal`, are not part of a run.

In `model_invocation` the limits admit two of the three calls, so that the Run's
second call and the job compete for the last unit, and a cost may exceed its
estimate; the second sequence is the retry after a release, the second claim the
takeover after a lost one. In `background` one slot of two is kept for the
foreground occurrence, which shares its job with another, and the third competes
for capacity and budget; the clock reaches a lease's expiry, a retry's delay and
the deadline. In `sandbox` the writer has seven observations, enough for a whole
life with a reconciliation and a quarantine, the reader three. In `transfer` a root
is exported, its target activated and exported again; a second claim makes a
recovery point older than the file. With three claims a root the same properties
hold on 3,050,117 states.

In `tools` three troubles are shared by withdrawals, changes, the worker's death
and restarts: a disabling between update and rollback, or a revocation with a
failing worker, takes two, and what follows from it a third. One call is enough for
the path of a call; with both calls one after the other and two troubles the
invariants hold on 2,292,382 states, and with one trouble all four properties on
375,105. In `workspace_commit` two commands for one preview meet at the journal, a
kill leaves one to be reconciled by the other, and four inode numbers are for the
index and three files made, by the service or the Owner's git, in any order.
With two lists of dirty paths a result may report, so that a repeated completion
differs from the first, the properties hold on 3,617,329 states.

In `deletion` a task's definition is also the payload of its Runs' triggers, which go
with the task or the Thread, whichever is deleted first, while the definition goes
with the task only; a message, a memory's content and a title have one holder each;
three commands are a trashing,
a deletion that fails or dies and its retry, or a trashing, a list and a restore in
between; two transactions of the service resolve a task and change the object; the
clock reaches the end of the retention.

Deadlock is not checked where a service with nothing to do, or whose work all
waits for the Owner, may stop. Symmetry is used for call sites, the two calls of
the Run, and workers, which no guard tells apart; no run with symmetry checks a
liveness property.

*Fairness.* `attempt` assumes that the process goes on (a supervisor restarts it,
and a runtime or worker stream ends, because the Run's deadline timer interrupts
it), that a lease nobody renews expires, and that the authority lease of a dead
process expires. It assumes nothing of the Owner, of budgets or of faults. `service`
assumes that callbacks of the event loop run and pumps settle or run into the
deadline of a stop, that a shutdown that has begun goes on (each phase awaits
promises that settle), and that a process goes on with its acquisition or release;
it assumes nothing of wakeups, signals and deaths. `authority` assumes
that the renewal timer fires and operations in progress go on; it assumes
nothing of `assertActive`, which only work calls, and of the callers of `start()`
and `stop()`.  `tools` assumes
that the service goes on with what it has at hand (the event loop) and that time
passes (deadlines and the Run's own expiry); it assumes nothing of the worker, which
may never answer, and of the Owner, who may never decide. The modules of model
calls, background work, sandbox, workspace commits, transfer and deletion state no liveness:
their progress is driven by callers that may stop asking, and section 6 lists
states that the code leaves for good.

Every property has a mutant in `PROJECT.json`: a plausible slip in one mapped
definition under which TLC finds the property violated.

## 4. Proofs

Every theorem is for any value of the constants, under the module's named
assumptions on them: any number of Runs, processes, jobs, calls, roots or objects
and any bounds. TLC has also checked each inductive invariant on the instance of the
module's run. Names in parentheses are the properties.

**`RunExecutionProofs`**: `TypeCorrect`, `CallsAreRecorded` (`CallsRecorded`),
`CalledAtMostOnce` (`AtMostOnce`), `OneOutcome` (`SingleOutcome`), `NoRunIsLost`
(`NoOrphan`), `TurnsInOrder` (`ThreadOrder`), `EvidenceIsKept` (`EvidenceKept`) and
`DecisionsAreAwaited` (`DecisionAwaited`).

`AtMostOnce` is not inductive: whether an attempt may call the runtime depends on
what it has read, perhaps long ago. `CallsRecorded` adds two things. `Unspent`
says that a stored checkpoint without a terminal status from which an attempt
could start (not `runtime_running` or `reconciling`) belongs to a Run whose
current stretch has not called the runtime, and the same for workers.
`Consistent` relates the attempt's memory to the stored row at each point where
it can wait: in particular, at the point before `runtime.run()` the stored
checkpoint already is `runtime_running` or terminal, so that no later claim starts from
it. That is the write-ahead discipline of the Coordinator, and the
compare-and-set on the checkpoint revision together with the lease check keeps it
true when the Owner or a later attempt writes in between.

The outcome of a Run is in two rows, its status and its checkpoint, which the
Coordinator writes one after the other. `OutcomeInv` adds `RowsFit`, which pairs of
them can be stored together, and `MemoryFits`: an attempt that still holds its
execution lease knows that what it has read is what is stored (`Knows`), so that a
write it has decided on leaves a fitting pair; one that has lost the lease is refused
by the fence and may know nothing. `MemoryFits` also says that no earlier turn
of the Thread is active while a Run is owned, which is the order of the turns.

A request becomes pending while the attempt that called the runtime may already have
lost its lease, and before the wait is stored. `SuspensionInv` says that the row of a
Run with a pending request is of a phase (`Parked`) that can be claimed only as an
approval wait, and that no attempt in memory, with its lease or without, is on its way
to a call (`Ready`): a claim of an undecided wait, possible once the deadline has
passed, can only lead to its failure.

**`ServiceProcessProofs`** has three parts. Of the lock, for any number of processes:
`LockTypeCorrect`, `OnlyTheDeadLeaveLocks` (`NoLeftover`, which no run lists) and
`ExclusiveUntilDeath` (`ExclusiveAmongLiving`). The latter needs `Orderly`: before the first death no
process is evicting, because every owner that was read is alive, and therefore a
holder's own record is still in place. Of the loop: `LoopTypeCorrect`,
`PendingHasItsPump`, `DrainedIsQuiet` and `FailedForGood` (a failed loop never serves
again), from an invariant that says which of the loop's fields go together. Of the
service: `QuietWhenReleased` (`ReleasedIsQuiet`), `ServiceLeavesNoLock` and
`ServiceExcludesCommands`. A step of the service is a step of the lock, of the loop, of
both or of neither, so that the first two invariants carry over; `PhaseInv` ties the
phases of the service to both: it holds the lock from the boot's acquisition to its
close, and when it closes, the loop has drained or was never started, unless the
service gave up waiting for it.

**`AuthorityLifecycleProofs`**: `TypeCorrect`, `LeasesAreKept` (`NoLeakedLease`),
`MirrorIsRecoverable` (`MirrorRecoverable`) and `LifecycleIsFenced`, the refinement of
`FencedAuthority`. The argument of the refinement sorts the steps by what they do to
the rows (`Ends`, `Claims`, `Commits`): a step ends at most one lease, claims the next
token when no lease is live, or commits a command under the live lease of the
current token. That no lease is leaked needs to know who is to end it: `StartOps`
says that overlapping `start()` calls of a process have generations of their own, that
one whose generation is current finds the process starting, and that one about to fail has
ended its lease; `StopOps` and `Records` that a record which is not in force names no
lease anybody must end. `Copies` says that what is written to the mirror was read from
the deployment, whose token only grows.

**`OwnerDataProofs`** has two parts.

Of governed deletion: `ContentIsTracked` (`ContentTracked`),
`VerifiedMeansGone` (`VerifiedIsGone`) and `RetentionIsHonoured` (`RetentionHonoured`).
`Tombs` says what goes together of a tombstone, its row and its files: files are
noted only once the object is gone, and none of them is named by a payload's row any
more. `Kept` says that a payload that an object now gone referred to is still
referred to by another, since the deletion has unlinked the others: without it
a verified deletion would not mean that the content is gone. `Working` gives what
the command at hand has done so far, and `Retained` where deadlines come from: a
retention after the trashing, unless the service has restored the Thread since. Both
exceptions of the properties (section 2) are part of the theorems: titles are no part of
`Kept`, and `Retained` says nothing of when a `reopened` Thread was trashed.

Of workspace commits: `CommitTypes` (`TypeOK`), `OwnerLockHolds` (`OwnerLockKept`),
`OwnerIndexHolds` (`OwnerIndexKept`), `ResultHolds` (`ResultIsTrue`) and
`IdentifiableHolds` (`IdentifiableLock`), from `CommitInv`. None of the four properties is
inductive, as each depends on how far a call has come. `InodesApart` is what makes
recovery safe: an inode that a journal, a private lock or a call names was made for
one preview and is never the Owner's, so that a lock told by its identity is the
service's own. `OneInside` gives the index to one call at a time, and `Committing` and
`Reconciling` say for each point of that call what it holds: whose the lock is
(`Locked`), that the index is still the frozen one and the lock's content the next one,
and that the commit is published before the index is installed. A reconciliation
finds a lock by the journal as it read it, not as it is now; the two name the same
inode wherever it installs. The Owner's git may act between any two of these
steps: what it does, it does when there is no lock or the lock is its own, which
is what keeps the statements about the index true while the service has the lock.

All of this assumes `~Recycled`: the file system does not give the number of a
removed inode to a new file while a journal still names it. The code does not see to that,
and without it TLC violates `OwnerLockKept` (section 6), so that the
assumption is part of each theorem rather than of the model.

**`SandboxExecutionProofs`**: `SandboxTypeCorrect`, `WritersAreAlone`
(`WriterIsAlone`), `ReleasesAreSafe` (`ReleaseIsSafe`) and `DeliveriesAreSettled`
(`DeliveredIsSettled`). The invariant is a statement about each job, `SoundJob`, and
two about all: `Shared`, two overlapping claims that are bound and held are both for
reading, and `Queued`, recovery examines bound records only. `SoundJob` says what a
job's record tells of its claim and its host (`Claimed`), what the worker's copy
of a row is still good for (`Watching`), that a reconciliation acts on the record it
read or is refused (`Looking`), and what a hand-over has behind it (`Handing`). What
makes the late observations harmless is that the final facts, a host that is gone and a
settled result, are never taken back (`Extends`).

**`ToolInvocationProofs`**: `ToolTypeCorrect`, `EffectsHaveApprovals`
(`EffectsAreApproved`) and `WithdrawalsHold` (`WithdrawalHolds`). `Progress` says of the
call at hand what each point rests on: a worker phase on a used grant, then on a
saved handle, then on a recorded request; the reading of a file on the use of the
disclosure's grant too, although that was two steps before and the call may have
been executed again in between. `Consents` says that a grant that was used was
approved, which no later answer changes, and that receipts rest on used grants; `Acts` that
the worker knows phases with a receipt only, and never waits for the input of one
it has acted on. For withdrawals, `Barred` keeps the reason why a phase cannot act: its
grant is revoked, or the Run has ended or the capability is disabled, both for good. A
closed call is held back in one of three ways (`ClosedCall`), according to what was
withdrawn and how far the call had come: its last result can no longer be recorded as a
success, its last phase no longer returns, or its last disclosure is refused.

**`AuthorityTransferProofs`**: `TransferTypeCorrect`, `OneDeploymentIsActive`
(`OneActiveRow`), `AuthorityIsUnique` (`OneAuthority`), `SourcesStayRetired`
(`SourceStaysRetired`) and `AuthorityNeverGoesBack` (`NeverGoesBack`). `OneActiveRow`, no
database names two active deployments or an activated transfer whose source is
not retired, is not inductive, because import and restore bring in copies made at
another time and root. The invariant says of every copy (live, package, recovery point,
and the two a restore holds) that it is `Sound` for the root it belongs to. Export makes
the package's only possible active row inactive before the package is made, which
is why a copy may change its root.

Databases are copied and put back, and so cannot say who serves; `authority.json` only
moves on. `TokenInv` treats it as a token: its holder is the root whose file is active,
or that has named the transfer nobody has activated yet, and there is one holder
at most (`OneHolder`); a package is published after the file of its source was
marked, a file prepared from a published package, and a process that claims or serves
has an active file. `EpochInv` is about the epoch and the fence of a tenure: the holder's
epoch is the latest, a root has one epoch from its activation on however old
the database it was restored from, and fences are counted on from the leases of the
database. The last part depends on `ExportedUnused`, as `NeverGoesBack` does.

**`BudgetProofs`** is about two models that share one policy.

Both need sums over sets of any size. `Budget` therefore defines `Sum` by counting units,
so that what is known of the cardinality of finite sets gives what is needed of sums:
that they are numbers (`SumType`), split over disjoint sets, grow with their parts
(`SumMonotone`), and change by what one summand changes (`SumChange`). An assumption of
`MCModelInvocation` compares it with a fold.

Of the calls: `CallTypes` (`TypeOK`), `OneSend` (`AtMostOneSend`), `DoubleEntry`
(`LedgerBalances`), `LimitsHold` (`WithinLimits`) and `NoOrphans`
(`NoOrphanReservation`), from `InvocationInv`. At most one send is not inductive by itself:
what a second call site may do depends on what it has read and on rows that were
released. `RowsInOrder` says that the rows of a call follow one another and only the last
was not released, which is what lets `begin` look at the latest row alone.
`NotYetSent` and `OneOnTheWay` speak of the call sites whose `markStarted` can still
succeed, because their claim is the parent's latest and their row is reserved or
started: there is one of them per call at most, and its call was not sent. A new row is
begun only after a release, so that whoever was on the way of the old one no longer is; a
projection's attempt that takes a reservation over finds no other one of its claim.
The ledger's part holds since a transaction changes one row and one account by the same
amount; `finalize`, which sweeps many rows, computes the reservation from those it leaves.
`WithinLimits` allows for `overrun`, and a settlement raises it by as much as it exceeds its
estimate.

Of the occurrences: `AdmissionLimitsHold` (`AdmissionLimits`), `ReservationHolds`
(`ReservationFollowsWork`), `HolderHolds` (`SettledByHolder`) and `OutcomeHolds`
(`OutcomeIsKept`), from `BackgroundInv`. The steps are sorted by what they do to one row and
its account (`Parked`, `Granted`, `Claimed`, `LeftOpen`, `Settled`). `Paid` is the
strengthening: work that was admitted has an account in order, an account with an
unknown result belongs to a row that waits for a retry, and a row that is not there yet is
empty; `IngestedFirst` says that a dispatch about to reserve has ingested its trigger. A claim
or a takeover leaves the account alone, so that only an admission, which checks all
limits, adds to what is held.

`OneActiveRow` and the type invariants that are proved are not part of a run.

*Only model-checked.* All liveness, since fairness is out of the prover's reach; every
invariant and action property of a passing run is stated by a theorem. Outside the runs, the
type invariant of `BackgroundWork` holds on the instance of its run; the shapes of
the rows that the proofs about it use are proved (`Shapes`). What `WorkspaceCommit`
promises on a file system that reuses inode numbers is not proved, since it does not hold.

## 5. Not modelled

See `components`. Most of the 139,000 lines of the implementation are schemas and
contracts, request validation, row parsing, user interface, transports, admin
commands and adapters of external services: control and data with no interleaving
of their own, which a model would repeat and not check. Of the protocols that are
left, Thread submission with the event outbox and memory projection are the ones
a model would help with (section 7).

Of the parts touched: command replay, payload validation, more than one
delegation per Run, the batch limits of a pump, several service processes at once
(in `RunExecution`), encryption and retention (in `AuthorityTransfer`), calls with
handles exposed to the model, managed tasks and the pre-approval of public search (in
`ToolInvocation`), worktrees and file operations of a workspace, the GitHub
delivery and attention parts of `sqlite-durable-operations.ts`, Thread messages, titles and
forks, and tombstones of single Runs and payloads (in `GovernedDeletion`).

## 6. Where code and documents differ

With a run:

* `lock_takeover`: a contender that found the owner dead renames whatever is at
  the lock's path by then. If the lock has changed hands meanwhile, a live lock is
  removed and two processes are inside. Product writes stay fenced by the
  authority lease; offline operations rely on the lock alone.

Seen while modelling, without a run:

* A cancellation committed while the attempt saves `runtime_running` makes
  `saveCheckpoint` adopt the cancelled checkpoint, and the attempt still calls
  `runtime.run()`. The lease check of model admission then refuses the model call.
* An input failure of a Run resumed from an approval wait is not recorded, because
  quarantine refuses `awaiting_approval`.
* A wakeup during the startup recovery of the dispatch loop begins a pump at once.
* The transition table at `docs/architecture-v0.1.md` lines 163 and 164 lacks the
  moves of accepted and building_context Runs to `reconciling_external_result`.
* Ledger: `docs/architecture-v0.1.md:426` expects an account with an unknown cost to be
  `reconcile_required`; one that is `over_budget` already stays so
  (`sqlite-model-budget-operations.ts:732`, `:795`). Either way nothing new is reserved.
  `finalize` has no production caller.
* Background work: a repeated dispatch after a restart passes the stored
  occurrence's authority on and is refused (`durable-background-work-service.ts:324`);
  an occurrence whose deadline passes with its holder dead keeps its slot and its
  reservation; nothing leads out of `blocked_credentials` and `blocked_approval`;
  `missed` is never written and `OCCURRENCE_TRANSITIONS` never consulted. The service
  has no production caller yet.
* Sandbox: an acknowledgement that arrives after the supervision evidence has
  aged does not release the workspace
  (`sqlite-sandbox-execution-v2.test.ts:425` expects a release when it is prompt); a
  reservation whose worker never binds, and a released record without a known
  effect, keep their claim; an intent that was prepared and not dispatched cannot
  be dispatched again.
* Tool calls: the receipt of a phase expires with its request
  (`sqlite-capability-invocation-operations.ts:1081`), so that a file read that waits
  longer for its next approval than `workerRequestMs` cannot read its confirmed
  inspection back and stops the Run; `docs/adr/0023-durable-hitl-execution.md` has a
  resumed call read confirmed phases back and gives approvals their own expiry.
  After a restart of the service the frozen token differs, and a resumed call ends
  with `FILE_READ_CONTEXT_CHANGED` or `CODING_CONTEXT_CHANGED`. A consumed handle
  survives a switch of version and its rollback, which is why `WithdrawalHolds`
  leaves version switches out
  (`docs/archive/plans/2026-08-26-authorization-capability-governance-plan.md:153`). A
  grant revoked between listing and use still allows an action whose usage is on
  record; the admission refuses it later.
* Workspace commits: a lock is recognised by device and inode number. With
  `Recycled = TRUE` and three inodes TLC violates `OwnerLockKept` in 18 steps: a failed
  commit frees its inode, the Owner's git gets the number for its own `index.lock`,
  and the next reconcile removes it
  (`docs/execution/plans/2026-08-26-host-files-code-workspaces-plan.md:192` says that a
  restart handles its own locks only). A kill in `reconcile` between the creation of
  the private lock and the journal that names it (`git-index-transaction.ts:252`) makes
  every later reconcile fail with `EEXIST`. `durableCreate` writes a journal at its
  final path, so that a kill may leave it torn, which stops recovery.
* Deletion of titles: `threads.title_ref` is not among the references the deletion of a
  Thread collects (`sqlite-governed-deletion.ts:885`), and nothing else removes the
  payload and the file of a title. They stay after `deleted_verified`, while
  `docs/architecture-v0.1.md:292` has unreferenced payloads deleted and
  `docs/execution/specs/2026-08-26-portable-durable-web-agent-design.md:626` asks that
  every target reads back as absent before a deletion is verified. With `Payloads` for
  `Payloads \ Titles` in `VerifiedIsGone` TLC finds it in four steps: the deletion of a
  Thread, its files, its artifacts, the tombstone.
* Trash after a restore by the service: the service restores a trashed Thread and
  leaves the tombstone, and `purge-expired` looks at the tombstone only. When the old
  deadline has passed the open Thread is destroyed. Without the exception of `reopened`
  in `RetentionHonoured` TLC finds it in seven steps: the trashing (three), the restore,
  the deadline, the list and the deletion of the purge. A restore between the list and
  the deletion ends the same way, and a Thread trashed a second time keeps the first
  deadline (`sqlite-governed-deletion.ts:345`). The same design document has objects
  leave Trash by a restore (line 619) and a deletion job begin when the Owner asks for
  it or Trash has expired (line 624).
* Deletion: the permanent deletion of a Thread by the service writes neither
  tombstone nor job, and nothing carries it out but the CLI. A retry repeats all
  targets, not only the unverified ones of `docs/architecture-v0.1.md:292`; the CLI
  refuses to repeat the deletion of a Thread whose row is gone, which leaves
  `purge-expired`, and there is no retry with back-off
  (`docs/execution/specs/2026-08-26-portable-durable-web-agent-design.md:626`). One
  object that throws (a Thread with an active task) ends a purge for all after it. A
  cutoff in the future is accepted, and then a restore after the list is overrun.
* Recovery: a recovery point taken before the latest service start brings back a
  lower fencing token than `authority.json` has, and `assertMirror`
  (`production-authority-lifecycle.ts:149`) refuses the start that
  `docs/runbooks/backup-restore-runbook.md:159` asks for; nothing brings the file back.
  TLC finds it in `AuthorityTransfer` as a state with `job[r].pc = "restored"`, an active
  file and `~StartAllowed(r)`.
* Transfer: an import that dies between the data and `authority.json` leaves a root
  whose `activate` commits the database and then fails every time; an export that
  dies between database and file cannot be repeated; `assertEmptyTarget` looks at
  `data/` only; a package may be imported into two roots that were given the same
  deployment ID; authority cannot return to a deployment ID it has left. The
  recovery commands read `authority.json` before they take the lock. A root
  exported before its first lease hands on a token ahead of its leases, and a
  recovery point older than the epoch's first lease lets one (epoch, fence) be
  served twice in the same root (`NeverGoesBack` states both exceptions).

## 7. Plan

1. Done: `RunExecution`, `DispatchLoop`, `AuthorityLifecycle` with
   `FencedAuthority`, `StateRootLock`, `Budget`, `ModelInvocation`, `BackgroundWork`,
   `SandboxExecution`, `AuthorityTransfer`, `ToolInvocation`, `WorkspaceCommit`,
   `GovernedDeletion`, the composition `ServiceProcess`, and the theorems of section 4.
2. `Outbox` and `Threads`: command replay, at-least-once publication, submission.
3. Memory projection: claims, retries and the revision a job belongs to.
