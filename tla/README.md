# Formal model of the unified AI gateway

This directory holds TLA+ models of the parts of this repository in which
several processes, replicas or callers share state, the TLC configurations that
check them on small instances, and theorems about them proved with TLAPS for
every value of the constants. `PROJECT.json` links every definition to the lines
of code it models, every run to the properties it checks, every property to a
plausible bug that breaks it (a *mutant*), and lists the hazards the properties
are for.

Paths below are relative to `src/apps/ai-gateway-service/src/` unless they start
with `docs/`.

To check a run: `tlc -workers 2 -config X.cfg M`. To check the proofs of a
module: `tlapm M.tla`.

## 1. The system

The repository is a self-hosted AI gateway: an HTTP service that authenticates
callers, routes requests to model providers, and runs "workforces" of AI
employees that take tasks from a queue and act on external systems. A
deployment may run several gateway processes that share a PostgreSQL database;
a single process can use SQLite, JSON files or memory instead.

The code splits into a few subsystems that *coordinate* (leases, fences,
idempotency records, approvals, journals, quotas) and many that *compute* on one
request's data (routing scores, prompt assembly, retrieval, formatting). The
first kind is what is modelled: their state is shared, their steps interleave
with those of other processes, and their failure modes are out of reach of unit
tests.

| Component | State | Operations | Hard behaviours | What makes it correct |
|---|---|---|---|---|
| HTTP idempotency, PostgreSQL (`http/postgresIdempotencyCoordinator.ts`) | one table of request identities (state, payload hash, owner, fencing token, lease, retention); per request: the lease-lost flag, the wait deadline | `execute` = `claimOrRead`, `executeOwned` (heartbeat, confirm, `complete`/`fail`), `waitForOwner` | lease expiry racing completion, crash of the owner, lost acknowledgements, forgetting racing re-use, waiters with stale reads | an operation runs at most once per identity and retention; whoever gets an answer gets the answer of the recorded owner; every waiter is answered |
| HTTP idempotency, SQLite (`http/sqliteIdempotencyCoordinator.ts`) | the same table in one file, no fencing token | the same | renewal and completion are guarded by the owner alone, not by the lease | the same |
| HTTP idempotency, memory (`http/idempotencyCoordinator.ts`) | a map of promises, bounded | `execute` | eviction and retention while in flight | the same, within a process |
| External effect gate (`external-effects/`) | one permanent idempotency reservation per effect; the caller's fence | `reserve`, `commitExternalEffect` | a fence lost between its check and the effect; unknown outcomes | an effect is attempted at most once, and never by an owner whose claim ended before its last assertion |
| Central workforce queue (`workforce/postgresWorkforceTaskQueue.ts`) | task rows (status, assignee, fence, retries, expiry) | `enqueueMany`, `claimTask`, `updateTaskStatus`, `completeTask`, `failTask`, `cancelTask`, `renewTaskClaim`, `requeueTask`, recovery | the claim is committed on another connection than the assignment; recovery and owners race; partial failure of every step | one live owner per task; only it settles the task; no task is stuck |
| Fenced claims (`workforce/postgresTaskClaimLease.ts`) | claim rows (agent, token, fence, expiry) | `issue`, `renew`, `revoke`, `release`, expiry | issue over an expired claim, quota of live claims | fences of a task grow; one live claim per task |
| In-process queue and claims (`workforce/taskQueueManager.js`, `taskClaimLease.ts`) | maps with a JSON snapshot | the same as the central queue | restart from an old snapshot | the same, for a single writer |
| Workforce approval and lifecycle (`workforce/postgresExecutionApprovalGate.ts`, `postgresExecutionLifecycle.ts`) | approval rows, versioned lifecycle rows | request, decide, consume, transition | two replicas consume one approval | an approval is consumed once; versions never go back |
| Workforce executors (`workforce/workforceDagExecutor.ts`, `workforceControlledExecutor.js`) | the tasks of one plan | claim, run role, complete/fail/cancel | an unfenced cancel after a lost claim; no renewal while a role runs | dependencies settle before dependants |
| A2A (`http/a2aGateway.js`, `http/a2aTaskStore.ts`, `http/postgresA2ATaskStore.ts`, `http/a2aExecutionLease.ts`) | task rows and their counters, execution leases, and in each process the bindings between the two | execute, save, cancel, acquire and release a lease | events saved late, twice or never; cancellation on one replica racing completion on another; a grace timer racing a save | a task settles once and under its lease; the counters are exact; no ended execution keeps its lease |
| Durable workflow runs (`workflow/durableWorkflowRunStore.ts`) | a run with fenced checkpoints | start, checkpoint, finish, recover | crash between two nodes | a completed node is not run again |
| Agent governance (`agent-governance/`) | registry, approvals, owner lease, journals | register, approve, consume, switch authority | two owners of one file store | one writer at a time |
| Rate limits, WebSocket leases, usage ledger, virtual keys | shared counters and leases with an expiry | consume, acquire/renew/release, reserve/settle | limits crossed by concurrent requests; leases that outlive their process | a limit is never exceeded; a reservation is settled once |
| Audit (`enterprise/`) | a hash chain over files or rows | append, verify, rotate | crash between the file and its head | the chain verifies after any crash |
| Client feedback (`capabilities/localClientSqliteExecutionFeedbackOutbox.ts`, `localClientExecutionFeedbackDispatcher.ts`, `localClientManagementService.ts`, `localClientSqliteFeedbackDedupStore.ts`, `localClientSqliteVerificationAuthorityEpochStore.ts`) | outbox rows with a lease; deduplication rows with a lease; the client registry in memory, in a signed file and, as a generation, in a checkpoint store | stage, claim a batch, send, acknowledge, release; `processFeedback`; save the registry; register, discover, revoke | the event is in three stores with three leases, and none of them shares a transaction with another; saves carry each other's changes; crash between a reservation and its finalization | a sample is counted once per admission and not lost; a revocation that was saved stands; an event is delivered in the end |
| Client execution (`capabilities/localClientExecutionOrchestrator.ts`, `localClientExecutionReceiptReconciliation.ts`, `localClientLoopbackReceiver.ts`, `localClientExecutionReceiptRecoveryService.ts`, `workforce/postgresExecutionLifecycle.ts`) | the receipt journals of the gateway and of the client, the central lifecycle, the outbox | initialize, start, prepare, arm, dispatch, confirm, stage, complete; the client's accept, claim, commit, record; recover | the orchestrator, an adapter it gave up, a request under way and the recovery all go on at once; any answer may be lost; either side may die | an effect is had at most once, the lifecycle tells the truth about it, the stores agree, and what can be known is acted upon |
| Client claims and configuration (`capabilities/localClientExecutionClaims*`, `localClientConfigTransaction.ts`) | claims, configuration journals | claim, release, apply, roll back | crash during a multi-file write | configuration is all or nothing |
| Everything else (routing, providers, caches, knowledge, forge, MCP, observability, native, console, packages, tools) | per request, or sequential in one event loop | — | — | see `PROJECT.json` |

How they interact: the HTTP layer wraps mutating routes in the idempotency
coordinator; the workforce executors are clients of the queue, which uses the
claim store on a *separate* database connection; the external effect gate
composes the idempotency coordinator (one permanent reservation per effect) with
`assertTaskClaimActive` of the queue; the A2A gateway uses the
claim store for the leases of its executions, in one database with its task table;
the workflow store uses leases of the same shape. The orchestrator of a client
execution, and after a crash the recovery service, stage one feedback event for a
verified receipt in the outbox; the dispatcher sends it as a feedback request to the
registry, which asks the deduplication store whether to count it.


## 2. The modules

```
OnceRegister                        FencedTasks      TaskOutcomes  EffectVerdicts     promises
    ^                 ^                  ^                ^              ^
    | refines         | refines          | refines        | refines      | refines
PostgresIdempotency  SqliteIdempotency  WorkforceQueue   A2ATasks   ExecutionReceipts
    ^                                                                    | EXTENDS
    | EXTENDS                                                            v
ExternalEffectGate                                              LoopbackReceiver

FeedbackAggregate <--refines-- FeedbackDelivery --EXTENDS--> ClientFeedback --EXTENDS--> ClientRegistry
```

`MC*.tla` instantiate a module for TLC, `*Proofs.tla` hold its theorems.

**`OnceRegister`** is the abstract idempotency store: a cell per identity that is
opened with a growing token, closed at most once with one verdict, and opened
again only when no opener was alive for a whole retention. An opener that was thought
to be gone may show that it is alive (`Revive`: the SQLite store renews a lapsed lease).
It has no table, lease, sweep or SQL.

**`PostgresIdempotency`** models `http/postgresIdempotencyCoordinator.ts`. `row`
is the table, `lastToken` the fencing sequence; the rest is the local state of
the calls of `execute()`: `pc[r]` is the statement that call `r` runs next, in
the end its answer. Every SQL statement, and every transaction (they hold an
advisory lock), is one action:

| Action | Code |
|---|---|
| `ReadExisting`, `RefuseFull`, `Claim` | `claimOrRead`: expire leases, delete expired rows, read, count, insert |
| `LoseClaim`, `FailToClaim` | COMMIT applied and not acknowledged; any other failure |
| `Heartbeat`, `HeartbeatFails` | the renewal timer of `executeOwned` |
| `OperationEnds`, `ConfirmLease`, `Complete`, `RecordFailure` | the rest of `executeOwned`, each with its failures |
| `Poll`, `MarkUnknown`, `Reread`, `GiveUp`, `PollFails` | `waitForOwner` |
| `Crash`, `Tick` | a process dies; the database clock advances |

**`SqliteIdempotency`** models `http/sqliteIdempotencyCoordinator.ts`. There is no
fencing token (`lastToken` numbers the insertions and stands for the random
owner), the guards of renewal and completion leave the lease out, a waiter whose
row lapsed or vanished claims again, and a statement uses a timestamp `d` older
than the moment it is applied, because the code reads the clock before
`BEGIN IMMEDIATE` waits for the lock of the file.

**`FencedTasks`** is the abstract queue: a fence is drawn for a task only while no
lease on it is live, only the newest fence settles a task, and only under a live
lease.

**`WorkforceQueue`** models `workforce/postgresWorkforceTaskQueue.ts` with the part
of `workforce/postgresTaskClaimLease.ts` that it uses. `claimTask` keeps its
transaction open, with row locks, while the claim is inserted and committed by
another connection, so it is a sequence of actions: `Select` (with the recovery
that precedes it), `Issue`/`LoseIssue`/`FailIssue`/`IssueRefused` (the claim
store's transaction), `Apply`/`CommitClaim`/`LoseCommit`, `Revoke`. The other
operations touch both tables through one connection and are one action each:
`Enqueue`, `Start`, `Complete`, `Fail` (all through `Mutate`, the code's
`mutateOwnedTask`), `Cancel`, `Requeue`, `Recover`. `renewTaskClaim` is three
statements: `RenewLoad`, `RenewClaim`/`RenewExpired`/`RenewFails`, `RenewTask`.

**`ExternalEffectGate`** models `external-effects/externalEffectGate.ts` and the tool
boundary on top of `PostgresIdempotency`, whose actions it takes one at a time:
`AssertReserve`, `Execute` (a step of the store), `Refuse`, `AssertCommit` (the read
that `commit` awaits), `Commit` (what it does with the answer), `Call`. `Grant` and
`Lapse` are the two things the workforce queue does to the fence of a task, as
`FencedTasks` allows: a new and larger fence after the last claim ended. `GateTick` is
the store's `Tick` with the ages that the properties read. The provider dispatch gate
reserves in the same way without a fence, which is the case `NoFence`.

**`TaskOutcomes`** is the abstract A2A boundary: a task is open until it settles,
a lease is drawn only on an open task without one, completed and failed are
written only under the lease, and whatever settles the task ends the lease.

**`A2ATasks`** models the PostgreSQL mode of the A2A gateway. `tasks`, `total`,
`perOwner`, `leases` and `lastFence` are the database; `bound` is `boundFences`
of each process; the rest belongs to an execution, that is, to an accepted
`SendMessage`.

| Action | Code |
|---|---|
| `Begin`, `Acquire`, `LoseAcquire`, `AcquireFails` | `execute`, `acquire` with `issue` and `issueGuard` |
| `Bind`, `BindAborted`, `BindRefused` | `bindExecutionLease` and the first events |
| `Call`, `CallFails`, `Publish`, `Suppress` | the gateway or workforce call, the terminal event, the `finally` block |
| `Abort`, `HeartbeatFails`, `Grace` | the deadline, the renewal timer, the grace timer |
| `Resolve`, `Commit`, `LoseCommit`, `SaveFails` | `save`: before the database, its transaction, its failures |
| `Cancel`, `LoseCancel`, `CancelSettles` | `cancelTaskAtomically`: its transaction, and what the process does then |
| `Crash`, `Lapse`, `Expire` | a process dies; a lease or a row runs out |

The executor does not write the table. It publishes events that the A2A SDK,
which is not in this repository, saves later through the task store: `queue[e]`
holds the events not saved yet. The SDK may save an event twice (each consumer of
a bus saves it), stops at the first save that throws, and reports an error that
leaves `execute` as a failure of the task, if it knows the task. The submitted
and the working state are one: neither is terminal. The failure of a terminal
event with another id than the task's goes elsewhere (`Rethrow` publishes nothing
then). The cancellation event that the cancelling process publishes on its own
bus repeats a row that is stored already, and is left out.

**`ClientRegistry`**, **`ClientFeedback`** and **`FeedbackDelivery`** are three layers
of one pipeline. The first is the registry as one of its clients sees it: the object
in memory (`mem`), the file (`disk`), the queue of saves, the snapshot being written
and the checkpoint store. The second adds the deduplication rows and
`processFeedback`, in which an action is what runs between two awaits. The third adds
the outbox and its dispatcher and composes the three.

| Action | Code |
|---|---|
| `SaveStart`, `SaveWrite`, `Saved`, `SaveFails` | `saveRegistry`: reserve a generation and take the snapshot, rename the file, finalize; a failure of any of these |
| `Supersede`, `Revoke` | `register`, `discover` (a copy takes the client's slot); `revoke`, `heartbeat`, `disable` (in place) |
| `Post`, `Refused`, `Claim`, `InProgress` | a feedback request, `admitAndClaim` |
| `Replayed`, `Reconcile`, `MarkersFull`, `Count` | the branches of `processFeedback` after the claim |
| `Counted`, `Uncounted`, `Finish` | `acknowledgeApplied` and the removal of the marker, or the sample taken back |
| `Stage`, `ClaimBatch`, `Send`, `Accepted`, `NotAccepted`, `AcknowledgeBatch`, `BatchNotAcknowledged`, `ReleaseBatch` | `enqueue` of the outbox; the dispatcher's run |
| `LeaseLapses`, `ClaimLapses`, `Retires`, `Purge`, `Crash` | leases and retentions end; the process dies and starts again |

A client is its `revoked` flag, its markers and, in place of its statistics, how often
each admission of an event is contained in them. Whoever saves, saves what everybody
has changed by then: `writing` is a copy of `mem`, so a snapshot can contain a sample
whose request has not been answered yet, or a client that a failed request is about to
put back.

**`FeedbackAggregate`** is what the three promise together: the statistics contain an
admission at most once; one that they contain may be taken back until it is final; an
admission is called applied, and an event let go, only when it is final. `FeedbackDelivery`
maps it to the file (`statistics`), to what every copy of the client contains that may
still reach the file (`Final`, over `Kept`), to the rows of the deduplication store
(`Settled`) and to those of the outbox (`Gone`), without the events in `orphaned`.

**`EffectVerdicts`** is the abstract execution: an effect is had at most once, and a
verdict is given only when it is true and stays true.

**`LoopbackReceiver`** and **`ExecutionReceipts`** model the two sides of a governed
execution on a local client. The client's journal row, its handler and its effect are
the receiver's; the lifecycle, the gateway's journal, the orchestrator, the adapter and
the recovery are the gateway's. The two share only `wire`, one request or response
under way.

| Action | Code |
|---|---|
| `Initialize`, `Start`, `CancelUnstarted`, `PrepareDispatch`, `ArmDispatch`, `CommitReservation`, `Fails`, `PersistFailure` | `execute` of the orchestrator up to the dispatch, and `persistPreCommitFailure` |
| `Dispatch`, `Authorize`, `Post`, `Receive`, `AdapterFails`, `ConfirmReceipt`, `Returned`, `NotReturned` | the adapter and what the orchestrator hears of it |
| `Stage`, `MarkStaged`, `Complete`, `Finalize`, `Salvage`, `Pause` | after the receipt, or without one |
| `Accept`, `PrepareAction`, `RecordFailedBeforeEffect`, `ClaimEffect`, `CommitEffect`, `RecordCompleted`, `Lose`, `Abandon` | the loopback receiver and its journal |
| `Pick`, `ResolvePrepared`, `Query`, `Apply`, `RecoveryStages`, `RecoveryMarks`, `RecoveryFinalizes`, `RecoveryCompletes`, `RecoveryEnds`, `RecoveryFails` | `recoverOnce` of the recovery service, one await at a time |
| `Cancel`, `Expire`, `PurgeRetired`, `Crash` | the owner cancels; retentions end; the gateway dies |

Abstractions that hold for all modules:

- Statements are atomic, as the database makes them; a statement may fail before
  it is applied, or be applied and its acknowledgement lost.
- Time is relative. A row holds the time it has left and `Tick` counts it down, so
  no clock needs a bound and the proofs cover any lifetimes.
- Names, payloads, hashes, results and error texts are model values; what
  distinguishes them in the code (same key, same fingerprint, same fence)
  distinguishes them here.
- In the queue, agents are the calls they make, there is one plan scope, and the
  order in which `claimTask` prefers tasks is nondeterministic: the properties hold
  for any preference. Recovery's select-for-update is one step. `assertTaskClaimActive`
  reads what `RenewLoad` reads and changes nothing.
- In the SQLite store a COMMIT that fails is not applied. Its retention must be
  longer than `busy_timeout` (5 s); the configuration allows 1 s, and then the store
  promises no retention at all.
- In `A2ATasks`, save, cancel and issue are one action each. Save and cancel hold
  the advisory lock of the task; whatever can settle a task or draw a lease holds the
  claim-capacity lock; and the purge at the start of every save updates the counter
  row of the namespace, which orders all saves. The binding that a cancellation
  acts upon is read in the action that commits. A lease that has run out counts as
  absent: every query asks for `expires_at`, and `issue` deletes such rows first.
  Time is not measured there: a lease, a row or a grace period may end at any
  moment, and the clocks of two hosts differ by a constant (`Clock`).
- The feedback pipeline has one gateway process, because the outbox, the deduplication
  store and the registry are local files under an owner lease, and one client, because
  the stores share no state between clients but their capacities. Failures (of
  a device or a store, a time-out, a death of the process) draw on `MaxFaults`.
- In `ExecutionReceipts` the client may lose a request, die or be revoked at any step
  without drawing on `MaxFaults`; faults of the gateway's side do. Claim, reservation
  and approval may fail at every use. Challenges, signatures and digests, by which the
  two sides know that they speak of one execution, are left out. Time is not measured:
  the grace period of the recovery may be over while the orchestrator is only slow.
- `Rounding` is 0 in the passing runs, because a unit of model time stands for much
  more than the half millisecond that is lost; one run sets it to 1 (section 5).

History variables, which only properties read: `quiet` (time since an owner of a
key was last alive), `past` (the last fences of a task), `age` (time since a
reservation was answered), `orphaned` (events whose sample went into an object that had
left the registry), `effects` (how often the client had an effect).

## 3. The runs

| Run | Question | Properties |
|---|---|---|
| `idempotency` | do three requests, two identities, two payloads and a table of one entry ever run an operation twice, replay the wrong one, or hear contradictory things, and is every waiter answered whatever the owner does? | `AtMostOnce` (refines `OnceRegister`), `ReplayFaithful`, `VerdictsAgree`, `EveryWaiterAnswered`, `TypeOK` |
| `idempotency_rounding` | what does the rounding of the remaining lease do? (violated) | `UnknownMeansLost` |
| `sqlite` | the questions of `idempotency` for the SQLite store, with stale timestamps | `AtMostOnce`, `VerdictsAgree`, `TypeOK` |
| `sqlite_reclaim` | is "in progress" said only of an operation that somebody started? (violated) | `InProgressHasOwner` |
| `queue` | do the two tables implement fenced ownership, with two calls and two tasks, and is a queued task taken up although orphaned claims block it? | `FencedOwnership` (refines `FencedTasks`), `LiveOwnerKeepsTask`, `TakenUp`, `TypeOK` |
| `effects` | is an effect attempted once per retention, does its tombstone stand, and is an owner stopped whose claim ended before its last assertion? | `OneAttempt`, `TombstoneStands`, `StaleOwnersStop`, `GateTypeOK` |
| `a2a` | do the tables implement `TaskOutcomes`, are the counters exact, and does a grace timer run for every ended execution? | `SettledOnce` (refines `TaskOutcomes`), `CountersExact`, `WatchdogSet`, `TypeOK` |
| `a2a_fence` | is a late terminal write of an earlier execution rejected? (violated) | `StaleWritesRejected` |
| `feedback` | is a sample counted once, and for good when a store says so, although it is posted and dispatched at the same time and everything may fail three times? | `CountedForGood` (refines `FeedbackAggregate`), `CountedOncePerAdmission`, `AppliedIsCounted`, `RevocationStands`, `TypeOK` |
| `feedback_batch` | are two events of one batch, with room for one marker, both delivered and both counted? | `DeliveredIsCounted`, `MarkersFit`, `EveryEventDelivered` |
| `feedback_lost` | is every event that the outbox has let go counted, even when its client is replaced meanwhile? (violated) | `AcknowledgedIsCounted` |
| `receipts` | does the lifecycle tell the truth about the effect, do the stores agree, and is every row finalized that can be? | `EffectsMatchVerdicts` (refines `EffectVerdicts`), `StoresAgree`, `FeedbackIsEarned`, `EveryRowFinalized`, `TypeOK` |

**Bounds.** Three requests are an owner, one that takes its identity over or sweeps it
from another identity, and one that waits or replays; two identities are needed for a
sweep caused by someone else, two payloads for a reused key, and a table of one entry
makes it full. A lease of two units can be renewed halfway, and a retention of two or
three can outlive it or end with it. In the queue there are two tasks and two calls,
each of which claims at most once: the second finds what the first left behind on either
task, `RecoverBatch = 1` makes recovery stop at its limit, `MaxClaims` and `MaxEntries`
are reached, and `MaxRetries = 2` lets a task be requeued once and then exhausted. In
the gate, two fences are an owner and its successor, and the third request is a caller
without a fence or a second call of either; from some initial states (`MCInit`) that
caller is about another effect, and its claim sweeps the store between the owners'
calls. In `A2ATasks` two executions are on one task or on two, on one instance or on
two: `Init` chooses; the table has room for one row of the owner and there is one lease,
so that the second execution meets both limits; the clock of one instance is ahead of
the other's. Tokens and fences are not bounded: each call claims at most once. In
`idempotency` the requests are interchangeable, and so are keys and payloads; the run
starts from one order of the questions they ask (`MCInit`) instead of using symmetry,
which is not sound for liveness. `effects`, `sqlite`, `a2a` and `feedback` check no
liveness and use symmetry.

In `feedback` two requests are the dispatcher's and a caller's, about one event; it can
be admitted twice, so that a retired row leads to a second count that is not a duplicate;
three faults are, for example, a lost save, a lost acknowledgement and a crash; one other
request replaces or revokes the client. In `feedback_batch` two events share a batch and a
client with room for one marker, so that the second must wait until the first's is
removed. `feedback_lost` needs no fault. In `receipts` there is one execution: nothing
but the attention of the recovery is shared between executions, and `SF(Pick(x))` stands
for that; three faults let an answer be lost on each of three stores. An admission is
counted up to 2, one more than is right.

Deadlock is checked everywhere but in `receipts`, where the one execution may
have ended and the client may have stopped; elsewhere `Tick` (in `A2ATasks`: `Crash`) is always
possible, or a request can always come or a row retire, so no run can stop.

**Fairness.** Only two things are forced in the stores and the queue: time passes
(`WF(Tick)`), and a process that is alive takes the next step of its loop
(`WF(WaitForOwner(r))`, `WF(ClaimTask(c))`), because Node's event loop runs every timer
and every database reply. No query has to fail or succeed, no operation has to end, no
request has to arrive, no process has to crash, and no owner has to renew. In `queue`
`MaxClaims` is not less than the number of tasks, and `TakenUp` says what it excludes.

`FeedbackDelivery` asks for the same: the feedback requests that were begun go on
(`WF(Feedback)`), the dispatcher's timer returns (`WF(Dispatch)`), a lease that nobody
works under lapses. `SF(Send)` says that callers do not use up the request slots of the
model, which the code does not have. `EveryEventDelivered` assumes that the registry is
usable and has room for a marker from some time on: a registry that is refused stays so
until an operator acts, and a full client stays full until a failed event is retried.

`ExecutionReceipts` forces the recovery only: it takes its next step (`WF(Recovery)`) and
comes to every row of its list (`SF(Pick(x))`). The second holds when the batch is larger
than the number of rows that fail for good, since the list is sorted by age and a row that
fails keeps its place. The orchestrator, the adapter and the client may stop at any step.

## 4. The proofs

The theorems hold for every set of requests, keys, payloads, tasks, calls and
fences, and every lifetime, wait and capacity that satisfies the named
assumptions: `TimesAssumption` (leases and retentions are positive),
`MaxEntriesAssumption`, `BoundsAssumption`, `NobodyAssumption` and
`NoFingerprintAssumption` (the null values are not values), `GateAssumption` (what
the gate configures, and that fences are positive numbers), `TasksAssumption` and
`ExecAssumption` (every task has a scope; null values), `ClockAssumption` and
`CapacityAssumption` (clocks are numbers, capacities are positive),
`AdmissionAssumption`, `MaxMarkersAssumption`, `BatchAssumption`, `FaultsAssumption`
(numbers), `OtherAssumption`, `NoClientAssumption`, `NoOpAssumption`, `NoEventAssumption`,
`NothingAssumption` (null values) and `PostedAssumption`. TLC evaluates them in every run.

`PostgresIdempotencyProofs`
: `TypeCorrect`, `Invariance` and `Implementation` (`Spec => AtMostOnce`). The
  refinement is not inductive by itself: that a forgotten row may be claimed again
  needs to know that its owner has been gone for a retention. `RetentionInv` says
  so: an absent row has been quiet for `Ttl`, and a settled row's quiet time and
  its remaining retention add up to at least `Ttl`. The proof first reduces every
  action to what it may do to one row (`Untouched`, `SettledNow`, `Removed`,
  `Claimed`, `Aged`; lemmas `RequestMovesStore` and `TickMoves`), and then shows
  for each of these that it keeps the invariant and is a step of the register.
  `Replays` (`Spec => []ReplayFaithful`) and `Verdicts` (`Spec => []VerdictsAgree`, assuming
  `Rounding = 0`) follow from `AnswerInvariance`. What a reader was told is compared with
  what became of the owner, which it never sees: only the token ties them. `TokenInv` says
  that a token has one owner and one identity for ever, `RowInv` that the row of a token says
  what its owner was told, `ReaderInv` that the reader's answer does. The hard case is the
  reader that calls an owner lost: `Lost` (the owner has recorded nothing and does not hold
  its row) must stay true of it, and it is true in the first place only if a lease that reads
  as lapsed is one. With `Rounding = 1` it need not be, and `idempotency_rounding` shows what
  happens then; the other answers do not depend on it. This proof reduces every action
  to `Reads`, `Passes`, `Opens`, `Works`, `Records` or `Ages`.

`SqliteIdempotencyProofs`
: `TypeCorrect`, `Implementation` (`Spec => AtMostOnce`) and `Verdicts`
  (`Spec => []VerdictsAgree`). The moves carry both arguments: each action is one of
  `Reads`, `Passes`, `Opens`, `Works`, `Records` and `Ages`, and these say what becomes of
  every row. That the table keeps its bound follows from `RoomInv`, since the rows are
  finitely many and a claim adds one to those that the sweep leaves (`HasRoom`). In
  `RetentionInv` a timestamp may be `Busy` old, so the retention promised is `Ttl - Busy`.
  The answers need no lease: an owner whose row was swept is lost because its insertion
  never is in flight again, which `Lost` and the one owner of an insertion say.
  `InProgressUnlessReclaimed` is about the answer that `sqlite_reclaim` refutes: it holds in
  every behaviour without `Reclaim`. Its invariant, `StartedInv`, says that every row, and
  every row a waiter remembers, was inserted by a request that went on to run.

`WorkforceQueueProofs`
: `TypeCorrect`, `Invariance`, `LiveOwner` (`Spec => []LiveOwnerKeepsTask`) and
  `Ownership` (`Spec => FencedOwnership`). The inductive invariant has four parts:
  `LockInv` (what a call between its two transactions has locked cannot change
  under it), `FenceInv` (fences grow; a live claim carries the newest fence of its
  task), `HolderInv` (the holder of a live claim finds its task active under its
  fence), `RetryInv` (an unsettled task has a retry left).

`ExternalEffectGateProofs`
: `StoreUnchanged` shows that a step of the gate is a step of the store or
  none, so the store's theorems hold under it (`ReservedAtMostOnce`).
  `GateInvariance` adds `ClaimInv` (a token has one owner), `StandInv` (a
  reservation's tombstone is in the table with the owner's token, and its age
  and remaining retention add up to at least `Ttl`) and `StageInv` (only who was
  told `created` passes the second assertion). Two reservations of one
  key that are both younger than `Ttl` would both own the one row, hence
  `EffectsAttemptedOnce` and `TombstonesStand`. A fence that is over does not come back
  (`OverForGood`) and nobody passes under it, hence `StaleOwnersStayStale`
  (`GateSpec => StaleOwnersStop`) and `StaleOwnersNeverAttempt`.

`A2ATasksProofs`
: `TypeCorrect`, `Invariance`, `Counters` (`Spec => []CountersExact`), `Watchdog`
  (`Spec => []WatchdogSet`) and `Settlement` (`Spec => SettledOnce`). `CountInv`
  adds to the exact counters that the rows are finitely many and that a live row is
  stored: lemma `PurgeAndInsert` relates the cardinality of the rows after a purge
  and an insert to what `Counted` computes, and `SaveCounts` applies it to the table
  and to each scope; the capacities of `TypeOK` follow from it and not from the
  guard alone. `BindInv` says that a binding belongs to its slot, that a heartbeat
  beats only for the bound execution, and that the timer runs once that execution is
  over. For the refinement, `StepMoves` reduces every step to one of six things it
  may do to the database, each a step of `TaskOutcomes` or a stutter.
  `StaleOnlyByBorrowedBinding` is about the writes that `a2a_fence` finds: in every behaviour
  in which no save resolves the binding of another execution (`OwnBinding`), each verdict
  carries the fence of its own writer. `OwnInv` adds to this that an execution has no fence
  before it has acquired a lease, so that its fence never changes under its verdict.

`FeedbackDeliveryProofs`
: `TypeCorrect`, `RevocationIsForGood` (`Spec => RevocationStands`) and `CountedOnce`
  (`Spec => []CountedOncePerAdmission`). That a sample is counted once is a statement about
  up to five copies of one client: the object, the file, the snapshot being written, the
  copy from before the sample, and the detached object a request still holds. `Sound` says
  of one copy what makes a second count impossible: each admission is contained at most
  once, none that is still to come, and that of a pending event only together with its
  marker. `CountInv` says it of every copy, and every action either makes a copy from a
  sound one (`Follows`) or counts an event whose marker is not there. The revocation needs the checkpoint store: an earlier client is
  put back only after a save has failed, and then nothing is saved any more.

`FeedbackStoresProofs`
: `MarkersAlwaysFit` (`Spec => []MarkersFit`), `AppliedStaysCounted` (`Spec =>
  []AppliedIsCounted`), `DeliveredStaysCounted` (`Spec => []DeliveredIsCounted`),
  `DeliveredForEver` and `Implementation` (`Spec => CountedForGood`). None of the three stores
  looks into the file when it decides: the outbox believes an answer, the answer a row, and
  the row a save. The argument is about `HeldAll(m)`: every copy of the client that may still
  reach the file contains the admission `m`. `HeldStays` says that no step ends it, whichever
  copy is saved, put back or lost. What remains is when it begins. `PlaceInv` says where the
  client of the request at the head is and what the copy that may be put back does not
  contain, `CountingInv` that the sample is in whatever is being saved on the head's behalf,
  `MarkersInv` that no marker is without its sample and that none is cut off. `SecureInv` then
  says that an event which nobody will count any more (applied, or pending with its marker in
  memory, or about to be acknowledged) is in every kept copy, unless it is orphaned. From it
  `AcceptInv` follows for the request that is about to answer, and `OutboxInv` for the one
  answer that the dispatcher waits for and for the part of the batch that it has behind it.
  Every step is one of `Outside`, `Saving`, `Begins`, `Trims`, `Leaves`, `Counts` and `Dies`
  (`NextMoves`), so each invariant has one case for each of these, and so has the refinement:
  saves, departures and deaths save the statistics, `Trims` applies an admission that is final
  already, an acknowledged batch lets go of what is, and the rest changes nothing or forgets.
  `LostOnlyByReplacement` is about what `feedback_lost` refutes: nothing is orphaned
  (`NoneLost`) in a behaviour in which no `Supersede` comes while a request that has claimed
  its event has yet to count it.

`ExecutionReceiptsProofs`
: `TypeCorrect`, `StoresNeverDisagree` (`Spec => []StoresAgree`), `FeedbackAlwaysEarned`
  (`Spec => []FeedbackIsEarned`) and `VerdictsAreTrue` (`Spec => EffectsMatchVerdicts`). The
  invariant ties the orchestrator's place to the two journals (a row is armed before
  anything can be on the wire; an effect needs a client row in state `effect-started` or
  `completed`; a row resolved as not dispatched leaves nothing on the wire and no adapter
  that could post), and the recovery's next action to what it has read. The refinement then
  takes one step of the lifecycle, the effect, or neither.

Model-checked only: liveness (`EveryWaiterAnswered`, `TakenUp`, `EveryEventDelivered`,
`EveryRowFinalized`), because fairness and `ENABLED` are out of reach of the prover. Every
safety property of a passing run is a theorem. Of the four properties that the code
violates, three come with a theorem that names the one step without which they hold, and
the fourth is a theorem for `Rounding = 0` (`Verdicts`). No module
declares a RECURSIVE operator and no result needs induction over data.

## 5. What the models found

- **Rounding of the remaining lease** (`idempotency_rounding`). The read query of the
  PostgreSQL store rounds the remaining lease to whole milliseconds, so in the last
  half millisecond a waiter takes a live owner for lost and answers
  `PREVIOUS_ATTEMPT_UNKNOWN`, although that owner renews and completes. The effect
  is a wrong answer, never a second run: `AtMostOnce` is proved for any `Rounding`.
- **A waiter that becomes an owner** (`sqlite_reclaim`). When the row a SQLite waiter
  polls is gone, its second `claimOrRead` may insert a new one; the waiter then
  answers "in progress" and runs nothing. Nobody owns the row until its lease lapses,
  and the identity then answers "unknown" for a retention. This insertion is the only
  cause: without it the answer is right (`InProgressUnlessReclaimed`).
- **A late event under a newer lease** (`a2a_fence`). The binding that lends its
  lease to a terminal write is looked up by task. If the terminal event of an
  execution is saved only after its grace period, when another execution of the
  task on the same instance has bound a lease, the earlier result settles the task
  under the later lease, and the later execution loses its own. The task still
  settles once and under a live lease (`SettledOnce` is proved); what
  `docs/multi-process-deployment.md:406-407` says, that stale executor writes are
  rejected, holds between instances and not within one. In the same way, the failure
  that the SDK reports for a second message, refused because the first one is
  running, may settle the task of the first. The binding is the only cause: if a save takes
  none but that of its own execution, no such write is accepted
  (`StaleOnlyByBorrowedBinding`).

- **A sample counted into a client that was replaced** (`feedback_lost`).
  `processFeedback` finds its client, then waits for the deduplication store. `register`
  and `discover` do not wait for feedback; each puts a copy of the client into its slot. The
  sample then goes into the old object, the save writes a registry without it, and the event is
  acknowledged in the deduplication store and in the outbox. It is in no statistics, and
  nobody sends it again: `docs/local-client-intelligence-gateway.md:255-256` calls the
  aggregate exactly-once. `AppliedIsCounted` and `DeliveredIsCounted` hold for all other
  events, and no event is lost unless a client is replaced just then
  (`LostOnlyByReplacement`).

Observations without a run:

- The payload of a reservation of the effect gate contains the fence, so a new owner that
  repeats its predecessor's call is told that the key belongs to another operation and not,
  as `docs/external-effect-fencing.md:191-192` has it, that the effect is already reserved.
  The effect is refused in both cases.
- `docs/a2a-protocol.md:130-133` still describes a race between revocation and the terminal
  write, which the transaction of `save` has closed.
- A role whose claim was lost cancels its task without a fence
  (`workforce/workforceDagExecutor.ts:246-248`), which `Cancel` allows against whichever
  owner the task has by then; `FencedTasks` therefore lets the gateway cancel any unsettled
  task, and promises owners no more than that.
- Without a checkpoint store, a failed feedback puts the client from before its sample back
  (`localClientManagementService.ts:1410`) over a revocation that came meanwhile, and the
  next save writes it. `RevocationStands` is therefore about registries with one.
- A pending row of the outbox has no retention, a row of the deduplication store has: an
  event delayed for longer than that is admitted anew. `CountedOncePerAdmission` and
  `DeliveredIsCounted` say what is left of exactly-once then.
- A crash between the reservation of a generation and its finalization leaves a registry
  that is refused until an operator acts, and the outbox waits for that.
- One event that is refused again and again keeps its whole batch from being acknowledged
  (`Receptive` excludes it).
- An armed row whose client knows nothing of it, or died after `accepted` or
  `effect-started` without a native receipt, is never decided, by design; it stays in the
  journal and counts against its capacity. So does a row whose lifecycle has expired.
- A gateway that dies between the start of a lifecycle and `prepareDispatch` leaves a running
  lifecycle that no journal row leads the recovery to.

## 6. Not modelled, and the plan

Left out of the modelled components: the creation of schemas, pools, TLS,
statistics and health reports; `revokeTask`, `revokeByPlanId` and `cleanup` of
the claim store (neither the central queue nor the A2A executor calls them); the
SQLite mode of the gate; of the A2A gateway the SQLite and memory stores, which have
no lease, the listings, and the graceful close of an instance, which does early what
the grace timers and a crash do; of the feedback pipeline the capacities of the outbox and
the deduplication store, the dispatcher's `close`, the audit log and the mode without a
deduplication store; of client execution the journal that refuses to work after a failed
fsync, the lifecycle in a file, the internals of claims, approvals and plans, the adapters
other than the loopback one, and `resume` and `forceStop`. While the gate awaits its last
assertion, and from there to the sink, a claim can still lapse, and a later owner reach its
sink first: `docs/external-effect-fencing.md:221-223` says so, the model does it, and no
property claims an order of sinks. `StaleOwnersStop` says who is left in that window.

Three hazards of the queue have no property: the limit of tasks per agent is read without a
lock, recovery skips rows whose retention is over, and a role that lost its claim cancels
without a fence. All are what the code does, and no document promises otherwise.

The models cover the lines that coordinate. Most of the repository computes on the data of
one request (routing, prompts, retrieval, consoles) or is a script, drill or report that
runs once; their lines have no interleavings to check, and the share of lines covered stays
small for that reason. `PROJECT.json` gives the reason for each component.

What could be modelled next, in order of what could go wrong in it:

1. Single-use approvals shared by replicas (`workforce/postgresExecutionApprovalGate.ts`):
   an approval is consumed once. `ExecutionReceipts` only lets it fail.
2. Durable workflow runs: fenced checkpoints and recovery
   (`workflow/durableWorkflowRunStore.ts`).
3. The DAG executor as the client of `FencedTasks`: waves, role failure, the unfenced
   cancellation.
4. Configuration transactions of local clients: a journal over several files and a crash
   between any two of them.
5. The memory coordinator, rate limits, WebSocket leases, the usage ledger and the
   audit chain, as far as their state is shared.
