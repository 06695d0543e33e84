------------------------------ MODULE A2ATasks ------------------------------
(***************************************************************************)
(* A2A tasks that several gateway instances execute, over one PostgreSQL   *)
(* database: the task table (http/postgresA2ATaskStore.ts), the execution  *)
(* leases (http/a2aExecutionLease.ts over workforce/                       *)
(* postgresTaskClaimLease.ts), the bindings between the two that an        *)
(* instance keeps in memory (http/a2aTaskStore.ts), and the executor that  *)
(* runs a message (http/a2aGateway.js).                                    *)
(*                                                                         *)
(* The executor never writes the table.  It publishes events; the A2A SDK, *)
(* which is external, saves them one by one later, possibly more than once *)
(* and possibly after the execution or its lease has ended.  The terminal  *)
(* write takes its lease from the binding of the task, not from the event. *)
(*                                                                         *)
(* A transaction is one action: save and cancel hold the advisory lock of  *)
(* the task, what can end a task or draw a lease holds the claim-capacity  *)
(* lock, and PURGE_EXPIRED_SQL updates the counter row of the namespace,   *)
(* which orders all saves.  Time is not measured: a lease or a row may     *)
(* lapse, and a timer fire, at any moment.                                 *)
(***************************************************************************)
EXTENDS Naturals, FiniteSets, Sequences

CONSTANTS
    Task,               \* task ids, of one namespace
    Owner,              \* scopes: tenant and owner
    OwnerOf,            \* the scope of a task
    Instance,           \* gateway processes
    Exec,               \* accepted SendMessage calls
    NoExec,             \* not an execution
    NoTask,             \* not a task
    Clock,              \* the clock of each host: two hosts may be further
                        \* apart than an execution is long
    MaxEntries,         \* options.maxEntries
    MaxEntriesPerOwner, \* options.maxEntriesPerOwner
    MaxLeases           \* maxClaims of the lease manager

ASSUME TasksAssumption == OwnerOf \in [Task -> Owner] /\ NoTask \notin Task

ASSUME ExecAssumption == NoExec \notin Exec

ASSUME ClockAssumption == Clock \in [Instance -> Nat]

ASSUME CapacityAssumption ==
    /\ MaxEntries \in Nat \ {0}
    /\ MaxEntriesPerOwner \in Nat \ {0}
    /\ MaxLeases \in Nat \ {0}

VARIABLES
    tasks,      \* the task table
    total,      \* the counter of the namespace
    perOwner,   \* the counters of the scopes
    leases,     \* leases[t]: the fence of the live lease on t, 0 if none
    lastFence,  \* the fencing sequence
    at, job,    \* at[e], job[e]: instance and task of e
    pc,         \* pc[e]: where e stands
    fence,      \* fence[e]: the fence of the lease e was given
    beat,       \* beat[e]: the heartbeat of that lease
    stop,       \* stop[e]: whether e was aborted, or cancelled, while it ran
    queue,      \* queue[e]: published events that are not saved yet
    saving,     \* saving[e]: the save under way and the binding it resolved
    bound,      \* bound[i][t]: boundFences of instance i, and whether the
                \* grace timer of the binding runs
    cancelling  \* cancelling[i]: a committed cancellation to act upon

db == <<tasks, total, perOwner, leases, lastFence>>
requests == <<at, job>>     \* never changed
vars == <<tasks, total, perOwner, leases, lastFence, at, job, pc, fence, beat,
          stop, queue, saving, bound, cancelling>>

-----------------------------------------------------------------------------
(* Tables and memory *)

Verdict == {"completed", "failed", "canceled"}

Absent == [state |-> "absent", stamp |-> 0, by |-> NoExec, fence |-> 0, live |-> FALSE]

(* by and fence: the execution whose event it is, and the fence consumed   *)
(* for it; only the properties read the fence.                             *)
TaskRow == [state : {"absent", "working"} \cup Verdict, stamp : Nat,
            by : Exec \cup {NoExec}, fence : Nat, live : BOOLEAN]

Event == [state : {"working", "completed", "failed"}, stamp : Nat]

(* A row that is stored and has not expired. *)
Visible(t) == tasks[t].live

Settled(t) == Visible(t) /\ tasks[t].state \in Verdict

Unbound == [exec |-> NoExec, timed |-> FALSE]

BoundTo(e) == [exec |-> e, timed |-> FALSE]

Idle == [step |-> "idle", binding |-> NoExec]

NoCancel == [task |-> NoTask, binding |-> NoExec]

Stored == {t \in Task : tasks[t].state # "absent"}

Live == {t \in Task : leases[t] # 0}

(* The rows that PURGE_EXPIRED_SQL deletes. *)
Stale == {t \in Stored : ~Visible(t)}

OwnedBy(o, S) == {t \in S : OwnerOf[t] = o}

HoldsLease(e) == fence[e] # 0 /\ leases[job[e]] = fence[e]

Binding(e) == bound[at[e]][job[e]].exec

Goto(e, where) == pc' = [pc EXCEPT ![e] = where]

(* The invocation is over. *)
End(e) ==
    /\ Goto(e, "done")
    /\ stop' = [stop EXCEPT ![e] = "no"]

Emit(e, state) ==
    queue' = [queue EXCEPT ![e] = Append(@, [state |-> state, stamp |-> Clock[at[e]]])]

Init ==
    /\ tasks = [t \in Task |-> Absent]
    /\ total = 0
    /\ perOwner = [o \in Owner |-> 0]
    /\ leases = [t \in Task |-> 0]
    /\ lastFence = 0
    /\ at \in [Exec -> Instance]
    /\ job \in [Exec -> Task]
    /\ pc = [e \in Exec |-> "idle"]
    /\ fence = [e \in Exec |-> 0]
    /\ beat = [e \in Exec |-> "off"]
    /\ stop = [e \in Exec |-> "no"]
    /\ queue = [e \in Exec |-> <<>>]
    /\ saving = [e \in Exec |-> Idle]
    /\ bound = [i \in Instance |-> [t \in Task |-> Unbound]]
    /\ cancelling = [i \in Instance |-> NoCancel]

-----------------------------------------------------------------------------
(* The executor: executeInvocation *)

(* The SDK starts an execution for a new task, or for one it has read and  *)
(* found to be neither expired nor settled.                                *)
Begin(e) ==
    /\ pc[e] = "idle"
    /\ \/ /\ Visible(job[e])
          /\ ~Settled(job[e])
       \/ \A x \in Exec : job[x] = job[e] => pc[x] = "idle"
    /\ Goto(e, "acquiring")
    /\ UNCHANGED <<db, requests, fence, beat, stop, queue, saving, bound, cancelling>>

(* An error leaves execute(), unless e was cancelled; the SDK then reports *)
(* the failure, under the id of the task or under an id of its own.        *)
Rethrow(e) ==
    /\ End(e)
    /\ \/ UNCHANGED queue
       \/ /\ stop[e] # "cancelled"
          /\ Emit(e, "failed")

(* issue: no live lease, the task not settled (issueGuard), and capacity.  *)
(* Rows of lapsed leases are deleted first, so they do not appear here.    *)
Grantable(t) ==
    /\ leases[t] = 0
    /\ ~Settled(t)
    /\ Cardinality(Live) < MaxLeases

Insert(e) ==
    /\ Grantable(job[e])
    /\ lastFence' = lastFence + 1
    /\ leases' = [leases EXCEPT ![job[e]] = lastFence']

Acquire(e) ==
    /\ pc[e] = "acquiring"
    /\ Insert(e)
    /\ fence' = [fence EXCEPT ![e] = lastFence']
    /\ Goto(e, "leased")
    /\ UNCHANGED <<tasks, total, perOwner, requests, beat, stop, queue, saving, bound,
                   cancelling>>

(* The lease is committed, and the acknowledgement lost: nobody renews it. *)
LoseAcquire(e) ==
    /\ pc[e] = "acquiring"
    /\ Insert(e)
    /\ Rethrow(e)
    /\ UNCHANGED <<tasks, total, perOwner, requests, fence, beat, saving, bound,
                   cancelling>>

(* Refused, or one of the stores is unavailable. *)
AcquireFails(e) ==
    /\ pc[e] = "acquiring"
    /\ Rethrow(e)
    /\ UNCHANGED <<db, requests, fence, beat, saving, bound, cancelling>>

(* The finally block.  markExecutionFinished finds the binding by task.    *)
Finish(e) ==
    bound' = [bound EXCEPT ![at[e]][job[e]] =
                 IF @.exec = NoExec THEN @ ELSE [@ EXCEPT !.timed = TRUE]]

(* bindExecutionLease, and the first events. *)
Bind(e) ==
    /\ pc[e] = "leased"
    /\ Binding(e) = NoExec
    /\ stop[e] = "no"
    /\ beat' = [beat EXCEPT ![e] = "on"]
    /\ bound' = [bound EXCEPT ![at[e]][job[e]] = BoundTo(e)]
    /\ Emit(e, "working")
    /\ Goto(e, "ready")
    /\ UNCHANGED <<db, requests, fence, stop, saving, cancelling>>

(* Already aborted: nothing is published, and the grace period starts. *)
BindAborted(e) ==
    /\ pc[e] = "leased"
    /\ Binding(e) = NoExec
    /\ stop[e] # "no"
    /\ beat' = [beat EXCEPT ![e] = "on"]
    /\ bound' = [bound EXCEPT ![at[e]][job[e]] = [exec |-> e, timed |-> TRUE]]
    /\ Rethrow(e)
    /\ UNCHANGED <<db, requests, fence, saving, cancelling>>

(* The release of a lease deletes the row of its own token, or fails. *)
Release(e) ==
    leases' \in {leases, [leases EXCEPT ![job[e]] = IF HoldsLease(e) THEN 0 ELSE @]}

(* Another execution of this instance still has the binding. *)
BindRefused(e) ==
    /\ pc[e] = "leased"
    /\ Binding(e) # NoExec
    /\ Release(e)
    /\ Rethrow(e)
    /\ UNCHANGED <<tasks, total, perOwner, lastFence, requests, fence, beat, saving,
                   bound, cancelling>>

(* assertActive: no renewal failed, and the lease is in the table. *)
AssertActive(e) == stop[e] = "no" /\ beat[e] # "lost" /\ HoldsLease(e)

Call(e) ==
    /\ pc[e] = "ready"
    /\ AssertActive(e)
    /\ Goto(e, "called")
    /\ UNCHANGED <<db, requests, fence, beat, stop, queue, saving, bound, cancelling>>

(* The gateway call throws, or reports an error. *)
CallFails(e) ==
    /\ pc[e] = "called"
    /\ IF stop[e] = "cancelled" THEN UNCHANGED queue ELSE Emit(e, "failed")
    /\ Finish(e)
    /\ End(e)
    /\ UNCHANGED <<db, requests, fence, beat, saving, cancelling>>

Publish(e) ==
    /\ pc[e] = "called"
    /\ AssertActive(e)
    /\ Emit(e, "completed")
    /\ Finish(e)
    /\ End(e)
    /\ UNCHANGED <<db, requests, fence, beat, saving, cancelling>>

(* The lease cannot be confirmed before or after the call, the execution   *)
(* was aborted, or the result is not one of the fake provider.             *)
Suppress(e) ==
    /\ pc[e] \in {"ready", "called"}
    /\ Finish(e)
    /\ Rethrow(e)
    /\ UNCHANGED <<db, requests, fence, beat, saving, cancelling>>

(* The deadline of the execution, a disconnect, or shutdown. *)
Abort(e) ==
    /\ pc[e] \notin {"idle", "done"}
    /\ stop[e] = "no"
    /\ stop' = [stop EXCEPT ![e] = "aborted"]
    /\ UNCHANGED <<db, requests, pc, fence, beat, queue, saving, bound, cancelling>>

(* A renewal that fails, or finds no live lease, aborts the execution. *)
HeartbeatFails(e) ==
    /\ beat[e] = "on"
    /\ beat' = [beat EXCEPT ![e] = "lost"]
    /\ stop' = [stop EXCEPT ![e] =
          IF @ = "no" /\ pc[e] # "done" THEN "aborted" ELSE @]
    /\ UNCHANGED <<db, requests, pc, fence, queue, saving, bound, cancelling>>

(* Mutant of Grace: the watchdog leaves the heartbeat running. *)
BugGrace(i, t) ==
    /\ bound[i][t].timed
    /\ bound' = [bound EXCEPT ![i][t] = Unbound]
    /\ Release(bound[i][t].exec)
    /\ UNCHANGED <<tasks, total, perOwner, lastFence, requests, pc, fence, beat, stop, queue,
                   saving, cancelling>>

(* terminalCommitGraceMs after the end of an execution: finalize(false).   *)
Grace(i, t) ==
    /\ bound[i][t].timed
    /\ bound' = [bound EXCEPT ![i][t] = Unbound]
    /\ beat' = [beat EXCEPT ![bound[i][t].exec] = "off"]
    /\ Release(bound[i][t].exec)
    /\ UNCHANGED <<tasks, total, perOwner, lastFence, requests, pc, fence, stop, queue,
                   saving, cancelling>>

-----------------------------------------------------------------------------
(* The task store *)

(* save resolves the binding before it waits for the database. *)
Resolve(e) ==
    /\ queue[e] # <<>>
    /\ saving[e].step = "idle"
    /\ saving' = [saving EXCEPT ![e] =
          [step |-> "resolved",
           binding |-> IF Head(queue[e]).state = "working" THEN NoExec ELSE Binding(e)]]
    /\ UNCHANGED <<db, requests, pc, fence, beat, stop, queue, bound, cancelling>>

(* The stored row is this very event, settled before. *)
Replays(e) ==
    LET w == Head(queue[e]) row == tasks[job[e]]
    IN  Settled(job[e]) /\ row.by = e /\ row.state = w.state /\ row.stamp = w.stamp

(* Mutant of FenceHolds: the fence is not compared with the lease table. *)
BugFenceHolds(b, t) == b # NoExec

(* assertActiveExecutionFence *)
FenceHolds(b, t) == b # NoExec /\ fence[b] # 0 /\ leases[t] = fence[b]

(* Mutant of Room: one row too many for a scope. *)
BugRoom(t) ==
    /\ total - Cardinality(Stale) < MaxEntries
    /\ perOwner[OwnerOf[t]] - Cardinality(OwnedBy(OwnerOf[t], Stale)) <= MaxEntriesPerOwner

(* Room for a new row, after the purge. *)
Room(t) ==
    /\ total - Cardinality(Stale) < MaxEntries
    /\ perOwner[OwnerOf[t]] - Cardinality(OwnedBy(OwnerOf[t], Stale)) < MaxEntriesPerOwner

(* Whether save persists the event. *)
Persists(e) ==
    LET w == Head(queue[e]) t == job[e]
    IN  /\ ~Settled(t)
        /\ Visible(t) => w.stamp >= tasks[t].stamp
        /\ w.state \in Verdict => FenceHolds(saving[e].binding, t)
        /\ Visible(t) \/ Room(t)

(* Mutant of Counted: the purge does not lower the counter. *)
BugCounted(n, deleted, inserted) == n + inserted

Counted(n, deleted, inserted) == (n - deleted) + inserted

(* The effect of the transaction of save on the database. *)
Save(e) ==
    LET w == Head(queue[e]) t == job[e] b == saving[e].binding
        added == IF Visible(t) \/ Replays(e) THEN {} ELSE {t}
    IN  /\ Persists(e) \/ Replays(e)
        /\ tasks' = [u \in Task |->
              IF u = t /\ ~Replays(e)
              THEN [state |-> w.state, stamp |-> w.stamp, by |-> e, live |-> TRUE,
                    fence |-> IF w.state \in Verdict THEN fence[b] ELSE 0]
              ELSE IF u \in Stale THEN Absent ELSE tasks[u]]
        /\ total' = Counted(total, Cardinality(Stale), Cardinality(added))
        /\ perOwner' = [o \in Owner |->
              Counted(perOwner[o], Cardinality(OwnedBy(o, Stale)), Cardinality(OwnedBy(o, added)))]
        /\ leases' = [leases EXCEPT ![t] =
              IF w.state \in Verdict /\ FenceHolds(b, t) THEN 0 ELSE @]
        /\ lastFence' = lastFence

(* consumeBinding(b) on instance i: finalize(true), unless finalized. *)
Consumed(i, t, b) ==
    IF b # NoExec /\ bound[i][t].exec = b
    THEN /\ bound' = [bound EXCEPT ![i][t] = Unbound]
         /\ beat' = [beat EXCEPT ![b] = "off"]
    ELSE UNCHANGED <<bound, beat>>

(* save returns.  A second consumer of the event bus saves the same event. *)
Commit(e) ==
    /\ saving[e].step = "resolved"
    /\ Save(e)
    /\ Consumed(at[e], job[e], saving[e].binding)
    /\ saving' = [saving EXCEPT ![e] = Idle]
    /\ queue' \in {queue, [queue EXCEPT ![e] = Tail(@)]}
    /\ UNCHANGED <<requests, pc, fence, stop, cancelling>>

(* A save that throws ends the SDK's processing of the events of e. *)
Drop(e) ==
    /\ saving' = [saving EXCEPT ![e] = Idle]
    /\ queue' = [queue EXCEPT ![e] = <<>>]
    /\ UNCHANGED <<requests, pc, fence, beat, stop, bound, cancelling>>

(* Committed, and the acknowledgement lost: the binding stays. *)
LoseCommit(e) ==
    /\ saving[e].step = "resolved"
    /\ Save(e)
    /\ Drop(e)

(* Refused, or the database is unavailable: rolled back, purge included. *)
SaveFails(e) ==
    /\ saving[e].step = "resolved"
    /\ Drop(e)
    /\ UNCHANGED db

(* revokeExecutionFenceForTask *)
Revoked(t) == [leases EXCEPT ![t] = 0]

(* The transaction of cancelTaskAtomically.  It compares no timestamps. *)
Cancelled(i, t) ==
    /\ Visible(t)
    /\ tasks[t].state \in {"working", "canceled"}
    /\ \/ /\ tasks[t].state = "canceled"
          /\ UNCHANGED tasks
       \/ /\ tasks[t].state = "working"
          /\ tasks' = [tasks EXCEPT ![t] =
                [Absent EXCEPT !.state = "canceled", !.stamp = Clock[i], !.live = TRUE]]
    /\ leases' = Revoked(t)
    /\ UNCHANGED <<total, perOwner, lastFence>>

Cancel(i, t) ==
    /\ cancelling[i] = NoCancel
    /\ Cancelled(i, t)
    /\ cancelling' = [cancelling EXCEPT ![i] = [task |-> t, binding |-> bound[i][t].exec]]
    /\ UNCHANGED <<requests, pc, fence, beat, stop, queue, saving, bound>>

(* Committed, and the acknowledgement lost: nobody is told. *)
LoseCancel(i, t) ==
    /\ cancelling[i] = NoCancel
    /\ Cancelled(i, t)
    /\ UNCHANGED <<requests, pc, fence, beat, stop, queue, saving, bound, cancelling>>

(* The instance lets go of the binding and aborts its executions. *)
CancelSettles(i) ==
    LET t == cancelling[i].task
    IN  /\ t # NoTask
        /\ Consumed(i, t, cancelling[i].binding)
        /\ stop' = [e \in Exec |->
              IF at[e] = i /\ job[e] = t /\ pc[e] \notin {"idle", "done"}
              THEN "cancelled" ELSE stop[e]]
        /\ cancelling' = [cancelling EXCEPT ![i] = NoCancel]
        /\ UNCHANGED <<db, requests, pc, fence, queue, saving>>

-----------------------------------------------------------------------------
(* The environment *)

Lapse(t) ==
    /\ leases[t] # 0
    /\ leases' = [leases EXCEPT ![t] = 0]
    /\ UNCHANGED <<tasks, total, perOwner, lastFence, requests, pc, fence, beat, stop, queue,
                   saving, bound, cancelling>>

Expire(t) ==
    /\ Visible(t)
    /\ tasks' = [tasks EXCEPT ![t].live = FALSE]
    /\ UNCHANGED <<total, perOwner, leases, lastFence, requests, pc, fence, beat, stop, queue,
                   saving, bound, cancelling>>

(* An instance dies, with everything that only it knew. *)
Crash(i) ==
    LET Mine == {e \in Exec : at[e] = i /\ pc[e] # "idle"}
    IN  /\ pc' = [e \in Exec |-> IF e \in Mine THEN "done" ELSE pc[e]]
        /\ beat' = [e \in Exec |-> IF e \in Mine THEN "off" ELSE beat[e]]
        /\ stop' = [e \in Exec |-> IF e \in Mine THEN "no" ELSE stop[e]]
        /\ queue' = [e \in Exec |-> IF e \in Mine THEN <<>> ELSE queue[e]]
        /\ saving' = [e \in Exec |-> IF e \in Mine THEN Idle ELSE saving[e]]
        /\ bound' = [bound EXCEPT ![i] = [t \in Task |-> Unbound]]
        /\ cancelling' = [cancelling EXCEPT ![i] = NoCancel]
        /\ UNCHANGED <<db, requests, fence>>

Execute(e) ==
    \/ Begin(e) \/ Acquire(e) \/ LoseAcquire(e) \/ AcquireFails(e)
    \/ Bind(e) \/ BindAborted(e) \/ BindRefused(e)
    \/ Call(e) \/ CallFails(e) \/ Publish(e) \/ Suppress(e)
    \/ Abort(e) \/ HeartbeatFails(e)

SaveEvents(e) == Resolve(e) \/ Commit(e) \/ LoseCommit(e) \/ SaveFails(e)

Next ==
    \/ \E e \in Exec : Execute(e) \/ SaveEvents(e)
    \/ \E i \in Instance, t \in Task : Grace(i, t) \/ Cancel(i, t) \/ LoseCancel(i, t)
    \/ \E i \in Instance : CancelSettles(i) \/ Crash(i)
    \/ \E t \in Task : Lapse(t) \/ Expire(t)

Spec == Init /\ [][Next]_vars

-----------------------------------------------------------------------------
(* Properties *)

(* Types.  The table never exceeds the capacities that save enforces by    *)
(* counters in other tables, across purges, rollbacks and lost             *)
(* acknowledgements.                                                       *)
TypeOK ==
    /\ tasks \in [Task -> TaskRow]
    /\ total \in 0..MaxEntries
    /\ perOwner \in [Owner -> 0..MaxEntriesPerOwner]
    /\ leases \in [Task -> Nat]
    /\ lastFence \in Nat
    /\ at \in [Exec -> Instance]
    /\ job \in [Exec -> Task]
    /\ pc \in [Exec -> {"idle", "acquiring", "leased", "ready", "called", "done"}]
    /\ fence \in [Exec -> Nat]
    /\ beat \in [Exec -> {"off", "on", "lost"}]
    /\ stop \in [Exec -> {"no", "aborted", "cancelled"}]
    /\ queue \in [Exec -> Seq(Event)]
    /\ saving \in [Exec -> [step : {"idle", "resolved"},
                            binding : Exec \cup {NoExec}]]
    /\ bound \in [Instance -> [Task -> [exec : Exec \cup {NoExec}, timed : BOOLEAN]]]
    /\ cancelling \in [Instance -> [task : Task \cup {NoTask}, binding : Exec \cup {NoExec}]]

(* The transactional counters agree with the rows they count. *)
CountersExact ==
    /\ total = Cardinality(Stored)
    /\ \A o \in Owner : perOwner[o] = Cardinality(OwnedBy(o, Stored))

Outcome == INSTANCE TaskOutcomes WITH
    outcome <- [t \in Task |-> IF Settled(t) THEN tasks[t].state ELSE "open"],
    lease <- leases,
    last <- lastFence

(* Two instances, the SDK's late and repeated saves, and cancellations     *)
(* from anywhere: a task settles once, under the one live lease, which     *)
(* ends with it, and nothing is leased for a settled task.                 *)
SettledOnce == Outcome!Spec

(* An execution that has ended does not keep its lease alive for long: as  *)
(* long as its heartbeat beats, the binding is its own and the grace timer *)
(* of that binding runs, whatever became of its events.                    *)
WatchdogSet == \A e \in Exec :
    (pc[e] = "done" /\ beat[e] = "on") => bound[at[e]][job[e]] = [exec |-> e, timed |-> TRUE]

(* docs/multi-process-deployment.md: "any stale executor terminal write    *)
(* are rejected".  What an execution that had a lease reports settles its  *)
(* task under that lease, not under the lease of a later execution.        *)
StaleWritesRejected == \A t \in Task :
    LET writer == tasks[t].by
    IN  (Settled(t) /\ writer # NoExec /\ fence[writer] # 0)
            => tasks[t].fence = fence[writer]
=============================================================================
