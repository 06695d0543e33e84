--------------------------- MODULE WorkforceQueue ---------------------------
(***************************************************************************)
(* The central workforce task queue of the gateway service                 *)
(* (workforce/postgresWorkforceTaskQueue.ts) and the fenced claims it      *)
(* issues (workforce/postgresTaskClaimLease.ts): two PostgreSQL tables of  *)
(* one database, used by every gateway process through two separate pools. *)
(*                                                                         *)
(* claimTask holds a transaction open on the task table, with its rows     *)
(* locked, while the claim is inserted and committed by a transaction of   *)
(* the other pool: the two may fail apart, and the model keeps every step  *)
(* between them.  The transactions that touch both tables through one      *)
(* connection are single actions.  Time is relative: a claim and a task    *)
(* row hold the time they have left, and Tick counts it down.              *)
(***************************************************************************)
EXTENDS Integers, FiniteSets

CONSTANTS
    Task,           \* tasks, of one plan scope
    Call,           \* calls of claimTask, with the ownership they obtain
    Nobody,         \* not a call
    ClaimTtl,       \* ttlMs of a claim
    Retention,      \* options.retentionMs
    MaxRetries,     \* task.maxRetries
    MaxEntries,     \* options.maxEntries
    MaxClaims,      \* maxClaims of the claim manager
    RecoverBatch    \* rows recovered by one transaction: 100

ASSUME TimesAssumption ==
    /\ ClaimTtl \in Nat \ {0}
    /\ Retention \in Nat \ {0}

ASSUME BoundsAssumption ==
    /\ MaxRetries \in Nat \ {0}
    /\ MaxEntries \in Nat \ {0}
    /\ MaxClaims \in Nat \ {0}
    /\ RecoverBatch \in Nat \ {0}

ASSUME NobodyAssumption == Nobody \notin Call

VARIABLES
    task,       \* the task table, by task id
    claims,     \* the claim table, by its primary key (plan, task)
    locked,     \* locked[t]: the call whose open transaction locks row t
    lastFence,  \* the fencing sequence
    pc,         \* pc[c]: where call c stands
    job,        \* job[c]: the tasks c selected: none, or one
    fence,      \* fence[c]: the fence of the claim token c was given
    past        \* past[t]: the last fence that owned t, and the last one
                \* drawn for it; only the properties read it

vars == <<task, claims, locked, lastFence, pc, job, fence, past>>

-----------------------------------------------------------------------------
(* The two tables *)

Active == {"assigned", "in_progress"}

Status == Active \cup {"new", "queued", "completed", "failed", "cancelled", "gone"}

Less(n) == IF n = 0 THEN 0 ELSE n - 1

TaskRow == [status : Status, fence : Nat, retries : 0..MaxRetries, ttl : 0..Retention]

(* A new task is not in the table yet, one that is gone was purged. *)
Stored(t) == task[t].status \notin {"new", "gone"}

Expired(t) == task[t].ttl = 0

NoClaim == [fence |-> 0, left |-> 0]

ClaimRow(f) == [fence |-> f, left |-> ClaimTtl]

LiveClaim(t) == claims[t].left > 0

(* Mutant of Cleared: issue does not delete expired claims first. *)
BugCleared == claims

(* delete-expired of the claim store. *)
Cleared == [t \in Task |-> IF LiveClaim(t) THEN claims[t] ELSE NoClaim]

(* updateTaskRow: every write refreshes the retention of the row. *)
Written(e, status) == [e EXCEPT !.status = status, !.ttl = Retention]

Assigned(e, f) == [Written(e, "assigned") EXCEPT !.fence = f]

(* What recover-update and requeueTask write: back to the queue, no claim. *)
Reopened(e) == [Written(e, "queued") EXCEPT !.fence = 0]

Unlocked(t) == locked[t] = Nobody

Locks(c) == {t \in Task : locked[t] = c}

(* Release the row locks of c, by COMMIT or ROLLBACK. *)
Release(c) == locked' = [t \in Task |-> IF locked[t] = c THEN Nobody ELSE locked[t]]

Goto(c, where) == pc' = [pc EXCEPT ![c] = where]

(* The call is over, and its token with it. *)
End(c) ==
    /\ Goto(c, "ended")
    /\ job' = [job EXCEPT ![c] = {}]
    /\ fence' = [fence EXCEPT ![c] = 0]

(* Mutant of Orphaned: recovery takes any active task. *)
BugOrphaned(t) ==
    /\ task[t].status \in Active
    /\ ~Expired(t)
    /\ Unlocked(t)

(* recover-select, FOR UPDATE SKIP LOCKED: owners without a live claim. *)
Orphaned(t) ==
    /\ task[t].status \in Active
    /\ ~Expired(t)
    /\ ~LiveClaim(t)
    /\ Unlocked(t)

Orphans == {t \in Task : Orphaned(t)}

RecoverySets(limit) == {R \in SUBSET Orphans : R = Orphans \/ Cardinality(R) = limit}

Init ==
    /\ task = [t \in Task |-> [status |-> "new", fence |-> 0, retries |-> 0, ttl |-> 0]]
    /\ claims = [t \in Task |-> NoClaim]
    /\ locked = [t \in Task |-> Nobody]
    /\ lastFence = 0
    /\ pc = [c \in Call |-> "polling"]
    /\ job = [c \in Call |-> {}]
    /\ fence = [c \in Call |-> 0]
    /\ past = [t \in Task |-> [owner |-> 0, newest |-> 0]]

-----------------------------------------------------------------------------
(* The gateway *)

(* Rows whose retention is over; the DELETE waits for their locks. *)
Purgeable == {t \in Task : Stored(t) /\ Expired(t)}

(* enqueueMany: purge, count, insert all or none. *)
Enqueue(S) ==
    /\ S # {} /\ \A t \in S : task[t].status = "new"
    /\ \A t \in Purgeable : Unlocked(t)
    /\ Cardinality({t \in Task : Stored(t)} \ Purgeable) + Cardinality(S) <= MaxEntries
    /\ task' = [t \in Task |-> IF t \in S THEN Written(task[t], "queued")
                               ELSE IF t \in Purgeable THEN [task[t] EXCEPT !.status = "gone"]
                               ELSE task[t]]
    /\ UNCHANGED <<claims, locked, lastFence, pc, job, fence, past>>

(* cancelTask needs no claim; it deletes the one the task records. *)
Cancel(t) ==
    /\ task[t].status \in Active \cup {"queued"}
    /\ ~Expired(t)
    /\ Unlocked(t)
    /\ task' = [task EXCEPT ![t] = Written(task[t], "cancelled")]
    /\ claims' = IF task[t].fence # 0 THEN [claims EXCEPT ![t] = NoClaim] ELSE claims
    /\ UNCHANGED <<locked, lastFence, pc, job, fence, past>>

Requeue(t) ==
    /\ task[t].status = "failed"
    /\ ~Expired(t)
    /\ Unlocked(t)
    /\ task[t].retries < MaxRetries
    /\ task' = [task EXCEPT ![t] = Reopened(task[t])]
    /\ UNCHANGED <<claims, locked, lastFence, pc, job, fence, past>>

(* init of a process recovers; so does a claimTask that finds no task, or  *)
(* whose agent already runs maxConcurrent tasks, before it answers null.   *)
Recover ==
    /\ \E limit \in {MaxEntries, RecoverBatch} : \E R \in RecoverySets(limit) \ {{}} :
          task' = [t \in Task |-> IF t \in R THEN Reopened(task[t]) ELSE task[t]]
    /\ UNCHANGED <<claims, locked, lastFence, pc, job, fence, past>>

-----------------------------------------------------------------------------
(* claimTask: a transaction of the queue around one of the claim store *)

(* BEGIN, recover, then claim-select of a queued row, which may be one     *)
(* just recovered.  claim-select does not look at the retention.           *)
Select(c, t) ==
    /\ pc[c] = "polling"
    /\ \E R \in RecoverySets(RecoverBatch) :
          /\ t \in R \/ (task[t].status = "queued" /\ Unlocked(t))
          /\ locked' = [u \in Task |-> IF u \in R \cup {t} THEN c ELSE locked[u]]
    /\ job' = [job EXCEPT ![c] = {t}]
    /\ Goto(c, "selected")
    /\ UNCHANGED <<task, claims, lastFence, fence, past>>

(* issue answers TASK_ALREADY_CLAIMED or TASK_CLAIM_CAPACITY: the recovery *)
(* is rolled back with the rest, and the caller may ask again.             *)
IssueRefused(c, t) ==
    /\ pc[c] = "selected" /\ t \in job[c]
    /\ \/ Cleared[t] # NoClaim
       \/ Cardinality({u \in Task : LiveClaim(u)}) >= MaxClaims
    /\ claims' = Cleared
    /\ Release(c)
    /\ job' = [job EXCEPT ![c] = {}]
    /\ Goto(c, "polling")
    /\ UNCHANGED <<task, lastFence, fence, past>>

Insert(c, t) ==
    /\ pc[c] = "selected" /\ t \in job[c]
    /\ Cleared[t] = NoClaim
    /\ Cardinality({u \in Task : LiveClaim(u)}) < MaxClaims
    /\ lastFence' = lastFence + 1
    /\ claims' = [Cleared EXCEPT ![t] = ClaimRow(lastFence + 1)]
    /\ past' = [past EXCEPT ![t].newest = lastFence + 1]
    /\ UNCHANGED task

Issue(c, t) ==
    /\ Insert(c, t)
    /\ fence' = [fence EXCEPT ![c] = lastFence + 1]
    /\ Goto(c, "issued")
    /\ UNCHANGED <<locked, job>>

(* The claim was committed and the answer lost: nobody has its token. *)
LoseIssue(c, t) ==
    /\ Insert(c, t)
    /\ Release(c)
    /\ End(c)

(* The claim store failed, or its refusal was committed and not heard;     *)
(* what nextval drew is not given back.                                    *)
FailIssue(c) ==
    /\ pc[c] = "selected"
    /\ lastFence' \in {lastFence, lastFence + 1}
    /\ claims' \in {claims, Cleared}
    /\ Release(c)
    /\ End(c)
    /\ UNCHANGED <<task, past>>

(* What COMMIT of the queue transaction makes visible. *)
Apply(c, t) ==
    /\ task' = [u \in Task |-> IF u = t THEN Assigned(task[u], fence[c])
                               ELSE IF u \in Locks(c) THEN Reopened(task[u])
                               ELSE task[u]]
    /\ past' = [past EXCEPT ![t].owner = fence[c]]

CommitClaim(c, t) ==
    /\ pc[c] = "issued" /\ t \in job[c]
    /\ Apply(c, t)
    /\ Release(c)
    /\ Goto(c, "holding")
    /\ UNCHANGED <<claims, lastFence, job, fence>>

(* The transaction failed, or its COMMIT was applied and not acknowledged. *)
LoseCommit(c, t) ==
    /\ pc[c] = "issued" /\ t \in job[c]
    /\ Apply(c, t) \/ UNCHANGED <<task, past>>
    /\ Release(c)
    /\ Goto(c, "revoking")
    /\ UNCHANGED <<claims, lastFence, job, fence>>

(* The claim of the failed transaction is revoked, or that fails too. *)
Revoke(c, t) ==
    /\ pc[c] = "revoking" /\ t \in job[c]
    /\ \/ UNCHANGED claims
       \/ claims[t].fence = fence[c] /\ claims' = [claims EXCEPT ![t] = NoClaim]
    /\ End(c)
    /\ UNCHANGED <<task, locked, lastFence, past>>

-----------------------------------------------------------------------------
(* The owner of a claim token *)

(* Mutant of Owns: the task row alone is believed, not the claim. *)
BugOwns(c, t) ==
    /\ task[t].status \in Active
    /\ ~Expired(t)
    /\ task[t].fence = fence[c]

(* mutateOwnedTask: the row of an active task, and the live claim with the *)
(* digest of the token and the fence that the task records.                *)
Owns(c, t) ==
    /\ task[t].status \in Active
    /\ ~Expired(t)
    /\ task[t].fence = fence[c]
    /\ claims[t].fence = fence[c]
    /\ LiveClaim(t)

(* The owner moves the task on; a terminal status releases the claim.      *)
(* While a COMMIT is not acknowledged, the owner goes on as before.        *)
Mutate(c, t, status) ==
    /\ t \in job[c] /\ Unlocked(t)
    /\ Owns(c, t)
    /\ task' = [task EXCEPT ![t] = Written(task[t], status)]
    /\ UNCHANGED <<locked, lastFence, past>>

Start(c, t) ==
    /\ pc[c] = "holding"
    /\ task[t].status = "assigned"
    /\ Mutate(c, t, "in_progress")
    /\ UNCHANGED <<claims, pc, job, fence>>

Complete(c, t) ==
    /\ pc[c] = "holding"
    /\ Mutate(c, t, "completed")
    /\ claims' = [claims EXCEPT ![t] = NoClaim]
    /\ End(c) \/ UNCHANGED <<pc, job, fence>>

Fail(c, t) ==
    /\ pc[c] = "holding" /\ t \in job[c] /\ Unlocked(t)
    /\ Owns(c, t)
    /\ task' = [task EXCEPT ![t] = [Written(task[t], "failed") EXCEPT !.retries = @ + 1]]
    /\ claims' = [claims EXCEPT ![t] = NoClaim]
    /\ End(c) \/ UNCHANGED <<pc, job, fence>>
    /\ UNCHANGED <<locked, lastFence, past>>

(* renewTaskClaim: read the task, extend the claim, write the task.  A     *)
(* failed step leaves the caller with its token.                           *)
RenewLoad(c, t) ==
    /\ pc[c] = "holding" /\ t \in job[c]
    /\ task[t].status \in Active /\ ~Expired(t)
    /\ task[t].fence = fence[c]
    /\ Goto(c, "renewing")
    /\ UNCHANGED <<task, claims, locked, lastFence, job, fence, past>>

(* Mutant of RenewClaim: it adds to the time that is left. *)
BugRenewClaim(c, t) ==
    /\ pc[c] = "renewing" /\ t \in job[c]
    /\ claims[t].fence = fence[c] /\ LiveClaim(t)
    /\ claims' = [claims EXCEPT ![t].left = @ + ClaimTtl]
    /\ Goto(c, "renewed")
    /\ UNCHANGED <<task, locked, lastFence, job, fence, past>>

RenewClaim(c, t) ==
    /\ pc[c] = "renewing" /\ t \in job[c]
    /\ claims[t].fence = fence[c] /\ LiveClaim(t)
    /\ claims' = [claims EXCEPT ![t] = ClaimRow(fence[c])]
    /\ Goto(c, "renewed")
    /\ UNCHANGED <<task, locked, lastFence, job, fence, past>>

(* resolveClaim finds its claim expired, and deletes it. *)
RenewExpired(c, t) ==
    /\ pc[c] = "renewing" /\ t \in job[c]
    /\ claims[t].fence = fence[c] /\ ~LiveClaim(t)
    /\ claims' = [claims EXCEPT ![t] = NoClaim]
    /\ Goto(c, "holding")
    /\ UNCHANGED <<task, locked, lastFence, job, fence, past>>

RenewTask(c, t) ==
    /\ pc[c] = "renewed"
    /\ Mutate(c, t, task[t].status)
    /\ Goto(c, "holding")
    /\ UNCHANGED <<claims, job, fence>>

RenewFails(c) ==
    /\ pc[c] \in {"renewing", "renewed"}
    /\ Goto(c, "holding")
    /\ UNCHANGED <<task, claims, locked, lastFence, job, fence, past>>

(* The caller is told that it lost the task, and stops. *)
Rejected(c, t) ==
    /\ pc[c] = "holding" /\ t \in job[c] /\ Unlocked(t)
    /\ ~Owns(c, t)
    /\ End(c)
    /\ UNCHANGED <<task, claims, locked, lastFence, past>>

-----------------------------------------------------------------------------
(* The environment *)

(* The process of c dies, or drops the token; the database rolls back. *)
Crash(c) ==
    /\ pc[c] \notin {"polling", "ended"}
    /\ Release(c)
    /\ End(c)
    /\ UNCHANGED <<task, claims, lastFence, past>>

Tick ==
    /\ task' = [t \in Task |-> [task[t] EXCEPT !.ttl = Less(@)]]
    /\ claims' = [t \in Task |-> [claims[t] EXCEPT !.left = Less(@)]]
    /\ UNCHANGED <<locked, lastFence, pc, job, fence, past>>

-----------------------------------------------------------------------------

Gateway ==
    \/ \E S \in SUBSET Task : Enqueue(S)
    \/ \E t \in Task : Cancel(t) \/ Requeue(t)
    \/ Recover

ClaimTask(c) ==
    \E t \in Task : Select(c, t) \/ IssueRefused(c, t) \/ Issue(c, t) \/ CommitClaim(c, t)

ClaimFails(c) ==
    \/ FailIssue(c)
    \/ \E t \in Task : LoseIssue(c, t) \/ LoseCommit(c, t) \/ Revoke(c, t)

Own(c) ==
    \/ \E t \in Task : Start(c, t) \/ Complete(c, t) \/ Fail(c, t) \/ Rejected(c, t)
                         \/ RenewLoad(c, t) \/ RenewClaim(c, t) \/ RenewExpired(c, t)
                         \/ RenewTask(c, t)
    \/ RenewFails(c)

Next == Gateway \/ Tick \/ \E c \in Call : ClaimTask(c) \/ ClaimFails(c) \/ Own(c) \/ Crash(c)

Spec == Init /\ [][Next]_vars

(* Time passes, and a caller that polls keeps polling and finishes the     *)
(* claim it began.  No owner need ever finish, renew or stop.              *)
Fairness ==
    /\ WF_vars(Tick)
    /\ \A c \in Call : WF_vars(ClaimTask(c))

FairSpec == Spec /\ Fairness

-----------------------------------------------------------------------------
(* Properties *)

(* The columns and the local state of each call keep their types; a task   *)
(* is never retried more often than it allows (failTask, requeueTask).     *)
TypeOK ==
    /\ task \in [Task -> TaskRow]
    /\ claims \in [Task -> [fence : Nat, left : 0..ClaimTtl]]
    /\ locked \in [Task -> Call \cup {Nobody}]
    /\ lastFence \in Nat
    /\ pc \in [Call -> {"polling", "selected", "issued", "revoking", "holding",
                        "renewing", "renewed", "ended"}]
    /\ job \in [Call -> SUBSET Task]
    /\ fence \in [Call -> Nat]
    /\ past \in [Task -> [owner : Nat, newest : Nat]]

(* The queue and the claim store together implement FencedTasks: only the  *)
(* holder of the newest fence of a task, under a live claim, completes or  *)
(* fails it; a new fence is drawn only when no claim is live; every owner  *)
(* has a larger fence than the ones before it; nothing but a cancellation  *)
(* takes a task from a live owner (claimTask, mutateOwnedTask, recovery).  *)
Phase(status) == CASE status = "queued" -> "open"
                   [] status \in Active -> "owned"
                   [] OTHER -> status

Fenced == INSTANCE FencedTasks WITH
    phase <- [t \in Task |-> Phase(task[t].status)],
    owner <- [t \in Task |-> past[t].owner],
    newest <- [t \in Task |-> past[t].newest],
    live <- [t \in Task |-> LiveClaim(t)]

FencedOwnership == Fenced!Spec

(* A call whose claim is still live finds its task active and assigned     *)
(* under its own fence, unless the retention of the row is over: no        *)
(* recovery, cancellation or failed claim of another process leaves a live *)
(* token behind for a task that has moved on.                              *)
Holds(c, t) ==
    /\ t \in job[c] /\ pc[c] \in {"holding", "renewing", "renewed"}
    /\ claims[t].fence = fence[c] /\ LiveClaim(t)

LiveOwnerKeepsTask ==
    \A c \in Call, t \in Task :
        Holds(c, t) /\ ~Expired(t) =>
            task[t].status \in Active /\ task[t].fence = fence[c]

(* A queued task is taken up, cancelled or purged while some caller still  *)
(* polls, whatever crashed between the insertion of its claim and its      *)
(* assignment: an orphaned claim blocks it no longer than the claim lives  *)
(* (issue, claimTask).  Retention is no way out: claim-select takes an     *)
(* expired row, and nothing makes a purge happen.                          *)
TakenUp ==
    \A t \in Task :
        task[t].status = "queued" ~>
            task[t].status # "queued" \/ \A c \in Call : pc[c] \notin {"polling", "selected"}
=============================================================================
