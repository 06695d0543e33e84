------------------------ MODULE WorkforceQueueProofs ------------------------
(***************************************************************************)
(* Proofs about WorkforceQueue, for any set of tasks and callers, and any  *)
(* lifetimes and capacities.                                               *)
(***************************************************************************)
EXTENDS WorkforceQueue, TLAPS

(* A transaction that is open locks the one task it selected, which is not *)
(* settled, and tasks whose owner lost its claim.                          *)
LockInv ==
    \A c \in Call :
        /\ \A t, u \in job[c] : t = u
        /\ \A t \in Task : locked[t] = c =>
              /\ pc[c] \in {"selected", "issued"}
              /\ t \notin job[c] => task[t].status \in Active /\ ~LiveClaim(t)
        /\ pc[c] \in {"selected", "issued"} =>
              \A t \in job[c] : /\ locked[t] = c
                                /\ task[t].status \in Active \cup {"queued"}

(* Fences only grow; a live claim carries the newest one of its task, and  *)
(* an active task the one of its last owner.                               *)
FenceOfTask(t) ==
    /\ past[t].newest <= lastFence /\ past[t].owner <= lastFence
    /\ LiveClaim(t) => claims[t].fence = past[t].newest
    /\ task[t].status \in Active => task[t].fence = past[t].owner /\ task[t].fence # 0

FenceOfCall(c) ==
    /\ fence[c] <= lastFence
    /\ pc[c] = "issued" =>
          \A t \in job[c] : fence[c] = past[t].newest /\ fence[c] > past[t].owner

FenceInv == (\A t \in Task : FenceOfTask(t)) /\ (\A c \in Call : FenceOfCall(c))

(* The holder of a live claim has its task, until the row is purged.       *)
HolderInv ==
    /\ \A c \in Call, t \in Task : Holds(c, t) =>
          \/ task[t].status = "gone"
          \/ task[t].status \in Active /\ task[t].fence = fence[c]
    /\ \A t \in Task : task[t].status = "gone" => Expired(t)

(* A task that can still fail has a retry left to count. *)
RetryInv ==
    \A t \in Task : task[t].status \in Active \cup {"new", "queued"} =>
        task[t].retries < MaxRetries

IInv == TypeOK /\ RetryInv /\ LockInv /\ FenceInv /\ HolderInv

-----------------------------------------------------------------------------
(* The row operators *)

LEMMA LessRange ==
    ASSUME NEW b \in Nat, NEW n \in 0..b
    PROVE  Less(n) \in 0..b /\ (Less(n) > 0 => n > 0)
  BY DEF Less

LEMMA RowOperators ==
    ASSUME NEW e \in TaskRow
    PROVE  /\ \A s \in Status : Written(e, s) \in TaskRow
           /\ \A f \in Nat : Assigned(e, f) \in TaskRow
           /\ Reopened(e) \in TaskRow
           /\ [e EXCEPT !.status = "gone"] \in TaskRow
           /\ [e EXCEPT !.ttl = Less(@)] \in TaskRow
<1>1. Retention \in 0..Retention /\ Less(e.ttl) \in 0..Retention
  BY TimesAssumption, LessRange DEF TaskRow
<1>2. {"assigned", "queued", "gone"} \subseteq Status
  BY DEF Status, Active
<1>3. QED
  BY <1>1, <1>2 DEF TaskRow, Written, Assigned, Reopened

(* The columns that each write leaves. *)
LEMMA RowFields ==
    ASSUME NEW e \in TaskRow
    PROVE  /\ \A s \in Status : /\ Written(e, s).status = s
                                /\ Written(e, s).fence = e.fence
                                /\ Written(e, s).retries = e.retries
           /\ \A f \in Nat : /\ Assigned(e, f).status = "assigned"
                             /\ Assigned(e, f).fence = f
                             /\ Assigned(e, f).retries = e.retries
           /\ Reopened(e).status = "queued"
           /\ Reopened(e).fence = 0
           /\ Reopened(e).retries = e.retries
  BY DEF TaskRow, Written, Assigned, Reopened

ClaimRecord == [fence : Nat, left : 0..ClaimTtl]

LEMMA ClaimOperators ==
    /\ NoClaim \in ClaimRecord
    /\ \A f \in Nat : ClaimRow(f) \in ClaimRecord
    /\ \A k \in ClaimRecord : [k EXCEPT !.left = Less(@)] \in ClaimRecord
  BY TimesAssumption, LessRange DEF ClaimRecord, NoClaim, ClaimRow

LEMMA ClearedType ==
    ASSUME claims \in [Task -> ClaimRecord] PROVE Cleared \in [Task -> ClaimRecord]
  BY ClaimOperators DEF Cleared

-----------------------------------------------------------------------------
(* Type correctness *)

LEMMA TypeInit == Init => TypeOK
<1>1. 0 \in 0..Retention /\ 0 \in 0..MaxRetries /\ "new" \in Status
  BY TimesAssumption, BoundsAssumption DEF Status
<1>2. QED
  BY <1>1, ClaimOperators DEF Init, TypeOK, TaskRow, ClaimRecord

LEMMA TypeStep == TypeOK /\ RetryInv /\ [Next]_vars => TypeOK'
<1> SUFFICES ASSUME TypeOK, RetryInv, [Next]_vars PROVE TypeOK'
  OBVIOUS
<1> USE DEF TypeOK
<1>a. claims \in [Task -> ClaimRecord] /\ Cleared \in [Task -> ClaimRecord]
  BY ClearedType DEF ClaimRecord
<1>b. \A t \in Task : task[t] \in TaskRow
  OBVIOUS
<1>c. ASSUME NEW c \in Call, Release(c)
      PROVE  locked' \in [Task -> Call \cup {Nobody}]
  BY <1>c DEF Release
<1>d. ASSUME NEW c \in Call, End(c)
      PROVE  /\ pc' \in [Call -> {"polling", "selected", "issued", "revoking",
                                  "holding", "renewing", "renewed", "ended"}]
             /\ job' \in [Call -> SUBSET Task]
             /\ fence' \in [Call -> Nat]
  BY <1>d DEF End, Goto
<1>1. ASSUME NEW S \in SUBSET Task, Enqueue(S) PROVE TypeOK'
  BY <1>1, <1>b, RowOperators DEF Enqueue, Status
<1>2. ASSUME NEW t \in Task, Cancel(t) PROVE TypeOK'
  BY <1>2, <1>a, <1>b, RowOperators, ClaimOperators DEF Cancel, Status, ClaimRecord
<1>3. ASSUME NEW t \in Task, Requeue(t) PROVE TypeOK'
  BY <1>3, <1>b, RowOperators DEF Requeue
<1>4. ASSUME Recover PROVE TypeOK'
  <2>1. PICK R \in SUBSET Task :
            task' = [t \in Task |-> IF t \in R THEN Reopened(task[t]) ELSE task[t]]
    BY <1>4 DEF Recover, RecoverySets, Orphans
  <2>2. task' \in [Task -> TaskRow]
    BY <2>1, <1>b, RowOperators
  <2>3. QED
    BY <1>4, <2>2 DEF Recover
<1>5. ASSUME NEW c \in Call, NEW t \in Task, Select(c, t) PROVE TypeOK'
  <2>1. PICK R \in RecoverySets(RecoverBatch) :
            locked' = [u \in Task |-> IF u \in R \cup {t} THEN c ELSE locked[u]]
    BY <1>5 DEF Select
  <2>2. locked' \in [Task -> Call \cup {Nobody}]
    BY <2>1
  <2>3. QED
    BY <1>5, <2>2 DEF Select, Goto
<1>6. ASSUME NEW c \in Call, NEW t \in Task, IssueRefused(c, t) PROVE TypeOK'
  BY <1>6, <1>a, <1>c DEF IssueRefused, Goto, ClaimRecord
<1>7. ASSUME NEW c \in Call, NEW t \in Task, Insert(c, t)
      PROVE  /\ lastFence' \in Nat
             /\ claims' \in [Task -> ClaimRecord]
             /\ past' \in [Task -> [owner : Nat, newest : Nat]]
             /\ task' = task
  BY <1>7, <1>a, ClaimOperators DEF Insert
<1>8. ASSUME NEW c \in Call, NEW t \in Task, Issue(c, t) PROVE TypeOK'
  <2>1. Insert(c, t) /\ lastFence + 1 \in Nat
    BY <1>8 DEF Issue
  <2>2. QED
    BY <1>8, <1>7, <2>1 DEF Issue, Goto, ClaimRecord
<1>9. ASSUME NEW c \in Call, NEW t \in Task, LoseIssue(c, t) PROVE TypeOK'
  BY <1>9, <1>7, <1>c, <1>d DEF LoseIssue, ClaimRecord
<1>10. ASSUME NEW c \in Call, FailIssue(c) PROVE TypeOK'
  BY <1>10, <1>a, <1>c, <1>d DEF FailIssue, ClaimRecord
<1>11. ASSUME NEW c \in Call, NEW t \in Task, Apply(c, t)
       PROVE  /\ task' \in [Task -> TaskRow]
              /\ past' \in [Task -> [owner : Nat, newest : Nat]]
  BY <1>11, <1>b, RowOperators DEF Apply
<1>12. ASSUME NEW c \in Call, NEW t \in Task, CommitClaim(c, t) PROVE TypeOK'
  BY <1>12, <1>11, <1>c DEF CommitClaim, Goto
<1>13. ASSUME NEW c \in Call, NEW t \in Task, LoseCommit(c, t) PROVE TypeOK'
  BY <1>13, <1>11, <1>c DEF LoseCommit, Goto
<1>14. ASSUME NEW c \in Call, NEW t \in Task, Revoke(c, t) PROVE TypeOK'
  BY <1>14, <1>a, <1>d, ClaimOperators DEF Revoke, ClaimRecord
<1>15. ASSUME NEW c \in Call, NEW t \in Task, NEW s \in Status, Mutate(c, t, s)
       PROVE  task' \in [Task -> TaskRow]
  BY <1>15, <1>b, RowOperators DEF Mutate
<1>16. ASSUME NEW c \in Call, NEW t \in Task, Start(c, t) PROVE TypeOK'
  BY <1>16, <1>15 DEF Start, Mutate, Status, Active
<1>17. ASSUME NEW c \in Call, NEW t \in Task, Complete(c, t) PROVE TypeOK'
  BY <1>17, <1>15, <1>a, <1>d, ClaimOperators DEF Complete, Mutate, Status, ClaimRecord
<1>18. ASSUME NEW c \in Call, NEW t \in Task, Fail(c, t) PROVE TypeOK'
  <2>1. task[t].retries + 1 \in 0..MaxRetries /\ "failed" \in Status
    BY <1>18, <1>b, BoundsAssumption DEF Fail, Owns, RetryInv, TaskRow, Status
  <2>2. Written(task[t], "failed") \in TaskRow
    BY <1>b, <2>1, RowOperators
  <2>3. Written(task[t], "failed").retries = task[t].retries
    BY <1>b DEF Written, TaskRow
  <2>4. [Written(task[t], "failed") EXCEPT !.retries = @ + 1] \in TaskRow
    BY <2>1, <2>2, <2>3 DEF TaskRow
  <2>5. claims' \in [Task -> ClaimRecord]
    BY <1>18, <1>a, ClaimOperators DEF Fail
  <2>6. QED
    BY <1>18, <2>4, <2>5, <1>d DEF Fail, ClaimRecord
<1>19. ASSUME NEW c \in Call, NEW t \in Task,
              RenewLoad(c, t) \/ Rejected(c, t) PROVE TypeOK'
  BY <1>19, <1>d DEF RenewLoad, Rejected, Goto
<1>20. ASSUME NEW c \in Call, NEW t \in Task, RenewClaim(c, t) \/ RenewExpired(c, t)
       PROVE TypeOK'
  <2>1. claims' \in [Task -> ClaimRecord]
    BY <1>20, <1>a, ClaimOperators DEF RenewClaim, RenewExpired
  <2>2. /\ UNCHANGED <<task, locked, lastFence, job, fence, past>>
        /\ Goto(c, "holding") \/ Goto(c, "renewed")
    BY <1>20 DEF RenewClaim, RenewExpired
  <2>3. QED
    BY <2>1, <2>2 DEF Goto, ClaimRecord
<1>21. ASSUME NEW c \in Call, NEW t \in Task, RenewTask(c, t) PROVE TypeOK'
  <2>1. task[t].status \in Status
    BY <1>b DEF TaskRow
  <2>2. QED
    BY <1>21, <2>1, <1>15 DEF RenewTask, Mutate, Goto
<1>22. ASSUME NEW c \in Call, RenewFails(c) \/ Crash(c) PROVE TypeOK'
  BY <1>22, <1>c, <1>d DEF RenewFails, Crash, Goto
<1>23. ASSUME Tick PROVE TypeOK'
  <2>1. task' \in [Task -> TaskRow]
    BY <1>23, <1>b, RowOperators DEF Tick
  <2>2. claims' \in [Task -> ClaimRecord]
    BY <1>23, <1>a, ClaimOperators DEF Tick
  <2>3. QED
    BY <1>23, <2>1, <2>2 DEF Tick, ClaimRecord
<1>24. CASE UNCHANGED vars
  BY <1>24 DEF vars
<1>25. QED
  BY <1>1, <1>2, <1>3, <1>4, <1>5, <1>6, <1>8, <1>9, <1>10, <1>12, <1>13, <1>14,
     <1>16, <1>17, <1>18, <1>19, <1>20, <1>21, <1>22, <1>23, <1>24
     DEF Next, Gateway, ClaimTask, ClaimFails, Own
-----------------------------------------------------------------------------
(* What the transactions that write several rows do to each of them *)

LEMMA TaskTyped == TypeOK => \A t \in Task : task[t] \in TaskRow /\ task[t].status \in Status
  BY DEF TypeOK, TaskRow

LEMMA Statuses ==
    {"queued", "cancelled", "completed", "failed", "in_progress", "assigned"} \subseteq Status
  BY DEF Status, Active

LEMMA Enqueued ==
    ASSUME TypeOK, NEW S \in SUBSET Task, Enqueue(S), NEW t \in Task
    PROVE  \/ task'[t] = task[t]
           \/ /\ task[t].status = "new"
              /\ task'[t] = Written(task[t], "queued")
              /\ task'[t].status = "queued" /\ task'[t].retries = task[t].retries
           \/ /\ Unlocked(t) /\ Expired(t) /\ task[t].status # "new"
              /\ task'[t] = [task[t] EXCEPT !.status = "gone"]
              /\ task'[t].status = "gone" /\ Expired(t)'
<1>1. CASE t \in S
  BY <1>1, TaskTyped, Statuses, RowFields DEF Enqueue
<1>2. CASE t \notin S /\ t \in Purgeable
  BY <1>2, TaskTyped DEF Enqueue, Purgeable, Stored, Expired, TaskRow, TypeOK
<1>3. CASE t \notin S /\ t \notin Purgeable
  BY <1>3 DEF Enqueue
<1>4. QED
  BY <1>1, <1>2, <1>3

LEMMA Recovered ==
    ASSUME TypeOK, Recover, NEW t \in Task
    PROVE  \/ task'[t] = task[t]
           \/ /\ Orphaned(t)
              /\ task'[t] = Reopened(task[t])
              /\ task'[t].status = "queued" /\ task'[t].retries = task[t].retries
<1>1. PICK R \in SUBSET Orphans :
          task' = [u \in Task |-> IF u \in R THEN Reopened(task[u]) ELSE task[u]]
  BY DEF Recover, RecoverySets
<1>2. t \in R => Orphaned(t)
  BY DEF Orphans
<1>3. QED
  BY <1>1, <1>2, TaskTyped, RowFields

LEMMA Committed ==
    ASSUME TypeOK, LockInv, NEW c \in Call, NEW t \in Task,
           pc[c] = "issued", t \in job[c], Apply(c, t), NEW u \in Task
    PROVE  \/ u # t /\ task'[u] = task[u] /\ past'[u] = past[u]
           \/ /\ u # t /\ locked[u] = c
              /\ task[u].status \in Active /\ ~LiveClaim(u)
              /\ task'[u] = Reopened(task[u])
              /\ task'[u].status = "queued" /\ task'[u].retries = task[u].retries
              /\ past'[u] = past[u]
           \/ /\ u = t /\ locked[u] = c
              /\ task[u].status \in Active \cup {"queued"}
              /\ task'[u] = Assigned(task[u], fence[c])
              /\ task'[u].status = "assigned" /\ task'[u].fence = fence[c]
              /\ task'[u].retries = task[u].retries
              /\ past'[u].owner = fence[c] /\ past'[u].newest = past[u].newest
<1>1. task[u] \in TaskRow /\ fence[c] \in Nat
  BY TaskTyped DEF TypeOK
<1>2. past'[u] = IF u = t THEN [past[u] EXCEPT !.owner = fence[c]] ELSE past[u]
  BY DEF Apply, TypeOK
<1>3. CASE u = t
  <2>1. locked[u] = c /\ task[u].status \in Active \cup {"queued"}
    BY <1>3 DEF LockInv
  <2>2. task'[u] = Assigned(task[u], fence[c])
    BY <1>3 DEF Apply
  <2>3. past'[u].owner = fence[c] /\ past'[u].newest = past[u].newest
    BY <1>2, <1>3 DEF TypeOK
  <2>4. QED
    BY <1>1, <1>3, <2>1, <2>2, <2>3, RowFields
<1>4. CASE u # t /\ locked[u] = c
  <2>1. u \notin job[c]
    BY <1>4 DEF LockInv
  <2>2. task[u].status \in Active /\ ~LiveClaim(u)
    BY <1>4, <2>1 DEF LockInv
  <2>3. task'[u] = Reopened(task[u])
    BY <1>4 DEF Apply, Locks
  <2>4. QED
    BY <1>1, <1>2, <1>4, <2>2, <2>3, RowFields
<1>5. CASE u # t /\ locked[u] # c
  BY <1>2, <1>5 DEF Apply, Locks
<1>6. QED
  BY <1>3, <1>4, <1>5

(* Every other write of an owner, on its own row. *)
LEMMA Mutated ==
    ASSUME TypeOK, NEW c \in Call, NEW t \in Task, NEW s \in Status, Mutate(c, t, s),
           NEW u \in Task
    PROVE  /\ Unlocked(t) /\ Owns(c, t) /\ t \in job[c]
           /\ u # t => task'[u] = task[u]
           /\ task'[t].status = s /\ task'[t].fence = task[t].fence
           /\ task'[t].retries = task[t].retries
<1>1. Written(task[t], s).status = s /\ Written(task[t], s).fence = task[t].fence
      /\ Written(task[t], s).retries = task[t].retries
  BY TaskTyped, RowFields
<1>2. QED
  BY <1>1 DEF Mutate, TypeOK

LEMMA Failed ==
    ASSUME TypeOK, NEW c \in Call, NEW t \in Task, Fail(c, t), NEW u \in Task
    PROVE  /\ Unlocked(t) /\ Owns(c, t) /\ t \in job[c]
           /\ u # t => task'[u] = task[u]
           /\ task'[t].status = "failed" /\ task'[t].fence = task[t].fence
<1>1. Written(task[t], "failed") \in TaskRow
  BY TaskTyped, RowOperators, Statuses
<1>2. Written(task[t], "failed").status = "failed"
      /\ Written(task[t], "failed").fence = task[t].fence
  BY TaskTyped, RowFields, Statuses
<1>3. [Written(task[t], "failed") EXCEPT !.retries = @ + 1].status = "failed"
      /\ [Written(task[t], "failed") EXCEPT !.retries = @ + 1].fence = task[t].fence
  BY <1>1, <1>2 DEF TaskRow
<1>4. QED
  BY <1>3 DEF Fail, TypeOK

LEMMA Aged ==
    ASSUME TypeOK, Tick, NEW t \in Task
    PROVE  /\ task'[t].status = task[t].status /\ task'[t].fence = task[t].fence
           /\ task'[t].retries = task[t].retries
           /\ Expired(t) => Expired(t)'
           /\ claims'[t].fence = claims[t].fence
           /\ LiveClaim(t)' => LiveClaim(t)
<1>1. task'[t] = [task[t] EXCEPT !.ttl = Less(@)] /\ claims'[t] = [claims[t] EXCEPT !.left = Less(@)]
  BY DEF Tick
<1>2. task[t] \in TaskRow /\ claims[t] \in [fence : Nat, left : 0..ClaimTtl]
  BY DEF TypeOK
<1>3. claims'[t].left = Less(claims[t].left) /\ task'[t].ttl = Less(task[t].ttl)
  BY <1>1, <1>2 DEF TaskRow
<1>4. claims'[t].left > 0 => claims[t].left > 0
  BY <1>2, <1>3, TimesAssumption, LessRange
<1>5. QED
  BY <1>1, <1>2, <1>3, <1>4 DEF TaskRow, Expired, LiveClaim, Less

(* Deleting claims that expired revives none. *)
LEMMA ClearedKeeps ==
    ASSUME NEW t \in Task, claims' \in {claims, Cleared}
    PROVE  LiveClaim(t)' => LiveClaim(t) /\ claims'[t].fence = claims[t].fence
  BY DEF Cleared, LiveClaim, NoClaim

LEMMA ExpiredKeeps ==
    ASSUME TypeOK, NEW c \in Call, NEW t \in Task, RenewExpired(c, t), NEW u \in Task
    PROVE  LiveClaim(u)' => LiveClaim(u) /\ claims'[u].fence = claims[u].fence
  BY DEF RenewExpired, LiveClaim, NoClaim, TypeOK

-----------------------------------------------------------------------------
(* Retries *)

LEMMA RetryStep == IInv /\ [Next]_vars => RetryInv'
<1> SUFFICES ASSUME IInv, [Next]_vars, NEW u \in Task,
                    task'[u].status \in Active \cup {"new", "queued"}
             PROVE  task'[u].retries < MaxRetries
  BY DEF RetryInv
<1>a. TypeOK /\ LockInv /\ task[u] \in TaskRow
      /\ (task[u].status \in Active \cup {"new", "queued"} => task[u].retries < MaxRetries)
  BY TaskTyped DEF IInv, RetryInv
<1>b. Active = {"assigned", "in_progress"}
  BY DEF Active
<1>0. CASE task'[u] = task[u]
  BY <1>0, <1>a
<1>1. ASSUME NEW S \in SUBSET Task, Enqueue(S) PROVE task'[u].retries < MaxRetries
  BY <1>0, <1>1, <1>a, <1>b, Enqueued
<1>2. ASSUME NEW t \in Task, Cancel(t) PROVE task'[u].retries < MaxRetries
  <2>1. u = t => task'[u].status = "cancelled"
    BY <1>2, <1>a, RowFields, Statuses DEF Cancel, TypeOK
  <2>2. u # t => task'[u] = task[u]
    BY <1>2 DEF Cancel, TypeOK
  <2>3. QED
    BY <2>1, <2>2, <1>0, <1>b
<1>3. ASSUME NEW t \in Task, Requeue(t) PROVE task'[u].retries < MaxRetries
  <2>1. u = t => task'[u] = Reopened(task[u]) /\ task[u].retries < MaxRetries
    BY <1>3, <1>a DEF Requeue, TypeOK
  <2>2. u # t => task'[u] = task[u]
    BY <1>3 DEF Requeue, TypeOK
  <2>3. QED
    BY <2>1, <2>2, <1>0, <1>a, RowFields
<1>4. ASSUME Recover PROVE task'[u].retries < MaxRetries
  BY <1>0, <1>4, <1>a, Recovered DEF Orphaned
<1>5. ASSUME NEW c \in Call, NEW t \in Task, CommitClaim(c, t) \/ LoseCommit(c, t)
      PROVE task'[u].retries < MaxRetries
  <2>1. CASE task' = task
    BY <2>1, <1>0
  <2>2. CASE Apply(c, t)
    <3>1. pc[c] = "issued" /\ t \in job[c]
      BY <1>5 DEF CommitClaim, LoseCommit
    <3>2. QED
      BY <2>2, <3>1, <1>0, <1>a, Committed
  <2>3. QED
    BY <2>1, <2>2, <1>5 DEF CommitClaim, LoseCommit
<1>6. ASSUME NEW c \in Call, NEW t \in Task, NEW st \in Status, Mutate(c, t, st)
      PROVE task'[u].retries < MaxRetries
  BY <1>0, <1>6, <1>a, Mutated DEF Owns
<1>7. ASSUME NEW c \in Call, NEW t \in Task, Start(c, t) \/ Complete(c, t) \/ RenewTask(c, t)
      PROVE task'[u].retries < MaxRetries
  <2>1. task[t].status \in Status
    BY <1>a, TaskTyped
  <2>2. \E st \in Status : Mutate(c, t, st)
    BY <1>7, <2>1, Statuses DEF Start, Complete, RenewTask
  <2>3. QED
    BY <2>2, <1>6
<1>8. ASSUME NEW c \in Call, NEW t \in Task, Fail(c, t) PROVE task'[u].retries < MaxRetries
  BY <1>0, <1>8, <1>a, <1>b, Failed
<1>9. ASSUME Tick PROVE task'[u].retries < MaxRetries
  BY <1>9, <1>a, Aged
<1>10. ASSUME NEW c \in Call, NEW t \in Task,
              \/ Select(c, t) \/ IssueRefused(c, t) \/ Issue(c, t) \/ LoseIssue(c, t)
              \/ FailIssue(c) \/ Revoke(c, t) \/ Rejected(c, t) \/ RenewLoad(c, t)
              \/ RenewClaim(c, t) \/ RenewExpired(c, t) \/ RenewFails(c) \/ Crash(c)
       PROVE task'[u] = task[u]
  BY <1>10 DEF Select, IssueRefused, Issue, LoseIssue, Insert, FailIssue, Revoke,
     Rejected, RenewLoad, RenewClaim, RenewExpired, RenewFails, Crash
<1>11. ASSUME UNCHANGED vars PROVE task'[u] = task[u]
  BY <1>11 DEF vars
<1>12. QED
  BY <1>0, <1>1, <1>2, <1>3, <1>4, <1>5, <1>7, <1>8, <1>9, <1>10, <1>11
     DEF Next, Gateway, ClaimTask, ClaimFails, Own

-----------------------------------------------------------------------------
(* Locks *)

(* The three parts of LockInv, for one caller and one task. *)
LockPart(c, t) ==
    /\ \A u \in job[c] : t \in job[c] => t = u
    /\ locked[t] = c =>
          /\ pc[c] \in {"selected", "issued"}
          /\ t \notin job[c] => task[t].status \in Active /\ ~LiveClaim(t)
    /\ pc[c] \in {"selected", "issued"} /\ t \in job[c] =>
          /\ locked[t] = c
          /\ task[t].status \in Active \cup {"queued"}

LEMMA LockParts == TypeOK /\ LockInv => \A c \in Call, t \in Task : LockPart(c, t)
  BY DEF LockInv, LockPart, TypeOK

LEMMA LockPartsNext ==
    ASSUME TypeOK', \A c \in Call, t \in Task : LockPart(c, t)'
    PROVE  LockInv'
  BY DEF LockInv, LockPart, TypeOK

(* Nothing changes for a row that is locked, or for its caller. *)
LEMMA LockKept ==
    ASSUME NEW d \in Call, NEW u \in Task, LockPart(d, u),
           pc'[d] = pc[d], job'[d] = job[d], locked'[u] = locked[u],
           task'[u].status = task[u].status \/ (locked[u] # d /\ ~(u \in job[d] /\ pc[d] \in {"selected", "issued"})),
           LiveClaim(u)' => LiveClaim(u) \/ locked[u] # d \/ u \in job[d]
    PROVE  LockPart(d, u)'
  BY DEF LockPart

(* A caller that holds no lock and has no transaction open. *)
LEMMA LockFree ==
    ASSUME NEW d \in Call, NEW u \in Task,
           pc'[d] \notin {"selected", "issued"}, locked'[u] # d,
           \A t, w \in job'[d] : t = w
    PROVE  LockPart(d, u)'
  BY DEF LockPart

LEMMA LockStep == IInv /\ [Next]_vars => LockInv'
<1> SUFFICES ASSUME IInv, [Next]_vars
             PROVE  \A d \in Call, u \in Task : LockPart(d, u)'
  BY TypeStep, LockPartsNext DEF IInv
<1> SUFFICES ASSUME NEW d \in Call, NEW u \in Task
             PROVE  LockPart(d, u)'
  OBVIOUS
<1>a. TypeOK /\ LockInv /\ LockPart(d, u) /\ d # Nobody
  BY LockParts, NobodyAssumption DEF IInv
<1>b. \A t, w \in job[d] : t = w
  BY <1>a DEF LockInv
<1>c. Unlocked(u) => locked[u] # d /\ ~(u \in job[d] /\ pc[d] \in {"selected", "issued"})
  BY <1>a DEF LockPart, Unlocked
<1>1. ASSUME NEW S \in SUBSET Task, Enqueue(S) PROVE LockPart(d, u)'
  <2>1. task'[u].status = task[u].status \/ Unlocked(u) \/ task[u].status = "new"
    BY <1>1, <1>a, Enqueued
  <2>2. task[u].status = "new" => locked[u] # d /\ ~(u \in job[d] /\ pc[d] \in {"selected", "issued"})
    BY <1>a DEF LockPart, Active
  <2>3. QED
    BY <1>1, <1>a, <1>c, <2>1, <2>2, LockKept DEF Enqueue, LiveClaim
<1>2. ASSUME NEW t \in Task, Cancel(t) PROVE LockPart(d, u)'
  <2>1. u # t => task'[u] = task[u]
    BY <1>2, <1>a DEF Cancel, TypeOK
  <2>2. LiveClaim(u)' => LiveClaim(u)
    BY <1>2, <1>a DEF Cancel, TypeOK, LiveClaim, NoClaim
  <2>3. QED
    BY <1>2, <1>a, <1>c, <2>1, <2>2, LockKept DEF Cancel
<1>3. ASSUME NEW t \in Task, Requeue(t) PROVE LockPart(d, u)'
  <2>1. u # t => task'[u] = task[u]
    BY <1>3, <1>a DEF Requeue, TypeOK
  <2>2. QED
    BY <1>3, <1>a, <1>c, <2>1, LockKept DEF Requeue, LiveClaim
<1>4. ASSUME Recover PROVE LockPart(d, u)'
  <2>1. task'[u] = task[u] \/ Unlocked(u)
    BY <1>4, <1>a, Recovered DEF Orphaned
  <2>2. QED
    BY <1>4, <1>a, <1>c, <2>1, LockKept DEF Recover, LiveClaim
<1>5. ASSUME NEW c \in Call, NEW t \in Task, Select(c, t) PROVE LockPart(d, u)'
  <2>1. PICK R \in RecoverySets(RecoverBatch) :
            /\ t \in R \/ (task[t].status = "queued" /\ Unlocked(t))
            /\ locked' = [w \in Task |-> IF w \in R \cup {t} THEN c ELSE locked[w]]
    BY <1>5 DEF Select
  <2>2. \A w \in R : Orphaned(w)
    BY DEF RecoverySets, Orphans
  <2>3. Unlocked(t) /\ task[t].status \in Active \cup {"queued"}
    BY <2>1, <2>2 DEF Orphaned
  <2>4. CASE d = c
    <3>1. pc'[d] = "selected" /\ job'[d] = {t} /\ locked[u] # d
      BY <1>5, <1>a, <2>4 DEF Select, Goto, TypeOK, LockPart
    <3>2. locked'[t] = d /\ (locked'[u] = d => u \in R \/ u = t)
      BY <2>1, <2>4, <3>1
    <3>3. u \in R => task[u].status \in Active /\ ~LiveClaim(u)
      BY <2>2 DEF Orphaned
    <3>4. task' = task /\ claims' = claims
      BY <1>5 DEF Select
    <3>5. QED
      BY <3>1, <3>2, <3>3, <3>4, <2>3 DEF LockPart, LiveClaim
  <2>5. CASE d # c
    <3>1. pc'[d] = pc[d] /\ job'[d] = job[d] /\ task' = task /\ claims' = claims
      BY <1>5, <1>a, <2>5 DEF Select, Goto, TypeOK
    <3>2. locked'[u] = locked[u] \/ (locked'[u] = c /\ Unlocked(u))
      BY <2>1, <2>2, <2>3 DEF Orphaned
    <3>3. QED
      BY <3>1, <3>2, <1>a, <1>c, <2>5 DEF LockPart, LiveClaim
  <2>6. QED
    BY <2>4, <2>5
<1>6. ASSUME NEW c \in Call, Release(c), pc'[c] \notin {"selected", "issued"},
             \A t, w \in job'[c] : t = w,
             \A e \in Call \ {c} : pc'[e] = pc[e] /\ job'[e] = job[e],
             \A t \in Task : task'[t] = task[t] \/ locked[t] = c,
             \A t \in Task : LiveClaim(t)' => LiveClaim(t) \/ locked[t] = c
      PROVE LockPart(d, u)'
  <2>1. locked'[u] = IF locked[u] = c THEN Nobody ELSE locked[u]
    BY <1>6 DEF Release
  <2>2. CASE d = c
    BY <2>1, <2>2, <1>6, <1>a, LockFree
  <2>3. CASE d # c /\ locked[u] = c
    BY <2>1, <2>3, <1>6, <1>a DEF LockPart
  <2>4. CASE d # c /\ locked[u] # c
    BY <2>1, <2>4, <1>6, <1>a, LockKept
  <2>5. QED
    BY <2>2, <2>3, <2>4
<1>7. ASSUME NEW c \in Call, NEW t \in Task, Insert(c, t)
      PROVE  \A w \in Task : LiveClaim(w)' => LiveClaim(w) \/ (w = t /\ locked[w] = c)
  BY <1>7, <1>a DEF Insert, Cleared, LiveClaim, NoClaim, LockInv, TypeOK
<1>8. ASSUME NEW c \in Call, NEW t \in Task, IssueRefused(c, t) PROVE LockPart(d, u)'
  BY <1>8, <1>6, <1>a DEF IssueRefused, Goto, Cleared, LiveClaim, NoClaim, TypeOK
<1>9. ASSUME NEW c \in Call, NEW t \in Task, Issue(c, t) PROVE LockPart(d, u)'
  <2>1. Insert(c, t) /\ pc[c] = "selected" /\ t \in job[c]
    BY <1>9 DEF Issue, Insert
  <2>2. task' = task /\ job' = job /\ locked' = locked
    BY <1>9 DEF Issue, Insert
  <2>3. pc' = [pc EXCEPT ![c] = "issued"]
    BY <1>9 DEF Issue, Goto
  <2>4. QED
    BY <2>1, <2>2, <2>3, <1>7, <1>a DEF LockPart, TypeOK
<1>10. ASSUME NEW c \in Call, End(c)
       PROVE  /\ pc'[c] \notin {"selected", "issued"}
              /\ \A t, w \in job'[c] : t = w
              /\ \A e \in Call \ {c} : pc'[e] = pc[e] /\ job'[e] = job[e]
  BY <1>10, <1>a DEF End, Goto, TypeOK
<1>11. ASSUME NEW c \in Call, NEW t \in Task, LoseIssue(c, t) PROVE LockPart(d, u)'
  BY <1>11, <1>6, <1>7, <1>10 DEF LoseIssue, Insert
<1>12. ASSUME NEW c \in Call, FailIssue(c) \/ Crash(c) PROVE LockPart(d, u)'
  <2>1. \A t \in Task : LiveClaim(t)' => LiveClaim(t)
    BY <1>12, ClearedKeeps DEF FailIssue, Crash
  <2>2. QED
    BY <1>12, <2>1, <1>6, <1>10 DEF FailIssue, Crash
<1>13. ASSUME NEW c \in Call, NEW t \in Task, CommitClaim(c, t) \/ LoseCommit(c, t)
       PROVE LockPart(d, u)'
  <2>1. pc[c] = "issued" /\ t \in job[c] /\ Release(c) /\ UNCHANGED <<claims, job>>
        /\ (Apply(c, t) \/ UNCHANGED <<task, past>>)
    BY <1>13 DEF CommitClaim, LoseCommit
  <2>2. \A w \in Task : task'[w] = task[w] \/ locked[w] = c
    BY <2>1, <1>a, Committed
  <2>3. pc'[c] \notin {"selected", "issued"} /\ \A e \in Call \ {c} : pc'[e] = pc[e]
    BY <1>13, <1>a DEF CommitClaim, LoseCommit, Goto, TypeOK
  <2>4. \A w, v \in job'[c] : w = v
    BY <2>1, <1>a DEF LockInv
  <2>5. QED
    BY <2>1, <2>2, <2>3, <2>4, <1>6 DEF LiveClaim
(* The owners: no transaction of claimTask is open. *)
<1>14. ASSUME NEW c \in Call, pc[c] \notin {"selected", "issued"},
              pc'[c] \notin {"selected", "issued"},
              job'[c] \in {job[c], {}},
              \A e \in Call \ {c} : pc'[e] = pc[e] /\ job'[e] = job[e],
              locked' = locked,
              \A t \in Task : task'[t].status = task[t].status \/ Unlocked(t),
              \A t \in Task : LiveClaim(t)' => LiveClaim(t)
       PROVE LockPart(d, u)'
  <2>1. CASE d = c
    BY <2>1, <1>14, <1>a, <1>b, LockFree DEF LockPart
  <2>2. CASE d # c
    BY <2>2, <1>14, <1>a, <1>c, LockKept
  <2>3. QED
    BY <2>1, <2>2
<1>15. ASSUME NEW c \in Call, NEW t \in Task, Revoke(c, t) PROVE LockPart(d, u)'
  <2>1. \A w \in Task : LiveClaim(w)' => LiveClaim(w)
    BY <1>15, <1>a DEF Revoke, LiveClaim, NoClaim, TypeOK
  <2>2. job'[c] = {}
    BY <1>15, <1>a DEF Revoke, End, TypeOK
  <2>3. QED
    BY <1>15, <2>1, <2>2, <1>10, <1>14 DEF Revoke
<1>16. ASSUME NEW c \in Call, NEW t \in Task, NEW st \in Status, Mutate(c, t, st)
       PROVE  locked' = locked /\ \A w \in Task : task'[w].status = task[w].status \/ Unlocked(w)
  BY <1>16, <1>a, Mutated DEF Mutate
<1>17. ASSUME NEW c \in Call, NEW t \in Task, Start(c, t) \/ RenewTask(c, t)
       PROVE LockPart(d, u)'
  <2>1. \E st \in Status : Mutate(c, t, st)
    BY <1>17, <1>a, Statuses, TaskTyped DEF Start, RenewTask
  <2>2. pc[c] \in {"holding", "renewed"} /\ pc'[c] = "holding" /\ job' = job /\ claims' = claims
        /\ \A e \in Call \ {c} : pc'[e] = pc[e]
    BY <1>17, <1>a DEF Start, RenewTask, Goto, TypeOK
  <2>3. QED
    BY <2>1, <2>2, <1>14, <1>16 DEF LiveClaim
<1>18. ASSUME NEW c \in Call, NEW t \in Task, Complete(c, t) \/ Fail(c, t)
       PROVE LockPart(d, u)'
  <2>1. \A w \in Task : task'[w].status = task[w].status \/ Unlocked(w)
    BY <1>18, <1>a, <1>16, Failed, Statuses DEF Complete
  <2>2. \A w \in Task : LiveClaim(w)' => LiveClaim(w)
    BY <1>18, <1>a DEF Complete, Fail, LiveClaim, NoClaim, TypeOK
  <2>3. pc[c] = "holding" /\ locked' = locked /\ (End(c) \/ UNCHANGED <<pc, job>>)
    BY <1>18 DEF Complete, Fail, Mutate
  <2>4. CASE End(c)
    <3>1. job'[c] = {}
      BY <2>4, <1>a DEF End, TypeOK
    <3>2. QED
      BY <2>1, <2>2, <2>3, <2>4, <3>1, <1>10, <1>14
  <2>5. CASE UNCHANGED <<pc, job>>
    BY <2>1, <2>2, <2>3, <2>5, <1>14
  <2>6. QED
    BY <2>3, <2>4, <2>5
<1>19. ASSUME NEW c \in Call, NEW t \in Task,
              \/ RenewLoad(c, t) \/ RenewClaim(c, t) \/ RenewExpired(c, t)
              \/ RenewFails(c)
       PROVE LockPart(d, u)'
  <2>1. pc[c] \notin {"selected", "issued"} /\ pc'[c] \notin {"selected", "issued"}
        /\ job' = job /\ locked' = locked /\ task' = task
        /\ \A e \in Call \ {c} : pc'[e] = pc[e]
    BY <1>19, <1>a DEF RenewLoad, RenewClaim, RenewExpired, RenewFails, Goto, TypeOK
  <2>2. \A w \in Task : LiveClaim(w)' => LiveClaim(w)
    <3>1. CASE RenewExpired(c, t)
      BY <3>1, <1>a, ExpiredKeeps
    <3>2. CASE RenewLoad(c, t) \/ RenewClaim(c, t) \/ RenewFails(c)
      BY <3>2, <1>a DEF RenewLoad, RenewClaim, RenewFails, LiveClaim, TypeOK
    <3>3. QED
      BY <3>1, <3>2, <1>19
  <2>3. QED
    BY <2>1, <2>2, <1>14
<1>20. ASSUME NEW c \in Call, NEW t \in Task, Rejected(c, t) PROVE LockPart(d, u)'
  <2>1. job'[c] = {}
    BY <1>20, <1>a DEF Rejected, End, TypeOK
  <2>2. QED
    BY <1>20, <2>1, <1>10, <1>14 DEF Rejected, LiveClaim
<1>21. ASSUME Tick PROVE LockPart(d, u)'
  <2>1. task'[u].status = task[u].status /\ (LiveClaim(u)' => LiveClaim(u))
    BY <1>21, <1>a, Aged
  <2>2. QED
    BY <1>21, <2>1, <1>a, LockKept DEF Tick
<1>22. ASSUME UNCHANGED vars PROVE LockPart(d, u)'
  BY <1>22, <1>a, LockKept DEF vars, LiveClaim
<1>23. QED
  <2>1. CASE \E c \in Call : RenewFails(c)
    <3>1. PICK c \in Call : RenewFails(c)
      BY <2>1
    <3>2. QED
      BY <3>1, <1>19
  <2>2. QED
    BY <2>1, <1>1, <1>2, <1>3, <1>4, <1>5, <1>8, <1>9, <1>11, <1>12, <1>13, <1>15,
       <1>17, <1>18, <1>19, <1>20, <1>21, <1>22
       DEF Next, Gateway, ClaimTask, ClaimFails, Own

-----------------------------------------------------------------------------
(* Fences *)

LEMMA FenceTaskStep == IInv /\ [Next]_vars => \A u \in Task : FenceOfTask(u)'
<1> SUFFICES ASSUME IInv, [Next]_vars, NEW u \in Task PROVE FenceOfTask(u)'
  OBVIOUS
<1>a. TypeOK /\ LockInv /\ FenceOfTask(u)
      /\ past[u].newest \in Nat /\ past[u].owner \in Nat /\ lastFence \in Nat
  BY DEF IInv, FenceInv, TypeOK
<1>b. Active = {"assigned", "in_progress"}
  BY DEF Active
(* The fence of the task row and the history are untouched. *)
<1>0. ASSUME past' = past, lastFence' >= lastFence, lastFence' \in Nat,
             \/ task'[u].status \notin Active
             \/ task'[u].fence = task[u].fence /\ task[u].status \in Active,
             LiveClaim(u)' => LiveClaim(u) /\ claims'[u].fence = claims[u].fence
      PROVE FenceOfTask(u)'
  BY <1>0, <1>a DEF FenceOfTask
<1>1. ASSUME NEW S \in SUBSET Task, Enqueue(S) PROVE FenceOfTask(u)'
  <2>1. task'[u] = task[u] \/ task'[u].status \notin Active
    BY <1>1, <1>a, <1>b, Enqueued
  <2>2. claims' = claims /\ past' = past /\ lastFence' = lastFence
    BY <1>1 DEF Enqueue
  <2>3. \/ task'[u].status \notin Active
        \/ task'[u].fence = task[u].fence /\ task[u].status \in Active
    BY <2>1
  <2>4. QED
    BY <2>2, <2>3, <1>0, <1>a DEF LiveClaim
<1>2. ASSUME NEW t \in Task, Cancel(t) PROVE FenceOfTask(u)'
  <2>1. task'[u] = task[u] \/ task'[u].status = "cancelled"
    BY <1>2, <1>a, TaskTyped, Statuses, RowFields DEF Cancel, TypeOK
  <2>2. LiveClaim(u)' => LiveClaim(u) /\ claims'[u].fence = claims[u].fence
    BY <1>2, <1>a DEF Cancel, TypeOK, LiveClaim, NoClaim
  <2>3. QED
    BY <2>1, <2>2, <1>0, <1>2, <1>a, <1>b DEF Cancel
<1>3. ASSUME NEW t \in Task, Requeue(t) PROVE FenceOfTask(u)'
  <2>1. task'[u] = task[u] \/ task'[u].status = "queued"
    BY <1>3, <1>a, TaskTyped, RowFields DEF Requeue, TypeOK
  <2>2. QED
    BY <2>1, <1>0, <1>3, <1>a, <1>b DEF Requeue, LiveClaim
<1>4. ASSUME Recover PROVE FenceOfTask(u)'
  <2>1. task'[u] = task[u] \/ task'[u].status = "queued"
    BY <1>4, <1>a, Recovered
  <2>2. QED
    BY <2>1, <1>0, <1>4, <1>a, <1>b DEF Recover, LiveClaim
<1>5. ASSUME task' = task, past' = past, lastFence' \in {lastFence, lastFence + 1},
             LiveClaim(u)' => LiveClaim(u) /\ claims'[u].fence = claims[u].fence
      PROVE FenceOfTask(u)'
  BY <1>5, <1>0, <1>a
<1>6. ASSUME NEW c \in Call, NEW t \in Task, IssueRefused(c, t) PROVE FenceOfTask(u)'
  BY <1>6, <1>5 DEF IssueRefused, Cleared, LiveClaim, NoClaim
<1>7. ASSUME NEW c \in Call, NEW t \in Task, Insert(c, t) PROVE FenceOfTask(u)'
  <2>1. lastFence' = lastFence + 1 /\ task' = task
    BY <1>7 DEF Insert
  <2>2. CASE u = t
    <3>1. claims'[u] = ClaimRow(lastFence + 1) /\ past'[u] = [past[u] EXCEPT !.newest = lastFence + 1]
      BY <1>7, <2>2 DEF Insert, Cleared, TypeOK, IInv
    <3>2. claims'[u].fence = lastFence + 1
      BY <3>1 DEF ClaimRow
    <3>3. past'[u].newest = lastFence + 1 /\ past'[u].owner = past[u].owner
      BY <3>1, <1>a DEF TypeOK
    <3>4. QED
      BY <2>1, <3>2, <3>3, <1>a DEF FenceOfTask
  <2>3. CASE u # t
    <3>1. past'[u] = past[u] /\ claims'[u] = Cleared[u]
      BY <1>7, <1>a, <2>3 DEF Insert, TypeOK, Cleared
    <3>2. LiveClaim(u)' => LiveClaim(u) /\ claims'[u].fence = claims[u].fence
      BY <3>1 DEF Cleared, LiveClaim, NoClaim
    <3>3. QED
      BY <2>1, <3>1, <3>2, <1>a DEF FenceOfTask
  <2>4. QED
    BY <2>2, <2>3
<1>8. ASSUME NEW c \in Call, NEW t \in Task, CommitClaim(c, t) \/ LoseCommit(c, t)
      PROVE FenceOfTask(u)'
  <2>1. claims' = claims /\ lastFence' = lastFence /\ pc[c] = "issued" /\ t \in job[c]
    BY <1>8 DEF CommitClaim, LoseCommit
  <2>2. CASE UNCHANGED <<task, past>>
    BY <2>1, <2>2, <1>5, <1>a DEF LiveClaim
  <2>3. CASE Apply(c, t)
    <3>1. fence[c] > past[t].owner /\ fence[c] <= lastFence /\ fence[c] \in Nat
          /\ past[t].owner \in Nat
      BY <2>1, <1>a DEF IInv, FenceInv, FenceOfCall, TypeOK
    <3>2. QED
      BY <2>1, <2>3, <3>1, <1>a, <1>b, Committed DEF FenceOfTask, LiveClaim
  <2>4. QED
    BY <2>2, <2>3, <1>8 DEF CommitClaim, LoseCommit
<1>9. ASSUME NEW c \in Call, NEW t \in Task, Revoke(c, t) PROVE FenceOfTask(u)'
  <2>1. LiveClaim(u)' => LiveClaim(u) /\ claims'[u].fence = claims[u].fence
    BY <1>9, <1>a DEF Revoke, TypeOK, LiveClaim, NoClaim
  <2>2. QED
    BY <2>1, <1>9, <1>5 DEF Revoke
<1>10. ASSUME NEW c \in Call, NEW t \in Task, NEW st \in Status, Mutate(c, t, st)
       PROVE  /\ past' = past /\ lastFence' = lastFence
              /\ \/ task'[u] = task[u]
                 \/ task[u].status \in Active /\ task'[u].fence = task[u].fence
  BY <1>10, <1>a, Mutated DEF Mutate, Owns
<1>11. ASSUME NEW c \in Call, NEW t \in Task, Start(c, t) \/ RenewTask(c, t)
       PROVE FenceOfTask(u)'
  <2>1. \E st \in Status : Mutate(c, t, st)
    BY <1>11, <1>a, Statuses, TaskTyped DEF Start, RenewTask
  <2>2. claims' = claims
    BY <1>11 DEF Start, RenewTask
  <2>3. QED
    BY <2>1, <2>2, <1>10, <1>0, <1>a DEF LiveClaim
<1>12. ASSUME NEW c \in Call, NEW t \in Task, Complete(c, t) \/ Fail(c, t)
       PROVE FenceOfTask(u)'
  <2>1. LiveClaim(u)' => LiveClaim(u) /\ claims'[u].fence = claims[u].fence
    BY <1>12, <1>a DEF Complete, Fail, LiveClaim, NoClaim, TypeOK
  <2>2. /\ past' = past /\ lastFence' = lastFence
        /\ \/ task'[u] = task[u]
           \/ task[u].status \in Active /\ task'[u].fence = task[u].fence
    <3>1. CASE Complete(c, t)
      BY <3>1, <1>10, Statuses DEF Complete
    <3>2. CASE Fail(c, t)
      BY <3>2, <1>a, Failed DEF Fail, Owns
    <3>3. QED
      BY <3>1, <3>2, <1>12
  <2>3. QED
    BY <2>1, <2>2, <1>0, <1>a
<1>13. ASSUME NEW c \in Call, NEW t \in Task, RenewClaim(c, t) \/ RenewExpired(c, t)
       PROVE FenceOfTask(u)'
  <2>1. CASE RenewExpired(c, t)
    BY <2>1, <1>5, <1>a, ExpiredKeeps DEF RenewExpired
  <2>2. CASE RenewClaim(c, t)
    <3>1. LiveClaim(u)' => LiveClaim(u) /\ claims'[u].fence = claims[u].fence
      BY <2>2, <1>a DEF RenewClaim, LiveClaim, ClaimRow, TypeOK
    <3>2. QED
      BY <2>2, <3>1, <1>5 DEF RenewClaim
  <2>3. QED
    BY <2>1, <2>2, <1>13
<1>14. ASSUME Tick PROVE FenceOfTask(u)'
  <2>1. /\ task'[u].status = task[u].status /\ task'[u].fence = task[u].fence
        /\ claims'[u].fence = claims[u].fence
        /\ LiveClaim(u)' => LiveClaim(u)
    BY <1>14, <1>a, Aged
  <2>2. QED
    BY <2>1, <1>14, <1>0, <1>a DEF Tick
<1>15. ASSUME NEW c \in Call, NEW t \in Task,
              \/ Select(c, t) \/ FailIssue(c) \/ Rejected(c, t) \/ RenewLoad(c, t)
              \/ RenewFails(c) \/ Crash(c)
       PROVE FenceOfTask(u)'
  <2>1. task' = task /\ past' = past /\ lastFence' \in {lastFence, lastFence + 1}
        /\ claims' \in {claims, Cleared}
    BY <1>15, <1>a DEF Select, FailIssue, Rejected, RenewLoad, RenewFails, Crash
  <2>2. QED
    BY <2>1, <1>5, ClearedKeeps
<1>16. ASSUME UNCHANGED vars PROVE FenceOfTask(u)'
  BY <1>16, <1>5 DEF vars, LiveClaim
<1>17. QED
  BY <1>1, <1>2, <1>3, <1>4, <1>6, <1>7, <1>8, <1>9, <1>11, <1>12, <1>13, <1>14, <1>15,
     <1>16 DEF Next, Gateway, ClaimTask, ClaimFails, Own, Issue, LoseIssue

LEMMA FenceCallStep == IInv /\ [Next]_vars => \A d \in Call : FenceOfCall(d)'
<1> SUFFICES ASSUME IInv, [Next]_vars, NEW d \in Call PROVE FenceOfCall(d)'
  OBVIOUS
<1>a. TypeOK /\ LockInv /\ FenceOfCall(d) /\ fence[d] \in Nat /\ lastFence \in Nat
  BY DEF IInv, FenceInv, TypeOK
<1>0. ASSUME fence'[d] = fence[d], lastFence' \in {lastFence, lastFence + 1},
             \/ pc'[d] # "issued"
             \/ /\ pc'[d] = pc[d] /\ job'[d] = job[d]
                /\ \A t \in job[d] : past'[t] = past[t]
      PROVE FenceOfCall(d)'
  BY <1>0, <1>a DEF FenceOfCall
<1>1. ASSUME NEW c \in Call, End(c), lastFence' \in {lastFence, lastFence + 1},
             d # c /\ pc[d] = "issued" => \A t \in job[d] : past'[t] = past[t]
      PROVE FenceOfCall(d)'
  <2>1. CASE d = c
    <3>1. fence'[d] = 0 /\ pc'[d] = "ended"
      BY <1>1, <1>a, <2>1 DEF End, Goto, TypeOK
    <3>2. QED
      BY <3>1, <1>1, <1>a DEF FenceOfCall
  <2>2. CASE d # c
    BY <2>2, <1>1, <1>0, <1>a DEF End, Goto, TypeOK
  <2>3. QED
    BY <2>1, <2>2
<1>2. ASSUME NEW c \in Call, NEW t \in Task, Insert(c, t), d # c, pc[d] = "issued"
      PROVE  \A w \in job[d] : past'[w] = past[w]
  <2> SUFFICES ASSUME NEW w \in job[d] PROVE past'[w] = past[w]
    OBVIOUS
  <2>1. w \in Task /\ locked[w] = d
    BY <1>2, <1>a DEF LockInv, TypeOK
  <2>2. locked[t] = c
    BY <1>2, <1>a DEF Insert, LockInv
  <2>3. QED
    BY <1>2, <2>1, <2>2, <1>a DEF Insert, TypeOK
<1>3. ASSUME NEW c \in Call, NEW t \in Task, Issue(c, t) PROVE FenceOfCall(d)'
  <2>1. CASE d = c
    <3>1. fence'[d] = lastFence + 1 /\ lastFence' = lastFence + 1 /\ job'[d] = job[d]
      BY <1>3, <1>a, <2>1 DEF Issue, Insert, TypeOK
    <3>2. ASSUME NEW w \in job[d]
          PROVE  fence'[d] = past'[w].newest /\ fence'[d] > past'[w].owner
      <4>1. w = t /\ w \in Task
        BY <1>3, <1>a, <2>1, <3>2 DEF Issue, Insert, LockInv, TypeOK
      <4>2. past'[w] = [past[w] EXCEPT !.newest = lastFence + 1]
        BY <1>3, <1>a, <4>1 DEF Issue, Insert, TypeOK
      <4>3. past'[w].newest = lastFence + 1 /\ past'[w].owner = past[w].owner
            /\ past[w].owner \in Nat
        BY <4>1, <4>2, <1>a DEF TypeOK
      <4>4. past[w].owner <= lastFence
        BY <4>1 DEF IInv, FenceInv, FenceOfTask
      <4>5. QED
        BY <3>1, <4>3, <4>4, <1>a
    <3>3. QED
      BY <3>1, <3>2, <1>a DEF FenceOfCall
  <2>2. CASE d # c
    <3>1. Insert(c, t) /\ fence'[d] = fence[d] /\ pc'[d] = pc[d] /\ job' = job
          /\ lastFence' = lastFence + 1
      BY <1>3, <1>a, <2>2 DEF Issue, Insert, Goto, TypeOK
    <3>2. QED
      BY <3>1, <2>2, <1>2, <1>0
  <2>3. QED
    BY <2>1, <2>2
<1>4. ASSUME NEW c \in Call, NEW t \in Task, LoseIssue(c, t) PROVE FenceOfCall(d)'
  BY <1>4, <1>1, <1>2 DEF LoseIssue, Insert
<1>5. ASSUME NEW c \in Call, NEW t \in Task, CommitClaim(c, t) \/ LoseCommit(c, t)
      PROVE FenceOfCall(d)'
  <2>1. pc[c] = "issued" /\ t \in job[c] /\ fence' = fence /\ job' = job /\ lastFence' = lastFence
        /\ (Apply(c, t) \/ past' = past)
    BY <1>5 DEF CommitClaim, LoseCommit
  <2>2. CASE d = c
    BY <1>5, <1>a, <2>1, <2>2, <1>0 DEF CommitClaim, LoseCommit, Goto, TypeOK
  <2>3. CASE d # c
    <3>1. pc'[d] = pc[d]
      BY <1>5, <1>a, <2>3 DEF CommitClaim, LoseCommit, Goto, TypeOK
    <3>2. ASSUME pc[d] = "issued", NEW w \in job[d] PROVE past'[w] = past[w]
      <4>1. w \in Task /\ locked[w] = d /\ locked[t] = c
        BY <2>1, <3>2, <1>a DEF LockInv, TypeOK
      <4>2. QED
        BY <2>1, <2>3, <4>1, <1>a DEF Apply, TypeOK
    <3>3. QED
      BY <2>1, <3>1, <3>2, <1>0
  <2>4. QED
    BY <2>2, <2>3
<1>6. ASSUME NEW c \in Call,
             \/ FailIssue(c) \/ Crash(c)
             \/ \E t \in Task : \/ Revoke(c, t) \/ Rejected(c, t)
                              \/ Complete(c, t) \/ Fail(c, t)
      PROVE FenceOfCall(d)'
  <2>1. \A t \in Task : Complete(c, t) \/ Fail(c, t) =>
            (End(c) \/ UNCHANGED <<pc, job, fence>>) /\ past' = past /\ lastFence' = lastFence
    BY DEF Complete, Fail, Mutate
  <2>2. CASE UNCHANGED <<pc, job, fence, past, lastFence>>
    BY <2>2, <1>0, <1>a
  <2>3. QED
    BY <2>1, <2>2, <1>6, <1>1, <1>a DEF FailIssue, Revoke, Rejected, Crash
<1>7. ASSUME NEW c \in Call,
             \/ RenewFails(c)
             \/ \E t \in Task : \/ Select(c, t) \/ IssueRefused(c, t) \/ Start(c, t)
                              \/ RenewTask(c, t) \/ RenewLoad(c, t) \/ RenewClaim(c, t)
                              \/ RenewExpired(c, t)
      PROVE FenceOfCall(d)'
  <2>1. fence' = fence /\ lastFence' = lastFence /\ past' = past
    BY <1>7 DEF Select, IssueRefused, Start, RenewTask, RenewLoad, RenewClaim, RenewExpired,
       RenewFails, Mutate
  <2>2. pc'[d] # "issued" \/ (pc'[d] = pc[d] /\ job'[d] = job[d])
    BY <1>7, <1>a DEF Select, IssueRefused, Start, RenewTask, RenewLoad, RenewClaim,
       RenewExpired, RenewFails, Goto, TypeOK
  <2>3. QED
    BY <2>1, <2>2, <1>0
<1>8. ASSUME UNCHANGED <<lastFence, pc, job, fence, past>> PROVE FenceOfCall(d)'
  BY <1>8, <1>0
<1>9. ASSUME Gateway \/ Tick \/ UNCHANGED vars PROVE FenceOfCall(d)'
  BY <1>9, <1>8 DEF Gateway, Enqueue, Cancel, Requeue, Recover, Tick, vars
<1>10. ASSUME NEW c \in Call, ClaimTask(c) PROVE FenceOfCall(d)'
  BY <1>10, <1>3, <1>5, <1>7 DEF ClaimTask
<1>11. ASSUME NEW c \in Call, ClaimFails(c) PROVE FenceOfCall(d)'
  BY <1>11, <1>4, <1>5, <1>6 DEF ClaimFails
<1>12. ASSUME NEW c \in Call, Own(c) PROVE FenceOfCall(d)'
  BY <1>12, <1>6, <1>7 DEF Own
<1>13. QED
  BY <1>6, <1>9, <1>10, <1>11, <1>12 DEF Next

-----------------------------------------------------------------------------
(* Holders *)

HolderPart(d, u) ==
    Holds(d, u) => \/ task[u].status = "gone"
                   \/ task[u].status \in Active /\ task[u].fence = fence[d]

(* What was held stays held, and its row is only moved on by its owner. *)
LEMMA HolderKept ==
    ASSUME NEW d \in Call, NEW u \in Task, HolderPart(d, u),
           Holds(d, u)' => Holds(d, u) /\ fence'[d] = fence[d],
           Holds(d, u) => \/ task'[u] = task[u]
                          \/ task'[u].status = "gone"
                          \/ /\ task[u].status # "gone" /\ task'[u].status \in Active
                             /\ task'[u].fence = task[u].fence
    PROVE  HolderPart(d, u)'
  BY DEF HolderPart

LEMMA HolderStep ==
    IInv /\ [Next]_vars => \A d \in Call, u \in Task : HolderPart(d, u)'
<1> SUFFICES ASSUME IInv, [Next]_vars, NEW d \in Call, NEW u \in Task
             PROVE  HolderPart(d, u)'
  OBVIOUS
<1>a. TypeOK /\ LockInv /\ HolderPart(d, u) /\ FenceOfTask(u)
  BY DEF IInv, HolderInv, HolderPart, FenceInv
<1>b. Active = {"assigned", "in_progress"}
  BY DEF Active
<1>c. /\ fence[d] \in Nat /\ lastFence \in Nat /\ fence[d] <= lastFence
      /\ claims[u] \in [fence : Nat, left : 0..ClaimTtl]
      /\ past[u].owner \in Nat
  BY DEF IInv, TypeOK, FenceInv, FenceOfCall
(* The calls and the claims stand still. *)
<1>0. ASSUME pc' = pc, job' = job, fence' = fence,
             LiveClaim(u)' => LiveClaim(u) /\ claims'[u].fence = claims[u].fence
      PROVE  Holds(d, u)' => Holds(d, u) /\ fence'[d] = fence[d]
  BY <1>0 DEF Holds
<1>1. ASSUME NEW S \in SUBSET Task, Enqueue(S) PROVE HolderPart(d, u)'
  <2>1. pc' = pc /\ job' = job /\ fence' = fence /\ claims' = claims
    BY <1>1 DEF Enqueue
  <2>2. task'[u] = task[u] \/ task[u].status = "new" \/ task'[u].status = "gone"
    BY <1>1, <1>a, Enqueued
  <2>3. Holds(d, u) => task[u].status # "new"
    BY <1>a, <1>b DEF HolderPart
  <2>4. QED
    BY <2>1, <2>2, <2>3, <1>0, <1>a, HolderKept DEF LiveClaim
<1>2. ASSUME NEW t \in Task, Cancel(t) PROVE HolderPart(d, u)'
  <2>1. pc' = pc /\ job' = job /\ fence' = fence
    BY <1>2 DEF Cancel
  <2>2. LiveClaim(u)' => LiveClaim(u) /\ claims'[u].fence = claims[u].fence
    BY <1>2, <1>a DEF Cancel, TypeOK, LiveClaim, NoClaim
  <2>3. CASE u = t
    <3>1. task[u].status \in Active \cup {"queued"}
      BY <1>2, <2>3 DEF Cancel
    <3>2. Holds(d, u) => task[u].status \in Active /\ task[u].fence # 0
      BY <3>1, <1>a, <1>b DEF HolderPart, FenceOfTask
    <3>3. task[u].fence # 0 => ~LiveClaim(u)'
      BY <1>2, <1>a, <2>3 DEF Cancel, TypeOK, LiveClaim, NoClaim
    <3>4. ~Holds(d, u)'
      BY <2>1, <2>2, <3>2, <3>3, <1>0 DEF Holds
    <3>5. QED
      BY <3>4 DEF HolderPart
  <2>4. CASE u # t
    <3>1. task'[u] = task[u]
      BY <1>2, <1>a, <2>4 DEF Cancel, TypeOK
    <3>2. QED
      BY <2>1, <2>2, <3>1, <1>0, <1>a, HolderKept
  <2>5. QED
    BY <2>3, <2>4
<1>3. ASSUME NEW t \in Task, Requeue(t) PROVE HolderPart(d, u)'
  <2>1. pc' = pc /\ job' = job /\ fence' = fence /\ claims' = claims
    BY <1>3 DEF Requeue
  <2>2. task'[u] = task[u] \/ task[u].status = "failed"
    BY <1>3, <1>a DEF Requeue, TypeOK
  <2>3. Holds(d, u) => task[u].status # "failed"
    BY <1>a, <1>b DEF HolderPart
  <2>4. QED
    BY <2>1, <2>2, <2>3, <1>0, <1>a, HolderKept DEF LiveClaim
<1>4. ASSUME Recover PROVE HolderPart(d, u)'
  <2>1. pc' = pc /\ job' = job /\ fence' = fence /\ claims' = claims
    BY <1>4 DEF Recover
  <2>2. task'[u] = task[u] \/ ~LiveClaim(u)
    BY <1>4, <1>a, Recovered DEF Orphaned
  <2>3. Holds(d, u) => task'[u] = task[u]
    BY <2>2 DEF Holds
  <2>4. QED
    BY <2>1, <2>3, <1>0, <1>a, HolderKept DEF LiveClaim
(* Steps of a call that leave the task table alone, and obtain no claim. *)
<1>5. ASSUME NEW c \in Call, task' = task,
             \A e \in Call \ {c} : pc'[e] = pc[e] /\ job'[e] = job[e] /\ fence'[e] = fence[e],
             \/ pc'[c] \notin {"holding", "renewing", "renewed"}
             \/ /\ pc[c] \in {"holding", "renewing", "renewed"}
                /\ job'[c] = job[c] /\ fence'[c] = fence[c],
             LiveClaim(u)' => \/ LiveClaim(u) /\ claims'[u].fence = claims[u].fence
                              \/ claims'[u].fence = lastFence + 1
      PROVE HolderPart(d, u)'
  <2>1. CASE d = c
    <3>1. Holds(d, u)' => Holds(d, u) /\ fence'[d] = fence[d]
      BY <2>1, <1>5, <1>c DEF Holds
    <3>2. QED
      BY <3>1, <1>5, <1>a, HolderKept
  <2>2. CASE d # c
    <3>1. Holds(d, u)' => Holds(d, u) /\ fence'[d] = fence[d]
      BY <2>2, <1>5, <1>c DEF Holds
    <3>2. QED
      BY <3>1, <1>5, <1>a, HolderKept
  <2>3. QED
    BY <2>1, <2>2
<1>6. ASSUME NEW c \in Call, End(c)
      PROVE  /\ pc'[c] = "ended"
             /\ \A e \in Call \ {c} : pc'[e] = pc[e] /\ job'[e] = job[e] /\ fence'[e] = fence[e]
  BY <1>6, <1>a DEF End, Goto, TypeOK
<1>7. ASSUME NEW c \in Call, NEW t \in Task, Insert(c, t)
      PROVE  /\ task' = task
             /\ LiveClaim(u)' => \/ LiveClaim(u) /\ claims'[u].fence = claims[u].fence
                                 \/ claims'[u].fence = lastFence + 1
  <2>1. claims'[u] = IF u = t THEN ClaimRow(lastFence + 1) ELSE Cleared[u]
    BY <1>7, <1>a DEF Insert, Cleared
  <2>2. QED
    BY <1>7, <2>1 DEF Insert, ClaimRow, Cleared, LiveClaim, NoClaim
<1>8. ASSUME NEW c \in Call,
             \/ FailIssue(c) \/ Crash(c)
             \/ \E t \in Task : LoseIssue(c, t) \/ Revoke(c, t) \/ Rejected(c, t)
      PROVE HolderPart(d, u)'
  <2>1. End(c) /\ task' = task
    BY <1>8 DEF FailIssue, Crash, LoseIssue, Insert, Revoke, Rejected
  <2>2. LiveClaim(u)' => \/ LiveClaim(u) /\ claims'[u].fence = claims[u].fence
                         \/ claims'[u].fence = lastFence + 1
    <3>1. CASE FailIssue(c)
      BY <3>1, ClearedKeeps DEF FailIssue
    <3>2. CASE Crash(c) \/ \E t \in Task : LoseIssue(c, t) \/ Revoke(c, t) \/ Rejected(c, t)
      BY <3>2, <1>7, <1>a DEF Crash, LoseIssue, Revoke, Rejected, LiveClaim, NoClaim, TypeOK
    <3>3. QED
      BY <3>1, <3>2, <1>8
  <2>3. QED
    BY <2>1, <2>2, <1>5, <1>6
<1>9. ASSUME NEW c \in Call, NEW t \in Task,
             Select(c, t) \/ IssueRefused(c, t) \/ Issue(c, t) \/ RenewLoad(c, t)
             \/ RenewClaim(c, t) \/ RenewExpired(c, t)
      PROVE HolderPart(d, u)'
  <2>1. task' = task
    BY <1>9 DEF Select, IssueRefused, Issue, Insert, RenewLoad, RenewClaim, RenewExpired
  <2>2. LiveClaim(u)' => \/ LiveClaim(u) /\ claims'[u].fence = claims[u].fence
                         \/ claims'[u].fence = lastFence + 1
    <3>1. CASE Select(c, t) \/ RenewLoad(c, t)
      BY <3>1 DEF Select, RenewLoad, LiveClaim
    <3>2. CASE IssueRefused(c, t)
      BY <3>2 DEF IssueRefused, Cleared, LiveClaim, NoClaim
    <3>3. CASE Issue(c, t)
      BY <3>3, <1>7 DEF Issue
    <3>4. CASE RenewClaim(c, t)
      BY <3>4, <1>a DEF RenewClaim, LiveClaim, ClaimRow, TypeOK
    <3>5. CASE RenewExpired(c, t)
      BY <3>5, <1>a, ExpiredKeeps
    <3>6. QED
      BY <3>1, <3>2, <3>3, <3>4, <3>5, <1>9
  <2>3. \A e \in Call \ {c} : pc'[e] = pc[e] /\ job'[e] = job[e] /\ fence'[e] = fence[e]
    BY <1>9, <1>a DEF Select, IssueRefused, Issue, Insert, RenewLoad, RenewClaim,
       RenewExpired, Goto, TypeOK
  <2>4. \/ pc'[c] \notin {"holding", "renewing", "renewed"}
        \/ /\ pc[c] \in {"holding", "renewing", "renewed"}
           /\ job'[c] = job[c] /\ fence'[c] = fence[c]
    BY <1>9, <1>a DEF Select, IssueRefused, Issue, Insert, RenewLoad, RenewClaim,
       RenewExpired, Goto, TypeOK
  <2>5. QED
    BY <2>1, <2>2, <2>3, <2>4, <1>5
<1>10. ASSUME NEW c \in Call, RenewFails(c) PROVE HolderPart(d, u)'
  BY <1>10, <1>5, <1>a DEF RenewFails, Goto, LiveClaim, TypeOK
<1>11. ASSUME NEW c \in Call, NEW t \in Task, CommitClaim(c, t) \/ LoseCommit(c, t)
       PROVE HolderPart(d, u)'
  <2>1. /\ pc[c] = "issued" /\ t \in job[c]
        /\ job' = job /\ fence' = fence /\ claims' = claims
        /\ Apply(c, t) \/ task' = task
    BY <1>11 DEF CommitClaim, LoseCommit
  <2>2. d # c => pc'[d] = pc[d]
    BY <1>11, <1>a DEF CommitClaim, LoseCommit, Goto, TypeOK
  <2>3. CASE d = c /\ CommitClaim(c, t)
    <3>1. Holds(d, u)' => u = t
      BY <2>1, <2>3, <1>a DEF Holds, LockInv
    <3>2. u = t => task'[u].status = "assigned" /\ task'[u].fence = fence[d]
      BY <2>1, <2>3, <1>a, Committed DEF CommitClaim
    <3>3. QED
      BY <2>1, <3>1, <3>2, <1>b DEF HolderPart
  <2>4. CASE d = c /\ LoseCommit(c, t)
    BY <2>4, <1>a DEF LoseCommit, Goto, HolderPart, Holds, TypeOK
  <2>5. CASE d # c
    <3>1. Holds(d, u)' => Holds(d, u) /\ fence'[d] = fence[d]
      BY <2>1, <2>2, <2>5 DEF Holds, LiveClaim
    <3>2. ASSUME Holds(d, u) PROVE task'[u] = task[u]
      <4>1. CASE task' = task
        BY <4>1
      <4>2. CASE Apply(c, t)
        <5>1. u = t => task[u].status \in Active \cup {"queued"}
          BY <2>1, <1>a DEF LockInv
        <5>2. u = t => task[u].status \in Active /\ task[u].fence = fence[d]
          BY <3>2, <5>1, <1>a, <1>b DEF HolderPart
        <5>3. u = t => fence[d] = past[u].owner
          BY <5>2, <1>a DEF FenceOfTask
        <5>4. u = t => fence[c] = past[u].newest /\ fence[c] > past[u].owner
          BY <2>1 DEF IInv, FenceInv, FenceOfCall
        <5>5. fence[d] = past[u].newest /\ LiveClaim(u)
          BY <3>2, <1>a DEF Holds, FenceOfTask
        <5>6. u # t
          BY <5>3, <5>4, <5>5, <1>c
        <5>7. QED
          BY <2>1, <4>2, <5>5, <5>6, <1>a, Committed
      <4>3. QED
        BY <4>1, <4>2, <2>1
    <3>3. QED
      BY <3>1, <3>2, <1>a, HolderKept
  <2>6. QED
    BY <2>3, <2>4, <2>5, <1>11
<1>12. ASSUME NEW c \in Call, NEW t \in Task, NEW st \in Active, Mutate(c, t, st),
              pc[c] \in {"holding", "renewed"}, pc' = [pc EXCEPT ![c] = "holding"],
              UNCHANGED <<claims, job, fence>>
       PROVE HolderPart(d, u)'
  <2>1. st \in Status
    BY DEF Status
  <2>2. \/ task'[u] = task[u]
        \/ /\ task[u].status \in Active
           /\ task'[u].status \in Active /\ task'[u].fence = task[u].fence
    BY <1>12, <2>1, <1>a, Mutated DEF Owns
  <2>3. Holds(d, u)' => Holds(d, u) /\ fence'[d] = fence[d]
    BY <1>12, <1>a DEF Holds, LiveClaim, TypeOK
  <2>4. QED
    BY <2>2, <2>3, <1>a, <1>b, HolderKept
<1>13. ASSUME NEW c \in Call, NEW t \in Task, Start(c, t) PROVE HolderPart(d, u)'
  <2>1. Mutate(c, t, "in_progress") /\ "in_progress" \in Active
    BY <1>13, <1>b DEF Start
  <2>2. pc[c] = "holding" /\ pc' = [pc EXCEPT ![c] = "holding"] /\ UNCHANGED <<claims, job, fence>>
    BY <1>13, <1>a DEF Start, TypeOK
  <2>3. QED
    BY <2>1, <2>2, <1>12
<1>14. ASSUME NEW c \in Call, NEW t \in Task, RenewTask(c, t) PROVE HolderPart(d, u)'
  <2>1. task[t].status \in Active
    BY <1>14 DEF RenewTask, Mutate, Owns
  <2>2. QED
    BY <1>14, <2>1, <1>12 DEF RenewTask, Goto
<1>15. ASSUME NEW c \in Call, NEW t \in Task, Complete(c, t) \/ Fail(c, t)
       PROVE HolderPart(d, u)'
  <2>1. u # t => task'[u] = task[u] /\ claims'[u] = claims[u]
    BY <1>15, <1>a DEF Complete, Fail, Mutate, TypeOK
  <2>2. u = t => ~LiveClaim(u)'
    BY <1>15, <1>a DEF Complete, Fail, LiveClaim, NoClaim, TypeOK
  <2>3. End(c) \/ UNCHANGED <<pc, job, fence>>
    BY <1>15 DEF Complete, Fail
  <2>4. Holds(d, u)' => u # t /\ Holds(d, u) /\ fence'[d] = fence[d]
    <3>1. CASE UNCHANGED <<pc, job, fence>>
      BY <2>1, <2>2, <3>1 DEF Holds, LiveClaim
    <3>2. CASE End(c)
      <4>1. d = c => ~Holds(d, u)'
        BY <3>2, <1>6 DEF Holds
      <4>2. QED
        BY <2>1, <2>2, <3>2, <4>1, <1>6 DEF Holds, LiveClaim
    <3>3. QED
      BY <2>3, <3>1, <3>2
  <2>5. QED
    BY <2>1, <2>4, <1>a DEF HolderPart
<1>16. ASSUME Tick PROVE HolderPart(d, u)'
  <2>1. /\ task'[u].status = task[u].status /\ task'[u].fence = task[u].fence
        /\ claims'[u].fence = claims[u].fence
        /\ LiveClaim(u)' => LiveClaim(u)
    BY <1>16, <1>a, Aged
  <2>2. Holds(d, u)' => Holds(d, u) /\ fence'[d] = fence[d]
    BY <2>1, <1>16, <1>0 DEF Tick
  <2>3. QED
    BY <2>1, <2>2, <1>a DEF HolderPart
<1>17. ASSUME UNCHANGED vars PROVE HolderPart(d, u)'
  BY <1>17, <1>0, <1>a, HolderKept DEF vars, LiveClaim
<1>18. ASSUME NEW c \in Call, ClaimTask(c) PROVE HolderPart(d, u)'
  BY <1>18, <1>9, <1>11 DEF ClaimTask
<1>19. ASSUME NEW c \in Call, ClaimFails(c) PROVE HolderPart(d, u)'
  BY <1>19, <1>8, <1>11 DEF ClaimFails
<1>20. ASSUME NEW c \in Call, Own(c) PROVE HolderPart(d, u)'
  BY <1>20, <1>8, <1>9, <1>10, <1>13, <1>14, <1>15 DEF Own
<1>21. QED
  BY <1>1, <1>2, <1>3, <1>4, <1>8, <1>16, <1>17, <1>18, <1>19, <1>20 DEF Next, Gateway

(* A purged row keeps its expired retention. *)
LEMMA GoneStep ==
    IInv /\ [Next]_vars => \A u \in Task : task'[u].status = "gone" => Expired(u)'
<1> SUFFICES ASSUME IInv, [Next]_vars, NEW u \in Task, task'[u].status = "gone"
             PROVE  Expired(u)'
  OBVIOUS
<1>a. TypeOK /\ LockInv /\ (task[u].status = "gone" => Expired(u))
  BY DEF IInv, HolderInv
<1>b. Active = {"assigned", "in_progress"}
  BY DEF Active
<1>0. CASE task'[u] = task[u]
  BY <1>0, <1>a DEF Expired
<1>1. ASSUME NEW S \in SUBSET Task, Enqueue(S) PROVE Expired(u)'
  BY <1>1, <1>0, <1>a, Enqueued
<1>2. ASSUME NEW t \in Task, Cancel(t) \/ Requeue(t) PROVE task'[u] = task[u]
  <2>1. u # t => task'[u] = task[u]
    BY <1>2, <1>a DEF Cancel, Requeue, TypeOK
  <2>2. u = t => task'[u].status \in {"cancelled", "queued"}
    BY <1>2, <1>a, TaskTyped, RowFields, Statuses DEF Cancel, Requeue, TypeOK
  <2>3. QED
    BY <2>1, <2>2
<1>3. ASSUME Recover PROVE task'[u] = task[u]
  BY <1>3, <1>a, Recovered
<1>4. ASSUME NEW c \in Call, NEW t \in Task, CommitClaim(c, t) \/ LoseCommit(c, t)
      PROVE  task'[u] = task[u]
  <2>1. pc[c] = "issued" /\ t \in job[c] /\ (Apply(c, t) \/ task' = task)
    BY <1>4 DEF CommitClaim, LoseCommit
  <2>2. QED
    BY <2>1, <1>a, Committed
<1>5. ASSUME NEW c \in Call, NEW t \in Task, NEW st \in Status \ {"gone"}, Mutate(c, t, st)
      PROVE  task'[u] = task[u]
  BY <1>5, <1>a, Mutated
<1>6. ASSUME NEW c \in Call, NEW t \in Task, Start(c, t) \/ Complete(c, t)
      PROVE  task'[u] = task[u]
  BY <1>6, <1>5, Statuses DEF Start, Complete
<1>7. ASSUME NEW c \in Call, NEW t \in Task, RenewTask(c, t) PROVE task'[u] = task[u]
  <2>1. task[t].status \in Active
    BY <1>7 DEF RenewTask, Mutate, Owns
  <2>2. task[t].status \in Status \ {"gone"}
    BY <2>1, <1>b, Statuses
  <2>3. QED
    BY <1>7, <2>2, <1>5 DEF RenewTask
<1>8. ASSUME NEW c \in Call, NEW t \in Task, Fail(c, t) PROVE task'[u] = task[u]
  BY <1>8, <1>a, Failed
<1>9. ASSUME NEW c \in Call,
             \/ FailIssue(c) \/ RenewFails(c) \/ Crash(c)
             \/ \E t \in Task : \/ Select(c, t) \/ IssueRefused(c, t) \/ Issue(c, t)
                                \/ LoseIssue(c, t) \/ Revoke(c, t) \/ Rejected(c, t)
                                \/ RenewLoad(c, t) \/ RenewClaim(c, t) \/ RenewExpired(c, t)
       PROVE task'[u] = task[u]
  BY <1>9 DEF Select, IssueRefused, Issue, LoseIssue, Insert, FailIssue, Revoke,
     Rejected, RenewLoad, RenewClaim, RenewExpired, RenewFails, Crash
<1>10. ASSUME Tick PROVE Expired(u)'
  BY <1>10, <1>a, Aged
<1>11. ASSUME UNCHANGED vars PROVE task'[u] = task[u]
  BY <1>11 DEF vars
<1>12. ASSUME NEW c \in Call, ClaimTask(c) \/ ClaimFails(c) \/ Own(c) \/ Crash(c)
       PROVE  task'[u] = task[u]
  BY <1>12, <1>4, <1>6, <1>7, <1>8, <1>9 DEF ClaimTask, ClaimFails, Own
<1>13. QED
  BY <1>0, <1>1, <1>2, <1>3, <1>10, <1>11, <1>12 DEF Next, Gateway

-----------------------------------------------------------------------------
(* The inductive invariant *)

LEMMA InitInv == Init => IInv
<1> SUFFICES ASSUME Init PROVE IInv
  OBVIOUS
<1>1. TypeOK
  BY TypeInit
<1>2. RetryInv
  BY BoundsAssumption DEF Init, RetryInv
<1>3. LockInv
  BY NobodyAssumption DEF Init, LockInv
<1>4. FenceInv
  BY DEF Init, FenceInv, FenceOfTask, FenceOfCall, LiveClaim, NoClaim, Active
<1>5. HolderInv
  BY DEF Init, HolderInv, Holds
<1>6. QED
  BY <1>1, <1>2, <1>3, <1>4, <1>5 DEF IInv

LEMMA StepInv == IInv /\ [Next]_vars => IInv'
<1> SUFFICES ASSUME IInv, [Next]_vars PROVE IInv'
  OBVIOUS
<1>1. TypeOK'
  BY TypeStep DEF IInv
<1>2. FenceInv'
  BY FenceTaskStep, FenceCallStep DEF FenceInv
<1>3. HolderInv'
  BY HolderStep, GoneStep DEF HolderInv, HolderPart
<1>4. QED
  BY <1>1, <1>2, <1>3, RetryStep, LockStep DEF IInv

(* Every reachable state of the queue and its claims satisfies IInv.       *)
THEOREM Invariance == Spec => []IInv
<1>1. QED
  BY InitInv, StepInv, PTL DEF Spec

(* The columns keep their types, and a task is never retried more often    *)
(* than it allows: failTask counts, requeueTask checks.                    *)
THEOREM TypeCorrect == Spec => []TypeOK
<1>1. IInv => TypeOK
  BY DEF IInv
<1>2. QED
  BY <1>1, Invariance, PTL

(* The holder of a live claim finds its task active under its own fence    *)
(* while the row is retained, whatever recovery, cancellation and other    *)
(* calls of claimTask did.                                                 *)
THEOREM LiveOwner == Spec => []LiveOwnerKeepsTask
<1>1. IInv => LiveOwnerKeepsTask
  BY DEF IInv, HolderInv, LiveOwnerKeepsTask
<1>2. QED
  BY <1>1, Invariance, PTL

-----------------------------------------------------------------------------
(* The refinement of FencedTasks, seen from one task *)

LEMMA Phases ==
    /\ Phase("new") = "new" /\ Phase("queued") = "open"
    /\ \A s \in Active : Phase(s) = "owned"
    /\ \A s \in Status \ (Active \cup {"queued"}) : Phase(s) = s
  BY DEF Phase, Active, Status

(* A task that keeps its phase and its fences; its claim may have lapsed. *)
LEMMA Stays ==
    ASSUME NEW u \in Task, Phase(task'[u].status) = Phase(task[u].status),
           past'[u] = past[u], LiveClaim(u)' => LiveClaim(u)
    PROVE  Fenced!Step(u)
<1>1. CASE LiveClaim(u)'
  <2>1. LiveClaim(u)' = LiveClaim(u)
    BY <1>1
  <2>2. Fenced!Stay(u)
    BY <2>1 DEF Fenced!Stay, Fenced!Move
  <2>3. QED
    BY <2>2 DEF Fenced!Step
<1>2. CASE ~LiveClaim(u)'
  <2>1. Fenced!Lapse(u)
    BY <1>2 DEF Fenced!Lapse, Fenced!Move
  <2>2. QED
    BY <2>1 DEF Fenced!Step
<1>3. QED
  BY <1>1, <1>2

(* A task that changes phase, with its fences and its claim untouched. *)
LEMMA Moves ==
    ASSUME NEW u \in Task, past'[u] = past[u], LiveClaim(u)' = LiveClaim(u),
           \/ task[u].status = "new" /\ task'[u].status = "queued"
           \/ task[u].status = "failed" /\ task'[u].status = "queued"
           \/ Phase(task[u].status) # "new" /\ task'[u].status = "gone"
           \/ task[u].status \in Active /\ ~LiveClaim(u) /\ task'[u].status = "queued"
    PROVE  Fenced!Step(u)
<1>a. Phase("failed") = "failed" /\ Phase("gone") = "gone"
  BY Phases DEF Status, Active
<1>1. CASE task[u].status = "new" /\ task'[u].status = "queued"
  BY <1>1, Phases DEF Fenced!Step, Fenced!Publish, Fenced!Move
<1>2. CASE task[u].status = "failed" /\ task'[u].status = "queued"
  BY <1>2, <1>a, Phases DEF Fenced!Step, Fenced!Retry, Fenced!Move
<1>3. CASE Phase(task[u].status) # "new" /\ task'[u].status = "gone"
  BY <1>3, <1>a DEF Fenced!Step, Fenced!Discard, Fenced!Move
<1>4. CASE task[u].status \in Active /\ ~LiveClaim(u) /\ task'[u].status = "queued"
  BY <1>4, Phases DEF Fenced!Step, Fenced!Reopen, Fenced!Move
<1>5. QED
  BY <1>1, <1>2, <1>3, <1>4

LEMMA Refines == IInv /\ [Next]_vars => \A u \in Task : Fenced!Step(u)
<1> SUFFICES ASSUME IInv, [Next]_vars, NEW u \in Task PROVE Fenced!Step(u)
  OBVIOUS
<1>a. TypeOK /\ LockInv /\ FenceOfTask(u)
      /\ past[u] \in [owner : Nat, newest : Nat] /\ lastFence \in Nat
  BY DEF IInv, FenceInv, TypeOK
<1>b. Active = {"assigned", "in_progress"} /\ task[u].status \in Status
  BY <1>a, TaskTyped DEF Active
<1>1. ASSUME NEW S \in SUBSET Task, Enqueue(S) PROVE Fenced!Step(u)
  <2>1. past' = past /\ LiveClaim(u)' = LiveClaim(u)
    BY <1>1 DEF Enqueue, LiveClaim
  <2>2. CASE task'[u] = task[u]
    BY <2>1, <2>2, Stays
  <2>3. CASE task[u].status = "new" /\ task'[u].status = "queued"
    BY <2>1, <2>3, Moves
  <2>4. CASE task[u].status # "new" /\ task'[u].status = "gone"
    <3>1. Phase(task[u].status) # "new"
      BY <2>4, <1>b, Phases
    <3>2. QED
      BY <2>1, <2>4, <3>1, Moves
  <2>5. QED
    BY <2>2, <2>3, <2>4, <1>1, <1>a, Enqueued
<1>2. ASSUME NEW t \in Task, Cancel(t) PROVE Fenced!Step(u)
  <2>1. past' = past /\ (LiveClaim(u)' => LiveClaim(u))
    BY <1>2, <1>a DEF Cancel, TypeOK, LiveClaim, NoClaim
  <2>2. CASE u # t
    BY <1>2, <1>a, <2>1, <2>2, Stays DEF Cancel, TypeOK
  <2>3. CASE u = t
    <3>1. task[u].status \in Active \cup {"queued"} /\ task'[u].status = "cancelled"
      BY <1>2, <1>a, <2>3, TaskTyped, RowFields, Statuses DEF Cancel, TypeOK
    <3>2. task[u].status \in Active => ~LiveClaim(u)'
      BY <1>2, <1>a, <2>3 DEF Cancel, FenceOfTask, LiveClaim, NoClaim, TypeOK
    <3>3. Phase(task'[u].status) = "cancelled"
      BY <3>1, Phases DEF Status, Active
    <3>4. \/ Phase(task[u].status) = "open"
          \/ Phase(task[u].status) = "owned" /\ ~LiveClaim(u)'
      BY <3>1, <3>2, Phases
    <3>5. Fenced!Cancel(u)
      BY <2>1, <3>3, <3>4 DEF Fenced!Cancel, Fenced!Move, Fenced!Unsettled
    <3>6. QED
      BY <3>5 DEF Fenced!Step
  <2>4. QED
    BY <2>2, <2>3
<1>3. ASSUME NEW t \in Task, Requeue(t) PROVE Fenced!Step(u)
  <2>1. past' = past /\ LiveClaim(u)' = LiveClaim(u)
    BY <1>3 DEF Requeue, LiveClaim
  <2>2. task'[u] = task[u] \/ (task[u].status = "failed" /\ task'[u].status = "queued")
    BY <1>3, <1>a, TaskTyped, RowFields DEF Requeue, TypeOK
  <2>3. QED
    BY <2>1, <2>2, Stays, Moves
<1>4. ASSUME Recover PROVE Fenced!Step(u)
  <2>1. past' = past /\ LiveClaim(u)' = LiveClaim(u)
    BY <1>4 DEF Recover, LiveClaim
  <2>2. QED
    BY <2>1, <1>4, <1>a, Recovered, Stays, Moves DEF Orphaned
<1>5. ASSUME task' = task, past' = past, LiveClaim(u)' => LiveClaim(u) PROVE Fenced!Step(u)
  BY <1>5, Stays
<1>6. ASSUME NEW c \in Call, NEW t \in Task, Insert(c, t) PROVE Fenced!Step(u)
  <2>1. claims'[u] = IF u = t THEN ClaimRow(lastFence + 1) ELSE Cleared[u]
    BY <1>6, <1>a DEF Insert, Cleared
  <2>2. task' = task
    BY <1>6 DEF Insert
  <2>3. CASE u = t
    <3>1. task[u].status \in Active \cup {"queued"}
      BY <1>6, <2>3, <1>a DEF Insert, LockInv
    <3>2. ~LiveClaim(u) /\ LiveClaim(u)'
      BY <1>6, <2>1, <2>3, TimesAssumption DEF Insert, Cleared, ClaimRow, LiveClaim, NoClaim
    <3>3. past'[u] = [past[u] EXCEPT !.newest = lastFence + 1]
      BY <1>6, <2>3, <1>a DEF Insert, TypeOK
    <3>4. past'[u].owner = past[u].owner /\ past'[u].newest > past[u].newest
      BY <3>3, <1>a DEF FenceOfTask
    <3>5. Phase(task[u].status) \in {"open", "owned"}
      BY <3>1, Phases
    <3>6. Fenced!Draw(u)
      BY <2>2, <3>2, <3>4, <3>5 DEF Fenced!Draw, Fenced!Unsettled
    <3>7. QED
      BY <3>6 DEF Fenced!Step
  <2>4. CASE u # t
    <3>1. past'[u] = past[u]
      BY <1>6, <2>4, <1>a DEF Insert, TypeOK
    <3>2. LiveClaim(u)' => LiveClaim(u)
      BY <2>1, <2>4 DEF Cleared, LiveClaim, NoClaim
    <3>3. QED
      BY <2>2, <3>1, <3>2, Stays
  <2>5. QED
    BY <2>3, <2>4
<1>7. ASSUME NEW c \in Call, NEW t \in Task, CommitClaim(c, t) \/ LoseCommit(c, t)
      PROVE Fenced!Step(u)
  <2>1. /\ pc[c] = "issued" /\ t \in job[c] /\ LiveClaim(u)' = LiveClaim(u)
        /\ Apply(c, t) \/ UNCHANGED <<task, past>>
    BY <1>7 DEF CommitClaim, LoseCommit, LiveClaim
  <2>2. CASE UNCHANGED <<task, past>>
    BY <2>1, <2>2, <1>5
  <2>3. CASE Apply(c, t)
    <3>1. CASE u # t /\ task'[u] = task[u] /\ past'[u] = past[u]
      BY <2>1, <3>1, Stays
    <3>2. CASE task[u].status \in Active /\ ~LiveClaim(u) /\ task'[u].status = "queued"
               /\ past'[u] = past[u]
      BY <2>1, <3>2, Moves
    <3>3. CASE /\ u = t /\ task[u].status \in Active \cup {"queued"}
               /\ task'[u].status = "assigned"
               /\ past'[u].owner = fence[c] /\ past'[u].newest = past[u].newest
      <4>1. fence[c] = past[u].newest /\ past[u].newest > past[u].owner
        BY <2>1, <3>3 DEF IInv, FenceInv, FenceOfCall
      <4>2. Phase(task[u].status) \in {"open", "owned"} /\ Phase(task'[u].status) = "owned"
        BY <3>3, <1>b, Phases
      <4>3. Fenced!Take(u)
        BY <2>1, <3>3, <4>1, <4>2 DEF Fenced!Take, Fenced!Unsettled
      <4>4. QED
        BY <4>3 DEF Fenced!Step
    <3>4. QED
      BY <2>1, <2>3, <3>1, <3>2, <3>3, <1>a, Committed
  <2>4. QED
    BY <2>1, <2>2, <2>3
<1>8. ASSUME NEW c \in Call, NEW t \in Task, Start(c, t) \/ RenewTask(c, t)
      PROVE Fenced!Step(u)
  <2>1. claims' = claims /\ past' = past
    BY <1>8 DEF Start, RenewTask, Mutate
  <2>2. task'[u] = task[u] \/ (task[u].status \in Active /\ task'[u].status \in Active)
    <3>1. CASE Start(c, t)
      BY <3>1, <1>a, <1>b, Statuses, Mutated DEF Start, Owns
    <3>2. CASE RenewTask(c, t)
      BY <3>2, <1>a, TaskTyped, Mutated DEF RenewTask, Owns
    <3>3. QED
      BY <3>1, <3>2, <1>8
  <2>3. QED
    BY <2>1, <2>2, Phases, Stays DEF LiveClaim
<1>9. ASSUME NEW c \in Call, NEW t \in Task, Complete(c, t) \/ Fail(c, t)
      PROVE Fenced!Step(u)
  <2>1. past' = past
    BY <1>9 DEF Complete, Fail, Mutate
  <2>2. CASE u # t
    <3>1. task'[u] = task[u] /\ claims'[u] = claims[u]
      BY <1>9, <2>2, <1>a DEF Complete, Fail, Mutate, TypeOK
    <3>2. QED
      BY <2>1, <3>1, Stays DEF LiveClaim
  <2>3. CASE u = t
    <3>1. Owns(c, u) /\ task'[u].status \in {"completed", "failed"}
      BY <1>9, <2>3, <1>a, Mutated, Failed, Statuses DEF Complete
    <3>2. ~LiveClaim(u)'
      BY <1>9, <2>3, <1>a DEF Complete, Fail, LiveClaim, NoClaim, TypeOK
    <3>3. LiveClaim(u) /\ past[u].owner = past[u].newest
      BY <3>1, <1>a DEF Owns, FenceOfTask
    <3>4. Phase(task[u].status) = "owned"
      BY <3>1, Phases DEF Owns
    <3>5. Phase(task'[u].status) \in {"completed", "failed"}
      BY <3>1, Phases DEF Status, Active
    <3>6. Fenced!Finish(u)
      BY <2>1, <3>2, <3>3, <3>4, <3>5 DEF Fenced!Finish, Fenced!Move
    <3>7. QED
      BY <3>6 DEF Fenced!Step
  <2>4. QED
    BY <2>2, <2>3
<1>10. ASSUME NEW c \in Call, FailIssue(c) \/ RenewFails(c) \/ Crash(c) PROVE Fenced!Step(u)
  <2>1. task' = task /\ past' = past /\ claims' \in {claims, Cleared}
    BY <1>10 DEF FailIssue, RenewFails, Crash
  <2>2. QED
    BY <2>1, <1>5, ClearedKeeps
<1>11. ASSUME NEW c \in Call, NEW t \in Task,
              \/ Select(c, t) \/ IssueRefused(c, t) \/ Revoke(c, t) \/ Rejected(c, t)
              \/ RenewLoad(c, t) \/ RenewClaim(c, t) \/ RenewExpired(c, t)
       PROVE Fenced!Step(u)
  <2>1. task' = task /\ past' = past
    BY <1>11 DEF Select, IssueRefused, Revoke, Rejected, RenewLoad, RenewClaim, RenewExpired
  <2>2. LiveClaim(u)' => LiveClaim(u)
    BY <1>11, <1>a DEF Select, IssueRefused, Revoke, Rejected, RenewLoad, RenewClaim,
       RenewExpired, Cleared, LiveClaim, NoClaim, TypeOK
  <2>3. QED
    BY <2>1, <2>2, <1>5
<1>12. ASSUME Tick PROVE Fenced!Step(u)
  BY <1>12, <1>a, Aged, Stays DEF Tick
<1>13. ASSUME UNCHANGED vars PROVE Fenced!Step(u)
  BY <1>13, <1>5 DEF vars, LiveClaim
<1>14. ASSUME NEW c \in Call, ClaimTask(c) PROVE Fenced!Step(u)
  BY <1>14, <1>6, <1>7, <1>11 DEF ClaimTask, Issue
<1>15. ASSUME NEW c \in Call, ClaimFails(c) PROVE Fenced!Step(u)
  BY <1>15, <1>6, <1>7, <1>10, <1>11 DEF ClaimFails, LoseIssue
<1>16. ASSUME NEW c \in Call, Own(c) PROVE Fenced!Step(u)
  BY <1>16, <1>8, <1>9, <1>10, <1>11 DEF Own
<1>17. QED
  BY <1>1, <1>2, <1>3, <1>4, <1>10, <1>12, <1>13, <1>14, <1>15, <1>16 DEF Next, Gateway

(* The two tables, their two pools and the calls between them implement    *)
(* FencedTasks: a fence is drawn only while no claim is live, an owner's   *)
(* fence is larger than every earlier one, and only the newest fence under *)
(* a live claim completes or fails the task.                               *)
THEOREM Ownership == Spec => FencedOwnership
<1>1. Init => Fenced!Init
  <2> SUFFICES ASSUME Init PROVE Fenced!Init
    OBVIOUS
  <2>1. \A t \in Task : task[t].status = "new" /\ past[t].owner = 0 /\ past[t].newest = 0
    BY DEF Init
  <2>2. \A t \in Task : Phase(task[t].status) = "new"
    BY <2>1, Phases
  <2>3. \A t \in Task : ~LiveClaim(t)
    BY DEF Init, LiveClaim, NoClaim
  <2>4. \A t \in Task : LiveClaim(t) = FALSE
    BY <2>3
  <2>5. QED
    BY <2>1, <2>2, <2>4, Zenon DEF Fenced!Init
<1>2. IInv /\ [Next]_vars => [Fenced!Next]_Fenced!vars
  BY Refines DEF Fenced!Next
<1>3. QED
  BY <1>1, <1>2, Invariance, PTL DEF Spec, FencedOwnership, Fenced!Spec

=============================================================================
