--------------------------- MODULE A2ATasksProofs ---------------------------
(***************************************************************************)
(* Proofs about A2ATasks, for any set of tasks, scopes, instances and      *)
(* executions, any host clocks and any capacities.                         *)
(***************************************************************************)
EXTENDS A2ATasks, FiniteSetTheorems, TLAPS

(* The counters count the rows, of which there are finitely many, and an   *)
(* expired row is stored until it is purged.                               *)
CountInv ==
    /\ IsFiniteSet(Stored)
    /\ \A t \in Task : Visible(t) => t \in Stored
    /\ CountersExact

(* A binding belongs to an execution of its instance and task; a heartbeat *)
(* runs only for the execution that has the binding; and the grace timer   *)
(* runs if that execution is over.                                         *)
BindInv ==
    /\ \A i \in Instance, t \in Task : bound[i][t].exec # NoExec =>
          at[bound[i][t].exec] = i /\ job[bound[i][t].exec] = t
    /\ \A i \in Instance, t \in Task : bound[i][t].timed => bound[i][t].exec # NoExec
    /\ \A e \in Exec : beat[e] # "off" => Binding(e) = e
    /\ \A e \in Exec : pc[e] \in {"idle", "acquiring", "leased"} => Binding(e) # e
    /\ \A e \in Exec : pc[e] = "done" /\ Binding(e) = e => bound[at[e]][job[e]].timed

(* A save under way is the save of an event. *)
SaveInv == \A e \in Exec : saving[e].step = "resolved" => queue[e] # <<>>

IInv == TypeOK /\ CountInv /\ BindInv /\ SaveInv

-----------------------------------------------------------------------------
(* The rows and their counters *)

LEMMA Difference ==
    ASSUME NEW S, NEW D, IsFiniteSet(S), D \subseteq S
    PROVE  /\ IsFiniteSet(S \ D)
           /\ Cardinality(S \ D) = Cardinality(S) - Cardinality(D)
           /\ Cardinality(D) \in Nat
           /\ Cardinality(D) <= Cardinality(S)
<1>1. IsFiniteSet(D) /\ Cardinality(D) <= Cardinality(S)
  BY FS_Subset
<1>2. S \cap D = D
  OBVIOUS
<1>3. QED
  BY <1>1, <1>2, FS_Difference, FS_CardinalityType

(* Purging D and inserting at most one element changes the count by what   *)
(* Counted computes.                                                       *)
LEMMA PurgeAndInsert ==
    ASSUME NEW S, NEW D, NEW A, IsFiniteSet(S), D \subseteq S,
           A = {} \/ \E x : A = {x} /\ x \notin S \ D
    PROVE  /\ IsFiniteSet((S \ D) \cup A)
           /\ Cardinality((S \ D) \cup A)
                 = Counted(Cardinality(S), Cardinality(D), Cardinality(A))
           /\ Cardinality((S \ D) \cup A) = Cardinality(S) - Cardinality(D)
                 + (IF A = {} THEN 0 ELSE 1)
<1>1. /\ IsFiniteSet(S \ D)
      /\ Cardinality(S \ D) = Cardinality(S) - Cardinality(D)
      /\ Cardinality(S) \in Nat /\ Cardinality(D) \in Nat /\ Cardinality(S \ D) \in Nat
  BY Difference, FS_CardinalityType
<1>2. CASE A = {}
  <2>1. (S \ D) \cup A = S \ D /\ Cardinality(A) = 0
    BY <1>2, FS_EmptySet
  <2>2. QED
    BY <1>1, <1>2, <2>1 DEF Counted
<1>3. CASE \E x : A = {x} /\ x \notin S \ D
  <2>1. PICK x : A = {x} /\ x \notin S \ D
    BY <1>3
  <2>2. Cardinality(A) = 1 /\ A # {}
    BY <2>1, FS_Singleton
  <2>3. IsFiniteSet((S \ D) \cup {x}) /\ Cardinality((S \ D) \cup {x}) = Cardinality(S \ D) + 1
    BY <1>1, <2>1, FS_AddElement
  <2>4. QED
    BY <1>1, <2>1, <2>2, <2>3 DEF Counted
<1>4. QED
  BY <1>2, <1>3

(* The rows after a save: the stale ones are gone, and the saved one is    *)
(* stored.                                                                 *)
Added(e) == IF Visible(job[e]) \/ Replays(e) THEN {} ELSE {job[e]}

LEMMA SavedRows ==
    ASSUME TypeOK, CountInv, NEW e \in Exec, queue[e] # <<>>, Save(e)
    PROVE  /\ Stored' = (Stored \ Stale) \cup Added(e)
           /\ Added(e) = {} \/ (Added(e) = {job[e]} /\ job[e] \notin Stored \ Stale)
           /\ \A t \in Task : Visible(t)' => t \in Stored'
<1>1. /\ job[e] \in Task /\ Head(queue[e]).state # "absent" /\ Stale \subseteq Stored
      /\ Stored \subseteq Task
  <2>1. queue[e] \in Seq(Event) /\ queue[e] # <<>>
    BY DEF TypeOK
  <2>2. Head(queue[e]) \in Event
    BY <2>1
  <2>3. QED
    BY <2>2 DEF TypeOK, Event, Stale, Stored
<1>2. /\ Replays(e) => Visible(job[e])
      /\ Visible(job[e]) => job[e] \in Stored \ Stale
      /\ ~Visible(job[e]) => job[e] \notin Stored \ Stale
  BY <1>1 DEF CountInv, Replays, Settled, Stale
<1>3. ASSUME NEW u \in Task
      PROVE  /\ u \in Stored' <=> u \in (Stored \ Stale) \cup Added(e)
             /\ Visible(u)' => u \in Stored'
  <2>1. CASE u = job[e] /\ ~Replays(e)
    BY <1>1, <1>2, <2>1 DEF Save, Stored, Added, Visible
  <2>2. CASE ~(u = job[e] /\ ~Replays(e)) /\ u \in Stale
    BY <1>1, <1>2, <2>2 DEF Save, Stored, Added, Visible, Absent
  <2>3. CASE ~(u = job[e] /\ ~Replays(e)) /\ u \notin Stale
    <3>1. tasks'[u] = tasks[u]
      BY <2>3 DEF Save
    <3>2. u \in Stored' <=> u \in Stored
      BY <3>1 DEF Stored
    <3>3. Visible(u)' => u \in Stored
      BY <3>1 DEF CountInv, Visible
    <3>4. u \notin Added(e)
      BY <1>2, <2>3 DEF Added
    <3>5. QED
      BY <2>3, <3>2, <3>3, <3>4
  <2>4. QED
    BY <2>1, <2>2, <2>3
<1>4. Stored' \subseteq Task /\ Added(e) \subseteq Task
  BY <1>1 DEF Stored, Added
<1>5. QED
  BY <1>1, <1>2, <1>3, <1>4 DEF Added

(* Save keeps the counters exact, and within the capacities. *)
LEMMA SaveCounts ==
    ASSUME TypeOK, CountInv, NEW e \in Exec, queue[e] # <<>>, Save(e)
    PROVE  /\ CountInv'
           /\ total' \in 0..MaxEntries
           /\ perOwner' \in [Owner -> 0..MaxEntriesPerOwner]
<1> DEFINE A == Added(e)
<1>1. /\ Stored' = (Stored \ Stale) \cup A
      /\ A = {} \/ (A = {job[e]} /\ job[e] \notin Stored \ Stale)
      /\ \A t \in Task : Visible(t)' => t \in Stored'
  BY SavedRows
<1>2. /\ Stale \subseteq Stored /\ IsFiniteSet(Stored) /\ total = Cardinality(Stored)
      /\ A = {} \/ \E x : A = {x} /\ x \notin Stored \ Stale
      /\ MaxEntries \in Nat /\ MaxEntriesPerOwner \in Nat
      /\ job[e] \in Task /\ OwnerOf[job[e]] \in Owner
  BY <1>1, CapacityAssumption, TasksAssumption DEF CountInv, CountersExact, Stale, TypeOK
<1>3. /\ total' = Counted(total, Cardinality(Stale), Cardinality(A))
      /\ \A o \in Owner : perOwner'[o] = Counted(perOwner[o], Cardinality(OwnedBy(o, Stale)),
                                                 Cardinality(OwnedBy(o, A)))
      /\ perOwner' = [o \in Owner |-> perOwner'[o]]
      /\ A # {} => Room(job[e])
  BY DEF Save, Added, Persists
<1>4. /\ IsFiniteSet(Stored') /\ total' = Cardinality(Stored')
      /\ Cardinality(Stored') = total - Cardinality(Stale) + (IF A = {} THEN 0 ELSE 1)
  <2> DEFINE N == (Stored \ Stale) \cup A
  <2>1. /\ IsFiniteSet(N)
        /\ Cardinality(N) = Counted(Cardinality(Stored), Cardinality(Stale), Cardinality(A))
        /\ Cardinality(N) = Cardinality(Stored) - Cardinality(Stale)
              + (IF A = {} THEN 0 ELSE 1)
    BY <1>2, PurgeAndInsert
  <2>2. QED
    BY <1>1, <1>2, <1>3, <2>1
<1>5. /\ Cardinality(Stale) \in Nat /\ Cardinality(Stale) <= total
      /\ total \in 0..MaxEntries
  BY <1>2, Difference DEF TypeOK
<1>6. total' \in 0..MaxEntries
  <2>1. CASE A = {}
    BY <1>2, <1>4, <1>5, <2>1
  <2>2. CASE A # {}
    BY <1>2, <1>3, <1>4, <1>5, <2>2 DEF Room
  <2>3. QED
    BY <2>1, <2>2
<1>7. ASSUME NEW o \in Owner
      PROVE  /\ perOwner'[o] = Cardinality(OwnedBy(o, Stored)')
             /\ perOwner'[o] \in 0..MaxEntriesPerOwner
  <2> DEFINE S == OwnedBy(o, Stored)
             D == OwnedBy(o, Stale)
             B == OwnedBy(o, A)
  <2>1. /\ OwnedBy(o, Stored)' = (S \ D) \cup B
        /\ D \subseteq S /\ S \subseteq Stored
        /\ B = {} \/ (B = {job[e]} /\ OwnerOf[job[e]] = o /\ A # {} /\ job[e] \notin S \ D)
    BY <1>1, <1>2 DEF OwnedBy
  <2>2. IsFiniteSet(S) /\ perOwner[o] = Cardinality(S) /\ perOwner[o] \in 0..MaxEntriesPerOwner
    BY <1>2, <2>1, FS_Subset DEF CountInv, CountersExact, TypeOK
  <2>3. B = {} \/ \E x : B = {x} /\ x \notin S \ D
    BY <2>1
  <2>4. /\ Cardinality((S \ D) \cup B) = Counted(Cardinality(S), Cardinality(D), Cardinality(B))
        /\ Cardinality((S \ D) \cup B) = Cardinality(S) - Cardinality(D)
              + (IF B = {} THEN 0 ELSE 1)
    <3>1. IsFiniteSet(S) /\ D \subseteq S
      BY <2>1, <2>2
    <3> HIDE DEF S, D, B
    <3>2. /\ IsFiniteSet((S \ D) \cup B)
          /\ Cardinality((S \ D) \cup B)
                = Counted(Cardinality(S), Cardinality(D), Cardinality(B))
          /\ Cardinality((S \ D) \cup B) = Cardinality(S) - Cardinality(D)
                + (IF B = {} THEN 0 ELSE 1)
      BY <3>1, <2>3, PurgeAndInsert
    <3>3. QED
      BY <3>2
  <2>5. perOwner'[o] = Cardinality((S \ D) \cup B)
    BY <1>3, <2>2, <2>4
  <2>6. Cardinality(D) \in Nat /\ Cardinality(D) <= perOwner[o]
    <3>1. IsFiniteSet(S) /\ D \subseteq S
      BY <2>1, <2>2
    <3> HIDE DEF S, D, B
    <3>2. /\ IsFiniteSet(S \ D)
          /\ Cardinality(S \ D) = Cardinality(S) - Cardinality(D)
          /\ Cardinality(D) \in Nat
          /\ Cardinality(D) <= Cardinality(S)
      BY <3>1, Difference
    <3>3. QED
      BY <2>2, <3>2
  <2>7. B # {} => perOwner[o] - Cardinality(D) < MaxEntriesPerOwner
    BY <1>3, <2>1 DEF Room
  <2>8. perOwner'[o] = perOwner[o] - Cardinality(D) + (IF B = {} THEN 0 ELSE 1)
    BY <2>2, <2>4, <2>5
  <2>9. perOwner'[o] \in 0..MaxEntriesPerOwner
    <3> HIDE DEF S, D, B
    <3>1. QED
      BY <1>2, <2>2, <2>6, <2>7, <2>8
  <2>10. QED
    BY <2>1, <2>5, <2>9
<1>8. CountInv'
  BY <1>1, <1>4, <1>7 DEF CountInv, CountersExact
<1>9. QED
  BY <1>3, <1>6, <1>7, <1>8

-----------------------------------------------------------------------------
(* What a step does to the database *)

Drawn(e) == Insert(e) /\ UNCHANGED <<tasks, total, perOwner>>

Dropped(t) ==
    /\ leases' \in {leases, [leases EXCEPT ![t] = 0]}
    /\ UNCHANGED <<tasks, total, perOwner, lastFence>>

Expired(t) ==
    /\ tasks' = [tasks EXCEPT ![t].live = FALSE]
    /\ UNCHANGED <<total, perOwner, leases, lastFence>>

DbMoves ==
    \/ UNCHANGED db
    \/ \E e \in Exec : Drawn(e)
    \/ \E e \in Exec : queue[e] # <<>> /\ Save(e)
    \/ \E i \in Instance, t \in Task : Cancelled(i, t)
    \/ \E t \in Task : Dropped(t)
    \/ \E t \in Task : Visible(t) /\ Expired(t)

LEMMA StepMoves == TypeOK /\ BindInv /\ SaveInv /\ [Next]_vars => DbMoves
<1> SUFFICES ASSUME TypeOK, BindInv, SaveInv, [Next]_vars PROVE DbMoves
  OBVIOUS
<1>1. ASSUME NEW e \in Exec, Release(e), UNCHANGED <<tasks, total, perOwner, lastFence>>
      PROVE  DbMoves
  <2>1. job[e] \in Task /\ leases' \in {leases, [leases EXCEPT ![job[e]] = 0]}
    BY <1>1 DEF TypeOK, Release
  <2>2. QED
    BY <1>1, <2>1 DEF DbMoves, Dropped
<1>2. ASSUME NEW e \in Exec, Execute(e) PROVE DbMoves
  <2>1. CASE Acquire(e) \/ LoseAcquire(e)
    BY <2>1 DEF Acquire, LoseAcquire, DbMoves, Drawn
  <2>2. CASE BindRefused(e)
    BY <1>1, <2>2 DEF BindRefused
  <2>3. CASE \/ Begin(e) \/ AcquireFails(e) \/ Bind(e) \/ BindAborted(e) \/ Call(e)
             \/ CallFails(e) \/ Publish(e) \/ Suppress(e) \/ Abort(e) \/ HeartbeatFails(e)
    BY <2>3 DEF Begin, AcquireFails, Bind, BindAborted, Call, CallFails, Publish, Suppress,
                Abort, HeartbeatFails, DbMoves
  <2>4. QED
    BY <1>2, <2>1, <2>2, <2>3 DEF Execute
<1>3. ASSUME NEW e \in Exec, SaveEvents(e) PROVE DbMoves
  BY <1>3 DEF SaveEvents, Resolve, Commit, LoseCommit, SaveFails, SaveInv, DbMoves
<1>4. ASSUME NEW i \in Instance, NEW t \in Task, Grace(i, t) PROVE DbMoves
  <2>1. bound[i][t].exec \in Exec
    BY <1>4 DEF Grace, TypeOK, BindInv
  <2>2. QED
    BY <1>1, <1>4, <2>1 DEF Grace
<1>5. ASSUME NEW i \in Instance, NEW t \in Task, Cancel(i, t) \/ LoseCancel(i, t)
      PROVE  DbMoves
  BY <1>5 DEF Cancel, LoseCancel, DbMoves
<1>6. ASSUME NEW i \in Instance, CancelSettles(i) \/ Crash(i) PROVE DbMoves
  BY <1>6 DEF CancelSettles, Crash, DbMoves
<1>7. ASSUME NEW t \in Task, Lapse(t) \/ Expire(t) PROVE DbMoves
  BY <1>7 DEF Lapse, Expire, DbMoves, Dropped, Expired
<1>8. CASE UNCHANGED vars
  BY <1>8 DEF vars, db, DbMoves
<1>9. QED
  BY <1>2, <1>3, <1>4, <1>5, <1>6, <1>7, <1>8 DEF Next

-----------------------------------------------------------------------------
(* Types *)

DbOK ==
    /\ tasks \in [Task -> TaskRow]
    /\ total \in 0..MaxEntries
    /\ perOwner \in [Owner -> 0..MaxEntriesPerOwner]
    /\ leases \in [Task -> Nat]
    /\ lastFence \in Nat

LEMMA RowType ==
    ASSUME NEW s \in {"absent", "working"} \cup Verdict, NEW n \in Nat, NEW e \in Exec,
           NEW f \in Nat
    PROVE  [state |-> s, stamp |-> n, by |-> e, live |-> TRUE, fence |-> f] \in TaskRow
BY DEF TaskRow

LEMMA DbStep == TypeOK /\ CountInv /\ DbMoves => DbOK' /\ CountInv'
<1> SUFFICES ASSUME TypeOK, CountInv, DbMoves PROVE DbOK' /\ CountInv'
  OBVIOUS
<1> USE DEF TypeOK, DbOK
<1>1. ASSUME NEW e \in Exec, queue[e] # <<>>, Save(e) PROVE DbOK' /\ CountInv'
  <2>1. /\ CountInv' /\ total' \in 0..MaxEntries
        /\ perOwner' \in [Owner -> 0..MaxEntriesPerOwner]
    BY <1>1, SaveCounts
  <2>2. Head(queue[e]) \in Event
    <3>1. queue[e] \in Seq(Event) /\ queue[e] # <<>>
      BY <1>1
    <3>2. QED
      BY <3>1
  <2>3. /\ Head(queue[e]).state \in {"working", "completed", "failed"}
        /\ Head(queue[e]).stamp \in Nat
    BY <2>2 DEF Event
  <2>4. Head(queue[e]).state \in Verdict /\ ~Replays(e) => fence[saving[e].binding] \in Nat
    BY <1>1 DEF Save, Persists, FenceHolds
  <2>5. ASSUME NEW u \in Task PROVE tasks'[u] \in TaskRow
    <3>1. CASE u = job[e] /\ ~Replays(e)
      <4> DEFINE w == Head(queue[e])
                 f == IF w.state \in Verdict THEN fence[saving[e].binding] ELSE 0
      <4>1. tasks'[u] = [state |-> w.state, stamp |-> w.stamp, by |-> e, live |-> TRUE,
                         fence |-> f]
        BY <1>1, <3>1 DEF Save
      <4>2. f \in Nat
        BY <2>4, <3>1
      <4> HIDE DEF f
      <4>3. w.state \in {"absent", "working"} \cup Verdict /\ w.stamp \in Nat
        BY <2>3 DEF Verdict
      <4> HIDE DEF w
      <4>4. [state |-> w.state, stamp |-> w.stamp, by |-> e, live |-> TRUE, fence |-> f]
               \in TaskRow
        BY <4>2, <4>3, RowType
      <4>5. QED
        BY <4>1, <4>4
    <3>2. CASE ~(u = job[e] /\ ~Replays(e))
      <4>1. tasks'[u] \in {Absent, tasks[u]}
        BY <1>1, <3>2 DEF Save
      <4>2. Absent \in TaskRow
        BY DEF Absent, TaskRow
      <4>3. QED
        BY <4>1, <4>2
    <3>3. QED
      BY <3>1, <3>2
  <2>6. tasks' \in [Task -> TaskRow]
    BY <1>1, <2>5 DEF Save
  <2>7. leases' \in [Task -> Nat] /\ lastFence' \in Nat
    BY <1>1 DEF Save
  <2>8. QED
    BY <2>1, <2>6, <2>7
<1>2. ASSUME UNCHANGED <<tasks, total, perOwner>> PROVE CountInv'
  BY <1>2 DEF CountInv, CountersExact, Stored, Visible, OwnedBy
<1>3. ASSUME Stored' = Stored, UNCHANGED <<total, perOwner>>,
             \A t \in Task : Visible(t)' => t \in Stored
      PROVE  CountInv'
  BY <1>3 DEF CountInv, CountersExact, OwnedBy
<1>4. ASSUME NEW e \in Exec, Drawn(e) PROVE DbOK' /\ CountInv'
  BY <1>2, <1>4 DEF Drawn, Insert
<1>5. ASSUME NEW i \in Instance, NEW t \in Task, Cancelled(i, t) PROVE DbOK' /\ CountInv'
  <2>1. Clock[i] \in Nat
    BY ClockAssumption
  <2> DEFINE row == [state |-> "canceled", stamp |-> Clock[i], by |-> NoExec, fence |-> 0,
                     live |-> TRUE]
  <2>2. tasks' \in {tasks, [tasks EXCEPT ![t] = row]}
    BY <1>5 DEF Cancelled, Absent
  <2>3. row \in TaskRow
    BY <2>1 DEF TaskRow, Verdict
  <2>4. t \in Stored
    BY <1>5 DEF Cancelled, CountInv
  <2>5. tasks' \in [Task -> TaskRow]
    <3> HIDE DEF row
    <3>1. QED
      BY <2>2, <2>3
  <2>6. ASSUME NEW u \in Task
        PROVE  (tasks'[u].state # "absent" <=> tasks[u].state # "absent")
               /\ (tasks'[u].live => u \in Stored)
    <3>1. CASE tasks' = tasks
      BY <3>1 DEF Visible, CountInv
    <3>2. CASE tasks' = [tasks EXCEPT ![t] = row]
      BY <2>4, <3>2 DEF Stored, Visible, CountInv
    <3>3. QED
      BY <2>2, <3>1, <3>2
  <2>7. Stored' = Stored /\ \A u \in Task : Visible(u)' => u \in Stored
    BY <2>6 DEF Stored, Visible
  <2>8. QED
    BY <1>3, <1>5, <2>5, <2>7 DEF Cancelled, Revoked
<1>6. ASSUME NEW t \in Task, Dropped(t) PROVE DbOK' /\ CountInv'
  BY <1>2, <1>6 DEF Dropped
<1>7. ASSUME NEW t \in Task, Expired(t) PROVE DbOK' /\ CountInv'
  <2> DEFINE row == [tasks[t] EXCEPT !.live = FALSE]
  <2>1. row \in TaskRow /\ row.state = tasks[t].state /\ row.live = FALSE
    BY DEF TaskRow
  <2>2. tasks' = [tasks EXCEPT ![t] = row]
    BY <1>7 DEF Expired
  <2> HIDE DEF row
  <2>3. tasks' \in [Task -> TaskRow]
    BY <2>1, <2>2
  <2>4. ASSUME NEW u \in Task
        PROVE  tasks'[u].state = tasks[u].state /\ (tasks'[u].live => u \in Stored)
    BY <2>1, <2>2 DEF Visible, CountInv
  <2>5. Stored' = Stored /\ \A u \in Task : Visible(u)' => u \in Stored
    BY <2>4 DEF Stored, Visible
  <2>6. QED
    BY <1>3, <1>7, <2>3, <2>5 DEF Expired
<1>8. CASE UNCHANGED db
  BY <1>2, <1>8 DEF db
<1>9. QED
  BY <1>1, <1>4, <1>5, <1>6, <1>7, <1>8 DEF DbMoves

(* The memory of the instances *)

BindingRow == [exec : Exec \cup {NoExec}, timed : BOOLEAN]

MemOK ==
    /\ at \in [Exec -> Instance]
    /\ job \in [Exec -> Task]
    /\ pc \in [Exec -> {"idle", "acquiring", "leased", "ready", "called", "done"}]
    /\ fence \in [Exec -> Nat]
    /\ beat \in [Exec -> {"off", "on", "lost"}]
    /\ stop \in [Exec -> {"no", "aborted", "cancelled"}]
    /\ queue \in [Exec -> Seq(Event)]
    /\ saving \in [Exec -> [step : {"idle", "resolved"}, binding : Exec \cup {NoExec}]]
    /\ bound \in [Instance -> [Task -> BindingRow]]
    /\ cancelling \in [Instance -> [task : Task \cup {NoTask}, binding : Exec \cup {NoExec}]]

LEMMA Rebound ==
    ASSUME MemOK, NEW i \in Instance, NEW t \in Task, NEW b \in BindingRow
    PROVE  [bound EXCEPT ![i][t] = b] \in [Instance -> [Task -> BindingRow]]
BY DEF MemOK

LEMMA MarkedFinished ==
    ASSUME MemOK, NEW e \in Exec, Finish(e)
    PROVE  bound' \in [Instance -> [Task -> BindingRow]]
<1> DEFINE b == bound[at[e]][job[e]]
           c == IF b.exec = NoExec THEN b ELSE [b EXCEPT !.timed = TRUE]
<1>1. b \in BindingRow
  BY DEF MemOK
<1>2. c \in BindingRow
  BY <1>1 DEF BindingRow
<1>3. bound' = [bound EXCEPT ![at[e]][job[e]] = c]
  BY DEF Finish
<1> HIDE DEF c
<1>4. at[e] \in Instance /\ job[e] \in Task
  BY DEF MemOK
<1>5. QED
  BY <1>2, <1>3, <1>4, Rebound

(* Publishing appends an event. *)
LEMMA Emits ==
    ASSUME MemOK, NEW e \in Exec, NEW state \in {"working", "completed", "failed"},
           Emit(e, state)
    PROVE  /\ queue' \in [Exec -> Seq(Event)]
           /\ \A x \in Exec : queue[x] # <<>> => queue'[x] # <<>>
<1> DEFINE v == [state |-> state, stamp |-> Clock[at[e]]]
<1>1. v \in Event
  BY ClockAssumption DEF MemOK, Event
<1>2. queue' = [queue EXCEPT ![e] = Append(queue[e], v)]
  BY DEF Emit
<1> HIDE DEF v
<1>3. queue[e] \in Seq(Event) /\ queue \in [Exec -> Seq(Event)]
  BY DEF MemOK
<1>4. Append(queue[e], v) \in Seq(Event) /\ Append(queue[e], v) # <<>>
  BY <1>1, <1>3
<1>5. QED
  BY <1>2, <1>3, <1>4

LEMMA Rethrows ==
    ASSUME MemOK, NEW e \in Exec, Rethrow(e)
    PROVE  /\ queue' \in [Exec -> Seq(Event)]
           /\ \A x \in Exec : queue[x] # <<>> => queue'[x] # <<>>
           /\ pc' = [pc EXCEPT ![e] = "done"]
           /\ stop' = [stop EXCEPT ![e] = "no"]
<1>1. CASE UNCHANGED queue
  BY <1>1 DEF Rethrow, End, Goto, MemOK
<1>2. CASE Emit(e, "failed")
  BY <1>2, Emits DEF Rethrow, End, Goto
<1>3. QED
  BY <1>1, <1>2 DEF Rethrow

(* Letting go of a binding. *)
LEMMA Consumes ==
    ASSUME MemOK, NEW i \in Instance, NEW t \in Task, NEW b, Consumed(i, t, b)
    PROVE  /\ beat' \in [Exec -> {"off", "on", "lost"}]
           /\ bound' \in [Instance -> [Task -> BindingRow]]
<1>1. Unbound \in BindingRow
  BY DEF Unbound, BindingRow
<1>2. CASE b # NoExec /\ bound[i][t].exec = b
  <2>1. bound' = [bound EXCEPT ![i][t] = Unbound] /\ beat' = [beat EXCEPT ![b] = "off"]
    BY <1>2 DEF Consumed
  <2>2. bound' \in [Instance -> [Task -> BindingRow]]
    BY <1>1, <2>1, Rebound
  <2>3. QED
    BY <2>1, <2>2 DEF MemOK
<1>3. CASE ~(b # NoExec /\ bound[i][t].exec = b)
  BY <1>3 DEF Consumed, MemOK
<1>4. QED
  BY <1>2, <1>3

LEMMA MemStep == TypeOK /\ SaveInv /\ [Next]_vars => MemOK' /\ SaveInv'
<1> SUFFICES ASSUME TypeOK, SaveInv, [Next]_vars PROVE MemOK' /\ SaveInv'
  OBVIOUS
<1>0. MemOK /\ lastFence \in Nat
  BY DEF TypeOK, MemOK, BindingRow
<1>1. ASSUME NEW e \in Exec, Execute(e) PROVE MemOK' /\ SaveInv'
  <2>1. CASE Begin(e) \/ Call(e) \/ Abort(e) \/ HeartbeatFails(e)
    BY <1>0, <2>1 DEF Begin, Call, Abort, HeartbeatFails, Goto, MemOK, SaveInv, requests
  <2>2. CASE Acquire(e)
    <3>1. lastFence' \in Nat
      BY <1>0, <2>2 DEF Acquire, Insert
    <3>2. QED
      BY <1>0, <2>2, <3>1 DEF Acquire, Goto, MemOK, SaveInv, requests
  <2>3. CASE LoseAcquire(e) \/ AcquireFails(e) \/ BindRefused(e)
    BY <1>0, <2>3, Rethrows DEF LoseAcquire, AcquireFails, BindRefused, MemOK, SaveInv, requests
  <2>4. CASE Bind(e)
    <3>1. BoundTo(e) \in BindingRow
      BY DEF BoundTo, BindingRow
    <3>2. bound' \in [Instance -> [Task -> BindingRow]]
      BY <1>0, <2>4, <3>1, Rebound DEF Bind, MemOK
    <3>3. QED
      BY <1>0, <2>4, <3>2, Emits DEF Bind, Goto, MemOK, SaveInv, requests
  <2>5. CASE BindAborted(e)
    <3>1. [exec |-> e, timed |-> TRUE] \in BindingRow
      BY DEF BindingRow
    <3>2. bound' \in [Instance -> [Task -> BindingRow]]
      BY <1>0, <2>5, <3>1, Rebound DEF BindAborted, MemOK
    <3>3. QED
      BY <1>0, <2>5, <3>2, Rethrows DEF BindAborted, MemOK, SaveInv, requests
  <2>6. Finish(e) => bound' \in [Instance -> [Task -> BindingRow]]
    BY <1>0, MarkedFinished
  <2>7. CASE CallFails(e)
    <3>1. CASE UNCHANGED queue
      BY <1>0, <2>6, <2>7, <3>1 DEF CallFails, End, Goto, MemOK, SaveInv, requests
    <3>2. CASE Emit(e, "failed")
      BY <1>0, <2>6, <2>7, <3>2, Emits DEF CallFails, End, Goto, MemOK, SaveInv, requests
    <3>3. QED
      BY <2>7, <3>1, <3>2 DEF CallFails
  <2>8. CASE Publish(e)
    BY <1>0, <2>6, <2>8, Emits DEF Publish, End, Goto, MemOK, SaveInv, requests
  <2>9. CASE Suppress(e)
    BY <1>0, <2>6, <2>9, Rethrows DEF Suppress, MemOK, SaveInv, requests
  <2>10. QED
    BY <1>1, <2>1, <2>2, <2>3, <2>4, <2>5, <2>7, <2>8, <2>9 DEF Execute
<1>2. ASSUME NEW e \in Exec, Resolve(e) PROVE MemOK' /\ SaveInv'
  <2>1. Binding(e) \in Exec \cup {NoExec}
    BY <1>0 DEF Binding, MemOK, BindingRow
  <2>2. QED
    BY <1>0, <1>2, <2>1 DEF Resolve, MemOK, SaveInv, requests
<1>3. ASSUME NEW e \in Exec, Commit(e) PROVE MemOK' /\ SaveInv'
  <2>1. queue[e] \in Seq(Event) /\ queue[e] # <<>>
    BY <1>0, <1>3 DEF MemOK, SaveInv, Commit
  <2>2. Tail(queue[e]) \in Seq(Event)
    BY <2>1
  <2>3. /\ queue' \in [Exec -> Seq(Event)]
        /\ \A x \in Exec : x # e => queue'[x] = queue[x]
    BY <1>0, <1>3, <2>2 DEF Commit, MemOK
  <2>4. /\ beat' \in [Exec -> {"off", "on", "lost"}]
        /\ bound' \in [Instance -> [Task -> BindingRow]]
    BY <1>0, <1>3, Consumes DEF Commit, MemOK
  <2>5. QED
    BY <1>0, <1>3, <2>3, <2>4 DEF Commit, Idle, MemOK, SaveInv, requests
<1>4. ASSUME NEW e \in Exec, LoseCommit(e) \/ SaveFails(e) PROVE MemOK' /\ SaveInv'
  <2>1. Drop(e) /\ Idle \in [step : {"idle", "resolved"}, binding : Exec \cup {NoExec}]
    BY <1>4 DEF LoseCommit, SaveFails, Idle
  <2>2. saving' = [saving EXCEPT ![e] = Idle] /\ queue' = [queue EXCEPT ![e] = <<>>]
    BY <2>1 DEF Drop
  <2>3. saving' \in [Exec -> [step : {"idle", "resolved"}, binding : Exec \cup {NoExec}]]
    BY <1>0, <2>1, <2>2 DEF MemOK
  <2>4. queue' \in [Exec -> Seq(Event)]
    BY <1>0, <2>2 DEF MemOK
  <2>5. SaveInv'
    BY <1>0, <2>2 DEF SaveInv, Idle, MemOK
  <2>6. QED
    BY <1>0, <2>1, <2>3, <2>4, <2>5 DEF Drop, MemOK, requests
<1>5. ASSUME NEW i \in Instance, NEW t \in Task, Grace(i, t) PROVE MemOK' /\ SaveInv'
  <2>1. Unbound \in BindingRow
    BY DEF Unbound, BindingRow
  <2>2. bound' \in [Instance -> [Task -> BindingRow]]
    BY <1>0, <1>5, <2>1, Rebound DEF Grace
  <2>3. QED
    BY <1>0, <1>5, <2>2 DEF Grace, MemOK, SaveInv, requests
<1>6. ASSUME NEW i \in Instance, NEW t \in Task, Cancel(i, t) \/ LoseCancel(i, t)
      PROVE  MemOK' /\ SaveInv'
  <2> DEFINE T == [task : Task \cup {NoTask}, binding : Exec \cup {NoExec}]
             c == [task |-> t, binding |-> bound[i][t].exec]
  <2>1. c \in T
    BY <1>0 DEF MemOK, BindingRow
  <2>2. cancelling' \in {cancelling, [cancelling EXCEPT ![i] = c]}
    BY <1>6 DEF Cancel, LoseCancel
  <2>3. cancelling' \in [Instance -> T]
    <3> HIDE DEF c
    <3>1. QED
      BY <1>0, <2>1, <2>2 DEF MemOK
  <2>4. QED
    BY <1>0, <1>6, <2>3 DEF Cancel, LoseCancel, MemOK, SaveInv, requests
<1>7. ASSUME NEW i \in Instance, CancelSettles(i) PROVE MemOK' /\ SaveInv'
  <2>1. cancelling[i].task \in Task /\ NoCancel \in [task : Task \cup {NoTask},
                                                      binding : Exec \cup {NoExec}]
    BY <1>0, <1>7 DEF CancelSettles, MemOK, NoCancel
  <2>2. /\ beat' \in [Exec -> {"off", "on", "lost"}]
        /\ bound' \in [Instance -> [Task -> BindingRow]]
    BY <1>0, <1>7, <2>1, Consumes DEF CancelSettles
  <2>3. QED
    BY <1>0, <1>7, <2>1, <2>2 DEF CancelSettles, MemOK, SaveInv, requests
<1>8. ASSUME NEW i \in Instance, Crash(i) PROVE MemOK' /\ SaveInv'
  <2>1. bound' \in [Instance -> [Task -> BindingRow]]
    BY <1>0, <1>8 DEF Crash, Unbound, MemOK, BindingRow
  <2>2. QED
    BY <1>0, <1>8, <2>1 DEF Crash, NoCancel, Idle, MemOK, SaveInv, requests
<1>9. ASSUME NEW t \in Task, Lapse(t) \/ Expire(t) PROVE MemOK' /\ SaveInv'
  BY <1>0, <1>9 DEF Lapse, Expire, MemOK, SaveInv, requests
<1>10. CASE UNCHANGED vars
  BY <1>0, <1>10 DEF vars, MemOK, SaveInv
<1>11. QED
  BY <1>1, <1>2, <1>3, <1>4, <1>5, <1>6, <1>7, <1>8, <1>9, <1>10 DEF Next, SaveEvents

LEMMA TypeInit == Init => TypeOK
  BY CapacityAssumption DEF Init, TypeOK, TaskRow, Absent, Idle, Unbound, NoCancel

LEMMA TypeStep == IInv /\ [Next]_vars => TypeOK' /\ CountInv' /\ SaveInv'
<1> SUFFICES ASSUME IInv, [Next]_vars PROVE TypeOK' /\ CountInv' /\ SaveInv'
  OBVIOUS
<1>1. DbOK' /\ CountInv'
  BY StepMoves, DbStep DEF IInv
<1>2. MemOK' /\ SaveInv'
  BY MemStep DEF IInv
<1>3. QED
  BY <1>1, <1>2 DEF TypeOK, DbOK, MemOK, BindingRow

-----------------------------------------------------------------------------
(* Bindings *)

(* A binding is let go together with its heartbeat. *)
LEMMA ReleasedBinding ==
    ASSUME TypeOK, BindInv, NEW i \in Instance, NEW t \in Task, bound[i][t].exec # NoExec,
           bound' = [bound EXCEPT ![i][t] = Unbound],
           beat' = [beat EXCEPT ![bound[i][t].exec] = "off"],
           UNCHANGED <<requests, pc>>
    PROVE  BindInv'
<1>1. /\ bound[i][t].exec \in Exec
      /\ \A j \in Instance, u \in Task :
            bound'[j][u] = IF j = i /\ u = t THEN Unbound ELSE bound[j][u]
  BY DEF TypeOK
<1>2. ASSUME NEW e \in Exec
      PROVE  /\ beat'[e] # "off" => Binding(e)' = e
             /\ Binding(e)' = e => Binding(e) = e /\ bound'[at[e]][job[e]] = bound[at[e]][job[e]]
  BY <1>1, ExecAssumption DEF TypeOK, BindInv, Binding, Unbound, requests
<1>3. QED
  BY <1>1, <1>2 DEF BindInv, Unbound, requests

LEMMA ConsumedBinding ==
    ASSUME TypeOK, BindInv, NEW i \in Instance, NEW t \in Task, NEW b, Consumed(i, t, b),
           UNCHANGED <<requests, pc>>
    PROVE  BindInv'
<1>1. CASE b # NoExec /\ bound[i][t].exec = b
  BY <1>1, ReleasedBinding DEF Consumed
<1>2. CASE ~(b # NoExec /\ bound[i][t].exec = b)
  BY <1>2 DEF Consumed, BindInv, Binding, requests
<1>3. QED
  BY <1>1, <1>2

(* The end of an invocation starts the grace timer of the binding. *)
LEMMA FinishedBinding ==
    ASSUME TypeOK, BindInv, NEW e \in Exec, Finish(e), pc' = [pc EXCEPT ![e] = "done"],
           UNCHANGED <<requests, beat>>
    PROVE  BindInv'
<1>1. \A i \in Instance, t \in Task :
        /\ bound'[i][t].exec = bound[i][t].exec
        /\ bound[i][t].timed => bound'[i][t].timed
        /\ bound'[i][t].timed => bound[i][t].timed \/ bound[i][t].exec # NoExec
        /\ i = at[e] /\ t = job[e] /\ bound[i][t].exec # NoExec => bound'[i][t].timed
  <2> DEFINE b == bound[at[e]][job[e]]
             c == IF b.exec = NoExec THEN b ELSE [b EXCEPT !.timed = TRUE]
  <2>1. b \in [exec : Exec \cup {NoExec}, timed : BOOLEAN] /\ at[e] \in Instance /\ job[e] \in Task
    BY DEF TypeOK
  <2>2. /\ c.exec = b.exec
        /\ b.timed => c.timed
        /\ c.timed => b.timed \/ b.exec # NoExec
        /\ b.exec # NoExec => c.timed
    BY <2>1
  <2>3. bound' = [bound EXCEPT ![at[e]][job[e]] = c]
    BY DEF Finish
  <2> HIDE DEF c
  <2>4. \A i \in Instance, t \in Task :
          bound'[i][t] = IF i = at[e] /\ t = job[e] THEN c ELSE bound[i][t]
    BY <2>1, <2>3 DEF TypeOK
  <2>5. QED
    BY <2>2, <2>4
<1>2. QED
  BY <1>1, ExecAssumption DEF TypeOK, BindInv, Binding, requests

(* Ending without a binding, or moving on, changes no binding. *)
LEMMA SameBindings ==
    ASSUME TypeOK, BindInv, UNCHANGED <<requests, bound>>,
           \A e \in Exec : beat'[e] # "off" => beat[e] # "off",
           \A e \in Exec : pc'[e] # pc[e] => pc[e] \in {"idle", "acquiring", "leased"}
                                              \/ pc'[e] = "called"
    PROVE  BindInv'
BY DEF BindInv, Binding, requests

LEMMA BindStep == IInv /\ [Next]_vars => BindInv'
<1> SUFFICES ASSUME IInv, [Next]_vars PROVE BindInv'
  OBVIOUS
<1>0. TypeOK /\ BindInv /\ MemOK
  BY DEF IInv, TypeOK, MemOK, BindingRow
<1>1. ASSUME NEW e \in Exec, Execute(e) PROVE BindInv'
  <2>1. CASE \/ Begin(e) \/ Acquire(e) \/ Call(e) \/ Abort(e) \/ HeartbeatFails(e)
    BY <1>0, <2>1, SameBindings
       DEF Begin, Acquire, Call, Abort, HeartbeatFails, Goto, TypeOK, requests
  <2>2. CASE LoseAcquire(e) \/ AcquireFails(e) \/ BindRefused(e)
    BY <1>0, <2>2, Rethrows, SameBindings
       DEF LoseAcquire, AcquireFails, BindRefused, TypeOK, requests
  <2>3. ASSUME Binding(e) = NoExec, pc[e] = "leased", UNCHANGED requests,
               beat' = [beat EXCEPT ![e] = "on"],
               NEW timed \in BOOLEAN,
               bound' = [bound EXCEPT ![at[e]][job[e]] = [exec |-> e, timed |-> timed]],
               \/ pc' = [pc EXCEPT ![e] = "ready"]
               \/ timed /\ pc' = [pc EXCEPT ![e] = "done"]
        PROVE  BindInv'
    <3>1. \A i \in Instance, t \in Task :
            bound'[i][t] = IF i = at[e] /\ t = job[e] THEN [exec |-> e, timed |-> timed]
                           ELSE bound[i][t]
      BY <1>0, <2>3 DEF TypeOK
    <3>2. ASSUME NEW x \in Exec, x # e
          PROVE  /\ beat'[x] # "off" => Binding(x)' = x
                 /\ pc'[x] \in {"idle", "acquiring", "leased"} => Binding(x)' # x
                 /\ pc'[x] = "done" /\ Binding(x)' = x => bound'[at[x]][job[x]].timed
      <4>1. beat'[x] = beat[x] /\ pc'[x] = pc[x] /\ at'[x] = at[x] /\ job'[x] = job[x]
            /\ at[x] \in Instance /\ job[x] \in Task
        BY <1>0, <2>3, <3>2 DEF TypeOK, requests
      <4>2. CASE at[x] = at[e] /\ job[x] = job[e]
        <5>1. beat[x] = "off" /\ Binding(x)' = e
          BY <1>0, <2>3, <3>1, <4>1, <4>2, ExecAssumption DEF BindInv, Binding, TypeOK
        <5>2. QED
          BY <3>2, <4>1, <5>1
      <4>3. CASE ~(at[x] = at[e] /\ job[x] = job[e])
        <5>1. bound'[at[x]][job[x]] = bound[at[x]][job[x]]
          BY <3>1, <4>1, <4>3
        <5>2. QED
          BY <1>0, <4>1, <5>1 DEF BindInv, Binding
      <4>4. QED
        BY <4>2, <4>3
    <3>3. /\ Binding(e)' = e
          /\ pc'[e] \notin {"idle", "acquiring", "leased"}
          /\ pc'[e] = "done" => bound'[at[e]][job[e]].timed
      BY <1>0, <2>3, <3>1 DEF TypeOK, Binding, requests
    <3>4. ASSUME NEW i \in Instance, NEW t \in Task
          PROVE  /\ bound'[i][t].exec # NoExec =>
                       at'[bound'[i][t].exec] = i /\ job'[bound'[i][t].exec] = t
                 /\ bound'[i][t].timed => bound'[i][t].exec # NoExec
      BY <1>0, <2>3, <3>1, ExecAssumption DEF BindInv, requests
    <3>5. QED
      BY <2>3, <3>2, <3>3, <3>4 DEF BindInv, requests
  <2>4. CASE Bind(e)
    BY <2>3, <2>4 DEF Bind, BoundTo, Goto
  <2>5. CASE BindAborted(e)
    BY <1>0, <2>3, <2>5, Rethrows DEF BindAborted
  <2>6. CASE CallFails(e) \/ Publish(e)
    BY <1>0, <2>6, FinishedBinding DEF CallFails, Publish, End, Goto
  <2>7. CASE Suppress(e)
    BY <1>0, <2>7, FinishedBinding, Rethrows DEF Suppress
  <2>8. QED
    BY <1>1, <2>1, <2>2, <2>4, <2>5, <2>6, <2>7 DEF Execute
<1>2. ASSUME NEW e \in Exec, Commit(e) PROVE BindInv'
  BY <1>0, <1>2, ConsumedBinding DEF Commit, TypeOK
<1>3. ASSUME NEW e \in Exec, Resolve(e) \/ LoseCommit(e) \/ SaveFails(e) PROVE BindInv'
  BY <1>0, <1>3, SameBindings DEF Resolve, LoseCommit, SaveFails, Drop, requests
<1>4. ASSUME NEW i \in Instance, NEW t \in Task, Grace(i, t) PROVE BindInv'
  BY <1>0, <1>4, ReleasedBinding DEF Grace, BindInv
<1>5. ASSUME NEW i \in Instance, NEW t \in Task, Cancel(i, t) \/ LoseCancel(i, t)
      PROVE  BindInv'
  BY <1>0, <1>5, SameBindings DEF Cancel, LoseCancel, requests
<1>6. ASSUME NEW i \in Instance, CancelSettles(i) PROVE BindInv'
  <2>1. cancelling[i].task \in Task
    BY <1>0, <1>6 DEF CancelSettles, TypeOK
  <2>2. /\ Consumed(i, cancelling[i].task, cancelling[i].binding)
        /\ UNCHANGED <<requests, pc>>
    BY <1>6 DEF CancelSettles
  <2>3. QED
    BY <1>0, <2>1, <2>2, ConsumedBinding
<1>7. ASSUME NEW i \in Instance, Crash(i) PROVE BindInv'
  <2>1. \A j \in Instance, t \in Task :
          bound'[j][t] = IF j = i THEN Unbound ELSE bound[j][t]
    BY <1>0, <1>7 DEF Crash, TypeOK
  <2>2. ASSUME NEW e \in Exec
        PROVE  /\ beat'[e] # "off" => Binding(e)' = e
               /\ pc'[e] \in {"idle", "acquiring", "leased"} => Binding(e)' # e
               /\ pc'[e] = "done" /\ Binding(e)' = e => bound'[at[e]][job[e]].timed
    <3>1. at[e] \in Instance /\ job[e] \in Task /\ at'[e] = at[e] /\ job'[e] = job[e]
      BY <1>0, <1>7 DEF TypeOK, Crash, requests
    <3>2. CASE at[e] = i
      <4>1. Binding(e)' = NoExec
        BY <2>1, <3>1, <3>2 DEF Binding, Unbound
      <4>2. beat'[e] = "off"
        BY <1>0, <1>7, <3>2 DEF Crash, BindInv, TypeOK
      <4>3. QED
        BY <4>1, <4>2, ExecAssumption
    <3>3. CASE at[e] # i
      <4>1. beat'[e] = beat[e] /\ pc'[e] = pc[e]
        BY <1>7, <3>3 DEF Crash
      <4>2. bound'[at[e]][job[e]] = bound[at[e]][job[e]]
        BY <2>1, <3>1, <3>3
      <4>3. QED
        BY <1>0, <3>1, <4>1, <4>2 DEF BindInv, Binding
    <3>4. QED
      BY <3>2, <3>3
  <2>3. ASSUME NEW j \in Instance, NEW t \in Task
        PROVE  /\ bound'[j][t].exec # NoExec =>
                     at'[bound'[j][t].exec] = j /\ job'[bound'[j][t].exec] = t
               /\ bound'[j][t].timed => bound'[j][t].exec # NoExec
    BY <1>0, <1>7, <2>1 DEF Crash, BindInv, Unbound, requests
  <2>4. UNCHANGED requests
    BY <1>7 DEF Crash
  <2>5. QED
    BY <2>2, <2>3, <2>4 DEF BindInv, requests
<1>8. ASSUME NEW t \in Task, Lapse(t) \/ Expire(t) PROVE BindInv'
  BY <1>0, <1>8, SameBindings DEF Lapse, Expire, requests
<1>9. CASE UNCHANGED vars
  BY <1>0, <1>9, SameBindings DEF vars, requests
<1>10. QED
  BY <1>1, <1>2, <1>3, <1>4, <1>5, <1>6, <1>7, <1>8, <1>9 DEF Next, SaveEvents

-----------------------------------------------------------------------------
(* Every reachable state has the inductive invariant. *)
THEOREM Invariance == Spec => []IInv
<1>1. Init => IInv
  <2> SUFFICES ASSUME Init PROVE IInv
    OBVIOUS
  <2>1. TypeOK
    BY TypeInit
  <2>2. Stored = {} /\ \A o \in Owner : OwnedBy(o, Stored) = {}
    BY DEF Init, Stored, Absent, OwnedBy
  <2>3. CountInv
    BY <2>2, FS_EmptySet DEF Init, CountInv, CountersExact, Visible, Absent
  <2>4. BindInv /\ SaveInv
    BY <2>1, ExecAssumption DEF Init, TypeOK, BindInv, SaveInv, Binding, Unbound, Idle
  <2>5. QED
    BY <2>1, <2>3, <2>4 DEF IInv
<1>2. IInv /\ [Next]_vars => IInv'
  BY TypeStep, BindStep DEF IInv
<1>3. QED
  BY <1>1, <1>2, PTL DEF Spec

(* The task table never holds more rows than its capacities, and no fence, *)
(* event or binding is malformed, whatever the instances and the SDK do.   *)
THEOREM TypeCorrect == Spec => []TypeOK
<1>1. IInv => TypeOK
  BY DEF IInv
<1>2. QED
  BY <1>1, Invariance, PTL

(* The transactional counters of the task table are exact: no purge,       *)
(* replay, rollback or lost acknowledgement makes them drift.              *)
THEOREM Counters == Spec => []CountersExact
<1>1. IInv => CountersExact
  BY DEF IInv, CountInv
<1>2. QED
  BY <1>1, Invariance, PTL

(* A heartbeat that outlives its execution is always under a running grace *)
(* timer, so no execution that has ended keeps its lease for ever.         *)
THEOREM Watchdog == Spec => []WatchdogSet
<1>1. IInv => WatchdogSet
  <2> SUFFICES ASSUME IInv, NEW e \in Exec, pc[e] = "done", beat[e] = "on"
               PROVE  bound[at[e]][job[e]] = [exec |-> e, timed |-> TRUE]
    BY DEF WatchdogSet
  <2>1. Binding(e) = e /\ bound[at[e]][job[e]].timed
    BY DEF IInv, BindInv
  <2>2. bound[at[e]][job[e]] \in [exec : Exec \cup {NoExec}, timed : BOOLEAN]
    BY DEF IInv, TypeOK
  <2>3. QED
    BY <2>1, <2>2 DEF Binding
<1>2. QED
  BY <1>1, Invariance, PTL

-----------------------------------------------------------------------------
(* The tables and the leases implement TaskOutcomes *)

Shown(t) == IF Settled(t) THEN tasks[t].state ELSE "open"

Outcomes == [t \in Task |-> Shown(t)]

LEMMA OutcomeInit == Init => Outcome!Init
BY DEF Init, Outcome!Init, Settled, Visible, Absent

LEMMA DrawnDraws ==
    ASSUME TypeOK, NEW e \in Exec, Drawn(e)
    PROVE  \E t \in Task : Outcome!Draw(t)
<1>0. PICK t \in Task : t = job[e]
  BY DEF TypeOK
<1>1. lastFence \in Nat /\ lastFence' = lastFence + 1
  BY DEF TypeOK, Drawn, Insert
<1>2. ~Settled(t) /\ leases[t] = 0
  BY <1>0 DEF Drawn, Insert, Grantable
<1>3. \A u \in Task : Shown(u)' = Shown(u)
  BY DEF Drawn, Shown, Settled, Visible
<1>4. Outcomes' = Outcomes /\ leases' = [leases EXCEPT ![t] = lastFence']
  BY <1>0, <1>3 DEF Outcomes, Drawn, Insert
<1>5. Outcome!Draw(t)
  BY <1>1, <1>2, <1>4 DEF Outcomes, Shown, Outcome!Draw
<1>6. QED
  BY <1>5

(* A save shows nothing, ends a lease, or settles its task under it. *)
LEMMA SavedSettles ==
    ASSUME TypeOK, CountInv, NEW e \in Exec, queue[e] # <<>>, Save(e)
    PROVE  \/ \E t \in Task : Outcome!Settle(t) \/ Outcome!Lapse(t)
           \/ UNCHANGED <<Outcomes, leases, lastFence>>
<1> DEFINE w == Head(queue[e])
           b == saving[e].binding
<1>0. PICK t \in Task : t = job[e]
  BY DEF TypeOK
<1>1. w.state \in {"working", "completed", "failed"}
  <2>1. queue[e] \in Seq(Event) /\ queue[e] # <<>>
    BY DEF TypeOK
  <2>2. w \in Event
    BY <2>1
  <2>3. QED
    BY <2>2 DEF TypeOK, Event
<1>2. lastFence' = lastFence /\ leases' \in {leases, [leases EXCEPT ![t] = 0]}
  BY <1>0 DEF Save, TypeOK
<1>3. ASSUME NEW u \in Task, u # t \/ Replays(e)
      PROVE  Shown(u)' = Shown(u)
  <2>1. tasks'[u] = IF u \in Stale THEN Absent ELSE tasks[u]
    BY <1>0, <1>3 DEF Save
  <2>2. CASE u \in Stale
    BY <2>1, <2>2 DEF Stale, Shown, Settled, Visible, Absent
  <2>3. CASE u \notin Stale
    BY <2>1, <2>3 DEF Shown, Settled, Visible
  <2>4. QED
    BY <2>2, <2>3
<1>4. CASE Replays(e)
  <2>1. Outcomes' = Outcomes
    BY <1>3, <1>4 DEF Outcomes
  <2>2. QED
    BY <1>0, <1>2, <2>1 DEF Outcomes, Shown, Outcome!Lapse
<1>5. CASE ~Replays(e)
  <2>1. ~Settled(t) /\ (w.state \in Verdict => FenceHolds(b, t))
    BY <1>0, <1>5 DEF Save, Persists
  <2>2. tasks'[t].state = w.state /\ tasks'[t].live = TRUE
    BY <1>0, <1>1, <1>5 DEF Save
  <2>3. CASE w.state = "working"
    <3>1. leases' = leases
      BY <1>0, <2>3 DEF Save, Verdict, TypeOK
    <3>2. Shown(t)' = Shown(t)
      BY <2>1, <2>2, <2>3 DEF Shown, Settled, Visible, Verdict
    <3>3. Outcomes' = Outcomes
      BY <1>3, <3>2 DEF Outcomes
    <3>4. QED
      BY <1>2, <3>1, <3>3
  <2>4. CASE w.state \in {"completed", "failed"}
    <3>1. leases[t] # 0 /\ leases' = [leases EXCEPT ![t] = 0]
      BY <1>0, <2>1, <2>4 DEF Save, Verdict, FenceHolds
    <3>2. Shown(t) = "open" /\ Shown(t)' = w.state
      BY <2>1, <2>2, <2>4 DEF Shown, Settled, Visible, Verdict
    <3>3. Outcomes' = [Outcomes EXCEPT ![t] = w.state]
      BY <1>1, <1>3, <3>2 DEF Outcomes
    <3>4. QED
      BY <1>0, <1>1, <1>2, <2>4, <3>1, <3>2, <3>3 DEF Outcomes, Shown, Outcome!Settle
  <2>5. QED
    BY <1>1, <2>3, <2>4
<1>6. QED
  BY <1>4, <1>5

LEMMA CancelledCancels ==
    ASSUME TypeOK, NEW i \in Instance, NEW t \in Task, Cancelled(i, t)
    PROVE  Outcome!Cancel(t) \/ Outcome!Lapse(t)
<1>1. leases' = [leases EXCEPT ![t] = 0] /\ lastFence' = lastFence /\ Visible(t)
  BY DEF Cancelled, Revoked
<1>2. CASE UNCHANGED tasks
  <2>1. Outcomes' = Outcomes
    BY <1>2 DEF Outcomes, Shown, Settled, Visible
  <2>2. QED
    BY <1>1, <2>1 DEF Outcomes, Shown, Outcome!Lapse
<1>3. CASE tasks[t].state = "working" /\ tasks' = [tasks EXCEPT ![t] =
             [Absent EXCEPT !.state = "canceled", !.stamp = Clock[i], !.live = TRUE]]
  <2>1. Shown(t) = "open" /\ Shown(t)' = "canceled"
    BY <1>3 DEF TypeOK, Shown, Settled, Visible, Verdict, Absent
  <2>2. \A u \in Task : u # t => Shown(u)' = Shown(u)
    BY <1>3 DEF TypeOK, Shown, Settled, Visible
  <2>3. Outcomes' = [Outcomes EXCEPT ![t] = "canceled"]
    BY <2>1, <2>2 DEF Outcomes
  <2>4. QED
    BY <1>1, <2>1, <2>3 DEF Outcomes, Shown, Outcome!Cancel
<1>4. QED
  BY <1>2, <1>3 DEF Cancelled

LEMMA ExpiredForgets ==
    ASSUME TypeOK, NEW t \in Task, Expired(t)
    PROVE  Outcome!Forget(t)
<1>1. tasks'[t].live = FALSE /\ \A u \in Task : u # t => tasks'[u] = tasks[u]
  BY DEF Expired, TypeOK, TaskRow
<1>2. Outcomes' = [Outcomes EXCEPT ![t] = "open"]
  BY <1>1 DEF Outcomes, Shown, Settled, Visible
<1>3. QED
  BY <1>2 DEF Expired, Outcomes, Shown, Outcome!Forget

LEMMA OutcomeStep ==
    TypeOK /\ CountInv /\ DbMoves => [Outcome!Next]_(Outcome!vars)
<1> SUFFICES ASSUME TypeOK, CountInv, DbMoves PROVE [Outcome!Next]_(Outcome!vars)
  OBVIOUS
<1>1. CASE UNCHANGED db
  <2>1. \A t \in Task : Shown(t)' = Shown(t)
    BY <1>1 DEF db, Shown, Settled, Visible
  <2>2. Outcomes' = Outcomes
    BY <2>1 DEF Outcomes
  <2>3. QED
    BY <1>1, <2>2 DEF db, Outcomes, Shown, Outcome!vars
<1>2. CASE \E e \in Exec : Drawn(e)
  BY <1>2, DrawnDraws DEF Outcome!Next
<1>3. CASE \E e \in Exec : queue[e] # <<>> /\ Save(e)
  <2>1. PICK e \in Exec : queue[e] # <<>> /\ Save(e)
    BY <1>3
  <2>2. CASE UNCHANGED <<Outcomes, leases, lastFence>>
    BY <2>2 DEF Outcomes, Shown, Outcome!vars
  <2>3. CASE \E t \in Task : Outcome!Settle(t) \/ Outcome!Lapse(t)
    BY <2>3 DEF Outcome!Next
  <2>4. QED
    BY <2>1, <2>2, <2>3, SavedSettles
<1>4. CASE \E i \in Instance, t \in Task : Cancelled(i, t)
  BY <1>4, CancelledCancels DEF Outcome!Next
<1>5. CASE \E t \in Task : Dropped(t)
  <2>1. PICK t \in Task : Dropped(t)
    BY <1>5
  <2>2. Outcomes' = Outcomes
    BY <2>1 DEF Dropped, Outcomes, Shown, Settled, Visible
  <2>3. CASE leases' = leases
    BY <2>1, <2>2, <2>3 DEF Dropped, Outcomes, Shown, Outcome!vars
  <2>4. CASE leases' = [leases EXCEPT ![t] = 0]
    BY <2>1, <2>2, <2>4 DEF Dropped, Outcomes, Shown, Outcome!Lapse, Outcome!Next
  <2>5. QED
    BY <2>1, <2>3, <2>4 DEF Dropped
<1>6. CASE \E t \in Task : Expired(t)
  BY <1>6, ExpiredForgets DEF Outcome!Next
<1>7. QED
  BY <1>1, <1>2, <1>3, <1>4, <1>5, <1>6 DEF DbMoves

(* The task table and the lease table together implement TaskOutcomes:     *)
(* whichever instance saves, cancels, retries or dies, a task settles      *)
(* once, under the one lease that ends with it.                            *)
THEOREM Settlement == Spec => SettledOnce
<1>1. Init => Outcome!Init
  BY OutcomeInit
<1>2. IInv /\ [Next]_vars => [Outcome!Next]_(Outcome!vars)
  BY StepMoves, OutcomeStep DEF IInv
<1>3. QED
  BY <1>1, <1>2, Invariance, PTL DEF Spec, SettledOnce, Outcome!Spec
-----------------------------------------------------------------------------
(* A stale write needs a borrowed binding *)

(* No save resolves the binding of another execution.                      *)
OwnBinding == \A e \in Exec : Resolve(e) => saving'[e].binding \in {NoExec, e}

OwnSaves == \A e \in Exec :
    saving[e].step = "resolved" => saving[e].binding \in {NoExec, e}

(* A lease is drawn once, and before that the execution has no fence. *)
Unfenced == \A e \in Exec : pc[e] \in {"idle", "acquiring"} => fence[e] = 0

(* A verdict that an execution wrote carries the fence of its own lease. *)
OwnVerdict(row, f) ==
    (row.state \in Verdict /\ row.by # NoExec)
        => (row.by \in Exec /\ f[row.by] # 0 /\ row.fence = f[row.by])

OwnVerdicts == \A t \in Task : OwnVerdict(tasks[t], fence)

OwnInv == OwnSaves /\ Unfenced /\ OwnVerdicts

LEMMA OwnSavesStay ==
    ASSUME IInv, OwnSaves, [Next]_vars, UNCHANGED vars \/ OwnBinding
    PROVE  OwnSaves'
<1>0. TypeOK
  BY DEF IInv
<1>1. ASSUME NEW e \in Exec, Execute(e) PROVE UNCHANGED saving
  BY <1>1 DEF Execute, Begin, Acquire, LoseAcquire, AcquireFails, Bind, BindAborted,
     BindRefused, Call, CallFails, Publish, Suppress, Abort, HeartbeatFails
<1>2. ASSUME NEW e \in Exec, Resolve(e) PROVE OwnSaves'
  <2>1. CASE UNCHANGED vars
    BY <2>1 DEF vars, OwnSaves
  <2>2. CASE OwnBinding
    <3>1. saving'[e].binding \in {NoExec, e}
      BY <1>2, <2>2 DEF OwnBinding
    <3>2. \A x \in Exec : x # e => saving'[x] = saving[x]
      BY <1>0, <1>2 DEF Resolve, TypeOK
    <3>3. QED
      BY <3>1, <3>2 DEF OwnSaves
  <2>3. QED
    BY <2>1, <2>2
<1>3. ASSUME NEW e \in Exec, Commit(e) \/ LoseCommit(e) \/ SaveFails(e)
      PROVE  saving' = [saving EXCEPT ![e] = Idle]
  BY <1>3 DEF Commit, LoseCommit, SaveFails, Drop
<1>4. ASSUME NEW e \in Exec, saving' = [saving EXCEPT ![e] = Idle] PROVE OwnSaves'
  BY <1>0, <1>4 DEF TypeOK, OwnSaves, Idle
<1>5. ASSUME NEW i \in Instance, NEW t \in Task, Grace(i, t) \/ Cancel(i, t) \/ LoseCancel(i, t)
      PROVE  UNCHANGED saving
  BY <1>5 DEF Grace, Cancel, LoseCancel
<1>6. ASSUME NEW i \in Instance, CancelSettles(i) PROVE UNCHANGED saving
  BY <1>6 DEF CancelSettles
<1>7. ASSUME NEW i \in Instance, Crash(i) PROVE OwnSaves'
  <2>1. \A e \in Exec : saving'[e] \in {Idle, saving[e]}
    BY <1>7 DEF Crash
  <2>2. QED
    BY <2>1 DEF OwnSaves, Idle
<1>8. ASSUME NEW t \in Task, Lapse(t) \/ Expire(t) PROVE UNCHANGED saving
  BY <1>8 DEF Lapse, Expire
<1>9. UNCHANGED saving => OwnSaves'
  BY DEF OwnSaves
<1>10. CASE UNCHANGED vars
  BY <1>9, <1>10 DEF vars
<1>11. QED
  BY <1>1, <1>2, <1>3, <1>4, <1>5, <1>6, <1>7, <1>8, <1>9, <1>10 DEF Next, SaveEvents

(* Only the acquisition of a lease gives an execution a fence, and nothing *)
(* leads back before it.                                                   *)
LEMMA FenceMoves ==
    ASSUME IInv, [Next]_vars
    PROVE  \/ fence' = fence /\ \A e \in Exec :
                 pc'[e] \in {"idle", "acquiring"} => pc[e] \in {"idle", "acquiring"}
           \/ \E e \in Exec : Acquire(e)
<1>0. TypeOK
  BY DEF IInv
<1> DEFINE Keeps == fence' = fence /\ \A e \in Exec :
                 pc'[e] \in {"idle", "acquiring"} => pc[e] \in {"idle", "acquiring"}
<1>1. ASSUME NEW e \in Exec, Execute(e), ~Acquire(e) PROVE Keeps
  <2>1. fence' = fence
    BY <1>1 DEF Execute, Begin, LoseAcquire, AcquireFails, Bind, BindAborted,
       BindRefused, Call, CallFails, Publish, Suppress, Abort, HeartbeatFails
  <2>2. \/ pc' = pc
        \/ pc[e] = "idle" /\ pc' = [pc EXCEPT ![e] = "acquiring"]
        \/ \E where \in {"leased", "ready", "called", "done"} : pc' = [pc EXCEPT ![e] = where]
    BY <1>1 DEF Execute, Begin, LoseAcquire, AcquireFails, Bind, BindAborted,
       BindRefused, Call, CallFails, Publish, Suppress, Abort, HeartbeatFails,
       Rethrow, End, Goto
  <2>3. QED
    BY <1>0, <2>1, <2>2 DEF TypeOK
<1>2. ASSUME NEW e \in Exec, SaveEvents(e) PROVE UNCHANGED <<fence, pc>>
  BY <1>2 DEF SaveEvents, Resolve, Commit, LoseCommit, SaveFails, Drop
<1>3. ASSUME NEW i \in Instance, NEW t \in Task, Grace(i, t) \/ Cancel(i, t) \/ LoseCancel(i, t)
      PROVE  UNCHANGED <<fence, pc>>
  BY <1>3 DEF Grace, Cancel, LoseCancel
<1>4. ASSUME NEW i \in Instance, CancelSettles(i) PROVE UNCHANGED <<fence, pc>>
  BY <1>4 DEF CancelSettles
<1>5. ASSUME NEW i \in Instance, Crash(i) PROVE Keeps
  <2>1. fence' = fence /\ \A e \in Exec : pc'[e] \in {pc[e], "done"}
    BY <1>5 DEF Crash
  <2>2. QED
    BY <2>1
<1>6. ASSUME NEW t \in Task, Lapse(t) \/ Expire(t) PROVE UNCHANGED <<fence, pc>>
  BY <1>6 DEF Lapse, Expire
<1>7. CASE UNCHANGED vars
  BY <1>7 DEF vars
<1>8. QED
  BY <1>1, <1>2, <1>3, <1>4, <1>5, <1>6, <1>7 DEF Next

LEMMA UnfencedStays == ASSUME IInv, Unfenced, [Next]_vars PROVE Unfenced'
<1>1. CASE \E e \in Exec : Acquire(e)
  <2>1. PICK e \in Exec : Acquire(e)
    BY <1>1
  <2>2. pc'[e] = "leased" /\ \A x \in Exec : x # e => pc'[x] = pc[x] /\ fence'[x] = fence[x]
    BY <2>1 DEF IInv, TypeOK, Acquire, Goto
  <2>3. QED
    BY <2>2 DEF Unfenced
<1>2. QED
  BY <1>1, FenceMoves DEF Unfenced

(* The rows after a save: every one of them was there before, is gone, is  *)
(* no verdict, or is the verdict of an execution that consumed its own     *)
(* lease.                                                                  *)
LEMMA SavedVerdicts ==
    ASSUME IInv, OwnSaves, OwnVerdicts, NEW e \in Exec, saving[e].step = "resolved", Save(e),
           NEW t \in Task
    PROVE  OwnVerdict(tasks'[t], fence)
<1> DEFINE w == Head(queue[e])
           b == saving[e].binding
<1>1. CASE t = job[e] /\ ~Replays(e) /\ w.state \in Verdict
  <2>1. tasks'[t] = [state |-> w.state, stamp |-> w.stamp, by |-> e, live |-> TRUE,
                     fence |-> fence[b]]
    BY <1>1 DEF Save
  <2>2. b # NoExec /\ fence[b] # 0
    BY <1>1 DEF Save, Persists, FenceHolds
  <2>3. b = e
    BY <2>2 DEF OwnSaves
  <2>4. QED
    BY <2>1, <2>2, <2>3 DEF OwnVerdict
<1>2. CASE t = job[e] /\ ~Replays(e) /\ w.state \notin Verdict
  <2>1. tasks'[t].state = w.state
    BY <1>2 DEF Save
  <2>2. QED
    BY <1>2, <2>1 DEF OwnVerdict
<1>3. CASE t # job[e] \/ Replays(e)
  <2>1. tasks'[t] \in {Absent, tasks[t]}
    BY <1>3 DEF Save
  <2>2. OwnVerdict(Absent, fence)
    BY DEF OwnVerdict, Absent
  <2>3. QED
    BY <2>1, <2>2 DEF OwnVerdicts
<1>4. QED
  BY <1>1, <1>2, <1>3

LEMMA VerdictsUntouched ==
    ASSUME IInv, OwnVerdicts, [Next]_vars,
           \A e \in Exec : ~(saving[e].step = "resolved" /\ Save(e)), NEW t \in Task
    PROVE  OwnVerdict(tasks'[t], fence)
<1>0. TypeOK /\ tasks[t] \in TaskRow
  BY DEF IInv, TypeOK
<1>1. ASSUME NEW e \in Exec, Execute(e) PROVE UNCHANGED tasks
  BY <1>1 DEF Execute, Begin, Acquire, LoseAcquire, AcquireFails, Bind, BindAborted,
     BindRefused, Call, CallFails, Publish, Suppress, Abort, HeartbeatFails, db
<1>2. ASSUME NEW e \in Exec, SaveEvents(e) PROVE UNCHANGED tasks
  BY <1>2 DEF SaveEvents, Resolve, Commit, LoseCommit, SaveFails, db
<1>3. ASSUME NEW i \in Instance, NEW u \in Task, Grace(i, u) PROVE UNCHANGED tasks
  BY <1>3 DEF Grace
<1>4. ASSUME NEW i \in Instance, NEW u \in Task, Cancelled(i, u)
      PROVE  OwnVerdict(tasks'[t], fence)
  <2>1. tasks'[t] = tasks[t] \/ tasks'[t].by = NoExec
    BY <1>0, <1>4 DEF Cancelled, TypeOK, Absent
  <2>2. QED
    BY <2>1 DEF OwnVerdicts, OwnVerdict
<1>5. ASSUME NEW i \in Instance, CancelSettles(i) \/ Crash(i) PROVE UNCHANGED tasks
  BY <1>5 DEF CancelSettles, Crash, db
<1>6. ASSUME NEW u \in Task, Lapse(u) PROVE UNCHANGED tasks
  BY <1>6 DEF Lapse
<1>7. ASSUME NEW u \in Task, Expire(u) PROVE OwnVerdict(tasks'[t], fence)
  <2>1. tasks'[t] = tasks[t] \/ tasks'[t] = [tasks[t] EXCEPT !.live = FALSE]
    BY <1>0, <1>7 DEF Expire, TypeOK
  <2>2. tasks'[t].state = tasks[t].state /\ tasks'[t].by = tasks[t].by
        /\ tasks'[t].fence = tasks[t].fence
    BY <1>0, <2>1 DEF TaskRow
  <2>3. QED
    BY <2>2 DEF OwnVerdicts, OwnVerdict
<1>8. UNCHANGED tasks => OwnVerdict(tasks'[t], fence)
  BY DEF OwnVerdicts
<1>9. CASE UNCHANGED vars
  BY <1>8, <1>9 DEF vars
<1>10. QED
  BY <1>1, <1>2, <1>3, <1>4, <1>5, <1>6, <1>7, <1>8, <1>9
     DEF Next, Cancel, LoseCancel

LEMMA OwnVerdictsStay ==
    ASSUME IInv, OwnInv, [Next]_vars
    PROVE  OwnVerdicts'
<1> SUFFICES ASSUME NEW t \in Task PROVE OwnVerdict(tasks'[t], fence')
  BY DEF OwnVerdicts
<1>1. OwnVerdict(tasks'[t], fence)
  BY SavedVerdicts, VerdictsUntouched DEF OwnInv
<1>2. CASE fence' = fence
  BY <1>1, <1>2
<1>3. CASE \E e \in Exec : Acquire(e)
  <2>1. PICK e \in Exec : Acquire(e)
    BY <1>3
  <2>2. fence[e] = 0 /\ \A x \in Exec : x # e => fence'[x] = fence[x]
    BY <2>1 DEF IInv, TypeOK, OwnInv, Unfenced, Acquire
  <2>3. QED
    BY <1>1, <2>2 DEF OwnVerdict
<1>4. QED
  BY <1>2, <1>3, FenceMoves

(* Stale terminal writes have one cause: the terminal save takes whichever *)
(* binding the task has when it is resolved.  As long as no save resolves  *)
(* the binding of another execution, every verdict is written under the    *)
(* lease of the execution that reports it, through crashes, lapsed leases, *)
(* late and repeated saves and cancellations.                              *)
THEOREM StaleOnlyByBorrowedBinding ==
    Spec /\ [][OwnBinding]_vars => []StaleWritesRejected
<1>1. Init => OwnInv
  BY DEF Init, OwnInv, OwnSaves, Unfenced, OwnVerdicts, OwnVerdict, Idle, Absent
<1>2. IInv /\ OwnInv /\ [Next]_vars /\ [OwnBinding]_vars => OwnInv'
  BY OwnSavesStay, UnfencedStays, OwnVerdictsStay DEF OwnInv
<1>3. OwnInv => StaleWritesRejected
  BY DEF OwnInv, OwnVerdicts, OwnVerdict, StaleWritesRejected, Settled
<1>4. QED
  BY <1>1, <1>2, <1>3, Invariance, PTL DEF Spec
=============================================================================
