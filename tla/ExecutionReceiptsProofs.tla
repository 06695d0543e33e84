---------------------- MODULE ExecutionReceiptsProofs ----------------------
(***************************************************************************)
(* Proofs about ExecutionReceipts, for any set of executions, any client,  *)
(* and any number of faults.                                               *)
(*                                                                         *)
(* What is known of an execution is known of the client first: its row and *)
(* its handler tell whether the effect was had.  The rows of the journal   *)
(* and of the lifecycle, the orchestrator, the adapter and the recovery    *)
(* are then each related to the client's row.                              *)
(***************************************************************************)
EXTENDS ExecutionReceipts, TLAPS

(* The action was not sent. *)
Unsent(x) == client[x] = "absent" /\ wire[x] = "none"

(* The client's row and its handler count the effect. *)
ClientInv(x) ==
    /\ client[x] = "absent" => handler[x] = "none" /\ effects[x] = 0
    /\ client[x] = "accepted" =>
          handler[x] \in {"none", "preparing", "refusing", "claiming"} /\ effects[x] = 0
    /\ client[x] = "effect-started" =>
          /\ handler[x] \in {"none", "committing", "recording"}
          /\ effects[x] \in {0, 1}
          /\ handler[x] = "committing" => effects[x] = 0
          /\ handler[x] = "recording" => effects[x] = 1
    /\ client[x] = "completed" => handler[x] \in {"none", "recording"} /\ effects[x] = 1
    /\ client[x] = "failed-before-effect" => handler[x] = "none" /\ effects[x] = 0
    /\ wire[x] = "action" => client[x] = "absent"
    /\ wire[x] = "receipt" => client[x] = "completed"

BeforeDispatch == {"new", "initialized", "cancelling", "started", "prepared", "armed",
                   "failing", "committed"}

(* The action is sent once, by the adapter of a dispatching orchestrator,  *)
(* and a receipt is the client's.                                          *)
SenderInv(x) ==
    /\ pc[x] \in BeforeDispatch => Unsent(x) /\ adapter[x] = "none"
    /\ adapter[x] \in {"calling", "authorized"} => Unsent(x)
    /\ adapter[x] \in {"answered", "returned"} => client[x] = "completed"
    /\ adapter[x] = "returned" => confirmed[x]
    /\ confirmed[x] => client[x] = "completed"
    /\ pc[x] \in {"confirmed", "marking", "completing", "finalizing", "salvaging"} =>
          confirmed[x]

(* A row of the journal tells what it says of the client. *)
JournalInv(x) ==
    /\ pc[x] \in {"new", "initialized", "cancelling", "started"} => journal[x] = "absent"
    /\ journal[x] \in {"prepared", "not-dispatched-confirmed"} =>
          pc[x] \in {"prepared", "failing", "ended"} /\ adapter[x] = "none" /\ Unsent(x)
    /\ journal[x] = "armed-not-dispatched-confirmed" =>
          pc[x] \in {"failing", "pausing", "ended"} /\ adapter[x] = "none" /\ Unsent(x)
    /\ journal[x] = "failed-before-effect-confirmed" => client[x] = "failed-before-effect"
    /\ journal[x] \in HasReceipt => client[x] = "completed"

(* What is called failed or cancelled is never dispatched any more. *)
Never(x) ==
    /\ client[x] \in {"absent", "failed-before-effect"}
    /\ wire[x] = "none"
    /\ adapter[x] \notin {"calling", "authorized"}
    /\ pc[x] \notin {"new", "started", "armed", "committed"}
    /\ pc[x] = "prepared" => journal[x] # "prepared"

(* The lifecycle is as far as its orchestrator. *)
LifecycleInv(x) ==
    /\ pc[x] = "new" => lifecycle[x] = "absent"
    /\ lifecycle[x] = "pending" =>
          /\ pc[x] \in {"initialized", "cancelling", "ended"}
          /\ Unsent(x) /\ adapter[x] = "none" /\ journal[x] = "absent"
    /\ journal[x] # "absent" => lifecycle[x] # "absent"
    /\ pc[x] \notin {"new", "ended"} => lifecycle[x] # "absent"
    /\ lifecycle[x] \in FailedStatus => Never(x)
    /\ lifecycle[x] = "completed" => client[x] = "completed"
    /\ pc[x] = "finalizing" => lifecycle[x] \in {"completed", "gone"}
    /\ journal[x] = "finalized-completed" => lifecycle[x] \in {"completed", "gone"}
    /\ journal[x] = "finalized-failed" => lifecycle[x] \in {"gone"} \cup FailedStatus

(* Feedback is staged for the receipts, before the rows say so. *)
StagedInv(x) ==
    /\ staged[x] => client[x] = "completed"
    /\ journal[x] \in {"feedback-staged", "finalized-completed"} => staged[x]
    /\ pc[x] = "marking" => staged[x]

(* What the recovery is about to do is still justified. *)
RecoveryInv(x) ==
    subject = x =>
        /\ action = "apply" /\ heard = "completed" => client[x] = "completed"
        /\ action = "apply" /\ heard = "failed-before-effect" =>
              client[x] = "failed-before-effect"
        /\ action \in {"stage-feedback", "mark-staged", "finalize-completed",
                       "complete-completed", "mark-completed"} => client[x] = "completed"
        /\ action = "mark-staged" => staged[x]
        /\ action = "mark-completed" => lifecycle[x] \in {"completed", "gone"}
        /\ action \in {"finalize-failed", "complete-failed", "mark-failed"} =>
              journal[x] \in NotDispatched
        /\ action = "mark-failed" => lifecycle[x] \in {"gone"} \cup FailedStatus

Known(x) ==
    /\ ClientInv(x)
    /\ SenderInv(x)
    /\ JournalInv(x)
    /\ LifecycleInv(x)
    /\ StagedInv(x)
    /\ RecoveryInv(x)

IInv == TypeOK /\ \A x \in Execution : Known(x)

-----------------------------------------------------------------------------
(* A step is about one execution *)

(* The step leaves y alone. *)
Same(y) ==
    /\ client'[y] = client[y] /\ handler'[y] = handler[y]
    /\ effects'[y] = effects[y] /\ wire'[y] = wire[y]
    /\ lifecycle'[y] = lifecycle[y] /\ journal'[y] = journal[y]
    /\ pc'[y] = pc[y] /\ adapter'[y] = adapter[y]
    /\ confirmed'[y] = confirmed[y] /\ staged'[y] = staged[y]
    /\ subject' = y => UNCHANGED recoveryVars

(* The step is x's. *)
Only(x) == \A y \in Execution \ {x} : Same(y)

LEMMA SameKnown ==
    ASSUME NEW y, Known(y), Same(y)
    PROVE  Known(y)'
<1>1. ClientInv(y)'
  BY DEF Known, Same, ClientInv
<1>2. SenderInv(y)'
  BY DEF Known, Same, SenderInv, Unsent
<1>3. JournalInv(y)'
  BY DEF Known, Same, JournalInv, Unsent
<1>4. LifecycleInv(y)'
  BY DEF Known, Same, LifecycleInv, Unsent, Never
<1>5. StagedInv(y)'
  BY DEF Known, Same, StagedInv
<1>6. RecoveryInv(y)'
  BY DEF Known, Same, RecoveryInv, recoveryVars
<1>7. QED
  BY <1>1, <1>2, <1>3, <1>4, <1>5, <1>6 DEF Known

LEMMA OneStep ==
    ASSUME IInv, NEW x \in Execution, TypeOK', Known(x)', Only(x)
    PROVE  IInv'
BY SameKnown DEF IInv, Only

-----------------------------------------------------------------------------
(* A flag that is set is still a flag. *)
LEMMA SetFlag ==
    ASSUME NEW f \in [Execution -> BOOLEAN], NEW x \in Execution
    PROVE  [f EXCEPT ![x] = TRUE] \in [Execution -> BOOLEAN]
OBVIOUS

-----------------------------------------------------------------------------
(* The client's steps *)

LEMMA ReceiverStep ==
    ASSUME IInv, NEW x \in Execution, Receiver(x),
           UNCHANGED <<gatewayVars, recoveryVars, faults>>
    PROVE  IInv'
<1> USE NothingAssumption, FaultsAssumption DEF IInv, TypeOK, ClientTypeOK, Known, ClientInv, SenderInv, JournalInv, LifecycleInv, StagedInv, RecoveryInv,
         Unsent, Never, BeforeDispatch, Same, Only,
         NotDispatched, HasReceipt, Finalized, JournalState, FailedStatus, Status, clientVars, gatewayVars, recoveryVars
<1>1. CASE Accept(x)
  <2>1. TypeOK'
    BY <1>1 DEF Accept, Handle, Write
  <2>2. Only(x)
    BY <1>1 DEF Accept, Handle, Write
  <2>3. Known(x)'
    BY <1>1 DEF Accept, Handle, Write
  <2>4. QED
    BY <2>1, <2>2, <2>3, OneStep
<1>2. CASE Lose(x)
  <2>1. TypeOK'
    BY <1>2 DEF Lose
  <2>2. Only(x)
    BY <1>2 DEF Lose
  <2>3. Known(x)'
    BY <1>2 DEF Lose
  <2>4. QED
    BY <2>1, <2>2, <2>3, OneStep
<1>3. CASE PrepareAction(x)
  <2>1. TypeOK'
    BY <1>3 DEF PrepareAction, Handle
  <2>2. Only(x)
    BY <1>3 DEF PrepareAction, Handle
  <2>3. Known(x)'
    BY <1>3 DEF PrepareAction, Handle
  <2>4. QED
    BY <2>1, <2>2, <2>3, OneStep
<1>4. CASE RecordFailedBeforeEffect(x)
  <2>1. TypeOK'
    BY <1>4 DEF RecordFailedBeforeEffect, Handle, Write
  <2>2. Only(x)
    BY <1>4 DEF RecordFailedBeforeEffect, Handle, Write
  <2>3. Known(x)'
    BY <1>4 DEF RecordFailedBeforeEffect, Handle, Write
  <2>4. QED
    BY <2>1, <2>2, <2>3, OneStep
<1>5. CASE ClaimEffect(x)
  <2>1. TypeOK'
    BY <1>5 DEF ClaimEffect, Handle, Write
  <2>2. Only(x)
    BY <1>5 DEF ClaimEffect, Handle, Write
  <2>3. Known(x)'
    BY <1>5 DEF ClaimEffect, Handle, Write
  <2>4. QED
    BY <2>1, <2>2, <2>3, OneStep
<1>6. CASE Abandon(x)
  <2>1. TypeOK'
    BY <1>6 DEF Abandon, Handle
  <2>2. Only(x)
    BY <1>6 DEF Abandon, Handle
  <2>3. Known(x)'
    BY <1>6 DEF Abandon, Handle
  <2>4. QED
    BY <2>1, <2>2, <2>3, OneStep
<1>7. CASE CommitEffect(x)
  <2>1. TypeOK'
    BY <1>7 DEF CommitEffect, Handle
  <2>2. Only(x)
    BY <1>7 DEF CommitEffect, Handle
  <2>3. Known(x)'
    BY <1>7 DEF CommitEffect, Handle
  <2>4. QED
    BY <2>1, <2>2, <2>3, OneStep
<1>8. CASE RecordCompleted(x)
  <2>1. TypeOK'
    BY <1>8 DEF RecordCompleted, Handle, Write
  <2>2. Only(x)
    BY <1>8 DEF RecordCompleted, Handle, Write
  <2>3. Known(x)'
    BY <1>8 DEF RecordCompleted, Handle, Write
  <2>4. QED
    BY <2>1, <2>2, <2>3, OneStep
<1>9. QED
  BY <1>1, <1>2, <1>3, <1>4, <1>5, <1>6, <1>7, <1>8 DEF Receiver

-----------------------------------------------------------------------------
(* The orchestrator before the dispatch *)

LEMMA BeforeStep ==
    ASSUME IInv, NEW x \in Execution, 
           \/ Initialize(x) \/ Start(x) \/ CancelUnstarted(x) \/ Fails(x)
           \/ PrepareDispatch(x) \/ ArmDispatch(x) \/ CommitReservation(x)
           \/ PersistFailure(x) \/ Dispatch(x)
    PROVE  IInv'
<1> USE NothingAssumption, FaultsAssumption DEF IInv, TypeOK, ClientTypeOK, Known, ClientInv, SenderInv, JournalInv, LifecycleInv, StagedInv, RecoveryInv,
         Unsent, Never, BeforeDispatch, Same, Only,
         NotDispatched, HasReceipt, Finalized, JournalState, FailedStatus, Status, clientVars, gatewayVars, recoveryVars
<1>1. CASE Initialize(x)
  <2>1. TypeOK'
    BY <1>1 DEF Initialize, Goto, SetLifecycle, Fault
  <2>2. Only(x)
    BY <1>1 DEF Initialize, Goto, SetLifecycle, Fault
  <2>3. Known(x)'
    BY <1>1 DEF Initialize, Goto, SetLifecycle, Fault
  <2>4. QED
    BY <2>1, <2>2, <2>3, OneStep
<1>2. CASE Start(x)
  <2>1. TypeOK'
    BY <1>2 DEF Start, Goto, SetLifecycle, NoTransition, Fault
  <2>2. Only(x)
    BY <1>2 DEF Start, Goto, SetLifecycle, NoTransition, Fault
  <2>3. Known(x)'
    BY <1>2 DEF Start, Goto, SetLifecycle, NoTransition, Fault
  <2>4. QED
    BY <2>1, <2>2, <2>3, OneStep
<1>3. CASE CancelUnstarted(x)
  <2>a. stopping' \in [Execution -> BOOLEAN]
    <3>1. stopping' = stopping \/ stopping' = [stopping EXCEPT ![x] = TRUE]
      BY <1>3 DEF CancelUnstarted, Goto, CancelLifecycle, SetLifecycle,
       NoTransition, Fault
    <3>2. QED
      BY <3>1, SetFlag
  <2>b. /\ lifecycle' \in [Execution -> Status]
        /\ faults' \in 0..MaxFaults
    BY <1>3 DEF CancelUnstarted, Goto, CancelLifecycle, SetLifecycle,
       NoTransition, Fault
  <2>1. TypeOK'
    BY <1>3, <2>a, <2>b DEF CancelUnstarted, Goto
  <2>2. Only(x)
    BY <1>3 DEF CancelUnstarted, Goto, CancelLifecycle, SetLifecycle,
       NoTransition, Fault
  <2>3. Known(x)'
    BY <1>3 DEF CancelUnstarted, Goto, CancelLifecycle, SetLifecycle,
       NoTransition, Fault
  <2>4. QED
    BY <2>1, <2>2, <2>3, OneStep
<1>4. CASE Fails(x)
  <2>1. TypeOK'
    BY <1>4 DEF Fails, Goto
  <2>2. Only(x)
    BY <1>4 DEF Fails, Goto
  <2>3. Known(x)'
    BY <1>4 DEF Fails, Goto
  <2>4. QED
    BY <2>1, <2>2, <2>3, OneStep
<1>5. CASE PrepareDispatch(x)
  <2>1. TypeOK'
    BY <1>5 DEF PrepareDispatch, Goto, SetJournal, Fault
  <2>2. Only(x)
    BY <1>5 DEF PrepareDispatch, Goto, SetJournal, Fault
  <2>3. Known(x)'
    BY <1>5 DEF PrepareDispatch, Goto, SetJournal, Fault
  <2>4. QED
    BY <2>1, <2>2, <2>3, OneStep
<1>6. CASE ArmDispatch(x)
  <2>1. TypeOK'
    BY <1>6 DEF ArmDispatch, Goto, SetJournal, Fault
  <2>2. Only(x)
    BY <1>6 DEF ArmDispatch, Goto, SetJournal, Fault
  <2>3. Known(x)'
    BY <1>6 DEF ArmDispatch, Goto, SetJournal, Fault
  <2>4. QED
    BY <2>1, <2>2, <2>3, OneStep
<1>7. CASE CommitReservation(x)
  <2>1. TypeOK'
    BY <1>7 DEF CommitReservation, Goto, ResolveArmed, SetJournal, Fault
  <2>2. Only(x)
    BY <1>7 DEF CommitReservation, Goto, ResolveArmed, SetJournal, Fault
  <2>3. Known(x)'
    BY <1>7 DEF CommitReservation, Goto, ResolveArmed, SetJournal, Fault
  <2>4. QED
    BY <2>1, <2>2, <2>3, OneStep
<1>8. CASE PersistFailure(x)
  <2>1. TypeOK'
    BY <1>8 DEF PersistFailure, Goto, CompleteLifecycle, SetLifecycle,
       NoTransition, Fault
  <2>2. Only(x)
    BY <1>8 DEF PersistFailure, Goto, CompleteLifecycle, SetLifecycle,
       NoTransition, Fault
  <2>3. Known(x)'
    BY <1>8 DEF PersistFailure, Goto, CompleteLifecycle, SetLifecycle,
       NoTransition, Fault
  <2>4. QED
    BY <2>1, <2>2, <2>3, OneStep
<1>9. CASE Dispatch(x)
  <2>1. TypeOK'
    BY <1>9 DEF Dispatch, Goto, Adapt, ResolveArmed, SetJournal, Fault
  <2>2. Only(x)
    BY <1>9 DEF Dispatch, Goto, Adapt, ResolveArmed, SetJournal, Fault
  <2>3. Known(x)'
    BY <1>9 DEF Dispatch, Goto, Adapt, ResolveArmed, SetJournal, Fault
  <2>4. QED
    BY <2>1, <2>2, <2>3, OneStep
<1>10. QED
  BY <1>1, <1>2, <1>3, <1>4, <1>5, <1>6, <1>7, <1>8, <1>9

-----------------------------------------------------------------------------
(* The adapter *)

LEMMA AdapterStep ==
    ASSUME IInv, NEW x \in Execution, Adapter(x)
    PROVE  IInv'
<1> USE NothingAssumption, FaultsAssumption DEF IInv, TypeOK, ClientTypeOK, Known, ClientInv, SenderInv, JournalInv, LifecycleInv, StagedInv, RecoveryInv,
         Unsent, Never, BeforeDispatch, Same, Only,
         NotDispatched, HasReceipt, Finalized, JournalState, FailedStatus, Status, clientVars, gatewayVars, recoveryVars
<1>1. CASE Authorize(x)
  <2>1. TypeOK'
    BY <1>1 DEF Authorize, Adapt
  <2>2. Only(x)
    BY <1>1 DEF Authorize, Adapt
  <2>3. Known(x)'
    BY <1>1 DEF Authorize, Adapt
  <2>4. QED
    BY <2>1, <2>2, <2>3, OneStep
<1>2. CASE Post(x)
  <2>1. TypeOK'
    BY <1>2 DEF Post, Adapt
  <2>2. Only(x)
    BY <1>2 DEF Post, Adapt
  <2>3. Known(x)'
    BY <1>2 DEF Post, Adapt
  <2>4. QED
    BY <2>1, <2>2, <2>3, OneStep
<1>3. CASE Receive(x)
  <2>1. TypeOK'
    BY <1>3 DEF Receive, Adapt
  <2>2. Only(x)
    BY <1>3 DEF Receive, Adapt
  <2>3. Known(x)'
    BY <1>3 DEF Receive, Adapt
  <2>4. QED
    BY <2>1, <2>2, <2>3, OneStep
<1>4. CASE AdapterFails(x)
  <2>1. TypeOK'
    BY <1>4 DEF AdapterFails, Adapt
  <2>2. Only(x)
    BY <1>4 DEF AdapterFails, Adapt
  <2>3. Known(x)'
    BY <1>4 DEF AdapterFails, Adapt
  <2>4. QED
    BY <2>1, <2>2, <2>3, OneStep
<1>5. CASE ConfirmReceipt(x)
  <2>a. confirmed' \in [Execution -> BOOLEAN]
    <3>1. confirmed' = confirmed \/ confirmed' = [confirmed EXCEPT ![x] = TRUE]
      BY <1>5 DEF ConfirmReceipt, Adapt, Fault
    <3>2. QED
      BY <3>1, SetFlag
  <2>1. TypeOK'
    BY <1>5, <2>a DEF ConfirmReceipt, Adapt, Fault
  <2>2. Only(x)
    BY <1>5 DEF ConfirmReceipt, Adapt, Fault
  <2>3. Known(x)'
    BY <1>5 DEF ConfirmReceipt, Adapt, Fault
  <2>4. QED
    BY <2>1, <2>2, <2>3, OneStep
<1>6. QED
  BY <1>1, <1>2, <1>3, <1>4, <1>5 DEF Adapter

-----------------------------------------------------------------------------
(* The orchestrator behind the dispatch *)

LEMMA BehindStep ==
    ASSUME IInv, NEW x \in Execution, 
           \/ Returned(x) \/ NotReturned(x) \/ Stage(x) \/ MarkStaged(x)
           \/ Complete(x) \/ Finalize(x) \/ Salvage(x) \/ Pause(x)
    PROVE  IInv'
<1> USE NothingAssumption, FaultsAssumption DEF IInv, TypeOK, ClientTypeOK, Known, ClientInv, SenderInv, JournalInv, LifecycleInv, StagedInv, RecoveryInv,
         Unsent, Never, BeforeDispatch, Same, Only,
         NotDispatched, HasReceipt, Finalized, JournalState, FailedStatus, Status, clientVars, gatewayVars, recoveryVars
<1>1. CASE Returned(x)
  <2>1. TypeOK'
    BY <1>1 DEF Returned, Goto
  <2>2. Only(x)
    BY <1>1 DEF Returned, Goto
  <2>3. Known(x)'
    BY <1>1 DEF Returned, Goto
  <2>4. QED
    BY <2>1, <2>2, <2>3, OneStep
<1>2. CASE NotReturned(x)
  <2>1. TypeOK'
    BY <1>2 DEF NotReturned, Goto, Outcome
  <2>2. Only(x)
    BY <1>2 DEF NotReturned, Goto, Outcome
  <2>3. Known(x)'
    BY <1>2 DEF NotReturned, Goto, Outcome
  <2>4. QED
    BY <2>1, <2>2, <2>3, OneStep
<1>3. CASE Stage(x)
  <2>a. staged' \in [Execution -> BOOLEAN]
    <3>1. staged' = staged \/ staged' = [staged EXCEPT ![x] = TRUE]
      BY <1>3 DEF Stage, Goto, Fault
    <3>2. QED
      BY <3>1, SetFlag
  <2>1. TypeOK'
    BY <1>3, <2>a DEF Stage, Goto, Fault
  <2>2. Only(x)
    BY <1>3 DEF Stage, Goto, Fault
  <2>3. Known(x)'
    BY <1>3 DEF Stage, Goto, Fault
  <2>4. QED
    BY <2>1, <2>2, <2>3, OneStep
<1>4. CASE MarkStaged(x)
  <2>1. TypeOK'
    BY <1>4 DEF MarkStaged, Goto, Fault
  <2>2. Only(x)
    BY <1>4 DEF MarkStaged, Goto, Fault
  <2>3. Known(x)'
    BY <1>4 DEF MarkStaged, Goto, Fault
  <2>4. QED
    BY <2>1, <2>2, <2>3, OneStep
<1>5. CASE Complete(x)
  <2>1. TypeOK'
    BY <1>5 DEF Complete, Goto, CompleteLifecycle, SetLifecycle,
       NoTransition, Fault
  <2>2. Only(x)
    BY <1>5 DEF Complete, Goto, CompleteLifecycle, SetLifecycle,
       NoTransition, Fault
  <2>3. Known(x)'
    BY <1>5 DEF Complete, Goto, CompleteLifecycle, SetLifecycle,
       NoTransition, Fault
  <2>4. QED
    BY <2>1, <2>2, <2>3, OneStep
<1>6. CASE Finalize(x)
  <2>1. TypeOK'
    BY <1>6 DEF Finalize, Goto, Fault
  <2>2. Only(x)
    BY <1>6 DEF Finalize, Goto, Fault
  <2>3. Known(x)'
    BY <1>6 DEF Finalize, Goto, Fault
  <2>4. QED
    BY <2>1, <2>2, <2>3, OneStep
<1>7. CASE Salvage(x)
  <2>1. TypeOK'
    BY <1>7 DEF Salvage, Goto, CompleteLifecycle, SetLifecycle,
       NoTransition, Fault
  <2>2. Only(x)
    BY <1>7 DEF Salvage, Goto, CompleteLifecycle, SetLifecycle,
       NoTransition, Fault
  <2>3. Known(x)'
    BY <1>7 DEF Salvage, Goto, CompleteLifecycle, SetLifecycle,
       NoTransition, Fault
  <2>4. QED
    BY <2>1, <2>2, <2>3, OneStep
<1>8. CASE Pause(x)
  <2>a. stopping' \in [Execution -> BOOLEAN]
    <3>1. stopping' = stopping \/ stopping' = [stopping EXCEPT ![x] = TRUE]
      BY <1>8 DEF Pause, Goto, NoTransition, Fault
    <3>2. QED
      BY <3>1, SetFlag
  <2>b. /\ lifecycle' \in [Execution -> Status]
        /\ faults' \in 0..MaxFaults
    BY <1>8 DEF Pause, Goto, NoTransition, Fault
  <2>1. TypeOK'
    BY <1>8, <2>a, <2>b DEF Pause, Goto
  <2>2. Only(x)
    BY <1>8 DEF Pause, Goto, NoTransition, Fault
  <2>3. Known(x)'
    BY <1>8 DEF Pause, Goto, NoTransition, Fault
  <2>4. QED
    BY <2>1, <2>2, <2>3, OneStep
<1>9. QED
  BY <1>1, <1>2, <1>3, <1>4, <1>5, <1>6, <1>7, <1>8

-----------------------------------------------------------------------------
(* The recovery *)

LEMMA RecoveryStep ==
    ASSUME IInv, NEW x \in Execution, 
           \/ Pick(x) \/ ResolvePrepared(x) \/ Query(x) \/ Apply(x)
           \/ RecoveryStages(x) \/ RecoveryMarks(x) \/ RecoveryFinalizes(x)
           \/ RecoveryCompletes(x) \/ RecoveryEnds(x)
    PROVE  IInv'
<1> USE NothingAssumption, FaultsAssumption DEF IInv, TypeOK, ClientTypeOK, Known, ClientInv, SenderInv, JournalInv, LifecycleInv, StagedInv, RecoveryInv,
         Unsent, Never, BeforeDispatch, Same, Only,
         NotDispatched, HasReceipt, Finalized, JournalState, FailedStatus, Status, clientVars, gatewayVars, recoveryVars
<1>1. CASE Pick(x)
  <2>1. TypeOK'
    BY <1>1 DEF Pick, RecoveryAction
  <2>2. Only(x)
    BY <1>1 DEF Pick, RecoveryAction
  <2>3. Known(x)'
    BY <1>1 DEF Pick, RecoveryAction
  <2>4. QED
    BY <2>1, <2>2, <2>3, OneStep
<1>2. CASE ResolvePrepared(x)
  <2>1. TypeOK'
    BY <1>2 DEF ResolvePrepared, SetJournal, Then, Rest
  <2>2. Only(x)
    BY <1>2 DEF ResolvePrepared, SetJournal, Then, Rest
  <2>3. Known(x)'
    BY <1>2 DEF ResolvePrepared, SetJournal, Then, Rest
  <2>4. QED
    BY <2>1, <2>2, <2>3, OneStep
<1>3. CASE Query(x)
  <2>1. TypeOK'
    BY <1>3 DEF Query, Reconciled
  <2>2. Only(x)
    BY <1>3 DEF Query, Reconciled
  <2>3. Known(x)'
    BY <1>3 DEF Query, Reconciled
  <2>4. QED
    BY <2>1, <2>2, <2>3, OneStep
<1>4. CASE Apply(x)
  <2>1. TypeOK'
    BY <1>4 DEF Apply, SetJournal, Evidence, Continue, RecoveryAction, Rest
  <2>2. Only(x)
    BY <1>4 DEF Apply, SetJournal, Evidence, Continue, RecoveryAction, Rest
  <2>3. Known(x)'
    BY <1>4 DEF Apply, SetJournal, Evidence, Continue, RecoveryAction, Rest
  <2>4. QED
    BY <2>1, <2>2, <2>3, OneStep
<1>5. CASE RecoveryStages(x)
  <2>1. TypeOK'
    BY <1>5 DEF RecoveryStages, Then
  <2>2. Only(x)
    BY <1>5 DEF RecoveryStages, Then
  <2>3. Known(x)'
    BY <1>5 DEF RecoveryStages, Then
  <2>4. QED
    BY <2>1, <2>2, <2>3, OneStep
<1>6. CASE RecoveryMarks(x)
  <2>1. TypeOK'
    BY <1>6 DEF RecoveryMarks, Continue, RecoveryAction, Rest
  <2>2. Only(x)
    BY <1>6 DEF RecoveryMarks, Continue, RecoveryAction, Rest
  <2>3. Known(x)'
    BY <1>6 DEF RecoveryMarks, Continue, RecoveryAction, Rest
  <2>4. QED
    BY <2>1, <2>2, <2>3, OneStep
<1>7. CASE RecoveryFinalizes(x)
  <2>1. TypeOK'
    BY <1>7 DEF RecoveryFinalizes, Then
  <2>2. Only(x)
    BY <1>7 DEF RecoveryFinalizes, Then
  <2>3. Known(x)'
    BY <1>7 DEF RecoveryFinalizes, Then
  <2>4. QED
    BY <2>1, <2>2, <2>3, OneStep
<1>8. CASE RecoveryCompletes(x)
  <2>1. TypeOK'
    BY <1>8 DEF RecoveryCompletes, CompleteLifecycle, SetLifecycle, Then,
       Rest
  <2>2. Only(x)
    BY <1>8 DEF RecoveryCompletes, CompleteLifecycle, SetLifecycle, Then,
       Rest
  <2>3. Known(x)'
    BY <1>8 DEF RecoveryCompletes, CompleteLifecycle, SetLifecycle, Then,
       Rest
  <2>4. QED
    BY <2>1, <2>2, <2>3, OneStep
<1>9. CASE RecoveryEnds(x)
  <2>1. TypeOK'
    BY <1>9 DEF RecoveryEnds, Rest
  <2>2. Only(x)
    BY <1>9 DEF RecoveryEnds, Rest
  <2>3. Known(x)'
    BY <1>9 DEF RecoveryEnds, Rest
  <2>4. QED
    BY <2>1, <2>2, <2>3, OneStep
<1>10. QED
  BY <1>1, <1>2, <1>3, <1>4, <1>5, <1>6, <1>7, <1>8, <1>9

-----------------------------------------------------------------------------
(* The environment *)

LEMMA EnvironmentStep ==
    ASSUME IInv, NEW x \in Execution, Environment(x)
    PROVE  IInv'
<1> USE NothingAssumption, FaultsAssumption DEF IInv, TypeOK, ClientTypeOK, Known, ClientInv, SenderInv, JournalInv, LifecycleInv, StagedInv, RecoveryInv,
         Unsent, Never, BeforeDispatch, Same, Only,
         NotDispatched, HasReceipt, Finalized, JournalState, FailedStatus, Status, clientVars, gatewayVars, recoveryVars
<1>1. CASE Cancel(x)
  <2>a. stopping' \in [Execution -> BOOLEAN]
    <3>1. stopping' = stopping \/ stopping' = [stopping EXCEPT ![x] = TRUE]
      BY <1>1 DEF Cancel, CancelLifecycle, SetLifecycle
    <3>2. QED
      BY <3>1, SetFlag
  <2>1. TypeOK'
    BY <1>1, <2>a DEF Cancel, CancelLifecycle, SetLifecycle
  <2>2. Only(x)
    BY <1>1 DEF Cancel, CancelLifecycle, SetLifecycle
  <2>3. Known(x)'
    BY <1>1 DEF Cancel, CancelLifecycle, SetLifecycle
  <2>4. QED
    BY <2>1, <2>2, <2>3, OneStep
<1>2. CASE Expire(x)
  <2>1. TypeOK'
    BY <1>2 DEF Expire, SetLifecycle
  <2>2. Only(x)
    BY <1>2 DEF Expire, SetLifecycle
  <2>3. Known(x)'
    BY <1>2 DEF Expire, SetLifecycle
  <2>4. QED
    BY <2>1, <2>2, <2>3, OneStep
<1>3. CASE PurgeRetired(x)
  <2>1. TypeOK'
    BY <1>3 DEF PurgeRetired, SetJournal
  <2>2. Only(x)
    BY <1>3 DEF PurgeRetired, SetJournal
  <2>3. Known(x)'
    BY <1>3 DEF PurgeRetired, SetJournal
  <2>4. QED
    BY <2>1, <2>2, <2>3, OneStep
<1>4. QED
  BY <1>1, <1>2, <1>3 DEF Environment

-----------------------------------------------------------------------------
(* The invariant *)

(* A failed attempt and a crash leave no recovery under way. *)
LEMMA RecoveryFailsStep ==
    ASSUME IInv, RecoveryFails
    PROVE  IInv'
<1>1. TypeOK'
  BY FaultsAssumption DEF IInv, TypeOK, ClientTypeOK, RecoveryFails, Fault, Rest, clientVars,
     gatewayVars
<1>2. ASSUME NEW y \in Execution
      PROVE  Same(y)
  BY NothingAssumption DEF RecoveryFails, Rest, clientVars, gatewayVars, Same
<1>3. QED
  BY <1>1, <1>2, SameKnown DEF IInv

(* A crash forgets where orchestrator and adapter were: what they had sent *)
(* or confirmed stays with the client, and the rest is not done any more.  *)
LEMMA CrashStep ==
    ASSUME IInv, Crash
    PROVE  IInv'
<1>1. TypeOK'
  BY FaultsAssumption DEF IInv, TypeOK, ClientTypeOK, Crash, Fault, Rest, clientVars
<1>2. ASSUME NEW y \in Execution
      PROVE  Known(y)'
  <2>1. /\ pc'[y] = IF pc[y] = "new" THEN "new" ELSE "ended"
        /\ adapter'[y] = "none"
        /\ ~confirmed'[y]
        /\ subject' # y
    BY NothingAssumption DEF Crash, Rest
  <2>2. Known(y)
    BY DEF IInv
  <2>3. UNCHANGED <<native, client, handler, effects, wire, lifecycle, journal, staged>>
    BY DEF Crash, clientVars
  <2>4. ClientInv(y)' /\ StagedInv(y)' /\ RecoveryInv(y)'
    BY <2>1, <2>2, <2>3 DEF Known, ClientInv, StagedInv, RecoveryInv
  <2>5. SenderInv(y)' /\ JournalInv(y)' /\ LifecycleInv(y)'
    BY <2>1, <2>2, <2>3
    DEF Known, SenderInv, JournalInv, LifecycleInv, Unsent, Never, BeforeDispatch, HasReceipt
  <2>6. QED
    BY <2>4, <2>5 DEF Known
<1>3. QED
  BY <1>1, <1>2 DEF IInv

LEMMA InitIInv == Init => IInv
BY NothingAssumption, FaultsAssumption
DEF Init, ClientInit, IInv, TypeOK, ClientTypeOK, Known, ClientInv, SenderInv, JournalInv,
    LifecycleInv, StagedInv, RecoveryInv, Unsent, Never, BeforeDispatch, NotDispatched,
    HasReceipt, Finalized, JournalState, FailedStatus, Status

LEMMA StutterStep ==
    ASSUME IInv, UNCHANGED vars
    PROVE  IInv'
<1>1. TypeOK'
  BY DEF IInv, TypeOK, ClientTypeOK, vars, clientVars, gatewayVars, recoveryVars
<1>2. \A y \in Execution : Same(y)
  BY DEF vars, clientVars, gatewayVars, recoveryVars, Same
<1>3. QED
  BY <1>1, <1>2, SameKnown DEF IInv

(* Next, by the actor that takes the step. *)
LEMMA ByActor ==
    ASSUME Next
    PROVE  \/ \E x \in Execution :
                 \/ Orchestrate(x)
                 \/ Adapter(x)
                 \/ Receiver(x) /\ UNCHANGED <<gatewayVars, recoveryVars, faults>>
                 \/ Environment(x)
                 \/ \/ Pick(x) \/ ResolvePrepared(x) \/ Query(x) \/ Apply(x)
                    \/ RecoveryStages(x) \/ RecoveryMarks(x) \/ RecoveryFinalizes(x)
                    \/ RecoveryCompletes(x) \/ RecoveryEnds(x)
           \/ RecoveryFails
           \/ Crash
BY DEF Next, Recovery

LEMMA NextIInv == IInv /\ [Next]_vars => IInv'
<1> SUFFICES ASSUME IInv, [Next]_vars
             PROVE  IInv'
  OBVIOUS
<1>1. ASSUME NEW x \in Execution, Orchestrate(x)
      PROVE  IInv'
  BY <1>1, BeforeStep, BehindStep DEF Orchestrate
<1>2. CASE UNCHANGED vars
  BY <1>2, StutterStep
<1>3. CASE Next
  BY <1>3, <1>1, ByActor, AdapterStep, ReceiverStep, EnvironmentStep, RecoveryStep,
     RecoveryFailsStep, CrashStep
<1>4. QED
  BY <1>2, <1>3

LEMMA SpecIInv == Spec => []IInv
BY InitIInv, NextIInv, PTL DEF Spec

(* Every variable stays of its type, whatever fails. *)
THEOREM TypeCorrect == Spec => []TypeOK
<1>1. IInv => TypeOK
  BY DEF IInv
<1>2. QED
  BY <1>1, SpecIInv, PTL

(* The journal and the lifecycle never reach opposite verdicts. *)
THEOREM StoresNeverDisagree == Spec => []StoresAgree
<1>1. IInv => StoresAgree
  <2> SUFFICES ASSUME IInv, NEW x \in Execution
               PROVE  /\ journal[x] \in HasReceipt =>
                            lifecycle[x] \in {"running", "completed", "gone"}
                      /\ journal[x] \in NotDispatched =>
                            lifecycle[x] \in {"running", "gone"} \cup FailedStatus
                      /\ journal[x] = "finalized-completed" =>
                            lifecycle[x] \in {"completed", "gone"}
                      /\ journal[x] = "finalized-failed" =>
                            lifecycle[x] \in {"gone"} \cup FailedStatus
    BY DEF StoresAgree
  <2>1. lifecycle[x] \in Status /\ journal[x] \in JournalState /\ Known(x)
    BY DEF IInv, TypeOK
  <2>2. QED
    BY <2>1 DEF Known, JournalInv, LifecycleInv, Never, Unsent, Status, JournalState,
       NotDispatched, HasReceipt, FailedStatus, Finalized
<1>2. QED
  BY <1>1, SpecIInv, PTL

(* Feedback is staged for effects that were had, and for each completion. *)
THEOREM FeedbackAlwaysEarned == Spec => []FeedbackIsEarned
<1>1. IInv => FeedbackIsEarned
  BY DEF IInv, Known, ClientInv, StagedInv, FeedbackIsEarned
<1>2. QED
  BY <1>1, SpecIInv, PTL

-----------------------------------------------------------------------------
(* The refinement *)

(* The abstract step of an execution: nothing, its effect, its verdict, or *)
(* the end of its retention.                                               *)
Maps(x) ==
    \/ effects'[x] = effects[x] /\ Verdict(lifecycle'[x]) = Verdict(lifecycle[x])
    \/ /\ effects[x] = 0 /\ Verdict(lifecycle[x]) # "failed"
       /\ effects'[x] = 1 /\ lifecycle'[x] = lifecycle[x]
    \/ /\ Verdict(lifecycle[x]) = "open" /\ effects'[x] = effects[x]
       /\ \/ Verdict(lifecycle'[x]) = "completed" /\ effects[x] = 1
          \/ Verdict(lifecycle'[x]) = "failed" /\ effects[x] = 0
    \/ effects'[x] = effects[x] /\ Verdict(lifecycle'[x]) = "open"

(* The step is x's, for the abstract specification. *)
Elsewhere(x) ==
    /\ effects' = [effects EXCEPT ![x] = effects'[x]]
    /\ lifecycle' = [lifecycle EXCEPT ![x] = lifecycle'[x]]

Quiet == UNCHANGED <<effects, lifecycle>>

LEMMA CommitMaps ==
    ASSUME IInv, NEW x \in Execution, Receiver(x),
           UNCHANGED <<gatewayVars, recoveryVars, faults>>
    PROVE  Quiet \/ (Maps(x) /\ Elsewhere(x))
<1>1. UNCHANGED lifecycle /\ effects \in [Execution -> Nat]
      /\ lifecycle \in [Execution -> Status]
  BY DEF gatewayVars, IInv, TypeOK, ClientTypeOK
<1>2. CASE CommitEffect(x)
  <2>1. handler[x] = "committing" /\ effects' = [effects EXCEPT ![x] = @ + 1]
    BY <1>2 DEF CommitEffect
  <2>2. effects[x] = 0 /\ lifecycle[x] \notin FailedStatus
    BY <2>1 DEF IInv, TypeOK, ClientTypeOK, Known, ClientInv, LifecycleInv, Never
  <2>3. Verdict(lifecycle[x]) # "failed"
    BY <2>2 DEF Verdict
  <2>4. Maps(x) /\ Elsewhere(x)
    BY <1>1, <2>1, <2>2, <2>3 DEF Maps, Elsewhere
  <2>5. QED
    BY <2>4
<1>3. CASE ~CommitEffect(x)
  BY <1>1, <1>3 DEF Receiver, Accept, Lose, PrepareAction, RecordFailedBeforeEffect,
     ClaimEffect, Abandon, RecordCompleted, Quiet
<1>4. QED
  BY <1>2, <1>3

(* A lifecycle is started, stopped or forgotten, and the effect stays. *)
LEMMA LifecycleMaps ==
    ASSUME IInv, NEW x \in Execution, NEW status \in Status,
           UNCHANGED effects, SetLifecycle(x, status),
           \/ status \in {"pending", "running"} /\ lifecycle[x] \in {"absent", "pending"}
           \/ status = "cancelled" /\ lifecycle[x] = "pending"
           \/ status = "completed" /\ lifecycle[x] = "running" /\ client[x] = "completed"
           \/ /\ status \in FailedStatus /\ lifecycle[x] = "running"
              /\ client[x] \in {"absent", "failed-before-effect"}
           \/ status = "gone"
    PROVE  Maps(x) /\ Elsewhere(x)
<1>1. lifecycle'[x] = status /\ effects' = effects /\ effects \in [Execution -> Nat]
      /\ Elsewhere(x)
  BY DEF SetLifecycle, IInv, TypeOK, ClientTypeOK, Elsewhere
<1>2. /\ client[x] = "completed" => effects[x] = 1
      /\ client[x] \in {"absent", "failed-before-effect"} => effects[x] = 0
      /\ lifecycle[x] = "pending" => client[x] = "absent"
  BY DEF IInv, Known, ClientInv, LifecycleInv, Unsent
<1>3. QED
  BY <1>1, <1>2 DEF Maps, Verdict, FailedStatus

LEMMA OrchestratorMaps ==
    ASSUME IInv, NEW x \in Execution, Orchestrate(x)
    PROVE  Quiet \/ (Maps(x) /\ Elsewhere(x))
<1> USE DEF Quiet, clientVars
<1>1. CASE Initialize(x)
  <2>1. lifecycle[x] = "absent"
    BY <1>1 DEF IInv, Known, LifecycleInv, Initialize
  <2>2. QED
    BY <1>1, <2>1, LifecycleMaps DEF Initialize, Status
<1>2. CASE Start(x)
  BY <1>2, LifecycleMaps DEF Start, NoTransition, Status
<1>3. CASE CancelUnstarted(x)
  BY <1>3, LifecycleMaps DEF CancelUnstarted, CancelLifecycle, NoTransition, Status, FailedStatus
<1>4. CASE PersistFailure(x)
  <2>1. client[x] = "absent"
    BY <1>4 DEF PersistFailure, IInv, Known, SenderInv, BeforeDispatch, Unsent
  <2>2. QED
    BY <1>4, <2>1, LifecycleMaps
    DEF PersistFailure, CompleteLifecycle, NoTransition, Status, FailedStatus
<1>5. CASE Complete(x)
  <2>1. client[x] = "completed"
    BY <1>5 DEF Complete, IInv, Known, SenderInv
  <2>2. QED
    BY <1>5, <2>1, LifecycleMaps DEF Complete, CompleteLifecycle, NoTransition, Status
<1>6. CASE Salvage(x)
  <2>1. client[x] = "completed"
    BY <1>6 DEF Salvage, IInv, Known, SenderInv
  <2>2. QED
    BY <1>6, <2>1, LifecycleMaps DEF Salvage, CompleteLifecycle, NoTransition, Status
<1>7. CASE Pause(x)
  BY <1>7 DEF Pause, NoTransition
<1>8. CASE \/ Fails(x) \/ PrepareDispatch(x) \/ ArmDispatch(x) \/ CommitReservation(x)
           \/ Dispatch(x) \/ Returned(x) \/ NotReturned(x) \/ Stage(x) \/ MarkStaged(x)
           \/ Finalize(x)
  BY <1>8 DEF Fails, PrepareDispatch, ArmDispatch, CommitReservation, Dispatch, Returned,
     NotReturned, Stage, MarkStaged, Finalize
<1>9. QED
  BY <1>1, <1>2, <1>3, <1>4, <1>5, <1>6, <1>7, <1>8 DEF Orchestrate

LEMMA RecoveryMaps ==
    ASSUME IInv, NEW x \in Execution,
           \/ Pick(x) \/ ResolvePrepared(x) \/ Query(x) \/ Apply(x)
           \/ RecoveryStages(x) \/ RecoveryMarks(x) \/ RecoveryFinalizes(x)
           \/ RecoveryCompletes(x) \/ RecoveryEnds(x)
    PROVE  Quiet \/ (Maps(x) /\ Elsewhere(x))
<1> USE DEF Quiet, clientVars, gatewayVars
<1>1. CASE RecoveryCompletes(x)
  <2>1. /\ action = "complete-completed" => client[x] = "completed"
        /\ action = "complete-failed" => client[x] \in {"absent", "failed-before-effect"}
    BY <1>1 DEF RecoveryCompletes, IInv, Known, RecoveryInv, JournalInv, Unsent, NotDispatched
  <2>2. QED
    BY <1>1, <2>1, LifecycleMaps DEF RecoveryCompletes, CompleteLifecycle, Status, FailedStatus
<1>2. CASE ~RecoveryCompletes(x)
  BY <1>2 DEF Pick, ResolvePrepared, Query, Apply, RecoveryStages, RecoveryMarks,
     RecoveryFinalizes, RecoveryEnds
<1>3. QED
  BY <1>1, <1>2

LEMMA EnvironmentMaps ==
    ASSUME IInv, NEW x \in Execution, Environment(x)
    PROVE  Quiet \/ (Maps(x) /\ Elsewhere(x))
<1> USE DEF Quiet, clientVars
<1>1. CASE Cancel(x)
  BY <1>1, LifecycleMaps DEF Cancel, CancelLifecycle, Status, FailedStatus
<1>2. CASE Expire(x)
  BY <1>2, LifecycleMaps DEF Expire, Status
<1>3. CASE PurgeRetired(x)
  BY <1>3 DEF PurgeRetired
<1>4. QED
  BY <1>1, <1>2, <1>3 DEF Environment

LEMMA StepMaps ==
    ASSUME IInv, [Next]_vars
    PROVE  Quiet \/ \E x \in Execution : Maps(x) /\ Elsewhere(x)
<1>1. CASE UNCHANGED vars
  BY <1>1 DEF vars, clientVars, gatewayVars, Quiet
<1>2. ASSUME NEW x \in Execution, Adapter(x)
      PROVE  Quiet
  BY <1>2 DEF Adapter, Authorize, Post, Receive, AdapterFails, ConfirmReceipt, clientVars, Quiet
<1>3. CASE RecoveryFails \/ Crash
  BY <1>3 DEF RecoveryFails, Crash, clientVars, gatewayVars, Quiet
<1>4. CASE Next
  BY <1>2, <1>3, <1>4, ByActor, CommitMaps, OrchestratorMaps, RecoveryMaps, EnvironmentMaps
<1>5. QED
  BY <1>1, <1>4

(* The verdicts of all executions *)
AllVerdicts == [x \in Execution |-> Verdict(lifecycle[x])]

LEMMA AbstractStep ==
    ASSUME IInv, [Next]_vars
    PROVE  [Verdicts!Next]_(Verdicts!vars)
<1>1. effects \in [Execution -> Nat] /\ lifecycle \in [Execution -> Status]
  BY DEF IInv, TypeOK, ClientTypeOK
<1>2. CASE Quiet
  BY <1>2 DEF Quiet, Verdicts!vars
<1>3. ASSUME NEW x \in Execution, Maps(x), Elsewhere(x)
      PROVE  [Verdicts!Next]_(Verdicts!vars)
  <2>1. PICK v : v = AllVerdicts
    OBVIOUS
  <2>2. PICK w : w = AllVerdicts'
    OBVIOUS
  <2>3. /\ v \in [Execution -> {"open", "completed", "failed"}]
        /\ w = [v EXCEPT ![x] = Verdict(lifecycle'[x])]
        /\ v[x] = Verdict(lifecycle[x])
    BY <1>1, <1>3, <2>1, <2>2 DEF AllVerdicts, Elsewhere, Verdict
  <2>4. PICK p, q : p = Verdict(lifecycle[x]) /\ q = Verdict(lifecycle'[x])
    OBVIOUS
  <2>5. /\ v[x] = p
        /\ w = [v EXCEPT ![x] = q]
        /\ q = p => w = v
    BY <2>3, <2>4
  <2>6. effects'[x] = effects[x] => effects' = effects
    BY <1>1, <1>3 DEF Elsewhere
  <2>7. \/ effects'[x] = effects[x] /\ q = p
        \/ effects[x] = 0 /\ p # "failed" /\ effects'[x] = 1 /\ q = p
        \/ /\ p = "open" /\ effects'[x] = effects[x]
           /\ \/ q = "completed" /\ effects[x] = 1
              \/ q = "failed" /\ effects[x] = 0
        \/ effects'[x] = effects[x] /\ q = "open"
    BY <1>3, <2>4 DEF Maps
  <2>8. \/ effects' = effects /\ w = v
        \/ effects[x] = 0 /\ v[x] # "failed" /\ effects' = [effects EXCEPT ![x] = 1] /\ w = v
        \/ /\ v[x] = "open" /\ effects' = effects
           /\ \/ effects[x] = 1 /\ w = [v EXCEPT ![x] = "completed"]
              \/ effects[x] = 0 /\ w = [v EXCEPT ![x] = "failed"]
        \/ effects' = effects /\ w = [v EXCEPT ![x] = "open"]
    <3>1. CASE effects'[x] = 1 /\ effects[x] = 0 /\ p # "failed" /\ q = p
      BY <1>3, <2>5, <3>1 DEF Elsewhere
    <3>2. CASE effects'[x] = effects[x]
      BY <2>5, <2>6, <2>7, <3>2
    <3>3. QED
      BY <2>7, <3>1, <3>2
  <2>9. \/ UNCHANGED <<effects, AllVerdicts>>
        \/ Verdicts!Perform(x)
        \/ Verdicts!Conclude(x, "completed") \/ Verdicts!Conclude(x, "failed")
        \/ Verdicts!Forget(x)
    BY <2>1, <2>2, <2>8
    DEF AllVerdicts, Verdicts!Perform, Verdicts!Conclude, Verdicts!Forget
  <2>10. QED
    BY <2>9 DEF AllVerdicts, Verdicts!Next, Verdicts!vars
<1>4. QED
  BY <1>2, <1>3, StepMaps

(* The effect is had at most once, and the lifecycle's verdict is true. *)
THEOREM VerdictsAreTrue == Spec => EffectsMatchVerdicts
<1>1. Init => Verdicts!Init
  BY DEF Init, ClientInit, Verdict, FailedStatus, Verdicts!Init
<1>2. QED
  BY <1>1, AbstractStep, SpecIInv, PTL DEF Spec, EffectsMatchVerdicts, Verdicts!Spec
=============================================================================
