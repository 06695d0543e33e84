------------------------- MODULE ExecutionReceipts -------------------------
(***************************************************************************)
(* Governed execution on a local client, on the gateway's side: the        *)
(* orchestrator (capabilities/localClientExecutionOrchestrator.ts), the    *)
(* loopback adapter, the gateway's receipt journal                         *)
(* (localClientExecutionReceiptReconciliation.ts), the central lifecycle   *)
(* (workforce/postgresExecutionLifecycle.ts), and the recovery service     *)
(* (localClientExecutionReceiptRecoveryService.ts) that finishes what an   *)
(* orchestrator left, without ever dispatching again.                      *)
(*                                                                         *)
(* Each await is a step.  The adapter may outlive the orchestrator that    *)
(* gave it up; the recovery may overtake an orchestrator that is only      *)
(* slow, since its grace period is a setting.  Claim, reservation and      *)
(* approval may fail at every use, and are not modelled further.           *)
(***************************************************************************)
EXTENDS LoopbackReceiver

CONSTANTS
    Nothing,        \* no execution
    MaxFaults       \* lost answers of stores, unreachable clients, crashes

ASSUME NothingAssumption == Nothing \notin Execution

ASSUME FaultsAssumption == MaxFaults \in Nat

VARIABLES
    lifecycle,  \* lifecycle[x]: the status of the central lifecycle
    stopping,   \* stopping[x]: cancelRequested or pauseRequested
    journal,    \* journal[x]: the state of the gateway's journal row
    pc,         \* pc[x]: where the orchestrator stands
    adapter,    \* adapter[x]: where the adapter stands
    confirmed,  \* confirmed[x]: durableReceiptConfirmation.value is set
    staged,     \* staged[x]: the feedback event of x is in the outbox
    subject,    \* the execution the recovery works on
    action,     \* what it does next
    heard,      \* what the client answered to its query
    faults      \* how many faults may still occur

gatewayVars == <<lifecycle, stopping, journal, pc, adapter, confirmed, staged>>

recoveryVars == <<subject, action, heard>>

vars == <<clientVars, gatewayVars, recoveryVars, faults>>

-----------------------------------------------------------------------------
(* The verdicts of the two stores *)

(* States that finalize-failed-lifecycle starts from. *)
NotDispatched == {"not-dispatched-confirmed", "armed-not-dispatched-confirmed",
                  "failed-before-effect-confirmed"}

HasReceipt == {"receipt-confirmed", "feedback-staged", "finalized-completed"}

Finalized == {"finalized-completed", "finalized-failed"}

JournalState == {"absent", "prepared", "armed"} \cup NotDispatched \cup HasReceipt \cup Finalized

FailedStatus == {"failed", "cancelled"}

Status == {"absent", "pending", "running", "completed", "gone"} \cup FailedStatus

TypeOK ==
    /\ ClientTypeOK
    /\ lifecycle \in [Execution -> Status]
    /\ stopping \in [Execution -> BOOLEAN]
    /\ journal \in [Execution -> JournalState]
    /\ pc \in [Execution -> {"new", "initialized", "cancelling", "started", "prepared",
                             "armed", "failing", "committed", "dispatched", "confirmed",
                             "marking", "completing", "finalizing", "pausing",
                             "salvaging", "ended"}]
    /\ adapter \in [Execution -> {"none", "calling", "authorized", "posted",
                                  "answered", "returned", "failed"}]
    /\ confirmed \in [Execution -> BOOLEAN]
    /\ staged \in [Execution -> BOOLEAN]
    /\ subject \in Execution \cup {Nothing}
    /\ action \in {"idle", "resolve-not-dispatched", "query-client-only", "apply",
                   "stage-feedback", "mark-staged", "finalize-completed",
                   "complete-completed", "mark-completed", "finalize-failed",
                   "complete-failed", "mark-failed"}
    /\ heard \in {"none", "absent", "accepted", "effect-started", "completed",
                  "failed-before-effect"}
    /\ faults \in 0..MaxFaults

Init ==
    /\ ClientInit
    /\ lifecycle = [x \in Execution |-> "absent"]
    /\ stopping = [x \in Execution |-> FALSE]
    /\ journal = [x \in Execution |-> "absent"]
    /\ pc = [x \in Execution |-> "new"]
    /\ adapter = [x \in Execution |-> "none"]
    /\ confirmed = [x \in Execution |-> FALSE]
    /\ staged = [x \in Execution |-> FALSE]
    /\ subject = Nothing
    /\ action = "idle"
    /\ heard = "none"
    /\ faults = MaxFaults

-----------------------------------------------------------------------------
(* Helpers *)

Goto(x, where) == pc' = [pc EXCEPT ![x] = where]

Adapt(x, where) == adapter' = [adapter EXCEPT ![x] = where]

SetJournal(x, state) == journal' = [journal EXCEPT ![x] = state]

SetLifecycle(x, status) == lifecycle' = [lifecycle EXCEPT ![x] = status]

Fault == faults > 0 /\ faults' = faults - 1

(* complete: only a running execution ends; its flags do not matter. *)
CompleteLifecycle(x, status) ==
    /\ lifecycle[x] = "running"
    /\ SetLifecycle(x, status)

(* No transition of the lifecycle: it is refused, or its store fails. *)
NoTransition(refused) ==
    /\ \/ refused /\ UNCHANGED faults
       \/ Fault
    /\ UNCHANGED <<lifecycle, stopping>>

(* armed, and no adapter was called: resolveArmedAsNotDispatched, which    *)
(* may fail as well.                                                       *)
ResolveArmed(x) ==
    \/ /\ journal[x] = "armed"
       /\ SetJournal(x, "armed-not-dispatched-confirmed")
       /\ UNCHANGED faults
    \/ Fault /\ UNCHANGED journal

-----------------------------------------------------------------------------
(* The orchestrator before the effect is committed *)

Initialize(x) ==
    /\ pc[x] = "new"
    /\ \/ SetLifecycle(x, "pending") /\ Goto(x, "initialized") /\ UNCHANGED faults
       \/ Fault /\ Goto(x, "ended") /\ UNCHANGED lifecycle
       \/ Fault /\ Goto(x, "ended") /\ SetLifecycle(x, "pending")
    /\ UNCHANGED <<clientVars, stopping, journal, adapter, confirmed, staged, recoveryVars>>

Start(x) ==
    /\ pc[x] = "initialized"
    /\ \/ /\ lifecycle[x] = "pending"
          /\ SetLifecycle(x, "running")
          /\ Goto(x, "started")
          /\ UNCHANGED <<stopping, faults>>
       \/ NoTransition(lifecycle[x] # "pending") /\ Goto(x, "cancelling")
       \/ /\ lifecycle[x] = "pending"
          /\ SetLifecycle(x, "running")
          /\ Goto(x, "cancelling")
          /\ UNCHANGED stopping
          /\ Fault
    /\ UNCHANGED <<clientVars, journal, adapter, confirmed, staged, recoveryVars>>

(* cancel: what is running is asked to stop, what is pending is cancelled. *)
CancelLifecycle(x) ==
    \/ /\ lifecycle[x] = "running"
       /\ stopping' = [stopping EXCEPT ![x] = TRUE]
       /\ UNCHANGED lifecycle
    \/ /\ lifecycle[x] = "pending"
       /\ SetLifecycle(x, "cancelled")
       /\ UNCHANGED stopping

(* persistPreCommitFailure of an execution that did not start. *)
CancelUnstarted(x) ==
    /\ pc[x] = "cancelling"
    /\ \/ CancelLifecycle(x) /\ UNCHANGED faults
       \/ NoTransition(lifecycle[x] \notin {"running", "pending"})
    /\ Goto(x, "ended")
    /\ UNCHANGED <<clientVars, journal, adapter, confirmed, staged, recoveryVars>>

(* An abort, no claim, no reservation, a journal that refuses: all these   *)
(* are errors before the commit.                                           *)
Fails(x) ==
    /\ pc[x] \in {"started", "prepared"}
    /\ Goto(x, "failing")
    /\ UNCHANGED <<clientVars, lifecycle, stopping, journal, adapter, confirmed, staged,
                   recoveryVars, faults>>

PrepareDispatch(x) ==
    /\ pc[x] = "started"
    /\ journal[x] = "absent"
    /\ SetJournal(x, "prepared")
    /\ \/ Goto(x, "prepared") /\ UNCHANGED faults
       \/ Goto(x, "failing") /\ Fault
    /\ UNCHANGED <<clientVars, lifecycle, stopping, adapter, confirmed, staged, recoveryVars>>

(* armDispatch, once the effect is reserved.  A row that the recovery has  *)
(* resolved in the meantime is refused.                                    *)
ArmDispatch(x) ==
    /\ pc[x] = "prepared"
    /\ \/ /\ journal[x] = "prepared"
          /\ SetJournal(x, "armed")
          /\ \/ Goto(x, "armed") /\ UNCHANGED faults
             \/ Goto(x, "failing") /\ Fault
       \/ /\ journal[x] # "prepared"
          /\ Goto(x, "failing")
          /\ UNCHANGED <<journal, faults>>
    /\ UNCHANGED <<clientVars, lifecycle, stopping, adapter, confirmed, staged, recoveryVars>>

(* reservation.commit() *)
CommitReservation(x) ==
    /\ pc[x] = "armed"
    /\ \/ Goto(x, "committed") /\ UNCHANGED <<journal, faults>>
       \/ Goto(x, "failing") /\ ResolveArmed(x)
    /\ UNCHANGED <<clientVars, lifecycle, stopping, adapter, confirmed, staged, recoveryVars>>

(* persistPreCommitFailure; its own failure is swallowed. *)
PersistFailure(x) ==
    /\ pc[x] = "failing"
    /\ \E status \in FailedStatus :
          \/ CompleteLifecycle(x, status) /\ UNCHANGED <<stopping, faults>>
          \/ NoTransition(lifecycle[x] # "running")
    /\ Goto(x, "ended")
    /\ UNCHANGED <<clientVars, journal, adapter, confirmed, staged, recoveryVars>>

-----------------------------------------------------------------------------
(* The dispatch *)

(* The last look at the signal, and the call of the adapter. *)
Dispatch(x) ==
    /\ pc[x] = "committed"
    /\ \/ /\ Goto(x, "dispatched")
          /\ Adapt(x, "calling")
          /\ UNCHANGED <<journal, faults>>
       \/ /\ Goto(x, "pausing")
          /\ ResolveArmed(x)
          /\ UNCHANGED adapter
    /\ UNCHANGED <<clientVars, lifecycle, stopping, confirmed, staged, recoveryVars>>

(* assertAuthority("dispatch"), after the challenge was answered: the      *)
(* lifecycle runs and nobody asked it to stop.                             *)
Authorize(x) ==
    /\ adapter[x] = "calling"
    /\ lifecycle[x] = "running"
    /\ ~stopping[x]
    /\ Adapt(x, "authorized")
    /\ UNCHANGED <<clientVars, lifecycle, stopping, journal, pc, confirmed, staged,
                   recoveryVars, faults>>

(* The signal is not aborted, so the orchestrator still waits. *)
Post(x) ==
    /\ adapter[x] = "authorized"
    /\ pc[x] = "dispatched"
    /\ wire' = [wire EXCEPT ![x] = "action"]
    /\ Adapt(x, "posted")
    /\ UNCHANGED <<native, client, handler, effects, lifecycle, stopping, journal, pc, confirmed,
                   staged, recoveryVars, faults>>

Receive(x) ==
    /\ adapter[x] = "posted"
    /\ pc[x] = "dispatched"
    /\ wire[x] = "receipt"
    /\ wire' = [wire EXCEPT ![x] = "none"]
    /\ Adapt(x, "answered")
    /\ UNCHANGED <<native, client, handler, effects, lifecycle, stopping, journal, pc, confirmed,
                   staged, recoveryVars, faults>>

(* A refusal, an error, a time-out or an abort ends the adapter. *)
AdapterFails(x) ==
    /\ adapter[x] \in {"calling", "authorized", "posted"}
    /\ Adapt(x, "failed")
    /\ UNCHANGED <<clientVars, lifecycle, stopping, journal, pc, confirmed, staged,
                   recoveryVars, faults>>

(* confirmReceipt, from armed or again; the answer may be lost. *)
ConfirmReceipt(x) ==
    /\ adapter[x] = "answered"
    /\ \/ /\ journal[x] \in {"armed"} \cup HasReceipt
          /\ journal' = [journal EXCEPT ![x] = IF @ = "armed" THEN "receipt-confirmed" ELSE @]
          /\ \/ /\ confirmed' = [confirmed EXCEPT ![x] = TRUE]
                /\ \E where \in {"returned", "failed"} : Adapt(x, where)
                /\ UNCHANGED faults
             \/ Adapt(x, "failed") /\ Fault /\ UNCHANGED confirmed
       \/ /\ journal[x] \notin {"armed"} \cup HasReceipt
          /\ Adapt(x, "failed")
          /\ UNCHANGED <<journal, confirmed, faults>>
    /\ UNCHANGED <<clientVars, lifecycle, stopping, pc, staged, recoveryVars>>

Returned(x) ==
    /\ pc[x] = "dispatched"
    /\ adapter[x] = "returned"
    /\ Goto(x, "confirmed")
    /\ UNCHANGED <<clientVars, lifecycle, stopping, journal, adapter, confirmed, staged,
                   recoveryVars, faults>>

(* Mutant of Outcome: without a receipt the execution is called failed. *)
BugOutcome(x) == IF confirmed[x] THEN "salvaging" ELSE "failing"

(* What the orchestrator does after an error behind the commit. *)
Outcome(x) == IF confirmed[x] THEN "salvaging" ELSE "pausing"

(* The adapter failed, or did not settle soon enough after an abort. *)
NotReturned(x) ==
    /\ pc[x] = "dispatched"
    /\ adapter[x] # "returned"
    /\ Goto(x, Outcome(x))
    /\ UNCHANGED <<clientVars, lifecycle, stopping, journal, adapter, confirmed, staged,
                   recoveryVars, faults>>

-----------------------------------------------------------------------------
(* The orchestrator behind the receipt *)

(* Mutant of Stage: what was not staged is marked as staged. *)
BugStage(x) ==
    /\ pc[x] = "confirmed"
    /\ \/ staged' = [staged EXCEPT ![x] = TRUE] /\ UNCHANGED faults
       \/ Fault /\ UNCHANGED staged
    /\ Goto(x, "marking")
    /\ UNCHANGED <<clientVars, lifecycle, stopping, journal, adapter, confirmed, recoveryVars>>

(* stageVerifiedExecutionFeedback: its failure is an answer like another. *)
Stage(x) ==
    /\ pc[x] = "confirmed"
    /\ \/ /\ staged' = [staged EXCEPT ![x] = TRUE]
          /\ Goto(x, "marking")
          /\ UNCHANGED faults
       \/ Fault /\ Goto(x, "completing") /\ UNCHANGED staged
    /\ UNCHANGED <<clientVars, lifecycle, stopping, journal, adapter, confirmed, recoveryVars>>

(* markFeedbackStaged, safely: nobody hears of a failure. *)
MarkStaged(x) ==
    /\ pc[x] = "marking"
    /\ \/ /\ journal' = [journal EXCEPT ![x] = IF @ = "receipt-confirmed"
                                               THEN "feedback-staged" ELSE @]
          /\ UNCHANGED faults
       \/ Fault /\ UNCHANGED journal
    /\ Goto(x, "completing")
    /\ UNCHANGED <<clientVars, lifecycle, stopping, adapter, confirmed, staged, recoveryVars>>

Complete(x) ==
    /\ pc[x] = "completing"
    /\ \/ /\ CompleteLifecycle(x, "completed")
          /\ Goto(x, "finalizing")
          /\ UNCHANGED <<stopping, faults>>
       \/ NoTransition(lifecycle[x] # "running") /\ Goto(x, "salvaging")
       \/ CompleteLifecycle(x, "completed") /\ Goto(x, "salvaging") /\ UNCHANGED stopping /\ Fault
    /\ UNCHANGED <<clientVars, journal, adapter, confirmed, staged, recoveryVars>>

(* markLifecycleFinalized, safely. *)
Finalize(x) ==
    /\ pc[x] = "finalizing"
    /\ \/ /\ journal' = [journal EXCEPT ![x] = IF @ = "feedback-staged"
                                               THEN "finalized-completed" ELSE @]
          /\ UNCHANGED faults
       \/ Fault /\ UNCHANGED journal
    /\ Goto(x, "ended")
    /\ UNCHANGED <<clientVars, lifecycle, stopping, adapter, confirmed, staged, recoveryVars>>

(* persistConfirmedReceiptOutcome *)
Salvage(x) ==
    /\ pc[x] = "salvaging"
    /\ \/ CompleteLifecycle(x, "completed") /\ UNCHANGED <<stopping, faults>>
       \/ NoTransition(lifecycle[x] # "running")
    /\ Goto(x, "ended")
    /\ UNCHANGED <<clientVars, journal, adapter, confirmed, staged, recoveryVars>>

(* persistUnknownOutcome *)
Pause(x) ==
    /\ pc[x] = "pausing"
    /\ \/ /\ lifecycle[x] = "running"
          /\ stopping' = [stopping EXCEPT ![x] = TRUE]
          /\ UNCHANGED <<lifecycle, faults>>
       \/ NoTransition(lifecycle[x] # "running")
    /\ Goto(x, "ended")
    /\ UNCHANGED <<clientVars, journal, adapter, confirmed, staged, recoveryVars>>

-----------------------------------------------------------------------------
(* The recovery service *)

(* Mutant of RecoveryAction: a receipt without feedback is left alone. *)
BugRecoveryAction(state) ==
    CASE state = "prepared" -> "resolve-not-dispatched"
      [] state = "armed" -> "query-client-only"
      [] state = "feedback-staged" -> "finalize-completed"
      [] state \in NotDispatched -> "finalize-failed"
      [] OTHER -> "idle"

(* recoveryAction *)
RecoveryAction(state) ==
    CASE state = "prepared" -> "resolve-not-dispatched"
      [] state = "armed" -> "query-client-only"
      [] state = "receipt-confirmed" -> "stage-feedback"
      [] state = "feedback-staged" -> "finalize-completed"
      [] state \in NotDispatched -> "finalize-failed"
      [] OTHER -> "idle"

Rest ==
    /\ subject' = Nothing
    /\ action' = "idle"
    /\ heard' = "none"

(* The work item is read again after a transition of its row. *)
Continue(state) ==
    IF RecoveryAction(state) = "idle"
    THEN Rest
    ELSE action' = RecoveryAction(state) /\ heard' = "none" /\ UNCHANGED subject

Then(next) == action' = next /\ UNCHANGED <<subject, heard>>

(* A row of the list whose grace period is over. *)
Pick(x) ==
    /\ subject = Nothing
    /\ RecoveryAction(journal[x]) # "idle"
    /\ subject' = x
    /\ action' = RecoveryAction(journal[x])
    /\ heard' = "none"
    /\ UNCHANGED <<clientVars, gatewayVars, faults>>

(* A store or the client fails, or is closed: the item is left for later. *)
RecoveryFails ==
    /\ subject # Nothing
    /\ Fault
    /\ Rest
    /\ UNCHANGED <<clientVars, gatewayVars>>

ResolvePrepared(x) ==
    /\ subject = x
    /\ action = "resolve-not-dispatched"
    /\ \/ /\ journal[x] = "prepared"
          /\ SetJournal(x, "not-dispatched-confirmed")
          /\ Then("finalize-failed")
       \/ journal[x] # "prepared" /\ Rest /\ UNCHANGED journal
    /\ UNCHANGED <<clientVars, lifecycle, stopping, pc, adapter, confirmed, staged, faults>>

(* reconcileReceipt: the client imports a native receipt, and answers. *)
Query(x) ==
    /\ subject = x
    /\ action = "query-client-only"
    /\ client' = [client EXCEPT ![x] = Reconciled(x)]
    /\ heard' = Reconciled(x)
    /\ action' = "apply"
    /\ UNCHANGED <<native, handler, effects, wire, gatewayVars, subject, faults>>

(* Mutant of Evidence: a client that knows nothing has done nothing. *)
BugEvidence(state) ==
    CASE heard = "completed" /\ state = "armed" -> "receipt-confirmed"
      [] heard \in {"absent", "failed-before-effect"} /\ state = "armed" ->
            "failed-before-effect-confirmed"
      [] OTHER -> state

(* Mutant of Evidence: the row takes over the state of the client's row. *)
BugEvidenceState(state) ==
    CASE heard = "completed" /\ state = "armed" -> "receipt-confirmed"
      [] heard = "failed-before-effect" /\ state = "armed" -> heard
      [] OTHER -> state

(* applyReconciliation: what the answer makes of the row. *)
Evidence(state) ==
    CASE heard = "completed" /\ state = "armed" -> "receipt-confirmed"
      [] heard = "failed-before-effect" /\ state = "armed" -> "failed-before-effect-confirmed"
      [] OTHER -> state

(* An answer that proves nothing, or comes too late, ends the attempt. *)
Apply(x) ==
    /\ subject = x
    /\ action = "apply"
    /\ SetJournal(x, Evidence(journal[x]))
    /\ \/ /\ journal'[x] # "armed"
          /\ heard \in {"completed", "failed-before-effect"}
          /\ Continue(journal'[x])
       \/ /\ \/ journal'[x] = "armed"
             \/ heard \notin {"completed", "failed-before-effect"}
          /\ Rest
    /\ UNCHANGED <<clientVars, lifecycle, stopping, pc, adapter, confirmed, staged, faults>>

RecoveryStages(x) ==
    /\ subject = x
    /\ action = "stage-feedback"
    /\ staged' = [staged EXCEPT ![x] = TRUE]
    /\ Then("mark-staged")
    /\ UNCHANGED <<clientVars, lifecycle, stopping, journal, pc, adapter, confirmed, faults>>

RecoveryMarks(x) ==
    /\ subject = x
    /\ action = "mark-staged"
    /\ journal' = [journal EXCEPT ![x] = IF @ = "receipt-confirmed" THEN "feedback-staged" ELSE @]
    /\ Continue(journal'[x])
    /\ UNCHANGED <<clientVars, lifecycle, stopping, pc, adapter, confirmed, staged, faults>>

(* ensureLifecycleFinalized: getStatus, then complete if need be. *)
RecoveryFinalizes(x) ==
    /\ subject = x
    /\ \/ action = "finalize-completed" /\ lifecycle[x] = "completed" /\ Then("mark-completed")
       \/ action = "finalize-completed" /\ lifecycle[x] # "completed" /\ Then("complete-completed")
       \/ action = "finalize-failed" /\ lifecycle[x] \in FailedStatus /\ Then("mark-failed")
       \/ action = "finalize-failed" /\ lifecycle[x] \notin FailedStatus /\ Then("complete-failed")
    /\ UNCHANGED <<clientVars, gatewayVars, faults>>

RecoveryCompletes(x) ==
    /\ subject = x
    /\ \/ /\ action = "complete-completed"
          /\ CompleteLifecycle(x, "completed")
          /\ Then("mark-completed")
       \/ /\ action = "complete-failed"
          /\ CompleteLifecycle(x, "failed")
          /\ Then("mark-failed")
       \/ /\ action \in {"complete-completed", "complete-failed"}
          /\ lifecycle[x] # "running"
          /\ Rest
          /\ UNCHANGED lifecycle
    /\ UNCHANGED <<clientVars, stopping, journal, pc, adapter, confirmed, staged, faults>>

(* markLifecycleFinalized *)
RecoveryEnds(x) ==
    /\ subject = x
    /\ \/ /\ action = "mark-completed"
          /\ journal' = [journal EXCEPT ![x] = IF @ = "feedback-staged"
                                               THEN "finalized-completed" ELSE @]
       \/ /\ action = "mark-failed"
          /\ journal' = [journal EXCEPT ![x] = IF @ \in NotDispatched
                                               THEN "finalized-failed" ELSE @]
    /\ Rest
    /\ UNCHANGED <<clientVars, lifecycle, stopping, pc, adapter, confirmed, staged, faults>>

Recovery ==
    \E x \in Execution :
        \/ ResolvePrepared(x)
        \/ Query(x)
        \/ Apply(x)
        \/ RecoveryStages(x)
        \/ RecoveryMarks(x)
        \/ RecoveryFinalizes(x)
        \/ RecoveryCompletes(x)
        \/ RecoveryEnds(x)

-----------------------------------------------------------------------------
(* The environment *)

(* cancel by the owner of the execution, on any gateway. *)
Cancel(x) ==
    /\ CancelLifecycle(x)
    /\ UNCHANGED <<clientVars, journal, pc, adapter, confirmed, staged, recoveryVars, faults>>

(* The retention of a lifecycle, or of a finalized journal row, is over. *)
Expire(x) ==
    /\ lifecycle[x] \notin {"absent", "gone"}
    /\ SetLifecycle(x, "gone")
    /\ UNCHANGED <<clientVars, stopping, journal, pc, adapter, confirmed, staged,
                   recoveryVars, faults>>

PurgeRetired(x) ==
    /\ journal[x] \in Finalized
    /\ SetJournal(x, "absent")
    /\ UNCHANGED <<clientVars, lifecycle, stopping, pc, adapter, confirmed, staged,
                   recoveryVars, faults>>

Crash ==
    /\ Fault
    /\ pc' = [x \in Execution |-> IF pc[x] = "new" THEN "new" ELSE "ended"]
    /\ adapter' = [x \in Execution |-> "none"]
    /\ confirmed' = [x \in Execution |-> FALSE]
    /\ Rest
    /\ UNCHANGED <<clientVars, lifecycle, stopping, journal, staged>>

-----------------------------------------------------------------------------
Orchestrate(x) ==
    \/ Initialize(x)
    \/ Start(x)
    \/ CancelUnstarted(x)
    \/ Fails(x)
    \/ PrepareDispatch(x)
    \/ ArmDispatch(x)
    \/ CommitReservation(x)
    \/ PersistFailure(x)
    \/ Dispatch(x)
    \/ Returned(x)
    \/ NotReturned(x)
    \/ Stage(x)
    \/ MarkStaged(x)
    \/ Complete(x)
    \/ Finalize(x)
    \/ Salvage(x)
    \/ Pause(x)

Adapter(x) ==
    \/ Authorize(x)
    \/ Post(x)
    \/ Receive(x)
    \/ AdapterFails(x)
    \/ ConfirmReceipt(x)

Environment(x) == Cancel(x) \/ Expire(x) \/ PurgeRetired(x)

Next ==
    \/ \E x \in Execution :
          \/ Orchestrate(x)
          \/ Adapter(x)
          \/ Receiver(x) /\ UNCHANGED <<gatewayVars, recoveryVars, faults>>
          \/ Pick(x)
          \/ Environment(x)
    \/ Recovery
    \/ RecoveryFails
    \/ Crash

Spec == Init /\ [][Next]_vars

(* The recovery runs on its timer, and comes to every row: its batch is    *)
(* larger than the number of rows that fail for good.                      *)
FairSpec ==
    /\ Spec
    /\ WF_vars(Recovery)
    /\ \A x \in Execution : SF_vars(Pick(x))

-----------------------------------------------------------------------------
(* The effect is had at most once; what the lifecycle calls completed has  *)
(* had it, and what it calls failed or cancelled never will, though a slow *)
(* orchestrator, a request still under way, an adapter that was given up,  *)
(* and the recovery all go on (execute, #recoverBinding).                  *)
Verdict(status) ==
    CASE status = "completed" -> "completed"
      [] status \in FailedStatus -> "failed"
      [] OTHER -> "open"

Verdicts == INSTANCE EffectVerdicts WITH
    verdict <- [x \in Execution |-> Verdict(lifecycle[x])]

EffectsMatchVerdicts == Verdicts!Spec

(* The journal and the lifecycle, which are different stores, never reach  *)
(* opposite verdicts; if they did, the recovery could never finalize the   *)
(* row.  A finalized row has its verdict in the lifecycle as well.         *)
StoresAgree ==
    \A x \in Execution :
        /\ journal[x] \in HasReceipt => lifecycle[x] \in {"running", "completed", "gone"}
        /\ journal[x] \in NotDispatched => lifecycle[x] \in {"running", "gone"} \cup FailedStatus
        /\ journal[x] = "finalized-completed" => lifecycle[x] \in {"completed", "gone"}
        /\ journal[x] = "finalized-failed" => lifecycle[x] \in {"gone"} \cup FailedStatus

(* A feedback event is staged only for an effect that the client recorded  *)
(* as completed, and every finalized completion has one, so no usage is    *)
(* reported that was not had, nor lost (stageVerifiedExecutionFeedback).   *)
FeedbackIsEarned ==
    \A x \in Execution :
        /\ staged[x] => client[x] = "completed" /\ effects[x] = 1
        /\ journal[x] = "finalized-completed" => staged[x]

(* What the gateway can know, it comes to act upon: a row that was never   *)
(* dispatched, or for which the client holds a terminal row or a native    *)
(* receipt, is finalized, unless its lifecycle has expired, or its         *)
(* orchestrator was only slow and dispatches after all, which leaves it    *)
(* for the client to decide.                                               *)
Decidable(x) ==
    \/ journal[x] \in {"prepared", "receipt-confirmed", "feedback-staged"} \cup NotDispatched
    \/ journal[x] = "armed" /\ Reconciled(x) \in {"completed", "failed-before-effect"}

EveryRowFinalized ==
    \A x \in Execution :
        Decidable(x) ~> (\/ journal[x] \in Finalized
                         \/ lifecycle[x] = "gone"
                         \/ journal[x] = "armed" /\ ~Decidable(x))
=============================================================================
