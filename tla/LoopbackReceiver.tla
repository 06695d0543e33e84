-------------------------- MODULE LoopbackReceiver --------------------------
(***************************************************************************)
(* The client's side of a governed execution: the loopback receiver        *)
(* (capabilities/localClientLoopbackReceiver.ts) and its receipt journal,  *)
(* the client role of localClientExecutionReceiptReconciliation.ts.        *)
(*                                                                         *)
(* An action request is accepted, prepared, claimed, committed and         *)
(* recorded; each of these is a step of its own, and the client may die    *)
(* between any two.  A gateway sends the action of an execution once       *)
(* (armDispatch), so no second request finds a row in the journal.  Where  *)
(* the native resource keeps the receipt together with the effect, a       *)
(* reconciliation query finds what the handler did not live to record.     *)
(***************************************************************************)
EXTENDS Naturals

CONSTANT Execution      \* governed executions, one plan and one approval each

VARIABLES
    native,     \* the executions on clients that have recoverNativeReceipt
    client,     \* client[x]: the state of the client's journal row
    handler,    \* handler[x]: where the request handler stands
    effects,    \* effects[x]: how often commit() had the effect of x
    wire        \* wire[x]: the request or the response under way

clientVars == <<native, client, handler, effects, wire>>

ClientTypeOK ==
    /\ native \in SUBSET Execution
    /\ client \in [Execution -> {"absent", "accepted", "effect-started",
                                 "completed", "failed-before-effect"}]
    /\ handler \in [Execution -> {"none", "preparing", "refusing", "claiming",
                                  "committing", "recording"}]
    /\ effects \in [Execution -> Nat]
    /\ wire \in [Execution -> {"none", "action", "receipt"}]

ClientInit ==
    /\ native \in SUBSET Execution
    /\ client = [x \in Execution |-> "absent"]
    /\ handler = [x \in Execution |-> "none"]
    /\ effects = [x \in Execution |-> 0]
    /\ wire = [x \in Execution |-> "none"]

-----------------------------------------------------------------------------
Handle(x, where) == handler' = [handler EXCEPT ![x] = where]

Write(x, state) == client' = [client EXCEPT ![x] = state]

(* acceptDispatchIntent: the intent is new and has not expired. *)
Accept(x) ==
    /\ wire[x] = "action"
    /\ wire' = [wire EXCEPT ![x] = "none"]
    /\ client[x] = "absent"
    /\ Write(x, "accepted")
    /\ Handle(x, "preparing")
    /\ UNCHANGED <<native, effects>>

(* The request is lost, or refused: a late intent, a full journal, a       *)
(* client that was revoked.  So may a response be lost.                    *)
Lose(x) ==
    /\ wire[x] # "none"
    /\ wire' = [wire EXCEPT ![x] = "none"]
    /\ UNCHANGED <<native, client, handler, effects>>

(* prepare returns what will commit the effect, or fails. *)
PrepareAction(x) ==
    /\ handler[x] = "preparing"
    /\ \E where \in {"claiming", "refusing"} : Handle(x, where)
    /\ UNCHANGED <<native, client, effects, wire>>

RecordFailedBeforeEffect(x) ==
    /\ handler[x] = "refusing"
    /\ client[x] = "accepted"
    /\ Write(x, "failed-before-effect")
    /\ Handle(x, "none")
    /\ UNCHANGED <<native, effects, wire>>

ClaimEffect(x) ==
    /\ handler[x] = "claiming"
    /\ client[x] = "accepted"
    /\ Write(x, "effect-started")
    /\ Handle(x, "committing")
    /\ UNCHANGED <<native, effects, wire>>

(* The intent has expired since, the client is revoked or dies, the        *)
(* connection was closed, or the journal fails: the row stays as it is.    *)
Abandon(x) ==
    /\ handler[x] # "none"
    /\ Handle(x, "none")
    /\ UNCHANGED <<native, client, effects, wire>>

(* commit(): the effect, and then the handler may fail all the same. *)
CommitEffect(x) ==
    /\ handler[x] = "committing"
    /\ effects' = [effects EXCEPT ![x] = @ + 1]
    /\ \E where \in {"recording", "none"} : Handle(x, where)
    /\ UNCHANGED <<native, client, wire>>

(* recordCompleted or recordNativeCompleted, and the response. *)
RecordCompleted(x) ==
    /\ handler[x] = "recording"
    /\ client[x] \in {"effect-started", "completed"}
    /\ Write(x, "completed")
    /\ wire' = [wire EXCEPT ![x] = "receipt"]
    /\ Handle(x, "none")
    /\ UNCHANGED <<native, effects>>

(* reconcile: what the journal says, after the receipt of the native       *)
(* resource, if there is one, was imported.                                *)
Reconciled(x) ==
    IF x \in native /\ client[x] = "effect-started" /\ effects[x] > 0
    THEN "completed"
    ELSE client[x]

Receiver(x) ==
    \/ Accept(x)
    \/ Lose(x)
    \/ PrepareAction(x)
    \/ RecordFailedBeforeEffect(x)
    \/ ClaimEffect(x)
    \/ Abandon(x)
    \/ CommitEffect(x)
    \/ RecordCompleted(x)
=============================================================================
