-------------------------- MODULE FeedbackDelivery --------------------------
(***************************************************************************)
(* The way of a feedback event from a verified receipt into the statistics *)
(* of a local client: the outbox (capabilities/                            *)
(* localClientSqliteExecutionFeedbackOutbox.ts), its dispatcher            *)
(* (localClientExecutionFeedbackDispatcher.ts), and the feedback requests  *)
(* of ClientFeedback, which callers also send by HTTP.                     *)
(*                                                                         *)
(* The event lives in three stores, each with a lease of its own: a row of *)
(* the outbox, a row of the deduplication store, and a marker in the       *)
(* registry.  There is one process; it may die and start again.            *)
(***************************************************************************)
EXTENDS ClientFeedback

CONSTANTS
    Posted,         \* events that callers report by HTTP
    BatchSize,      \* rows the dispatcher claims at a time
    MaxFaults,      \* failures, time-outs and deaths of the process
    MaxChanges      \* requests that are not feedback

ASSUME PostedAssumption == Posted \subseteq Event

ASSUME BatchAssumption == BatchSize \in Nat \ {0}

ASSUME BoundsAssumption == MaxFaults \in Nat /\ MaxChanges \in Nat

VARIABLES
    out,        \* the rows of the outbox
    ahead,      \* ahead[e]: the undelivered events that were staged before e
    batch,      \* the rows the dispatcher has claimed
    unsent,     \* those of them that it has not sent yet
    dispatch    \* where the dispatcher stands

outboxVars == <<out, ahead, batch, unsent, dispatch>>

vars == <<registryVars, feedbackVars, outboxVars>>

TypeOK ==
    /\ RegistryTypeOK
    /\ FeedbackTypeOK
    /\ out \in [Event -> {"absent", "pending", "leased", "lapsed", "delivered"}]
    /\ ahead \in [Event -> SUBSET Event]
    /\ batch \subseteq Event
    /\ unsent \subseteq batch
    /\ dispatch \in {"idle", "send", "await", "release"}

Init ==
    /\ RegistryInit(MaxFaults, MaxChanges)
    /\ FeedbackInit
    /\ out = [e \in Event |-> "absent"]
    /\ ahead = [e \in Event |-> {}]
    /\ batch = {}
    /\ unsent = {}
    /\ dispatch = "idle"

-----------------------------------------------------------------------------
(* The rows es of the outbox become s. *)
Marked(es, s) == [e \in Event |-> IF e \in es THEN s ELSE out[e]]

Claimable(e) == out[e] \in {"pending", "lapsed"}

Undelivered == {e \in Event : out[e] \notin {"absent", "delivered"}}

(* enqueue: a verified receipt stages its event; a second time is a replay. *)
Stage(e) ==
    /\ out[e] = "absent"
    /\ out' = Marked({e}, "pending")
    /\ ahead' = [ahead EXCEPT ![e] = Undelivered]
    /\ UNCHANGED <<registryVars, feedbackVars, batch, unsent, dispatch>>

(* claimBatch takes the oldest rows without a lease that lasts. *)
ClaimBatch ==
    /\ dispatch = "idle"
    /\ LET free == {e \in Event : Claimable(e)} IN
       /\ free # {}
       /\ batch' = {e \in free : Cardinality(ahead[e] \cap free) < BatchSize}
    /\ out' = Marked(batch', "leased")
    /\ unsent' = batch'
    /\ dispatch' = "send"
    /\ UNCHANGED <<registryVars, feedbackVars, ahead>>

(* The aggregate sink sends the oldest event left as a feedback request. *)
Send(o) ==
    /\ dispatch = "send"
    /\ \E e \in unsent :
          /\ ahead[e] \cap unsent = {}
          /\ Arrive(o, e)
          /\ unsent' = unsent \ {e}
    /\ awaited' = o
    /\ answer' = "none"
    /\ dispatch' = "await"
    /\ UNCHANGED <<registryVars, out, ahead, batch>>

(* Mutant of Confirmed: whatever is not an error confirms the delivery. *)
BugConfirmed == answer # "error"

(* assertAggregateAcceptance. *)
Confirmed == answer = "accepted"

(* It is accepted in time. *)
Accepted ==
    /\ dispatch = "await"
    /\ Confirmed
    /\ awaited' = NoOp
    /\ answer' = "none"
    /\ dispatch' = "send"
    /\ UNCHANGED <<registryVars, rows, admitted, queue, about, step, detached,
                   before, orphaned, out, ahead, batch, unsent>>

(* It fails, or is not answered before the deadline: then the request goes *)
(* on, but the rest of the batch is given up.                              *)
NotAccepted ==
    /\ dispatch = "await"
    /\ \/ answer = "error" /\ UNCHANGED faults
       \/ answer = "none" /\ faults > 0 /\ faults' = faults - 1
    /\ awaited' = NoOp
    /\ answer' = "none"
    /\ dispatch' = "release"
    /\ UNCHANGED <<mem, disk, saves, writing, checkpoint, usable, changes,
                   rows, admitted, queue, about, step, detached, before, orphaned,
                   out, ahead, batch, unsent>>

(* acknowledgeDelivered, for the whole batch and under its lease. *)
AcknowledgeBatch ==
    /\ dispatch = "send"
    /\ unsent = {}
    /\ \A e \in batch : out[e] = "leased"
    /\ out' = Marked(batch, "delivered")
    /\ ahead' = [e \in Event |-> IF e \in batch THEN {} ELSE ahead[e] \ batch]
    /\ batch' = {}
    /\ dispatch' = "idle"
    /\ UNCHANGED <<registryVars, feedbackVars, unsent>>

BatchNotAcknowledged ==
    /\ dispatch = "send"
    /\ unsent = {}
    /\ \/ (\E e \in batch : out[e] = "lapsed") /\ UNCHANGED faults
       \/ faults > 0 /\ faults' = faults - 1
    /\ dispatch' = "release"
    /\ UNCHANGED <<mem, disk, saves, writing, checkpoint, usable, changes,
                   feedbackVars, out, ahead, batch, unsent>>

(* releaseClaim, whether the lease still lasts or not; a failure of it is  *)
(* only counted, and leaves the lease to lapse.                            *)
ReleaseBatch ==
    /\ dispatch = "release"
    /\ \/ out' = Marked(batch, "pending") /\ UNCHANGED faults
       \/ faults > 0 /\ faults' = faults - 1 /\ UNCHANGED out
    /\ batch' = {}
    /\ unsent' = {}
    /\ dispatch' = "idle"
    /\ UNCHANGED <<mem, disk, saves, writing, checkpoint, usable, changes,
                   feedbackVars, ahead>>

-----------------------------------------------------------------------------
(* The lease of a claim that was not released lapses, and, when the        *)
(* process was held up for longer than its budget, that of the batch.      *)
ClaimLapses(e) ==
    /\ out[e] = "leased"
    /\ IF e \in batch
       THEN /\ faults > 0
            /\ faults' = faults - 1
            /\ out' = Marked(batch, "lapsed")
       ELSE out' = Marked({e}, "lapsed") /\ UNCHANGED faults
    /\ UNCHANGED <<mem, disk, saves, writing, checkpoint, usable, changes,
                   feedbackVars, ahead, batch, unsent, dispatch>>

(* A delivered row reaches the end of its retention. *)
Purge(e) ==
    /\ out[e] = "delivered"
    /\ out' = Marked({e}, "absent")
    /\ UNCHANGED <<registryVars, feedbackVars, ahead, batch, unsent, dispatch>>

(* A caller reports an event by HTTP. *)
Post(o, e) ==
    /\ Arrive(o, e)
    /\ UNCHANGED <<registryVars, awaited, answer, outboxVars>>

(* The process dies, and starts again. *)
Crash ==
    /\ faults > 0
    /\ faults' = faults - 1
    /\ Reborn
    /\ batch' = {}
    /\ unsent' = {}
    /\ dispatch' = "idle"
    /\ UNCHANGED <<out, ahead>>

-----------------------------------------------------------------------------
Save == SaveStart \/ SaveWrite

(* What the process does with the feedback requests that it has. *)
Feedback ==
    \/ Save /\ UNCHANGED feedbackVars
    \/ SaveSucceeds
    \/ SaveIsLost
    \/ Refused
    \/ Claim
    \/ InProgress
    \/ Replayed
    \/ Reconcile
    \/ MarkersFull
    \/ Count
    \/ Counted
    \/ Uncounted
    \/ Finish

Dispatch ==
    \/ ClaimBatch
    \/ \E o \in Op : Send(o)
    \/ Accepted
    \/ NotAccepted
    \/ AcknowledgeBatch
    \/ BatchNotAcknowledged
    \/ ReleaseBatch

Time ==
    \/ \E e \in Event : LeaseLapses(e) /\ UNCHANGED outboxVars
    \/ \E e \in Event : Retires(e) /\ UNCHANGED outboxVars
    \/ \E e \in Event : ClaimLapses(e)
    \/ \E e \in Event : Purge(e)

Next ==
    \/ Feedback /\ UNCHANGED outboxVars
    \/ Dispatch
    \/ Time
    \/ Supersede /\ UNCHANGED outboxVars
    \/ Revoke /\ UNCHANGED <<feedbackVars, outboxVars>>
    \/ \E e \in Event : Stage(e)
    \/ \E o \in Op, e \in Posted : Post(o, e)
    \/ Crash

Spec == Init /\ [][Next]_vars

(* The event loop runs what is ready, the dispatcher's timer comes back,   *)
(* and a lease that nobody works under lapses.  The requests of others do  *)
(* not keep the dispatcher from sending its own: only the model has a      *)
(* bound, Op, on how many there are.                                       *)
FairSpec ==
    /\ Spec
    /\ WF_vars(Feedback /\ UNCHANGED outboxVars)
    /\ WF_vars(Dispatch)
    /\ SF_vars(\E o \in Op : Send(o))
    /\ \A e \in Event : WF_vars(LeaseLapses(e) /\ UNCHANGED outboxVars)
    /\ \A e \in Event : WF_vars(e \notin batch /\ ClaimLapses(e))

-----------------------------------------------------------------------------
(* No event is contained twice in the statistics, neither in memory nor in *)
(* the file, for one admission: whatever is retried after a lost save, a   *)
(* lost acknowledgement, a time-out or a crash (processFeedback).          *)
CountedOncePerAdmission ==
    \A m \in Marker : mem.counted[m] <= 1 /\ disk.counted[m] <= 1

(* An event that the deduplication store calls applied is contained in the *)
(* statistics of the file, unless the sample went into an object that was  *)
(* no longer in the registry: all later requests for it are only told that *)
(* it is a replay (acknowledgeApplied).                                    *)
AppliedIsCounted ==
    \A e \in Event \ orphaned :
        rows[e].state = "applied" => disk.counted[<<e, admitted[e]>>] = 1

(* An event that the outbox has let go is contained in the statistics of   *)
(* the file, with the same exception: nobody will send it again            *)
(* (acknowledgeDelivered of the outbox).                                   *)
DeliveredIsCounted ==
    \A e \in Event \ orphaned :
        out[e] = "delivered" => \E a \in Admission : disk.counted[<<e, a>>] = 1

(* docs/local-client-intelligence-gateway.md:255-256, without the          *)
(* exception: the dispatcher delivers each event into the exactly-once     *)
(* aggregate and then acknowledges the outbox row.                         *)
AcknowledgedIsCounted ==
    \A e \in Event :
        out[e] = "delivered" => \E a \in Admission : disk.counted[<<e, a>>] = 1

(* The copies of the client that may still reach the file: the earlier one *)
(* goes back into memory only when the save of the sample fails.           *)
Kept ==
    {mem, disk} \union ({writing, detached} \ {NoClient})
        \union (IF step \in {"counting", "uncounted"} THEN {before} ELSE {})

(* What is contained in all of them is not taken back. *)
Final == {m \in Marker : \A c \in Kept : c.counted[m] # 0}

(* The admissions that are called applied, and the events that are let go. *)
Settled == {<<e, admitted[e]>> : e \in {x \in Event \ orphaned : rows[x].state = "applied"}}

Gone == {e \in Event \ orphaned : out[e] = "delivered"}

(* The three stores implement an aggregate without them: an event is let   *)
(* go by the outbox, or called applied by the deduplication store, when    *)
(* its sample is in the statistics exactly once and for ever, whatever     *)
(* fails, is retried, superseded or forgotten then (processFeedback).      *)
(* Events whose sample went into a detached client are the exception.      *)
Aggregate == INSTANCE FeedbackAggregate WITH
    statistics <- disk.counted,
    final <- Final,
    applied <- Settled,
    gone <- Gone

CountedForGood == Aggregate!Spec

(* A client never carries more markers than its limit: loading the         *)
(* registry keeps only the newest ones, and an event whose marker was cut  *)
(* off would be counted again (normalizeFeedbackAppliedEventMarkers).      *)
MarkersFit ==
    Cardinality(mem.markers) <= MaxMarkers /\ Cardinality(disk.markers) <= MaxMarkers

(* With a checkpoint store, a revocation that reached the registry file is *)
(* there for good: the earlier client that a failed feedback puts back     *)
(* into memory, over the revoked one, is never saved (saveRegistry).       *)
RevocationStands ==
    [][checkpoint # "absent" /\ disk.revoked => disk'.revoked]_vars

(* The registry works, and the client has room for a marker of any event. *)
Receptive ==
    usable /\ \A e \in Event : Cardinality(Unmarked(mem, e).markers) < MaxMarkers

(* If it stays so, a staged event is delivered, whatever deaths, failures  *)
(* and time-outs there were: the loop of the dispatcher does not send it   *)
(* for ever, and no lease that was left behind withholds it.  One event    *)
(* for which there is no room keeps the whole batch from being delivered.  *)
EveryEventDelivered ==
    <>[]Receptive => \A e \in Event : (out[e] = "pending" ~> out[e] = "delivered")
=============================================================================
