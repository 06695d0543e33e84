---------------------------- MODULE FencedTasks -----------------------------
(***************************************************************************)
(* What a task queue with fenced leases promises, with no table, lock or   *)
(* transaction in it.                                                      *)
(*                                                                         *)
(* A task is owned under the newest fence ever drawn for it.  A fence is   *)
(* drawn only while no lease on the task is live, so an owner whose lease  *)
(* is live is never superseded; and only the owner whose fence is still    *)
(* the newest, and whose lease is live, settles the task.                  *)
(***************************************************************************)
EXTENDS Naturals

CONSTANT Task

VARIABLES
    phase,      \* phase[t]: where task t is in its life
    owner,      \* owner[t]: the fence of the last owner of t, 0 if none
    newest,     \* newest[t]: the largest fence drawn for t
    live        \* live[t]: is the lease of the newest fence running

vars == <<phase, owner, newest, live>>

Phase == {"new", "open", "owned", "completed", "failed", "cancelled", "gone"}

Unsettled == {"open", "owned"}

Init ==
    /\ phase = [t \in Task |-> "new"]
    /\ owner = [t \in Task |-> 0]
    /\ newest = [t \in Task |-> 0]
    /\ live = [t \in Task |-> FALSE]

-----------------------------------------------------------------------------

Move(t, where) == phase'[t] = where /\ owner'[t] = owner[t] /\ newest'[t] = newest[t]

Stay(t) == Move(t, phase[t]) /\ live'[t] = live[t]

Publish(t) == phase[t] = "new" /\ Move(t, "open") /\ live'[t] = live[t]

(* The lease runs out, or is given back. *)
Lapse(t) == Move(t, phase[t]) /\ ~live'[t]

(* A new lease, under a larger fence. *)
Draw(t) ==
    /\ phase[t] \in Unsettled
    /\ ~live[t]
    /\ live'[t]
    /\ newest'[t] > newest[t]
    /\ phase'[t] = phase[t] /\ owner'[t] = owner[t]

(* The newest fence takes the task; its lease may have run out meanwhile. *)
Take(t) ==
    /\ phase[t] \in Unsettled
    /\ newest[t] > owner[t]
    /\ owner'[t] = newest[t]
    /\ phase'[t] = "owned" /\ newest'[t] = newest[t] /\ live'[t] = live[t]

(* A task without a live owner goes back to the queue. *)
Reopen(t) ==
    /\ phase[t] = "owned"
    /\ ~live[t]
    /\ Move(t, "open") /\ ~live'[t]

(* Only the newest fence, and only under a live lease. *)
Finish(t) ==
    /\ phase[t] = "owned"
    /\ live[t]
    /\ owner[t] = newest[t]
    /\ \E verdict \in {"completed", "failed"} : Move(t, verdict)
    /\ ~live'[t]

Retry(t) == phase[t] = "failed" /\ Move(t, "open") /\ live'[t] = live[t]

(* The gateway may cancel whatever is not settled; the lease of an owner   *)
(* goes with it.                                                           *)
Cancel(t) ==
    /\ phase[t] \in Unsettled
    /\ Move(t, "cancelled")
    /\ live'[t] => live[t] /\ phase[t] = "open"

Discard(t) == phase[t] # "new" /\ Move(t, "gone") /\ live'[t] = live[t]

Step(t) ==
    \/ Stay(t) \/ Publish(t) \/ Lapse(t) \/ Draw(t) \/ Take(t) \/ Reopen(t)
    \/ Finish(t) \/ Retry(t) \/ Cancel(t) \/ Discard(t)

(* One transaction of the queue may recover, and purge, many tasks. *)
Next == \A t \in Task : Step(t)

Spec == Init /\ [][Next]_vars
=============================================================================
