---------------------------- MODULE TaskOutcomes ----------------------------
(***************************************************************************)
(* What the A2A boundary promises about the outcome of a task, with no     *)
(* replica, event, table or transaction in it.                             *)
(*                                                                         *)
(* A task is open until it settles, and stays as it settled until it is    *)
(* forgotten.  An execution lease is drawn only on an open task without    *)
(* one, under a fence larger than any other; completed and failed are      *)
(* written only under the lease, which ends with them; cancelling takes    *)
(* whatever lease there is.                                                *)
(***************************************************************************)
EXTENDS Naturals

CONSTANT Task

VARIABLES
    outcome,    \* outcome[t]: how t settled, or "open"
    lease,      \* lease[t]: the fence of the live lease on t, 0 if none
    last        \* the largest fence drawn

vars == <<outcome, lease, last>>

Init ==
    /\ outcome = [t \in Task |-> "open"]
    /\ lease = [t \in Task |-> 0]
    /\ last = 0

Draw(t) ==
    /\ outcome[t] = "open"
    /\ lease[t] = 0
    /\ last' > last
    /\ lease' = [lease EXCEPT ![t] = last']
    /\ outcome' = outcome

(* The lease is given back, revoked, or runs out. *)
Lapse(t) ==
    /\ lease' = [lease EXCEPT ![t] = 0]
    /\ UNCHANGED <<outcome, last>>

Settle(t) ==
    /\ outcome[t] = "open"
    /\ lease[t] # 0
    /\ lease' = [lease EXCEPT ![t] = 0]
    /\ \E verdict \in {"completed", "failed"} :
          outcome' = [outcome EXCEPT ![t] = verdict]
    /\ last' = last

Cancel(t) ==
    /\ outcome[t] = "open"
    /\ outcome' = [outcome EXCEPT ![t] = "canceled"]
    /\ lease' = [lease EXCEPT ![t] = 0]
    /\ last' = last

(* The retention of the task is over. *)
Forget(t) ==
    /\ outcome' = [outcome EXCEPT ![t] = "open"]
    /\ UNCHANGED <<lease, last>>

Next == \E t \in Task : Draw(t) \/ Lapse(t) \/ Settle(t) \/ Cancel(t) \/ Forget(t)

Spec == Init /\ [][Next]_vars
=============================================================================
