--------------------------- MODULE EffectVerdicts ---------------------------
(***************************************************************************)
(* What a governed execution promises about its effect on a local client,  *)
(* with no journal, message, process or recovery in it.                    *)
(*                                                                         *)
(* The effect is had at most once.  An execution that is called completed  *)
(* has had it, one that is called failed has not and never will.  The      *)
(* verdict stands until it is forgotten.                                   *)
(***************************************************************************)
EXTENDS Naturals

CONSTANT Execution

VARIABLES
    effects,    \* effects[x]: how often x has had its effect
    verdict     \* verdict[x]: what the control plane says of x

vars == <<effects, verdict>>

Init ==
    /\ effects = [x \in Execution |-> 0]
    /\ verdict = [x \in Execution |-> "open"]

Perform(x) ==
    /\ effects[x] = 0
    /\ verdict[x] # "failed"
    /\ effects' = [effects EXCEPT ![x] = 1]
    /\ UNCHANGED verdict

Conclude(x, v) ==
    /\ verdict[x] = "open"
    /\ effects[x] = (IF v = "completed" THEN 1 ELSE 0)
    /\ verdict' = [verdict EXCEPT ![x] = v]
    /\ UNCHANGED effects

(* The retention of the execution is over. *)
Forget(x) ==
    /\ verdict' = [verdict EXCEPT ![x] = "open"]
    /\ UNCHANGED effects

Next ==
    \E x \in Execution :
        \/ Perform(x)
        \/ \E v \in {"completed", "failed"} : Conclude(x, v)
        \/ Forget(x)

Spec == Init /\ [][Next]_vars
=============================================================================
