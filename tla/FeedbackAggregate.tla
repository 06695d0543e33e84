------------------------- MODULE FeedbackAggregate -------------------------
(***************************************************************************)
(* What the way of the feedback promises of the statistics of a client,    *)
(* with no request, row, marker, lease or copy in it.                      *)
(*                                                                         *)
(* The statistics contain an admission of an event at most once.  One that *)
(* they contain may be taken back, until it is final.  An admission is     *)
(* called applied, and an event is let go, only when it is final, and that *)
(* it stays, even when what was said of it is forgotten.                   *)
(***************************************************************************)
EXTENDS Naturals

CONSTANTS
    Event,
    Admission   \* the times at which an event is admitted

VARIABLES
    statistics, \* statistics[m]: how often they contain the admission m
    final,      \* the admissions that are not taken back any more
    applied,    \* the admissions that are called applied
    gone        \* the events that are let go

vars == <<statistics, final, applied, gone>>

Marker == Event \X Admission

Init ==
    /\ statistics = [m \in Marker |-> 0]
    /\ final = {}
    /\ applied = {}
    /\ gone = {}

(* The statistics are saved, or a save is given up for good. *)
Save ==
    /\ statistics' \in [Marker -> 0..1]
    /\ final' \subseteq {m \in Marker : statistics'[m] = 1}
    /\ final \subseteq final'
    /\ UNCHANGED <<applied, gone>>

Apply(m) ==
    /\ m \in final
    /\ applied' = applied \union {m}
    /\ UNCHANGED <<statistics, final, gone>>

LetGo(es) ==
    /\ \A e \in es : \E n \in Admission : <<e, n>> \in final
    /\ gone' = gone \union es
    /\ UNCHANGED <<statistics, final, applied>>

(* The retention of what was applied, or let go, is over. *)
Retire(m) ==
    /\ applied' = applied \ {m}
    /\ UNCHANGED <<statistics, final, gone>>

Purge(e) ==
    /\ gone' = gone \ {e}
    /\ UNCHANGED <<statistics, final, applied>>

Next ==
    \/ Save
    \/ \E m \in Marker : Apply(m) \/ Retire(m)
    \/ \E es \in SUBSET Event : LetGo(es)
    \/ \E e \in Event : Purge(e)

Spec == Init /\ [][Next]_vars
=============================================================================
