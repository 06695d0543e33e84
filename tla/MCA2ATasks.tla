----------------------------- MODULE MCA2ATasks -----------------------------
(***************************************************************************)
(* Instances of A2ATasks for TLC.                                          *)
(***************************************************************************)
EXTENDS A2ATasks, TLC

CONSTANTS alice, i1

OneOwner == [t \in Task |-> alice]

Skewed == [i \in Instance |-> IF i = i1 THEN 0 ELSE 1]

Symmetry == Permutations(Exec) \cup Permutations(Task)
=============================================================================
