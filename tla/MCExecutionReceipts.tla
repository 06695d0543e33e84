------------------------ MODULE MCExecutionReceipts ------------------------
(***************************************************************************)
(* Instances of ExecutionReceipts for TLC.                                 *)
(***************************************************************************)
EXTENDS ExecutionReceipts

CONSTANTS x1, x2
=============================================================================
