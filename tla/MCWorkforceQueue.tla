-------------------------- MODULE MCWorkforceQueue --------------------------
(***************************************************************************)
(* Instances of WorkforceQueue for TLC.                                    *)
(***************************************************************************)
EXTENDS WorkforceQueue
=============================================================================
