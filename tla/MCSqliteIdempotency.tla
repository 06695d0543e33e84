------------------------ MODULE MCSqliteIdempotency -------------------------
(***************************************************************************)
(* Instances of SqliteIdempotency for TLC.                                 *)
(***************************************************************************)
EXTENDS SqliteIdempotency, TLC

Requests == Permutations(Request)
=============================================================================
