----------------------- MODULE MCPostgresIdempotency -----------------------
(***************************************************************************)
(* Instances of PostgresIdempotency for TLC.                               *)
(***************************************************************************)
EXTENDS PostgresIdempotency, TLC

CONSTANTS r1, r2, r3, k1, k2, f1, f2

Wants(key, fp) == [key |-> key, fp |-> fp]

(* What three requests may ask for, up to the names of the requests, the   *)
(* keys and the payloads, which the specification treats alike: all the    *)
(* same, one with another key, another payload or both, or three           *)
(* different ones.  A symmetry set would say the same, but not together    *)
(* with a liveness property.                                               *)
Asks ==
    {(r1 :> Wants(k1, f1)) @@ (r2 :> Wants(k1, f1)) @@ (r3 :> Wants(k, f)) :
        k \in {k1, k2}, f \in {f1, f2}}
    \cup {(r1 :> Wants(k1, f1)) @@ (r2 :> Wants(k1, f2)) @@ (r3 :> Wants(k2, f1))}

MCInit == Init /\ ask \in Asks

MCSpec == MCInit /\ [][Next]_vars /\ Fairness
=============================================================================
