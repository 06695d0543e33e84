------------------------ MODULE MCExternalEffectGate ------------------------
(***************************************************************************)
(* Instances of ExternalEffectGate for TLC.                                *)
(***************************************************************************)
EXTENDS ExternalEffectGate, TLC

CONSTANTS
    MostFences,
    Effect      \* the key of the effect that the requests are about

Fences == 1..MostFences

Fingerprints == [operation : Operation, fence : Fence \cup {NoFence}]

Requests == Permutations(Request)

Fenced == {r \in Request : FenceOf(r) # NoFence}

(* All requests are about one effect; or two owners of the task are, and a *)
(* caller without a fence, about another effect, sweeps the store between. *)
MCInit ==
    /\ GateInit
    /\ \/ \A r \in Request : KeyOf(r) = Effect
       \/ /\ Cardinality(Fenced) + 1 = Cardinality(Request)
          /\ \A r \in Request : KeyOf(r) = Effect <=> r \in Fenced
          /\ {FenceOf(r) : r \in Fenced} = Fence

MCSpec == MCInit /\ [][GateNext]_gateVars
=============================================================================
