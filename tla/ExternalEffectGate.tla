------------------------- MODULE ExternalEffectGate -------------------------
(***************************************************************************)
(* The external effect gate (external-effects/externalEffectGate.ts and    *)
(* externalEffectToolBoundary.ts) over the PostgreSQL idempotency store:   *)
(* before a tool calls something irreversible (a push, a webhook, a shell) *)
(* it reserves the key of the effect as an idempotent operation that does  *)
(* nothing, and the tombstone it leaves refuses every later attempt.  A    *)
(* call made for a workforce task also shows that its fence is still the   *)
(* task's active claim, before the reservation and once more after it.     *)
(*                                                                         *)
(* A Request of the store is one reserve() call.  The hash of its payload  *)
(* covers the operation and the fence, so a Fingerprint is a record of     *)
(* both.  The store runs with the gate's configuration: a waiter does not  *)
(* wait, the operation always returns, and a result of 1 byte is too large.*)
(***************************************************************************)
EXTENDS PostgresIdempotency

CONSTANTS
    Operation,  \* what may be done: tool, target and parameters
    Fence,      \* fencing tokens of the workforce task the calls are made for
    NoFence     \* the fence of a call made for no task, as a webhook's is

ASSUME GateAssumption ==
    /\ InFlightWait = 0
    /\ Fence \subseteq Nat \ {0}
    /\ NoFence \notin Nat
    /\ Fingerprint = [operation : Operation, fence : Fence \cup {NoFence}]

VARIABLES
    stage,      \* stage[r]: how far the tool that reserves by r has come
    newest,     \* the fence of the newest claim of the task, 0 if none
    active,     \* is that claim live
    age         \* age[r]: time since the store answered r, up to Ttl; only
                \* the properties read it

gateVars == <<row, lastToken, ask, pc, claim, saw, leaseLost, wait, quiet,
              stage, newest, active, age>>

Stage == {"new", "reserving", "asserted", "committed", "called", "refused", "crashed"}

FenceOf(r) == ask[r].fp.fence

GateInit ==
    /\ Init
    /\ stage = [r \in Request |-> "new"]
    /\ newest = 0
    /\ active = FALSE
    /\ age = [r \in Request |-> 0]

GoOn(r, where) == stage' = [stage EXCEPT ![r] = where]

-----------------------------------------------------------------------------
(* reserve *)

(* Mutant of FenceHolds: any live claim of the task will do. *)
BugFenceHolds(r) == FenceOf(r) = NoFence \/ active

(* assertTaskClaimActive: the claim is live, and the fence is the task's.  *)
FenceHolds(r) == FenceOf(r) = NoFence \/ (active /\ FenceOf(r) = newest)

(* assertActiveFence: an assertion that cannot be read refuses too. *)
AssertReserve(r) ==
    /\ stage[r] = "new"
    /\ \/ FenceHolds(r) /\ GoOn(r, "reserving")
       \/ FenceOf(r) # NoFence /\ GoOn(r, "refused")
    /\ UNCHANGED <<vars, newest, active, age>>

(* The gate's execute(): one step of the store on behalf of r. *)
Execute(r) ==
    /\ stage[r] = "reserving"
    /\ \/ ClaimOrRead(r) \/ GiveUp(r)
       \/ ExecuteOwned(r) /\ pc'[r] # "threw" /\ row'[KeyOf(r)].state # "completed"
    /\ UNCHANGED <<stage, newest, active, age>>

(* Mutant of Reserved: an unconfirmed reservation is as good. *)
BugReserved(r) == pc[r] \in {"created", "created-unconfirmed"}

(* The only outcome that is not mapped to an error. *)
Reserved(r) == pc[r] = "created"

Refuse(r) ==
    /\ stage[r] = "reserving"
    /\ pc[r] \in Answer /\ ~Reserved(r)
    /\ GoOn(r, "refused")
    /\ UNCHANGED <<vars, newest, active, age>>

-----------------------------------------------------------------------------
(* commit, and the sink *)

(* The second assertion.  It is a read of the database that commit awaits: *)
(* the claim may end before anything is done with the answer.              *)
AssertCommit(r) ==
    /\ stage[r] = "reserving" /\ Reserved(r)
    /\ \/ FenceHolds(r) /\ GoOn(r, "asserted")
       \/ FenceOf(r) # NoFence /\ GoOn(r, "refused")
    /\ UNCHANGED <<vars, newest, active, age>>

(* The answer has come, and with it nothing is asked any more. *)
Commit(r) ==
    /\ stage[r] = "asserted"
    /\ GoOn(r, "committed")
    /\ UNCHANGED <<vars, newest, active, age>>

(* The tool calls its sink; nothing tells whether the call arrived. *)
Call(r) ==
    /\ stage[r] = "committed"
    /\ GoOn(r, "called")
    /\ UNCHANGED <<vars, newest, active, age>>

-----------------------------------------------------------------------------
(* The environment *)

GateCrash(r) ==
    /\ stage[r] \in {"reserving", "asserted", "committed"}
    /\ Crash(r) \/ (pc[r] \notin Owning \cup Polling /\ UNCHANGED vars)
    /\ GoOn(r, "crashed")
    /\ UNCHANGED <<newest, active, age>>

(* The claim of the task ends, and another owner claims it. *)
Lapse ==
    /\ active
    /\ active' = FALSE
    /\ UNCHANGED <<vars, stage, newest, age>>

Grant ==
    /\ ~active
    /\ newest' \in {f \in Fence : f > newest}
    /\ active' = TRUE
    /\ UNCHANGED <<vars, stage, age>>

GateTick ==
    /\ Tick
    /\ age' = [r \in Request |-> IF pc[r] \in {"created", "created-unconfirmed"} /\ age[r] < Ttl
                                   THEN age[r] + 1 ELSE age[r]]
    /\ UNCHANGED <<stage, newest, active>>

Gate(r) ==
    \/ AssertReserve(r) \/ Execute(r) \/ Refuse(r)
    \/ AssertCommit(r) \/ Commit(r) \/ Call(r)
    \/ GateCrash(r)

GateNext == (\E r \in Request : Gate(r)) \/ Lapse \/ Grant \/ GateTick

GateSpec == GateInit /\ [][GateNext]_gateVars

-----------------------------------------------------------------------------
(* Properties *)

(* The local state of the gate keeps its type. *)
GateTypeOK ==
    /\ TypeOK
    /\ stage \in [Request -> Stage]
    /\ newest \in Nat
    /\ active \in BOOLEAN
    /\ age \in [Request -> 0..Ttl]

Attempted(r) == stage[r] \in {"committed", "called"}

(* An effect is attempted at most once in a retention: of two reservations *)
(* of one key that both went on to their sink, one was Ttl old before the  *)
(* other was made, so one of them is always Ttl old (reserve, commit).     *)
OneAttempt ==
    \A r, s \in Request :
        r # s /\ KeyOf(r) = KeyOf(s) /\ Attempted(r) /\ Attempted(s) =>
            age[r] = Ttl \/ age[s] = Ttl

(* While a reservation stands, its tombstone does, also when its owner was *)
(* refused afterwards or died: a crash, a sweep or another process cannot  *)
(* remove what keeps the effect from being tried again (execute,           *)
(* deleteExpired).                                                         *)
TombstoneStands ==
    \A r \in Request : pc[r] = "created" /\ age[r] < Ttl =>
        Mine(r).state = "oversized" /\ Mine(r).token = claim[r]

(* The claim under which r is made has ended. *)
Over(r) ==
    /\ FenceOf(r) # NoFence
    /\ newest > FenceOf(r) \/ (newest = FenceOf(r) /\ ~active)

Stale(r) == Over(r) /\ stage[r] \notin {"asserted", "committed", "called"}

(* Whose claim ends before its second assertion never reaches its sink,    *)
(* whoever claims the task afterwards and whatever the store answers: it   *)
(* is stale for good.  Whose claim ends after that assertion may still     *)
(* reach it, even after a later owner has reached its own: the window that *)
(* docs/external-effect-fencing.md:221-223 leaves is open to those alone   *)
(* (assertActiveFence in reserve and commit).                              *)
StaleOwnersStop == [][\A r \in Request : Stale(r) => Stale(r)']_gateVars
=============================================================================
