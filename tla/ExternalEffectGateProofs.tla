---------------------- MODULE ExternalEffectGateProofs ----------------------
(***************************************************************************)
(* Proofs about ExternalEffectGate, for any set of reservations, keys,     *)
(* operations and fences, and any lease, retention and capacity.           *)
(***************************************************************************)
EXTENDS ExternalEffectGate, PostgresIdempotencyProofs

(* Answers of an owner that are not errors; no request leaves them. *)
Sealed == {"created", "created-unconfirmed"}

(* A token belongs to one request, and every owner has one. *)
ClaimInv ==
    /\ \A r \in Request : claim[r] <= lastToken
    /\ \A r, s \in Request : claim[r] # 0 /\ claim[r] = claim[s] => r = s
    /\ \A r \in Request : pc[r] \in Owning \cup {"created"} => claim[r] # 0

(* The tombstone of a reservation is in the table, and the part of its     *)
(* retention that is used up is no more than the age of the reservation.   *)
StandInv ==
    \A r \in Request :
        /\ pc[r] \notin Sealed => age[r] = 0
        /\ pc[r] = "created" /\ age[r] < Ttl =>
              /\ Mine(r).state = "oversized"
              /\ Mine(r).token = claim[r]
              /\ age[r] + Mine(r).ttl >= Ttl

Passed(r) == stage[r] \in {"asserted", "committed", "called"}

(* Only who is reserved passes the second assertion.                       *)
StageInv == \A r \in Request : Passed(r) => pc[r] = "created"

GInv == GateTypeOK /\ ClaimInv /\ StandInv /\ StageInv

-----------------------------------------------------------------------------
(* The gate takes no step that the store could not take by itself *)

LEMMA GateStepsStore == [GateNext]_gateVars => [Next]_vars
<1> SUFFICES ASSUME [GateNext]_gateVars PROVE [Next]_vars
  OBVIOUS
<1>1. ASSUME NEW r \in Request, Gate(r) PROVE [Next]_vars
  <2>1. CASE AssertReserve(r) \/ Refuse(r) \/ AssertCommit(r) \/ Commit(r) \/ Call(r)
    BY <2>1 DEF AssertReserve, Refuse, AssertCommit, Commit, Call
  <2>2. CASE Execute(r)
    BY <2>2 DEF Execute, Next, WaitForOwner
  <2>3. CASE GateCrash(r)
    BY <2>3 DEF GateCrash, Next
  <2>4. QED
    BY <1>1, <2>1, <2>2, <2>3 DEF Gate
<1>2. CASE Lapse \/ Grant
  BY <1>2 DEF Lapse, Grant
<1>3. CASE GateTick
  BY <1>3 DEF GateTick, Next
<1>4. CASE UNCHANGED gateVars
  BY <1>4 DEF gateVars, vars
<1>5. QED
  BY <1>1, <1>2, <1>3, <1>4 DEF GateNext

(* The store under the gate behaves as the store does for anyone: what is  *)
(* proved of it holds here too.                                            *)
THEOREM StoreUnchanged == GateSpec => Spec
  BY GateStepsStore, PTL DEF GateSpec, GateInit, Spec

(* A key of the gate is reserved at most once per retention.               *)
THEOREM ReservedAtMostOnce == GateSpec => AtMostOnce
  BY StoreUnchanged, Implementation

-----------------------------------------------------------------------------
(* What a step of the store does to one request *)

LEMMA DecodedAnswer ==
    ASSUME NEW e, NEW fp
    PROVE  Decode(e, fp) \notin Owning \cup Sealed
  BY DEF Decode, Owning, Sealed

(* The request r of an action moves from a place in From to one in To. *)
Moves(r, From, To) == pc[r] \in From /\ \E w \in To : pc' = [pc EXCEPT ![r] = w]

(* complete is applied, and heard of. *)
Completes(r) ==
    /\ Holds(Mine(r), claim[r])
    /\ \E verdict \in {"completed", "oversized"} : SetMine(r, Recorded(Mine(r), verdict))

Elsewhere == (Polling \cup Answer \cup {"idle", "crashed"}) \ Sealed

LEMMA StepOfRequest ==
    ASSUME TypeOK, [Next]_vars
    PROVE  \/ pc' = pc /\ claim' = claim
           \/ \E r \in Request : Claim(r)
           \/ \E r \in Request : Complete(r)
           \/ /\ claim' = claim
              /\ \E r \in Request :
                    \/ Moves(r, {"idle"} \cup Polling, Elsewhere)
                    \/ Moves(r, Owning, Owning \cup {"created-unconfirmed", "rethrown"})
                    \/ Moves(r, Owning \cup Polling, {"crashed"})
<1>1. ASSUME NEW r \in Request, ReadExisting(r)
      PROVE  claim' = claim /\ Moves(r, {"idle"} \cup Polling, Elsewhere)
  BY <1>1, DecodedPc, DecodedAnswer DEF ReadExisting, Goto, Moves, Elsewhere
<1>2. ASSUME NEW r \in Request, RefuseFull(r) \/ LoseClaim(r) \/ FailToClaim(r)
      PROVE  claim' = claim /\ Moves(r, {"idle"} \cup Polling, Elsewhere)
  BY <1>2 DEF RefuseFull, LoseClaim, FailToClaim, Insert, Goto, Moves, Elsewhere,
     Answer, Sealed
<1>3. ASSUME NEW r \in Request, Heartbeat(r) \/ HeartbeatFails(r)
      PROVE  pc' = pc /\ claim' = claim
  BY <1>3 DEF Heartbeat, HeartbeatFails
<1>4. ASSUME NEW r \in Request, OperationEnds(r) \/ ConfirmLease(r) \/ RecordFailure(r)
      PROVE  /\ claim' = claim
             /\ Moves(r, Owning, Owning \cup {"created-unconfirmed", "rethrown"})
  BY <1>4 DEF OperationEnds, ConfirmLease, RecordFailure, Goto, Moves, Owning
<1>5. ASSUME NEW r \in Request, Poll(r) \/ Reread(r)
      PROVE  claim' = claim /\ Moves(r, {"idle"} \cup Polling, Elsewhere)
  BY <1>5, DecodedPc, DecodedAnswer DEF Poll, Reread, Goto, Moves, Elsewhere, Polling,
     Answer, Sealed
<1>6. ASSUME NEW r \in Request, MarkUnknown(r) \/ GiveUp(r) \/ PollFails(r)
      PROVE  claim' = claim /\ Moves(r, {"idle"} \cup Polling, Elsewhere)
  BY <1>6 DEF MarkUnknown, GiveUp, PollFails, Goto, Moves, Elsewhere, Polling, Answer, Sealed
<1>7. ASSUME NEW r \in Request, Crash(r)
      PROVE  claim' = claim /\ Moves(r, Owning \cup Polling, {"crashed"})
  BY <1>7 DEF Crash, Goto, Moves
<1>8. CASE Tick \/ UNCHANGED vars
  BY <1>8 DEF Tick, vars
<1>9. QED
  BY <1>1, <1>2, <1>3, <1>4, <1>5, <1>6, <1>7, <1>8
     DEF Next, ClaimOrRead, ExecuteOwned, WaitForOwner

LEMMA AskedForGood ==
    ASSUME [Next]_vars
    PROVE  ask' = ask
<1>1. ASSUME NEW r \in Request, ClaimOrRead(r) PROVE ask' = ask
  BY <1>1 DEF ClaimOrRead, ReadExisting, RefuseFull, Claim, LoseClaim, FailToClaim, Insert
<1>2. ASSUME NEW r \in Request, ExecuteOwned(r) PROVE ask' = ask
  BY <1>2 DEF ExecuteOwned, Heartbeat, HeartbeatFails, OperationEnds, ConfirmLease,
     Complete, RecordFailure
<1>3. ASSUME NEW r \in Request, WaitForOwner(r) \/ PollFails(r) \/ Crash(r)
      PROVE  ask' = ask
  BY <1>3 DEF WaitForOwner, Poll, MarkUnknown, Reread, GiveUp, PollFails, Crash
<1>4. QED
  BY <1>1, <1>2, <1>3 DEF Next, Tick, vars

(* What the properties need of it: answers stay, ownership begins with a   *)
(* claim, and created is said by Complete alone.                           *)
LEMMA RequestMoves ==
    ASSUME TypeOK, [Next]_vars, NEW r \in Request
    PROVE  /\ pc[r] \in Sealed => pc'[r] = pc[r] /\ claim'[r] = claim[r]
           /\ pc'[r] \in Owning => pc[r] \in Owning \/ Claim(r)
           /\ pc'[r] = "created" => pc[r] = "created" \/ (Complete(r) /\ Completes(r))
<1>0. pc \in [Request -> Owning \cup Polling \cup Answer \cup {"idle", "crashed"}]
      /\ claim \in [Request -> Nat]
  BY DEF TypeOK
<1>1. CASE pc' = pc /\ claim' = claim
  BY <1>1
<1>2. ASSUME NEW q \in Request, Claim(q)
      PROVE  /\ pc[r] \in Sealed => pc'[r] = pc[r] /\ claim'[r] = claim[r]
             /\ pc'[r] \in Owning => pc[r] \in Owning \/ Claim(r)
             /\ pc'[r] # "created" \/ pc[r] = "created"
  <2>1. /\ pc' = [pc EXCEPT ![q] = "running"]
        /\ claim' = [claim EXCEPT ![q] = lastToken + 1]
        /\ pc[q] = "idle"
    BY <1>2 DEF Claim, Insert, Goto
  <2>2. QED
    BY <1>0, <1>2, <2>1 DEF Sealed
<1>3. ASSUME NEW q \in Request, Complete(q)
      PROVE  /\ pc[r] \in Sealed => pc'[r] = pc[r] /\ claim'[r] = claim[r]
             /\ pc'[r] \in Owning => pc[r] \in Owning
             /\ pc'[r] = "created" => pc[r] = "created" \/ (Complete(r) /\ Completes(r))
  <2>1. claim' = claim /\ pc[q] = "confirmed"
    BY <1>3 DEF Complete
  <2>2. CASE pc' = [pc EXCEPT ![q] = "created"] /\ Completes(q)
    BY <1>0, <1>3, <2>1, <2>2 DEF Sealed, Owning
  <2>3. CASE pc' = [pc EXCEPT ![q] = "created-unconfirmed"]
    BY <1>0, <2>1, <2>3 DEF Sealed, Owning
  <2>4. QED
    BY <1>3, <2>2, <2>3 DEF Complete, Completes, Goto
<1>4. ASSUME NEW q \in Request, claim' = claim,
             \/ Moves(q, {"idle"} \cup Polling, Elsewhere)
             \/ Moves(q, Owning, Owning \cup {"created-unconfirmed", "rethrown"})
             \/ Moves(q, Owning \cup Polling, {"crashed"})
      PROVE  /\ pc[r] \in Sealed => pc'[r] = pc[r] /\ claim'[r] = claim[r]
             /\ pc'[r] \in Owning => pc[r] \in Owning
             /\ pc'[r] # "created" \/ pc[r] = "created"
  BY <1>0, <1>4 DEF Moves, Elsewhere, Sealed, Owning, Polling, Answer
<1>5. QED
  BY <1>1, <1>2, <1>3, <1>4, StepOfRequest

LEMMA TokensGrow ==
    ASSUME TypeOK, [Next]_vars
    PROVE  lastToken \in Nat /\ lastToken' \in {lastToken, lastToken + 1}
<1>1. StoreMoves \/ Tick
  BY StoreOrTick
<1>2. QED
  BY <1>1 DEF StoreMoves, Claimed, Tick, TypeOK

-----------------------------------------------------------------------------
(* Tokens have one owner *)

LEMMA ClaimInit == Init => ClaimInv
  BY DEF Init, ClaimInv, Owning

LEMMA ClaimStep == TypeOK /\ ClaimInv /\ [Next]_vars => ClaimInv'
<1> SUFFICES ASSUME TypeOK, ClaimInv, [Next]_vars PROVE ClaimInv'
  OBVIOUS
<1>0. /\ claim \in [Request -> Nat]
      /\ lastToken \in Nat /\ lastToken' \in {lastToken, lastToken + 1}
      /\ \A r \in Request : claim[r] <= lastToken
      /\ \A r, s \in Request : claim[r] # 0 /\ claim[r] = claim[s] => r = s
      /\ \A r \in Request : pc[r] \in Owning \cup {"created"} => claim[r] # 0
  BY TokensGrow DEF TypeOK, ClaimInv
<1>1. claim' = claim \/ \E q \in Request : Claim(q)
  <2>1. ASSUME NEW q \in Request, Complete(q) PROVE claim' = claim
    BY <2>1 DEF Complete
  <2>2. QED
    BY <2>1, StepOfRequest
<1>2. CASE claim' = claim
  <2>1. ASSUME NEW r \in Request, pc'[r] \in Owning \cup {"created"}
        PROVE  claim'[r] # 0
    <3>1. CASE Claim(r)
      BY <1>0, <3>1 DEF Claim
    <3>2. CASE ~Claim(r)
      <4>1. pc[r] \in Owning \cup {"created"}
        BY <2>1, <3>2, RequestMoves DEF Complete, Owning
      <4>2. QED
        BY <1>0, <1>2, <4>1
    <3>3. QED
      BY <3>1, <3>2
  <2>2. QED
    BY <1>0, <1>2, <2>1 DEF ClaimInv
<1>3. ASSUME NEW q \in Request, Claim(q) PROVE ClaimInv'
  <2>1. /\ claim' = [claim EXCEPT ![q] = lastToken + 1]
        /\ lastToken' = lastToken + 1
        /\ pc' = [pc EXCEPT ![q] = "running"]
        /\ pc \in [Request -> Owning \cup Polling \cup Answer \cup {"idle", "crashed"}]
    BY <1>3 DEF Claim, Insert, Goto, TypeOK
  <2>2. \A r \in Request : claim'[r] <= lastToken'
    BY <1>0, <2>1
  <2>3. \A r, s \in Request : claim'[r] # 0 /\ claim'[r] = claim'[s] => r = s
    BY <1>0, <2>1
  <2>4. \A r \in Request : pc'[r] \in Owning \cup {"created"} => claim'[r] # 0
    BY <1>0, <2>1
  <2>5. QED
    BY <2>2, <2>3, <2>4 DEF ClaimInv
<1>4. QED
  BY <1>1, <1>2, <1>3

-----------------------------------------------------------------------------
(* Types *)

LEMMA GateTypeStep == GateTypeOK /\ [GateNext]_gateVars => GateTypeOK'
<1> SUFFICES ASSUME GateTypeOK, [GateNext]_gateVars PROVE GateTypeOK'
  OBVIOUS
<1>0. TypeOK'
  BY TypeStep, GateStepsStore DEF GateTypeOK
<1>1. ASSUME NEW r \in Request, Gate(r)
      PROVE  stage' \in [Request -> Stage] /\ UNCHANGED <<newest, active, age>>
  BY <1>1 DEF Gate, AssertReserve, Execute, Refuse, AssertCommit, Commit, Call, GateCrash, GoOn,
     GateTypeOK, Stage
<1>2. CASE Lapse
  BY <1>0, <1>2 DEF Lapse, GateTypeOK
<1>3. CASE Grant
  <2>1. newest' \in Nat /\ active' = TRUE /\ UNCHANGED <<stage, age>>
    BY <1>3, GateAssumption DEF Grant
  <2>2. QED
    BY <1>0, <2>1 DEF GateTypeOK
<1>4. CASE GateTick
  <2>1. \A r \in Request : age[r] \in 0..Ttl /\ Ttl \in Nat
    BY TimesAssumption DEF GateTypeOK
  <2>2. age' \in [Request -> 0..Ttl]
    BY <1>4, <2>1 DEF GateTick
  <2>3. QED
    BY <1>0, <1>4, <2>2 DEF GateTick, GateTypeOK
<1>5. CASE UNCHANGED gateVars
  BY <1>0, <1>5 DEF gateVars, GateTypeOK
<1>6. QED
  BY <1>0, <1>1, <1>2, <1>3, <1>4, <1>5 DEF GateNext, GateTypeOK

-----------------------------------------------------------------------------
(* The tombstone stands *)

(* One statement of the store leaves an unexpired tombstone alone. *)
LEMMA TombstoneKept ==
    ASSUME TypeOK, NEW k \in Key, StoreMoves,
           row[k].state = "oversized", row[k].ttl # 0
    PROVE  row'[k] = row[k]
<1>1. ~Removed(k) /\ ~SettledNow(k) /\ ~Claimed(k)
  BY DEF Removed, SettledNow, Claimed
<1>2. Untouched(k)
  BY <1>1 DEF StoreMoves, Quiet
<1>3. QED
  BY <1>2 DEF Untouched, Live

(* Only GateTick lets time pass. *)
LEMMA NoTickInGate ==
    ASSUME TypeOK, [GateNext]_gateVars, ~GateTick
    PROVE  StoreMoves /\ age' = age
<1>1. ASSUME NEW r \in Request, Gate(r) PROVE StoreMoves /\ age' = age
  <2>1. CASE AssertReserve(r) \/ Refuse(r) \/ AssertCommit(r) \/ Commit(r) \/ Call(r)
    BY <2>1, NoRowMoves DEF AssertReserve, Refuse, AssertCommit, Commit, Call, vars
  <2>2. CASE Execute(r)
    BY <2>2, RequestMovesStore DEF Execute, WaitForOwner
  <2>3. CASE GateCrash(r)
    BY <2>3, RequestMovesStore, NoRowMoves DEF GateCrash, vars
  <2>4. QED
    BY <1>1, <2>1, <2>2, <2>3 DEF Gate
<1>2. CASE Lapse \/ Grant
  BY <1>2, NoRowMoves DEF Lapse, Grant, vars
<1>3. CASE UNCHANGED gateVars
  BY <1>3, NoRowMoves DEF gateVars
<1>4. QED
  BY <1>1, <1>2, <1>3 DEF GateNext

(* Who is told created left an oversized row: the gate stores no results. *)
LEMMA ReservationMade ==
    ASSUME TypeOK, [GateNext]_gateVars, NEW r \in Request,
           Complete(r), Completes(r), pc'[r] = "created"
    PROVE  row'[KeyOf(r)] = Recorded(Mine(r), "oversized")
<1>0. /\ KeyOf(r) \in Key /\ row \in [Key -> Row] /\ pc[r] = "confirmed"
      /\ Request = DOMAIN pc /\ pc = [q \in Request |-> pc[q]]
  BY DEF TypeOK, KeyOf, Complete
<1>1. PICK q \in Request : Execute(q) \/ GateCrash(q)
  <2>1. pc' # pc
    BY <1>0
  <2>2. ~GateTick
    BY <2>1 DEF GateTick, Tick
  <2>3. QED
    BY <2>1, <2>2 DEF GateNext, Gate, AssertReserve, Refuse, AssertCommit, Commit, Call, Lapse, Grant,
       gateVars, vars
<1>2. \E w : pc' = [pc EXCEPT ![q] = w]
  <2>1. CASE Execute(q)
    <3>1. ASSUME ClaimOrRead(q) \/ GiveUp(q) PROVE \E w : pc' = [pc EXCEPT ![q] = w]
      BY <3>1 DEF ClaimOrRead, ReadExisting, RefuseFull, Claim, LoseClaim, FailToClaim,
         GiveUp, Goto
    <3>2. ASSUME Heartbeat(q) \/ HeartbeatFails(q) PROVE FALSE
      BY <1>0, <3>2 DEF Heartbeat, HeartbeatFails
    <3>3. ASSUME OperationEnds(q) \/ ConfirmLease(q) \/ Complete(q) \/ RecordFailure(q)
          PROVE  \E w : pc' = [pc EXCEPT ![q] = w]
      BY <3>3 DEF OperationEnds, ConfirmLease, Complete, RecordFailure, Goto
    <3>4. QED
      BY <2>1, <3>1, <3>2, <3>3 DEF Execute, ExecuteOwned
  <2>2. CASE GateCrash(q)
    BY <1>0, <2>2 DEF GateCrash, Crash, Goto, vars
  <2>3. QED
    BY <1>1, <2>1, <2>2
<1>3. q = r
  BY <1>0, <1>2
<1>4. Execute(r)
  <2>1. ASSUME GateCrash(r) PROVE FALSE
    <3>1. ~UNCHANGED vars
      BY <1>0 DEF vars
    <3>2. Crash(r)
      BY <2>1, <3>1 DEF GateCrash
    <3>3. QED
      BY <1>0, <3>2 DEF Crash, Goto
  <2>2. QED
    BY <1>1, <1>3, <2>1
<1>5. row'[KeyOf(r)].state # "completed"
  <2>1. ~ClaimOrRead(r) /\ ~GiveUp(r)
    BY <1>0 DEF ClaimOrRead, ReadExisting, RefuseFull, Claim, LoseClaim, FailToClaim,
       Insert, GiveUp
  <2>2. QED
    BY <1>4, <2>1 DEF Execute
<1>6. PICK verdict \in {"completed", "oversized"} :
         row'[KeyOf(r)] = Recorded(Mine(r), verdict)
  BY <1>0 DEF Completes, SetMine
<1>7. Mine(r) \in Row
  BY <1>0 DEF Mine
<1>8. QED
  BY <1>5, <1>6, <1>7 DEF Recorded, Row

LEMMA StandStep == GInv /\ [GateNext]_gateVars => StandInv'
<1> SUFFICES ASSUME GInv, [GateNext]_gateVars, NEW r \in Request
             PROVE  /\ pc'[r] \notin Sealed => age'[r] = 0
                    /\ pc'[r] = "created" /\ age'[r] < Ttl =>
                          /\ Mine(r)'.state = "oversized"
                          /\ Mine(r)'.token = claim'[r]
                          /\ age'[r] + Mine(r)'.ttl >= Ttl
  BY DEF StandInv
<1>0. /\ TypeOK /\ [Next]_vars
      /\ Ttl \in Nat /\ age \in [Request -> 0..Ttl]
      /\ KeyOf(r) \in Key /\ KeyOf(r)' = KeyOf(r)
      /\ row[KeyOf(r)] \in Row
      /\ Mine(r) = row[KeyOf(r)] /\ Mine(r)' = row'[KeyOf(r)]
  BY GateStepsStore, AskedForGood, TimesAssumption DEF GInv, GateTypeOK, TypeOK, KeyOf, Mine
<1>1. /\ pc[r] \in Sealed => pc'[r] = pc[r] /\ claim'[r] = claim[r]
      /\ pc'[r] = "created" => pc[r] = "created" \/ (Complete(r) /\ Completes(r))
  BY <1>0, RequestMoves
<1>2. /\ pc[r] \notin Sealed => age[r] = 0
      /\ pc[r] = "created" /\ age[r] < Ttl =>
            /\ Mine(r).state = "oversized"
            /\ Mine(r).token = claim[r]
            /\ age[r] + Mine(r).ttl >= Ttl
  BY DEF GInv, StandInv
<1>3. CASE GateTick
  <2>1. /\ row'[KeyOf(r)] = Elapsed(row[KeyOf(r)])
        /\ pc' = pc /\ claim' = claim
        /\ age'[r] = IF pc[r] \in Sealed /\ age[r] < Ttl THEN age[r] + 1 ELSE age[r]
    BY <1>0, <1>3 DEF GateTick, Tick, Sealed
  <2>2. CASE pc[r] = "created" /\ age'[r] < Ttl
    <3>1. /\ age[r] < Ttl /\ age'[r] = age[r] + 1
          /\ age[r] \in Nat /\ row[KeyOf(r)].ttl \in Nat
      BY <1>0, <2>1, <2>2 DEF Sealed, Row
    <3>2. /\ row'[KeyOf(r)].state = row[KeyOf(r)].state
          /\ row'[KeyOf(r)].token = row[KeyOf(r)].token
          /\ row'[KeyOf(r)].ttl = Less(row[KeyOf(r)].ttl)
      BY <1>0, <2>1 DEF Elapsed, Row
    <3>3. age'[r] + Less(row[KeyOf(r)].ttl) >= Ttl
      BY <1>0, <1>2, <2>2, <3>1 DEF Less
    <3>4. QED
      BY <1>0, <1>2, <2>1, <2>2, <3>1, <3>2, <3>3 DEF Sealed
  <2>3. QED
    BY <1>2, <2>1, <2>2
<1>4. CASE ~GateTick
  <2>1. age' = age /\ StoreMoves
    BY <1>0, <1>4, NoTickInGate
  <2>2. pc'[r] \notin Sealed => age'[r] = 0
    BY <1>1, <1>2, <2>1
  <2>3. CASE pc[r] = "created"
    <3>1. SUFFICES ASSUME age[r] < Ttl
                   PROVE  /\ Mine(r)'.state = "oversized"
                          /\ Mine(r)'.token = claim'[r]
                          /\ age[r] + Mine(r)'.ttl >= Ttl
      BY <2>1, <2>2
    <3>2. row[KeyOf(r)].state = "oversized" /\ row[KeyOf(r)].ttl # 0
      BY <1>0, <1>2, <2>3, <3>1 DEF Row
    <3>3. row'[KeyOf(r)] = row[KeyOf(r)]
      BY <1>0, <2>1, <3>2, TombstoneKept
    <3>4. QED
      BY <1>0, <1>1, <1>2, <2>3, <3>1, <3>3 DEF Sealed
  <2>4. CASE pc[r] # "created" /\ pc'[r] = "created"
    <3>1. Complete(r) /\ Completes(r) /\ pc[r] = "confirmed"
      BY <1>1, <2>4 DEF Complete
    <3>2. row'[KeyOf(r)] = Recorded(Mine(r), "oversized")
      BY <1>0, <2>4, <3>1, ReservationMade
    <3>3. Mine(r).token = claim[r] /\ claim' = claim /\ age[r] = 0
      BY <1>2, <3>1 DEF Completes, Holds, Complete, Sealed
    <3>4. /\ row'[KeyOf(r)].state = "oversized" /\ row'[KeyOf(r)].ttl = Ttl
          /\ row'[KeyOf(r)].token = Mine(r).token
      BY <1>0, <3>2 DEF Recorded, Row
    <3>5. QED
      BY <1>0, <2>1, <2>4, <3>3, <3>4 DEF Sealed
  <2>5. QED
    BY <2>1, <2>2, <2>3, <2>4
<1>5. QED
  BY <1>3, <1>4
-----------------------------------------------------------------------------
(* Who goes to its sink *)

(* Passing begins with an assertion that finds the fence in force. *)
LEMMA NewlyPassed ==
    ASSUME GateTypeOK, [GateNext]_gateVars, NEW r \in Request, Passed(r)'
    PROVE  Passed(r) \/ (AssertCommit(r) /\ FenceHolds(r))
<1>0. stage \in [Request -> Stage]
  BY DEF GateTypeOK
<1>1. ASSUME NEW q \in Request, Gate(q)
      PROVE  Passed(r) \/ (AssertCommit(r) /\ FenceHolds(r))
  <2>1. CASE AssertReserve(q)
    BY <1>0, <2>1 DEF AssertReserve, GoOn, Passed
  <2>2. CASE Execute(q) \/ Refuse(q)
    BY <1>0, <2>2 DEF Execute, Refuse, GoOn, Passed
  <2>3. CASE AssertCommit(q)
    BY <1>0, <2>3 DEF AssertCommit, GoOn, Passed
  <2>4. CASE Commit(q) \/ Call(q)
    BY <1>0, <2>4 DEF Commit, Call, GoOn, Passed
  <2>5. CASE GateCrash(q)
    BY <1>0, <2>5 DEF GateCrash, GoOn, Passed
  <2>6. QED
    BY <1>1, <2>1, <2>2, <2>3, <2>4, <2>5 DEF Gate
<1>2. CASE Lapse \/ Grant \/ GateTick \/ UNCHANGED gateVars
  BY <1>2 DEF Lapse, Grant, GateTick, gateVars, Passed
<1>3. QED
  BY <1>1, <1>2 DEF GateNext

LEMMA StageStep == GInv /\ [GateNext]_gateVars => StageInv'
<1> SUFFICES ASSUME GInv, [GateNext]_gateVars, NEW r \in Request, Passed(r)'
             PROVE  pc'[r] = "created"
  BY DEF StageInv
<1>1. pc[r] = "created"
  BY NewlyPassed DEF GInv, StageInv, AssertCommit, Reserved
<1>2. TypeOK /\ [Next]_vars
  BY GateStepsStore DEF GInv, GateTypeOK
<1>3. QED
  BY <1>1, <1>2, RequestMoves DEF Sealed

(* A claim that has ended does not come back: the next one has a larger    *)
(* fence.                                                                  *)
LEMMA OverForGood ==
    ASSUME GInv, [GateNext]_gateVars, NEW r \in Request, Over(r)
    PROVE  Over(r)'
<1>0. /\ newest \in Nat /\ FenceOf(r)' = FenceOf(r)
      /\ FenceOf(r) # NoFence /\ FenceOf(r) \in Nat
      /\ newest > FenceOf(r) \/ (newest = FenceOf(r) /\ ~active)
  BY GateStepsStore, AskedForGood, GateAssumption
     DEF GInv, GateTypeOK, TypeOK, FenceOf, Over
<1>1. CASE Grant
  <2>1. newest' \in Nat /\ newest' > newest
    BY <1>1, GateAssumption DEF Grant
  <2>2. QED
    BY <1>0, <2>1 DEF Over
<1>2. CASE ~Grant
  <2>1. newest' = newest /\ (active' = active \/ active' = FALSE)
    BY <1>2 DEF GateNext, Gate, AssertReserve, Execute, Refuse, AssertCommit, Commit, Call,
       GateCrash, Lapse, GateTick, gateVars
  <2>2. QED
    BY <1>0, <2>1 DEF Over
<1>3. QED
  BY <1>1, <1>2

LEMMA StaleForGood ==
    ASSUME GInv, [GateNext]_gateVars, NEW r \in Request, Stale(r)
    PROVE  Stale(r)'
<1>1. ~FenceHolds(r)
  <2>1. FenceOf(r) # newest \/ ~active
    BY GateAssumption DEF Stale, Over, GInv, GateTypeOK, TypeOK, FenceOf
  <2>2. QED
    BY <2>1 DEF Stale, Over, FenceHolds
<1>2. ~Passed(r)'
  BY <1>1, NewlyPassed DEF Stale, Passed, GInv
<1>3. QED
  BY <1>2, OverForGood DEF Stale, Passed

-----------------------------------------------------------------------------
(* The properties *)

LEMMA GateStarts == GateInit => GInv
<1> SUFFICES ASSUME GateInit PROVE GInv
  OBVIOUS
<1>1. TypeOK /\ ClaimInv
  BY TypeInit, ClaimInit DEF GateInit
<1>2. GateTypeOK
  <2>1. stage \in [Request -> Stage] /\ age \in [Request -> 0..Ttl]
    BY TimesAssumption DEF GateInit, Stage
  <2>2. newest \in Nat /\ active \in BOOLEAN
    BY DEF GateInit
  <2>3. QED
    BY <1>1, <2>1, <2>2 DEF GateTypeOK
<1>3. StandInv /\ StageInv
  BY DEF GateInit, Init, StandInv, StageInv, Passed, Sealed
<1>4. QED
  BY <1>1, <1>2, <1>3 DEF GInv

LEMMA GateStep == GInv /\ [GateNext]_gateVars => GInv'
  BY GateStepsStore, GateTypeStep, ClaimStep, StandStep, StageStep DEF GInv, GateTypeOK

(* Every reachable state of the gate has the inductive invariant.          *)
THEOREM GateInvariance == GateSpec => []GInv
  BY GateStarts, GateStep, PTL DEF GateSpec

(* Every reachable state of the gate is well typed.                        *)
THEOREM GateTypeCorrect == GateSpec => []GateTypeOK
<1>1. GInv => GateTypeOK
  BY DEF GInv
<1>2. QED
  BY <1>1, GateInvariance, PTL

(* An effect is attempted at most once in a retention, by however many     *)
(* processes, with crashes, lost acknowledgements and changes of owner.    *)
THEOREM EffectsAttemptedOnce == GateSpec => []OneAttempt
<1>1. GInv => OneAttempt
  <2> SUFFICES ASSUME GInv, NEW r \in Request, NEW s \in Request,
                      r # s, KeyOf(r) = KeyOf(s), Attempted(r), Attempted(s),
                      age[r] # Ttl, age[s] # Ttl
               PROVE  FALSE
    BY DEF OneAttempt
  <2>1. /\ pc[r] = "created" /\ pc[s] = "created"
        /\ age[r] < Ttl /\ age[s] < Ttl
    BY TimesAssumption DEF GInv, StageInv, GateTypeOK, Attempted, Passed
  <2>2. Mine(r).token = claim[r] /\ Mine(s).token = claim[s]
    BY <2>1 DEF GInv, StandInv
  <2>3. claim[r] = claim[s]
    BY <2>2 DEF Mine
  <2>4. QED
    BY <2>1, <2>3 DEF GInv, ClaimInv
<1>2. QED
  BY <1>1, GateInvariance, PTL

(* Nothing removes the tombstone of a reserved effect in its retention,    *)
(* whether its owner went on, was refused or died.                         *)
THEOREM TombstonesStand == GateSpec => []TombstoneStands
<1>1. GInv => TombstoneStands
  BY DEF GInv, StandInv, TombstoneStands
<1>2. QED
  BY <1>1, GateInvariance, PTL

(* An owner whose claim ends before its second assertion stays stale: no   *)
(* later claim of the task lets it pass (assertActiveFence).               *)
THEOREM StaleOwnersStayStale == GateSpec => StaleOwnersStop
<1>1. GInv /\ [GateNext]_gateVars => [\A r \in Request : Stale(r) => Stale(r)']_gateVars
  BY StaleForGood
<1>2. QED
  BY <1>1, GateInvariance, PTL DEF GateSpec, StaleOwnersStop

(* What follows for the sink: once an owner is stale, its effect is never  *)
(* attempted (assertActiveFence).                                          *)
THEOREM StaleOwnersNeverAttempt ==
    ASSUME NEW r \in Request
    PROVE  GateSpec => [](Stale(r) => []~Attempted(r))
<1>1. GInv /\ [GateNext]_gateVars /\ Stale(r) => Stale(r)'
  BY StaleForGood
<1>2. Stale(r) => ~Attempted(r)
  BY DEF Stale, Attempted
<1>3. QED
  BY <1>1, <1>2, GateInvariance, PTL DEF GateSpec
=============================================================================
