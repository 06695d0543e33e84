--------------------- MODULE PostgresIdempotencyProofs ---------------------
(***************************************************************************)
(* Proofs about PostgresIdempotency, for any set of requests, keys and     *)
(* payloads, and any lease, retention, wait and capacity.                  *)
(***************************************************************************)
EXTENDS PostgresIdempotency, TLAPS

(* A row that is gone was gone for the whole retention, and a settled row  *)
(* is as old as its retention is used up.  This makes AtMostOnce           *)
(* inductive: it ties the expires_at column to the time since an owner was *)
(* last alive.                                                             *)
RetentionInv ==
    \A k \in Key :
        /\ row[k].state = "absent" => quiet[k] = Ttl
        /\ row[k].state \in Settled => quiet[k] + row[k].ttl >= Ttl

IInv == TypeOK /\ RetentionInv

-----------------------------------------------------------------------------
(* The row operators *)

LEMMA LessRange ==
    ASSUME NEW b \in Nat, NEW n \in 0..b
    PROVE  Less(n) \in 0..b
  BY DEF Less

LEMMA NextRange ==
    ASSUME NEW b \in Nat, NEW n \in 0..b, n # b
    PROVE  n + 1 \in 0..b
  OBVIOUS

LEMMA RowOperators ==
    ASSUME NEW e \in Row
    PROVE  /\ Absent \in Row
           /\ Renewed(e) \in Row
           /\ \A v \in Settled : Recorded(e, v) \in Row
           /\ MarkedUnknown(e) \in Row
           /\ Retained(Swept(e)) \in Row
           /\ Elapsed(e) \in Row
<1>1. /\ Ttl \in 0..Ttl /\ Lease \in 0..Lease /\ 0 \in 0..Ttl /\ 0 \in 0..Lease
      /\ Less(e.lease) \in 0..Lease /\ Less(e.ttl) \in 0..Ttl
  BY TimesAssumption DEF Row, Less
<1>2. Settled \subseteq RowState /\ {"absent", "unknown"} \subseteq RowState
  BY DEF RowState, Settled
<1>3. Absent \in Row
  BY <1>1, <1>2 DEF Row, Absent
<1>4. Renewed(e) \in Row
  BY <1>1 DEF Row, Renewed
<1>5. ASSUME NEW v \in Settled PROVE Recorded(e, v) \in Row
  BY <1>1, <1>2 DEF Row, Recorded
<1>6. MarkedUnknown(e) \in Row
  BY <1>1, <1>2 DEF Row, MarkedUnknown
<1>7. Retained(Swept(e)) \in Row
  BY <1>3, <1>6 DEF Retained, Swept
<1>8. Elapsed(e) \in Row
  BY <1>1 DEF Row, Elapsed
<1>9. QED
  BY <1>3, <1>4, <1>5, <1>6, <1>7, <1>8

LEMMA NewRow ==
    ASSUME NEW fp \in Fingerprint, NEW t \in Nat
    PROVE  InFlightRow(fp, t) \in Row
  BY TimesAssumption DEF Row, RowState, InFlightRow

(* What expire-leases and delete-expired do to one row. *)
LEMMA SweptCases ==
    ASSUME NEW e \in Row
    PROVE  \/ Retained(Swept(e)) = e
           \/ Lapsed(e) /\ Retained(Swept(e)) = MarkedUnknown(e)
           \/ e.state \in Settled /\ e.ttl = 0 /\ Retained(Swept(e)) = Absent
  BY TimesAssumption DEF Row, RowState, Settled, Absent, MarkedUnknown,
     Retained, Swept, Lapsed

LEMMA DecodedPc ==
    ASSUME NEW e, NEW fp
    PROVE  Decode(e, fp) \in Polling \cup Answer
  BY DEF Decode, Polling, Answer

-----------------------------------------------------------------------------
(* Type correctness *)

LEMMA TypeInit == Init => TypeOK
  BY RowOperators, TimesAssumption
     DEF Init, TypeOK, Absent, Row, RowState, Settled, Answer, Owning, Polling

LEMMA TableType == TypeOK => Table \in [Key -> Row]
  BY RowOperators DEF TypeOK, Table

LEMMA TypeStep == TypeOK /\ [Next]_vars => TypeOK'
<1> SUFFICES ASSUME TypeOK, [Next]_vars PROVE TypeOK'
  OBVIOUS
<1> USE DEF TypeOK
<1>a. Table \in [Key -> Row]
  BY TableType
<1>b. ASSUME NEW r \in Request
      PROVE  /\ ask[r].fp \in Fingerprint
             /\ KeyOf(r) \in Key
             /\ Mine(r) \in Row
  BY DEF KeyOf, Mine
<1>1. ASSUME NEW r \in Request, ReadExisting(r) PROVE TypeOK'
  <2>1. Table[KeyOf(r)].token \in Nat
    BY <1>a, <1>b DEF Row
  <2>2. QED
    BY <1>1, <1>a, <2>1, DecodedPc, TimesAssumption DEF ReadExisting, Goto
<1>2. ASSUME NEW r \in Request, RefuseFull(r) PROVE TypeOK'
  BY <1>2, <1>a DEF RefuseFull, Goto, Answer
<1>3. ASSUME NEW r \in Request, Insert(r)
      PROVE  /\ row' \in [Key -> Row]
             /\ lastToken' \in Nat
             /\ quiet' \in [Key -> 0..Ttl]
  <2>1. InFlightRow(ask[r].fp, lastToken + 1) \in Row
    BY <1>b, NewRow
  <2>2. QED
    BY <1>3, <1>a, <1>b, <2>1, TimesAssumption DEF Insert
<1>4. ASSUME NEW r \in Request, Claim(r) PROVE TypeOK'
  BY <1>3, <1>4 DEF Claim, Insert, Goto, Owning
<1>5. ASSUME NEW r \in Request, LoseClaim(r) PROVE TypeOK'
  BY <1>3, <1>5 DEF LoseClaim, Insert, Goto, Answer
<1>6. ASSUME NEW r \in Request, FailToClaim(r) PROVE TypeOK'
  BY <1>6 DEF FailToClaim, Goto, Answer
<1>7. ASSUME NEW r \in Request, Heartbeat(r) PROVE TypeOK'
  <2>1. Renewed(Mine(r)) \in Row
    BY <1>b, RowOperators
  <2>2. row' \in [Key -> Row]
    BY <1>7, <1>b, <2>1 DEF Heartbeat, SetMine
  <2>3. leaseLost' \in [Request -> BOOLEAN]
    BY <1>7 DEF Heartbeat
  <2>4. QED
    BY <1>7, <2>2, <2>3 DEF Heartbeat
<1>8. ASSUME NEW r \in Request, HeartbeatFails(r) PROVE TypeOK'
  <2>1. Renewed(Mine(r)) \in Row
    BY <1>b, RowOperators
  <2>2. row' \in [Key -> Row]
    BY <1>8, <1>b, <2>1 DEF HeartbeatFails, SetMine
  <2>3. leaseLost' \in [Request -> BOOLEAN]
    BY <1>8 DEF HeartbeatFails
  <2>4. QED
    BY <1>8, <2>2, <2>3 DEF HeartbeatFails
<1>9. ASSUME NEW r \in Request, OperationEnds(r) PROVE TypeOK'
  BY <1>9 DEF OperationEnds, Goto, Owning
<1>10. ASSUME NEW r \in Request, ConfirmLease(r) PROVE TypeOK'
  <2>1. Renewed(Mine(r)) \in Row
    BY <1>b, RowOperators
  <2>2. row' \in [Key -> Row]
    BY <1>10, <1>b, <2>1 DEF ConfirmLease, SetMine
  <2>3. pc' \in [Request -> Owning \cup Polling \cup Answer \cup {"idle", "crashed"}]
    BY <1>10 DEF ConfirmLease, Goto, Owning, Answer
  <2>4. QED
    BY <1>10, <2>2, <2>3 DEF ConfirmLease
<1>11. ASSUME NEW r \in Request, Complete(r) PROVE TypeOK'
  <2>1. \A v \in {"completed", "oversized"} : Recorded(Mine(r), v) \in Row
    BY <1>b, RowOperators DEF Settled
  <2>2. row' \in [Key -> Row]
    BY <1>11, <1>b, <2>1 DEF Complete, SetMine
  <2>3. pc' \in [Request -> Owning \cup Polling \cup Answer \cup {"idle", "crashed"}]
    BY <1>11 DEF Complete, Goto, Answer
  <2>4. QED
    BY <1>11, <2>2, <2>3 DEF Complete
<1>12. ASSUME NEW r \in Request, RecordFailure(r) PROVE TypeOK'
  <2>1. Recorded(Mine(r), "failed") \in Row
    BY <1>b, RowOperators DEF Settled
  <2>2. row' \in [Key -> Row]
    BY <1>12, <1>b, <2>1 DEF RecordFailure, SetMine
  <2>3. pc' \in [Request -> Owning \cup Polling \cup Answer \cup {"idle", "crashed"}]
    BY <1>12 DEF RecordFailure, Goto, Answer
  <2>4. QED
    BY <1>12, <2>2, <2>3 DEF RecordFailure
<1>13. ASSUME NEW r \in Request, Poll(r) PROVE TypeOK'
  <2>1. Mine(r).token \in Nat
    BY <1>b DEF Row
  <2>2. QED
    BY <1>13, <2>1, DecodedPc DEF Poll, Goto, Polling, Answer
<1>14. ASSUME NEW r \in Request, MarkUnknown(r) PROVE TypeOK'
  BY <1>14, <1>b, RowOperators DEF MarkUnknown, SetMine, Goto, Polling
<1>15. ASSUME NEW r \in Request, Reread(r) PROVE TypeOK'
  <2>1. Mine(r).token \in Nat
    BY <1>b DEF Row
  <2>2. QED
    BY <1>15, <2>1, DecodedPc DEF Reread, Goto, Polling, Answer
<1>16. ASSUME NEW r \in Request, PollFails(r) PROVE TypeOK'
  BY <1>16 DEF PollFails, Goto, Answer
<1>17. ASSUME NEW r \in Request, GiveUp(r) PROVE TypeOK'
  BY <1>17 DEF GiveUp, Goto, Answer
<1>18. ASSUME NEW r \in Request, Crash(r) PROVE TypeOK'
  BY <1>18 DEF Crash, Goto
<1>19. CASE Tick
  <2>1. row' \in [Key -> Row]
    BY <1>19, RowOperators DEF Tick
  <2>2. \A r \in Request : Less(wait[r]) \in 0..InFlightWait
    BY LessRange, TimesAssumption
  <2>3. \A k \in Key : quiet[k] # Ttl => quiet[k] + 1 \in 0..Ttl
    BY TimesAssumption, NextRange
  <2>4. wait' \in [Request -> 0..InFlightWait]
    BY <1>19, <2>2 DEF Tick
  <2>5. quiet' \in [Key -> 0..Ttl]
    BY <1>19, <2>3 DEF Tick, Live
  <2>6. QED
    BY <1>19, <2>1, <2>4, <2>5 DEF Tick
<1>20. CASE UNCHANGED vars
  BY <1>20 DEF vars
<1>21. QED
  BY <1>1, <1>2, <1>4, <1>5, <1>6, <1>7, <1>8, <1>9, <1>10, <1>11, <1>12,
     <1>13, <1>14, <1>15, <1>16, <1>17, <1>18, <1>19, <1>20
     DEF Next, ClaimOrRead, ExecuteOwned, WaitForOwner

(* Every reachable state is well typed. *)
THEOREM TypeCorrect == Spec => []TypeOK
  BY TypeInit, TypeStep, PTL DEF Spec

-----------------------------------------------------------------------------
(* Every action seen from one row: what it may do to the row, to the age   *)
(* of its last lease, and to the sequence.                                 *)

(* The row is left alone or its lease is renewed. *)
Untouched(k) ==
    /\ \/ row'[k] = row[k]
       \/ Live(row[k]) /\ row'[k] = Renewed(row[k])
    /\ quiet'[k] = quiet[k]

(* Its owner, or the expiry of its lease, settles it. *)
SettledNow(k) ==
    /\ row[k].state = "in_flight"
    /\ \E v \in Settled : row'[k] = Recorded(row[k], v)
    /\ quiet'[k] = quiet[k]

(* Its retention is over. *)
Removed(k) ==
    /\ row[k].state \in Settled
    /\ row[k].ttl = 0
    /\ row'[k] = Absent
    /\ quiet'[k] = quiet[k]

(* It is claimed anew. *)
Claimed(k) ==
    /\ \/ row[k].state = "absent"
       \/ row[k].state \in Settled /\ row[k].ttl = 0
    /\ lastToken' = lastToken + 1
    /\ \E fp \in Fingerprint : row'[k] = InFlightRow(fp, lastToken')
    /\ quiet'[k] = 0

(* Time passes. *)
Aged(k) ==
    /\ row'[k] = Elapsed(row[k])
    /\ quiet'[k] = IF Live(row[k]) \/ quiet[k] = Ttl THEN quiet[k] ELSE quiet[k] + 1

Quiet(k) == Untouched(k) \/ SettledNow(k) \/ Removed(k)

StoreMoves ==
    \/ /\ \A k \in Key : Quiet(k)
       /\ lastToken' \in {lastToken, lastToken + 1}
    \/ \E k \in Key : /\ Claimed(k)
                      /\ \A j \in Key \ {k} : Quiet(j)

RowsMove ==
    \/ /\ \A k \in Key : Aged(k)
       /\ lastToken' = lastToken
    \/ StoreMoves

LEMMA MarkedIsRecorded ==
    ASSUME NEW e \in Row, Lapsed(e)
    PROVE  MarkedUnknown(e) = Recorded(e, "unknown")
  BY DEF Row, Lapsed, MarkedUnknown, Recorded

LEMMA SweepMoves ==
    ASSUME TypeOK, NEW k \in Key, row'[k] = Table[k], quiet'[k] = quiet[k]
    PROVE  Quiet(k)
<1>1. row[k] \in Row /\ Table[k] = Retained(Swept(row[k]))
  BY DEF TypeOK, Table
<1>2. CASE Retained(Swept(row[k])) = row[k]
  BY <1>1, <1>2 DEF Quiet, Untouched
<1>3. CASE Lapsed(row[k]) /\ Retained(Swept(row[k])) = MarkedUnknown(row[k])
  <2>1. row'[k] = Recorded(row[k], "unknown") /\ "unknown" \in Settled
    BY <1>1, <1>3, MarkedIsRecorded DEF Settled
  <2>2. QED
    BY <2>1, <1>3 DEF Quiet, SettledNow, Lapsed
<1>4. CASE row[k].state \in Settled /\ row[k].ttl = 0
             /\ Retained(Swept(row[k])) = Absent
  BY <1>1, <1>4 DEF Quiet, Removed
<1>5. QED
  BY <1>1, <1>2, <1>3, <1>4, SweptCases

LEMMA InsertMoves ==
    ASSUME TypeOK, NEW r \in Request, Insert(r)
    PROVE  StoreMoves
<1>1. KeyOf(r) \in Key /\ ask[r].fp \in Fingerprint /\ Table \in [Key -> Row]
  BY TableType DEF TypeOK, KeyOf
<1>2. ASSUME NEW j \in Key \ {KeyOf(r)} PROVE Quiet(j)
  <2>1. row'[j] = Table[j] /\ quiet'[j] = quiet[j]
    BY <1>1 DEF Insert, TypeOK
  <2>2. QED
    BY <2>1, SweepMoves
<1>3. Claimed(KeyOf(r))
  <2>1. Retained(Swept(row[KeyOf(r)])).state = "absent" /\ row[KeyOf(r)] \in Row
    BY <1>1 DEF Insert, Table, TypeOK
  <2>2. \/ row[KeyOf(r)].state = "absent"
        \/ row[KeyOf(r)].state \in Settled /\ row[KeyOf(r)].ttl = 0
    BY <2>1, SweptCases DEF MarkedUnknown, Row
  <2>3. row'[KeyOf(r)] = InFlightRow(ask[r].fp, lastToken') /\ quiet'[KeyOf(r)] = 0
    BY <1>1 DEF Insert, TypeOK
  <2>4. QED
    BY <1>1, <2>2, <2>3 DEF Claimed, Insert
<1>4. QED
  BY <1>1, <1>2, <1>3 DEF StoreMoves

LEMMA NoRowMoves ==
    ASSUME row' = row, quiet' = quiet, lastToken' \in {lastToken, lastToken + 1}
    PROVE  StoreMoves
  BY DEF StoreMoves, Quiet, Untouched

LEMMA SweptRowsMove ==
    ASSUME TypeOK, row' = Table, quiet' = quiet, lastToken' = lastToken
    PROVE  StoreMoves
  BY SweepMoves DEF StoreMoves

(* A renewal, or a record of the outcome, of the one row of a request. *)
LEMMA OneRowMoves ==
    ASSUME TypeOK, NEW r \in Request, NEW e,
           SetMine(r, e), quiet' = quiet, lastToken' = lastToken,
           \/ Live(Mine(r)) /\ e = Renewed(Mine(r))
           \/ Mine(r).state = "in_flight" /\ \E v \in Settled : e = Recorded(Mine(r), v)
    PROVE  StoreMoves
<1>1. KeyOf(r) \in Key /\ row' = [row EXCEPT ![KeyOf(r)] = e] /\ row \in [Key -> Row]
  BY DEF TypeOK, KeyOf, SetMine
<1>2. Quiet(KeyOf(r))
  BY <1>1 DEF Quiet, Untouched, SettledNow, Mine
<1>3. ASSUME NEW j \in Key \ {KeyOf(r)} PROVE Quiet(j)
  BY <1>1 DEF Quiet, Untouched
<1>4. QED
  BY <1>2, <1>3 DEF StoreMoves

LEMMA HolderIsLive ==
    ASSUME NEW e, NEW t, Holds(e, t)
    PROVE  Live(e) /\ e.state = "in_flight"
  BY DEF Holds, Live

(* Whatever a request does, and however it is cut off. *)
LEMMA RequestMovesStore ==
    ASSUME TypeOK, NEW r \in Request,
           \/ ClaimOrRead(r) \/ ExecuteOwned(r) \/ WaitForOwner(r)
           \/ PollFails(r) \/ Crash(r)
    PROVE  StoreMoves
<1>1. ASSUME ReadExisting(r) \/ RefuseFull(r) PROVE StoreMoves
  BY <1>1, SweptRowsMove DEF ReadExisting, RefuseFull
<1>2. ASSUME Claim(r) \/ LoseClaim(r) PROVE StoreMoves
  BY <1>2, InsertMoves DEF Claim, LoseClaim
<1>3. ASSUME FailToClaim(r) PROVE StoreMoves
  BY <1>3, NoRowMoves DEF FailToClaim
<1>4. ASSUME Heartbeat(r) \/ HeartbeatFails(r) PROVE StoreMoves
  <2>1. quiet' = quiet /\ lastToken' = lastToken
    BY <1>4 DEF Heartbeat, HeartbeatFails
  <2>2. \/ row' = row
        \/ Holds(Mine(r), claim[r]) /\ SetMine(r, Renewed(Mine(r)))
    BY <1>4 DEF Heartbeat, HeartbeatFails
  <2>3. QED
    BY <2>1, <2>2, NoRowMoves, OneRowMoves, HolderIsLive
<1>5. ASSUME ConfirmLease(r) PROVE StoreMoves
  <2>1. quiet' = quiet /\ lastToken' = lastToken
    BY <1>5 DEF ConfirmLease
  <2>2. \/ row' = row
        \/ Holds(Mine(r), claim[r]) /\ SetMine(r, Renewed(Mine(r)))
    BY <1>5 DEF ConfirmLease
  <2>3. QED
    BY <2>1, <2>2, NoRowMoves, OneRowMoves, HolderIsLive
<1>6. ASSUME Complete(r) \/ RecordFailure(r) PROVE StoreMoves
  <2>1. quiet' = quiet /\ lastToken' = lastToken
    BY <1>6 DEF Complete, RecordFailure
  <2>2. \/ row' = row
        \/ \E v \in Settled : /\ Holds(Mine(r), claim[r])
                              /\ SetMine(r, Recorded(Mine(r), v))
    BY <1>6 DEF Complete, RecordFailure, Settled
  <2>3. QED
    BY <2>1, <2>2, NoRowMoves, OneRowMoves, HolderIsLive
<1>7. ASSUME MarkUnknown(r) PROVE StoreMoves
  <2>1. quiet' = quiet /\ lastToken' = lastToken
    BY <1>7 DEF MarkUnknown
  <2>2. CASE row' = row
    BY <2>1, <2>2, NoRowMoves
  <2>3. CASE Lapsed(Mine(r)) /\ SetMine(r, MarkedUnknown(Mine(r)))
    <3>1. Mine(r) \in Row /\ "unknown" \in Settled /\ Mine(r).state = "in_flight"
      BY <2>3 DEF TypeOK, KeyOf, Mine, Settled, Lapsed
    <3>2. MarkedUnknown(Mine(r)) = Recorded(Mine(r), "unknown")
      BY <2>3, <3>1, MarkedIsRecorded
    <3>3. QED
      BY <2>1, <2>3, <3>1, <3>2, OneRowMoves
  <2>4. QED
    BY <1>7, <2>2, <2>3 DEF MarkUnknown
<1>8. ASSUME \/ OperationEnds(r) \/ Poll(r) \/ Reread(r) \/ PollFails(r)
             \/ GiveUp(r) \/ Crash(r)
      PROVE  StoreMoves
  <2>1. UNCHANGED <<row, quiet, lastToken>>
    BY <1>8 DEF OperationEnds, Poll, Reread, PollFails, GiveUp, Crash
  <2>2. QED
    BY <2>1, NoRowMoves
<1>9. QED
  BY <1>1, <1>2, <1>3, <1>4, <1>5, <1>6, <1>7, <1>8
     DEF ClaimOrRead, ExecuteOwned, WaitForOwner

LEMMA StoreOrTick == TypeOK /\ [Next]_vars => StoreMoves \/ Tick
  BY RequestMovesStore, NoRowMoves DEF Next, vars

LEMMA TickMoves == TypeOK /\ Tick => (\A k \in Key : Aged(k)) /\ lastToken' = lastToken
  BY DEF Tick, Aged, TypeOK

LEMMA NextMoves == TypeOK /\ [Next]_vars => RowsMove
  BY StoreOrTick, TickMoves DEF RowsMove

-----------------------------------------------------------------------------
(* The retention invariant *)

LEMMA RetentionInit == Init => RetentionInv
  BY DEF Init, RetentionInv, Absent, Settled

LEMMA RetentionStep == TypeOK /\ RetentionInv /\ RowsMove => RetentionInv'
<1> SUFFICES ASSUME TypeOK, RetentionInv, RowsMove, NEW k \in Key
             PROVE  /\ row'[k].state = "absent" => quiet'[k] = Ttl
                    /\ row'[k].state \in Settled => quiet'[k] + row'[k].ttl >= Ttl
  BY DEF RetentionInv
<1>1. /\ row[k] \in Row
      /\ quiet[k] \in 0..Ttl
      /\ row[k].state = "absent" => quiet[k] = Ttl
      /\ row[k].state \in Settled => quiet[k] + row[k].ttl >= Ttl
      /\ Ttl \in Nat
  BY TimesAssumption DEF TypeOK, RetentionInv
<1>2. CASE Untouched(k)
  BY <1>1, <1>2 DEF Untouched, Renewed, Row, Live
<1>3. CASE SettledNow(k)
  BY <1>1, <1>3 DEF SettledNow, Recorded, Row, Settled
<1>4. CASE Removed(k)
  BY <1>1, <1>4 DEF Removed, Absent, Row, Settled
<1>5. CASE Claimed(k)
  BY <1>5 DEF Claimed, InFlightRow, Settled
<1>6. CASE Aged(k)
  <2>1. row'[k].state = row[k].state /\ row'[k].ttl = Less(row[k].ttl)
    BY <1>1, <1>6 DEF Aged, Elapsed, Row
  <2>2. CASE row[k].state = "absent"
    BY <1>1, <1>6, <2>1, <2>2 DEF Aged, Live, Settled
  <2>3. CASE row[k].state \in Settled
    <3>1. ~Live(row[k])
      BY <2>3 DEF Live, Settled
    <3>2. row[k].ttl \in Nat
      BY <1>1 DEF Row
    <3>3. QED
      BY <1>1, <1>6, <2>1, <2>3, <3>1, <3>2 DEF Aged, Less, Settled
  <2>4. QED
    BY <2>1, <2>2, <2>3
<1>7. QED
  BY <1>2, <1>3, <1>4, <1>5, <1>6 DEF RowsMove, StoreMoves, Quiet

(* Every reachable state is well typed and has RetentionInv. *)
THEOREM Invariance == Spec => []IInv
<1>1. Init => IInv
  BY TypeInit, RetentionInit DEF IInv
<1>2. IInv /\ [Next]_vars => IInv'
  BY TypeStep, NextMoves, RetentionStep DEF IInv
<1>3. QED
  BY <1>1, <1>2, PTL DEF Spec

-----------------------------------------------------------------------------
(* The table implements the register *)

Cells == [k \in Key |-> Cell(row[k])]

LEMMA RegisterInit == Init => Register!Init
  BY DEF Init, Register!Init, Register!Free, Cell, Absent

LEMMA QuietSettles ==
    ASSUME TypeOK, RetentionInv, NEW k \in Key, Quiet(k)
    PROVE  Register!Settle(k)
<1>1. /\ row[k] \in Row
      /\ quiet[k] \in 0..Ttl
      /\ Ttl \in Nat
      /\ row[k].state \in Settled => quiet[k] + row[k].ttl >= Ttl
  BY TimesAssumption DEF TypeOK, RetentionInv
<1>2. Cells[k] = Cell(row[k]) /\ Cells'[k] = Cell(row'[k])
  BY DEF Cells
<1>3. CASE Untouched(k)
  <2>1. Cell(row'[k]) = Cell(row[k])
    BY <1>1, <1>3 DEF Untouched, Cell, Renewed, Row
  <2>2. Register!Keep(k)
    BY <1>2, <1>3, <2>1 DEF Cells, Untouched, Register!Keep
  <2>3. QED
    BY <2>2 DEF Register!Settle
<1>4. CASE SettledNow(k)
  <2>1. PICK v \in Settled : row'[k] = Recorded(row[k], v)
    BY <1>4 DEF SettledNow
  <2>2. /\ Cell(row'[k]) = Register!Closed(Cell(row[k]).token, v)
        /\ Cell(row[k]).phase = "open"
    BY <1>1, <1>4, <2>1 DEF SettledNow, Cell, Recorded, Row, Settled, Register!Closed
  <2>3. Register!Close(k)
    BY <1>2, <1>4, <2>2 DEF Cells, SettledNow, Register!Close
  <2>4. QED
    BY <2>3 DEF Register!Settle
<1>5. CASE Removed(k)
  <2>1. quiet[k] = Ttl
    BY <1>1, <1>5 DEF Removed
  <2>2. /\ Cell(row[k]).phase = "closed"
        /\ Cell(row'[k]) = Register!Free
    BY <1>5 DEF Removed, Cell, Settled, Absent, Register!Free
  <2>3. Register!Forget(k)
    BY <1>2, <1>5, <2>1, <2>2 DEF Cells, Removed, Register!Forget
  <2>4. QED
    BY <2>3 DEF Register!Settle
<1>6. QED
  BY <1>3, <1>4, <1>5 DEF Quiet

LEMMA AgedKeeps ==
    ASSUME TypeOK, NEW k \in Key, Aged(k)
    PROVE  Register!Settle(k)
<1>1. row[k] \in Row /\ quiet[k] \in 0..Ttl /\ Ttl \in Nat
  BY TimesAssumption DEF TypeOK
<1>2. Cell(row'[k]) = Cell(row[k])
  BY <1>1 DEF Aged, Cell, Elapsed, Row
<1>3. quiet'[k] \in {quiet[k], Register!Older(quiet[k])}
  BY <1>1 DEF Aged, Live, Register!Older
<1>4. Register!Keep(k)
  BY <1>2, <1>3 DEF Cells, Register!Keep
<1>5. QED
  BY <1>4 DEF Register!Settle

LEMMA ClaimedOpens ==
    ASSUME TypeOK, RetentionInv, NEW k \in Key, Claimed(k)
    PROVE  Register!Open(k)
<1>1. /\ row[k] \in Row /\ quiet[k] \in 0..Ttl /\ Ttl \in Nat /\ lastToken \in Nat
      /\ row[k].state = "absent" => quiet[k] = Ttl
      /\ row[k].state \in Settled => quiet[k] + row[k].ttl >= Ttl
  BY TimesAssumption DEF TypeOK, RetentionInv
<1>2. quiet[k] = Ttl /\ Cell(row[k]).phase # "open"
  BY <1>1 DEF Claimed, Cell, Settled
<1>3. Cell(row'[k]) = Register!Opened(lastToken')
  BY DEF Claimed, InFlightRow, Cell, Register!Opened
<1>4. lastToken' > lastToken /\ quiet'[k] = 0
  BY <1>1 DEF Claimed
<1>5. QED
  BY <1>2, <1>3, <1>4 DEF Register!Open

LEMMA RegisterStep == TypeOK /\ RetentionInv /\ RowsMove => Register!Next
<1> SUFFICES ASSUME TypeOK, RetentionInv, RowsMove PROVE Register!Next
  OBVIOUS
<1>1. CASE (\A k \in Key : Aged(k)) /\ lastToken' = lastToken
  BY <1>1, AgedKeeps DEF Register!Next
<1>2. CASE (\A k \in Key : Quiet(k)) /\ lastToken' \in {lastToken, lastToken + 1}
  BY <1>2, QuietSettles DEF Register!Next
<1>3. CASE \E k \in Key : Claimed(k) /\ \A j \in Key \ {k} : Quiet(j)
  BY <1>3, ClaimedOpens, QuietSettles DEF Register!Next
<1>4. QED
  BY <1>1, <1>2, <1>3 DEF RowsMove, StoreMoves

(* The coordinator implements OnceRegister: an operation is started at     *)
(* most once per identity and retention, and a recorded outcome is never   *)
(* overwritten, by however many requests and processes.                    *)
THEOREM Implementation == Spec => AtMostOnce
<1>1. Init => Register!Init
  BY RegisterInit
<1>2. IInv /\ [Next]_vars => [Register!Next]_(Register!vars)
  BY NextMoves, RegisterStep DEF IInv
<1>3. QED
  BY <1>1, <1>2, Invariance, PTL DEF Spec, AtMostOnce, Register!Spec

-----------------------------------------------------------------------------
(* What the requests are told.  The fencing token ties a reader to the     *)
(* owner that it was told about.  A token has one owner and one identity   *)
(* for ever, so what a row says of its token's owner when it is read stays *)
(* true when the row is settled, swept or claimed anew.                    *)

Kept == {"created", "created-unconfirmed"}

(* Where a request can stand that has drawn a token. *)
Owner == Owning \cup Kept \cup {"rethrown", "crashed"}

Exists(k) == row[k].state # "absent"

(* A token is drawn once, by one request, for its key and its payload. *)
TokenInv ==
    /\ \A k \in Key : Exists(k) => row[k].token \in 1..lastToken
    /\ \A r \in Request :
          /\ claim[r] <= lastToken
          /\ saw[r] <= lastToken
          /\ pc[r] \in Owning \cup Kept \cup {"rethrown"} => claim[r] # 0
          /\ claim[r] # 0 => pc[r] \in Owner
    /\ \A o, p \in Request : claim[o] # 0 /\ claim[o] = claim[p] => o = p
    /\ \A o \in Request, k \in Key :
          claim[o] # 0 /\ Exists(k) /\ row[k].token = claim[o] =>
             KeyOf(o) = k /\ row[k].fp = ask[o].fp

(* The owner o has not recorded a result, and never will. *)
Lost(o) == pc[o] # "created" /\ ~Holds(Mine(o), claim[o])

(* A row says of its owner what the owner was told; a completed one has an *)
(* owner.                                                                  *)
RowInv ==
    \A k \in Key :
        /\ \A o \in Request : claim[o] # 0 /\ Exists(k) /\ row[k].token = claim[o] =>
              /\ row[k].state \in {"completed", "oversized"} => pc[o] \in Kept
              /\ row[k].state = "failed" => pc[o] = "rethrown"
              /\ row[k].state \in {"in_flight", "unknown"} => pc[o] # "created"
        /\ row[k].state = "completed" =>
              \E o \in Request : /\ claim[o] = row[k].token
                                 /\ KeyOf(o) = k /\ ask[o].fp = row[k].fp
                                 /\ pc[o] \in Kept

(* So does the answer of a reader.  Where no remaining lease is rounded to *)
(* nothing, who saw a lapsed lease is right that its owner is lost.        *)
ReaderInv ==
    /\ \A o, r \in Request : claim[o] # 0 /\ saw[r] = claim[o] =>
          /\ pc[r] \in {"replayed", "not_replayable"} => pc[o] \in Kept
          /\ pc[r] = "previous_failed" => pc[o] = "rethrown"
          /\ Rounding = 0 /\ pc[r] \in {"expiring", "rereading", "previous_unknown"} => Lost(o)
    /\ ReplayFaithful

AnswerInv == TypeOK /\ TokenInv /\ RowInv /\ ReaderInv

-----------------------------------------------------------------------------
(* What a step may do, as far as tokens and answers go *)

(* A row stays what it is, is forgotten, or is lost by its owner. *)
Calm(k) ==
    \/ /\ row'[k].state = row[k].state
       /\ row'[k].token = row[k].token
       /\ row'[k].fp = row[k].fp
       /\ row'[k].lease > 0 => row[k].lease > 0
    \/ row'[k].state = "absent"
    \/ /\ Lapsed(row[k])
       /\ row'[k].state = "unknown"
       /\ row'[k].token = row[k].token
       /\ row'[k].fp = row[k].fp

AllCalm == \A k \in Key : Calm(k)

(* Only r moves. *)
Alone(r) ==
    /\ ask' = ask
    /\ \A o \in Request \ {r} : pc'[o] = pc[o] /\ claim'[o] = claim[o] /\ saw'[o] = saw[o]

Outside == {"idle"} \cup Polling

(* r is told what the row of its key says. *)
Reads(r) ==
    /\ AllCalm
    /\ pc[r] \in Outside
    /\ claim'[r] = claim[r]
    /\ lastToken' = lastToken
    /\ row'[KeyOf(r)].state # "absent"
    /\ saw'[r] = row'[KeyOf(r)].token
    /\ \/ pc'[r] = Decode(row'[KeyOf(r)], ask[r].fp)
       \/ /\ pc'[r] = "expiring"
          /\ row'[KeyOf(r)].state = "in_flight"
          /\ row'[KeyOf(r)].lease <= Rounding

(* r goes on, or gives up, without having read anything new. *)
Passes(r) ==
    /\ AllCalm
    /\ pc[r] \in Outside
    /\ claim'[r] = claim[r]
    /\ saw'[r] = saw[r]
    /\ lastToken' \in {lastToken, lastToken + 1}
    /\ \/ pc'[r] \in {"capacity", "unavailable", "in_progress", "crashed", "vanished"}
       \/ pc[r] = "expiring" /\ pc'[r] = "rereading"
       \/ pc[r] = "rereading" /\ pc'[r] = "previous_unknown"

(* r inserts a row, and may hear of it. *)
Opens(r) ==
    /\ \A k \in Key \ {KeyOf(r)} : Calm(k)
    /\ pc[r] = "idle"
    /\ saw'[r] = saw[r]
    /\ lastToken' = lastToken + 1
    /\ row'[KeyOf(r)] = InFlightRow(ask[r].fp, lastToken')
    /\ \/ claim'[r] = lastToken' /\ pc'[r] = "running"
       \/ claim'[r] = claim[r] /\ pc'[r] = "unavailable"

(* r is an owner and records nothing. *)
Works(r) ==
    /\ AllCalm
    /\ pc[r] \in Owning
    /\ claim'[r] = claim[r]
    /\ saw'[r] = saw[r]
    /\ lastToken' = lastToken
    /\ pc'[r] \in Owning \cup {"created-unconfirmed", "rethrown", "crashed"}

(* r is an owner and records what its caller is told. *)
Records(r) ==
    /\ \A k \in Key \ {KeyOf(r)} : Calm(k)
    /\ pc[r] \in Owning
    /\ claim'[r] = claim[r]
    /\ saw'[r] = saw[r]
    /\ lastToken' = lastToken
    /\ Holds(Mine(r), claim[r])
    /\ \/ /\ \E v \in {"completed", "oversized"} : row'[KeyOf(r)] = Recorded(Mine(r), v)
          /\ pc'[r] \in Kept
       \/ /\ row'[KeyOf(r)] = Recorded(Mine(r), "failed")
          /\ pc'[r] = "rethrown"

MovesAlone(r) == Alone(r) /\ (Reads(r) \/ Passes(r) \/ Opens(r) \/ Works(r) \/ Records(r))

(* Time passes, or nothing happens. *)
Ages == AllCalm /\ UNCHANGED <<ask, pc, claim, saw, lastToken>>

Step(r) == Ages \/ (r \in Request /\ MovesAlone(r))

LEMMA TableCalm ==
    ASSUME TypeOK, NEW k \in Key, row'[k] = Table[k]
    PROVE  Calm(k)
<1>1. row[k] \in Row /\ Table[k] = Retained(Swept(row[k]))
  BY DEF TypeOK, Table
<1>2. CASE Table[k] = row[k]
  BY <1>2 DEF Calm
<1>3. CASE Lapsed(row[k]) /\ Table[k] = MarkedUnknown(row[k])
  BY <1>1, <1>3 DEF Calm, MarkedUnknown, Row
<1>4. CASE Table[k] = Absent
  BY <1>4 DEF Calm, Absent
<1>5. QED
  BY <1>1, <1>2, <1>3, <1>4, SweptCases

LEMMA RowsCalm ==
    ASSUME TypeOK
    PROVE  /\ row' = row => AllCalm
           /\ row' = Table => AllCalm
<1>1. ASSUME row' = row, NEW k \in Key PROVE Calm(k)
  BY <1>1 DEF Calm
<1>2. ASSUME row' = Table, NEW k \in Key PROVE Calm(k)
  BY <1>2, TableCalm
<1>3. QED
  BY <1>1, <1>2 DEF AllCalm

LEMMA OneRowCalm ==
    ASSUME TypeOK, NEW r \in Request, NEW e \in Row, SetMine(r, e)
    PROVE  /\ \A k \in Key \ {KeyOf(r)} : Calm(k)
           /\ row'[KeyOf(r)] = e
           /\ Holds(Mine(r), claim[r]) /\ e = Renewed(Mine(r)) => AllCalm
           /\ Lapsed(Mine(r)) /\ e = MarkedUnknown(Mine(r)) => AllCalm
<1>1. /\ KeyOf(r) \in Key
      /\ row'[KeyOf(r)] = e
      /\ \A k \in Key \ {KeyOf(r)} : row'[k] = row[k]
      /\ Mine(r) \in Row /\ Mine(r) = row[KeyOf(r)]
  BY DEF TypeOK, KeyOf, SetMine, Mine
<1>2. \A k \in Key \ {KeyOf(r)} : Calm(k)
  BY <1>1 DEF Calm
<1>3. ASSUME Holds(Mine(r), claim[r]), e = Renewed(Mine(r)) PROVE Calm(KeyOf(r))
  BY <1>1, <1>3 DEF Calm, Renewed, Holds, Row
<1>4. ASSUME Lapsed(Mine(r)), e = MarkedUnknown(Mine(r)) PROVE Calm(KeyOf(r))
  BY <1>1, <1>4 DEF Calm, MarkedUnknown, Row
<1>5. QED
  BY <1>1, <1>2, <1>3, <1>4 DEF AllCalm

LEMMA RequestMovesAlone ==
    ASSUME TypeOK, NEW r \in Request,
           \/ ClaimOrRead(r) \/ ExecuteOwned(r) \/ WaitForOwner(r)
           \/ PollFails(r) \/ Crash(r)
    PROVE  MovesAlone(r)
<1>a. /\ KeyOf(r) \in Key /\ Mine(r) \in Row /\ Mine(r) = row[KeyOf(r)]
      /\ Table \in [Key -> Row]
      /\ ask[r].fp \in Fingerprint /\ lastToken \in Nat
  BY TableType DEF TypeOK, KeyOf, Mine
<1>b. /\ Renewed(Mine(r)) \in Row /\ MarkedUnknown(Mine(r)) \in Row
      /\ \A v \in Settled : Recorded(Mine(r), v) \in Row
  BY <1>a, RowOperators
<1>c. ASSUME NEW where, Goto(r, where)
      PROVE  pc'[r] = where /\ \A o \in Request \ {r} : pc'[o] = pc[o]
  BY <1>c DEF TypeOK, Goto
<1>d. ASSUME NEW n, saw' = [saw EXCEPT ![r] = n]
      PROVE  saw'[r] = n /\ \A o \in Request \ {r} : saw'[o] = saw[o]
  BY <1>d DEF TypeOK
<1>1. CASE ReadExisting(r)
  <2>1. row' = Table /\ pc'[r] = Decode(Table[KeyOf(r)], ask[r].fp) /\ saw'[r] = Table[KeyOf(r)].token
    BY <1>1, <1>c, <1>d DEF ReadExisting
  <2>2. Alone(r)
    BY <1>1, <1>c, <1>d DEF ReadExisting, Alone
  <2>3. Reads(r)
    BY <1>1, <2>1, RowsCalm DEF ReadExisting, Reads, Outside
  <2>4. QED
    BY <2>2, <2>3 DEF MovesAlone
<1>2. CASE RefuseFull(r) \/ FailToClaim(r)
  <2>1. Alone(r)
    BY <1>2, <1>c DEF RefuseFull, FailToClaim, Alone
  <2>2. pc'[r] \in {"capacity", "unavailable"} /\ pc[r] = "idle"
    BY <1>2, <1>c DEF RefuseFull, FailToClaim
  <2>3. AllCalm
    BY <1>2, RowsCalm DEF RefuseFull, FailToClaim
  <2>4. Passes(r)
    BY <1>2, <2>2, <2>3 DEF RefuseFull, FailToClaim, Passes, Outside
  <2>5. QED
    BY <2>1, <2>4 DEF MovesAlone
<1>3. CASE Claim(r) \/ LoseClaim(r)
  <2>1. Insert(r)
    BY <1>3 DEF Claim, LoseClaim
  <2>2. /\ row'[KeyOf(r)] = InFlightRow(ask[r].fp, lastToken')
        /\ \A k \in Key \ {KeyOf(r)} : row'[k] = Table[k]
        /\ lastToken' = lastToken + 1 /\ pc[r] = "idle" /\ saw' = saw /\ ask' = ask
    BY <2>1, <1>a DEF Insert
  <2>3. /\ \/ claim'[r] = lastToken' /\ pc'[r] = "running"
           \/ claim'[r] = claim[r] /\ pc'[r] = "unavailable"
        /\ \A o \in Request \ {r} : claim'[o] = claim[o] /\ pc'[o] = pc[o]
    BY <1>3, <2>2, <1>c DEF Claim, LoseClaim, TypeOK
  <2>4. Opens(r) /\ Alone(r)
    BY <2>2, <2>3, TableCalm DEF Opens, Alone
  <2>5. QED
    BY <2>4 DEF MovesAlone
<1>4. CASE Heartbeat(r) \/ HeartbeatFails(r)
  <2>1. row' = row \/ (Holds(Mine(r), claim[r]) /\ SetMine(r, Renewed(Mine(r))))
    BY <1>4 DEF Heartbeat, HeartbeatFails
  <2>2. AllCalm
    BY <2>1, <1>b, RowsCalm, OneRowCalm
  <2>3. pc[r] = "running" /\ UNCHANGED <<ask, pc, claim, saw, lastToken>>
    BY <1>4 DEF Heartbeat, HeartbeatFails
  <2>4. QED
    BY <2>2, <2>3 DEF MovesAlone, Alone, Works, Owning
<1>5. CASE OperationEnds(r)
  <2>1. AllCalm /\ UNCHANGED <<ask, claim, saw, lastToken>> /\ pc[r] = "running"
    BY <1>5, RowsCalm DEF OperationEnds
  <2>2. pc'[r] \in {"returned", "threw"} /\ \A o \in Request \ {r} : pc'[o] = pc[o]
    BY <1>5, <1>c DEF OperationEnds
  <2>3. QED
    BY <2>1, <2>2 DEF MovesAlone, Alone, Works, Owning
<1>6. CASE ConfirmLease(r)
  <2>1. row' = row \/ (Holds(Mine(r), claim[r]) /\ SetMine(r, Renewed(Mine(r))))
    BY <1>6 DEF ConfirmLease
  <2>2. AllCalm
    BY <2>1, <1>b, RowsCalm, OneRowCalm
  <2>3. UNCHANGED <<ask, claim, saw, lastToken>> /\ pc[r] = "returned"
    BY <1>6 DEF ConfirmLease
  <2>4. /\ pc'[r] \in {"confirmed", "created-unconfirmed"}
        /\ \A o \in Request \ {r} : pc'[o] = pc[o]
    BY <1>6, <1>c DEF ConfirmLease
  <2>5. QED
    BY <2>2, <2>3, <2>4 DEF MovesAlone, Alone, Works, Owning
<1>7. CASE Complete(r)
  <2>1. UNCHANGED <<ask, claim, saw, lastToken>> /\ pc[r] = "confirmed"
    BY <1>7 DEF Complete
  <2>2. CASE /\ Holds(Mine(r), claim[r])
             /\ \E v \in {"completed", "oversized"} : SetMine(r, Recorded(Mine(r), v))
             /\ \E answer \in Kept : Goto(r, answer)
    <3>1. PICK v \in {"completed", "oversized"} : SetMine(r, Recorded(Mine(r), v))
      BY <2>2
    <3>2. Recorded(Mine(r), v) \in Row
      BY <1>b DEF Settled
    <3>3. row'[KeyOf(r)] = Recorded(Mine(r), v) /\ \A k \in Key \ {KeyOf(r)} : Calm(k)
      BY <3>1, <3>2, OneRowCalm
    <3>4. pc'[r] \in Kept /\ \A o \in Request \ {r} : pc'[o] = pc[o]
      BY <2>2, <1>c
    <3>5. QED
      BY <2>1, <2>2, <3>3, <3>4 DEF MovesAlone, Alone, Records, Owning
  <2>3. CASE Goto(r, "created-unconfirmed") /\ row' = row
    BY <2>1, <2>3, <1>c, RowsCalm DEF MovesAlone, Alone, Works, Owning
  <2>4. QED
    BY <1>7, <2>2, <2>3 DEF Complete, Kept
<1>8. CASE RecordFailure(r)
  <2>1. UNCHANGED <<ask, claim, saw, lastToken>> /\ pc[r] = "threw"
    BY <1>8 DEF RecordFailure
  <2>2. pc'[r] = "rethrown" /\ \A o \in Request \ {r} : pc'[o] = pc[o]
    BY <1>8, <1>c DEF RecordFailure
  <2>3. CASE Holds(Mine(r), claim[r]) /\ SetMine(r, Recorded(Mine(r), "failed"))
    <3>1. Recorded(Mine(r), "failed") \in Row
      BY <1>b DEF Settled
    <3>2. /\ row'[KeyOf(r)] = Recorded(Mine(r), "failed")
          /\ \A k \in Key \ {KeyOf(r)} : Calm(k)
      BY <2>3, <3>1, OneRowCalm
    <3>3. QED
      BY <2>1, <2>2, <2>3, <3>2 DEF MovesAlone, Alone, Records, Owning
  <2>4. CASE row' = row
    BY <2>1, <2>2, <2>4, RowsCalm DEF MovesAlone, Alone, Works, Owning
  <2>5. QED
    BY <1>8, <2>3, <2>4 DEF RecordFailure
<1>9. CASE Poll(r)
  <2>1. AllCalm /\ row' = row /\ UNCHANGED <<ask, claim, lastToken>> /\ pc[r] = "waiting"
    BY <1>9, RowsCalm DEF Poll
  <2>2. CASE Mine(r).state = "absent"
    <3>1. pc'[r] = "vanished" /\ saw' = saw /\ \A o \in Request \ {r} : pc'[o] = pc[o]
      BY <1>9, <2>2, <1>c DEF Poll
    <3>2. QED
      BY <2>1, <3>1, <1>a DEF MovesAlone, Alone, Passes, Outside, Polling
  <2>3. CASE Mine(r).state # "absent"
    <3>1. saw' = [saw EXCEPT ![r] = Mine(r).token]
      BY <1>9, <2>3 DEF Poll
    <3>2. \E where : Goto(r, where)
      BY <1>9, <2>3 DEF Poll
    <3>3. Alone(r)
      BY <2>1, <3>1, <3>2, <1>c, <1>d DEF Alone
    <3>4. \/ pc'[r] = Decode(Mine(r), ask[r].fp)
          \/ /\ pc'[r] = "expiring"
             /\ Decode(Mine(r), ask[r].fp) = "waiting" /\ ReadsAsExpired(Mine(r))
      BY <1>9, <2>3, <1>c DEF Poll
    <3>5. Decode(Mine(r), ask[r].fp) = "waiting" => Mine(r).state = "in_flight"
      BY DEF Decode
    <3>6. Reads(r)
      BY <1>a, <2>1, <2>3, <3>1, <1>d, <3>4, <3>5 DEF Reads, Outside, Polling, ReadsAsExpired
    <3>7. QED
      BY <3>3, <3>6 DEF MovesAlone
  <2>4. QED
    BY <2>2, <2>3
<1>10. CASE MarkUnknown(r)
  <2>1. row' = row \/ (Lapsed(Mine(r)) /\ SetMine(r, MarkedUnknown(Mine(r))))
    BY <1>10 DEF MarkUnknown
  <2>2. AllCalm
    BY <2>1, <1>b, RowsCalm, OneRowCalm
  <2>3. /\ UNCHANGED <<ask, claim, saw, lastToken>> /\ pc[r] = "expiring" /\ pc'[r] = "rereading"
        /\ \A o \in Request \ {r} : pc'[o] = pc[o]
    BY <1>10, <1>c DEF MarkUnknown
  <2>4. QED
    BY <1>a, <2>2, <2>3 DEF MovesAlone, Alone, Passes, Outside, Polling
<1>11. CASE Reread(r)
  <2>1. AllCalm /\ row' = row /\ UNCHANGED <<ask, claim, lastToken>> /\ pc[r] = "rereading"
    BY <1>11, RowsCalm DEF Reread
  <2>2. CASE Mine(r).state = "absent" \/ Decode(Mine(r), ask[r].fp) = "waiting"
    <3>1. /\ pc'[r] \in {"vanished", "previous_unknown"} /\ saw' = saw
          /\ \A o \in Request \ {r} : pc'[o] = pc[o]
      BY <1>11, <2>2, <1>c DEF Reread
    <3>2. QED
      BY <2>1, <3>1, <1>a DEF MovesAlone, Alone, Passes, Outside, Polling
  <2>3. CASE ~(Mine(r).state = "absent" \/ Decode(Mine(r), ask[r].fp) = "waiting")
    <3>1. saw' = [saw EXCEPT ![r] = Mine(r).token] /\ Goto(r, Decode(Mine(r), ask[r].fp))
      BY <1>11, <2>3 DEF Reread
    <3>2. Alone(r)
      BY <2>1, <3>1, <1>c, <1>d DEF Alone
    <3>3. pc'[r] = Decode(Mine(r), ask[r].fp)
      BY <3>1, <1>c
    <3>4. Reads(r)
      BY <1>a, <2>1, <2>3, <3>1, <1>d, <3>3 DEF Reads, Outside, Polling
    <3>5. QED
      BY <3>2, <3>4 DEF MovesAlone
  <2>4. QED
    BY <2>2, <2>3
<1>12. CASE PollFails(r) \/ GiveUp(r)
  <2>1. AllCalm /\ UNCHANGED <<ask, claim, saw, lastToken>> /\ pc[r] \in Polling
    BY <1>12, RowsCalm DEF PollFails, GiveUp, Polling
  <2>2. pc'[r] \in {"unavailable", "in_progress"} /\ \A o \in Request \ {r} : pc'[o] = pc[o]
    BY <1>12, <1>c DEF PollFails, GiveUp
  <2>3. QED
    BY <1>a, <2>1, <2>2 DEF MovesAlone, Alone, Passes, Outside
<1>13. CASE Crash(r)
  <2>1. AllCalm /\ UNCHANGED <<ask, claim, saw, lastToken>> /\ pc[r] \in Owning \cup Polling
    BY <1>13, RowsCalm DEF Crash
  <2>2. pc'[r] = "crashed" /\ \A o \in Request \ {r} : pc'[o] = pc[o]
    BY <1>13, <1>c DEF Crash
  <2>3. QED
    BY <1>a, <2>1, <2>2 DEF MovesAlone, Alone, Passes, Works, Outside
<1>14. QED
  BY <1>1, <1>2, <1>3, <1>4, <1>5, <1>6, <1>7, <1>8, <1>9, <1>10, <1>11, <1>12, <1>13
  DEF ClaimOrRead, ExecuteOwned, WaitForOwner

LEMMA StepMoves ==
    ASSUME TypeOK, [Next]_vars
    PROVE  \E r : Step(r)
<1>1. ASSUME Tick PROVE Ages
  <2>1. \A k \in Key : /\ row[k] \in Row
                       /\ row'[k] = [row[k] EXCEPT !.lease = Less(row[k].lease),
                                                   !.ttl = Less(row[k].ttl)]
    BY <1>1 DEF Tick, TypeOK, Elapsed
  <2>2. ASSUME NEW k \in Key PROVE Calm(k)
    <3>1. row[k].lease \in 0..Lease
      BY DEF TypeOK, Row
    <3>2. /\ row'[k].state = row[k].state /\ row'[k].token = row[k].token
          /\ row'[k].fp = row[k].fp /\ row'[k].lease = Less(row[k].lease)
      BY <2>1 DEF Row
    <3>3. QED
      BY <3>1, <3>2, TimesAssumption DEF Calm, Less
  <2>3. QED
    BY <1>1, <2>2 DEF Tick, Ages, AllCalm
<1>2. ASSUME UNCHANGED vars PROVE Ages
  BY <1>2, RowsCalm DEF vars, Ages
<1>3. CASE Ages
  <2>1. Step(0)
    BY <1>3 DEF Step
  <2>2. QED
    BY <2>1
<1>4. ASSUME NEW r \in Request, MovesAlone(r) PROVE \E p : Step(p)
  BY <1>4 DEF Step
<1>5. QED
  BY <1>1, <1>2, <1>3, <1>4, RequestMovesAlone DEF Next

-----------------------------------------------------------------------------
(* What becomes of a row and of an owner *)

Stays(k) ==
    /\ Exists(k)
    /\ row'[k].token = row[k].token
    /\ row'[k].fp = row[k].fp

RecordedBy(r, k) ==
    /\ r \in Request
    /\ Records(r)
    /\ k = KeyOf(r)
    /\ row[k].token = claim[r]
    /\ \/ row'[k].state \in {"completed", "oversized"} /\ pc'[r] \in Kept
       \/ row'[k].state = "failed" /\ pc'[r] = "rethrown"

OpenedBy(r, k) ==
    /\ r \in Request
    /\ Opens(r)
    /\ k = KeyOf(r)
    /\ row'[k] = InFlightRow(ask[r].fp, lastToken')

(* A row that is there was there before, or is the one that r opened; it   *)
(* is settled by its owner only, unless it has lapsed.                     *)
LEMMA RowFate ==
    ASSUME TypeOK, NEW r, Step(r), NEW k \in Key, row'[k].state # "absent"
    PROVE  \/ OpenedBy(r, k)
           \/ Stays(k) /\ RecordedBy(r, k)
           \/ /\ Stays(k)
              /\ ~(r \in Request /\ Records(r) /\ k = KeyOf(r))
              /\ row'[k].state = row[k].state
              /\ row'[k].lease > 0 => row[k].lease > 0
           \/ /\ Stays(k)
              /\ ~(r \in Request /\ Records(r) /\ k = KeyOf(r))
              /\ Lapsed(row[k]) /\ row'[k].state = "unknown"
<1>1. Calm(k) => \/ /\ Stays(k) /\ row'[k].state = row[k].state
                    /\ row'[k].lease > 0 => row[k].lease > 0
                 \/ Stays(k) /\ Lapsed(row[k]) /\ row'[k].state = "unknown"
  BY DEF Calm, Stays, Exists, Lapsed
<1>2. CASE r \in Request /\ Records(r) /\ k = KeyOf(r)
  <2>1. Holds(row[k], claim[r]) /\ row[k] \in Row
    BY <1>2 DEF Records, Mine, TypeOK
  <2>2. PICK v : /\ row'[k] = Recorded(row[k], v)
                 /\ \/ v \in {"completed", "oversized"} /\ pc'[r] \in Kept
                    \/ v = "failed" /\ pc'[r] = "rethrown"
    BY <1>2 DEF Records, Mine
  <2>3. /\ row'[k].state = v /\ row'[k].token = row[k].token /\ row'[k].fp = row[k].fp
    BY <2>1, <2>2 DEF Recorded, Row
  <2>4. QED
    BY <1>2, <2>1, <2>2, <2>3 DEF RecordedBy, Stays, Exists, Holds
<1>3. CASE r \in Request /\ Opens(r) /\ k = KeyOf(r)
  BY <1>3 DEF OpenedBy, Opens
<1>4. CASE ~(r \in Request /\ k = KeyOf(r) /\ (Records(r) \/ Opens(r)))
  <2>1. Calm(k)
    BY <1>4 DEF Step, Ages, MovesAlone, Reads, Passes, Works, Records, Opens, AllCalm
  <2>2. QED
    BY <1>1, <1>4, <2>1
<1>5. QED
  BY <1>2, <1>3, <1>4

(* An owner keeps its token, and what its caller was told is settled. *)
LEMMA OwnerFate ==
    ASSUME TypeOK, TokenInv, NEW r, Step(r), NEW o \in Request, claim[o] # 0
    PROVE  /\ claim'[o] = claim[o]
           /\ ask' = ask
           /\ pc[o] \in Kept \cup {"rethrown"} => pc'[o] = pc[o]
           /\ pc'[o] = "created" => pc[o] = "created" \/ (o = r /\ Records(r))
           /\ pc'[o] \in Owner
<1>1. pc[o] \in Owner
  BY DEF TokenInv
<1>2. CASE Ages
  BY <1>1, <1>2 DEF Ages
<1>3. CASE r \in Request /\ MovesAlone(r) /\ o # r
  BY <1>1, <1>3 DEF MovesAlone, Alone
<1>4. CASE r \in Request /\ MovesAlone(r) /\ o = r
  <2>1. pc[r] \notin Outside
    BY <1>1, <1>4 DEF Outside, Owner, Owning, Polling, Kept
  <2>2. Works(r) \/ Records(r)
    BY <1>4, <2>1 DEF MovesAlone, Reads, Passes, Opens, Outside
  <2>3. QED
    BY <1>1, <1>4, <2>2 DEF MovesAlone, Alone, Works, Records, Owner, Owning, Kept
<1>5. QED
  BY <1>2, <1>3, <1>4 DEF Step

(* A token that is new belongs to who opened the row. *)
LEMMA TokenFate ==
    ASSUME TypeOK, TokenInv, NEW r, Step(r), NEW o \in Request, claim'[o] # claim[o]
    PROVE  /\ o = r /\ Opens(r) /\ r \in Request
           /\ claim[o] = 0
           /\ claim'[o] = lastToken' /\ lastToken' = lastToken + 1
           /\ pc'[o] = "running"
           /\ \A p \in Request : saw'[p] = saw[p]
<1>1. ~Ages /\ r \in Request /\ MovesAlone(r)
  BY DEF Step, Ages
<1>2. o = r /\ Opens(r) /\ claim'[r] = lastToken' /\ pc'[r] = "running"
  BY <1>1 DEF MovesAlone, Alone, Reads, Passes, Opens, Works, Records
<1>3. pc[r] = "idle" /\ lastToken' = lastToken + 1 /\ saw'[r] = saw[r]
  BY <1>2 DEF Opens
<1>4. claim[r] = 0
  BY <1>1, <1>3 DEF TokenInv, Owner, Owning, Kept
<1>5. QED
  BY <1>1, <1>2, <1>3, <1>4 DEF MovesAlone, Alone

(* Who was lost stays lost. *)
LEMMA LostForGood ==
    ASSUME TypeOK, TokenInv, NEW r, Step(r), NEW o \in Request, claim[o] # 0, Lost(o)
    PROVE  Lost(o)'
<1>1. /\ claim'[o] = claim[o] /\ KeyOf(o)' = KeyOf(o) /\ KeyOf(o) \in Key
      /\ claim[o] <= lastToken /\ claim[o] \in Nat /\ lastToken \in Nat
  BY OwnerFate DEF KeyOf, TypeOK, TokenInv
<1>2. pc'[o] # "created"
  BY OwnerFate DEF Lost, Records
<1>3. ASSUME Holds(row'[KeyOf(o)], claim[o]) PROVE FALSE
  <2>1. row'[KeyOf(o)].state = "in_flight" /\ row'[KeyOf(o)].token = claim[o]
        /\ row'[KeyOf(o)].lease > 0
    BY <1>3 DEF Holds
  <2>2. ~OpenedBy(r, KeyOf(o))
    BY <1>1, <2>1 DEF OpenedBy, Opens, InFlightRow
  <2>3. ~RecordedBy(r, KeyOf(o))
    BY <2>1 DEF RecordedBy
  <2>4. /\ row[KeyOf(o)].state = "in_flight" /\ row[KeyOf(o)].lease > 0
        /\ row[KeyOf(o)].token = claim[o]
    BY <1>1, <2>1, <2>2, <2>3, RowFate DEF Stays
  <2>5. QED
    BY <2>4 DEF Lost, Holds, Mine
<1>4. QED
  BY <1>1, <1>2, <1>3 DEF Lost, Mine

-----------------------------------------------------------------------------
(* Tokens *)

LEMMA ReadToken ==
    ASSUME TypeOK, TokenInv, NEW r, Step(r), NEW p \in Request
    PROVE  /\ saw'[p] = saw[p] \/ (p = r /\ Reads(r))
           /\ saw'[p] <= lastToken
<1>1. saw'[p] = saw[p] \/ (p = r /\ r \in Request /\ Reads(r))
  BY DEF Step, Ages, MovesAlone, Alone, Passes, Opens, Works, Records
<1>2. saw[p] <= lastToken
  BY DEF TokenInv
<1>3. CASE p = r /\ r \in Request /\ Reads(r)
  <2>1. /\ KeyOf(r) \in Key /\ row'[KeyOf(r)].state # "absent"
        /\ saw'[r] = row'[KeyOf(r)].token /\ lastToken' = lastToken
    BY <1>3 DEF Reads, KeyOf, TypeOK
  <2>2. Stays(KeyOf(r))
    <3>1. ~OpenedBy(r, KeyOf(r))
      BY <2>1 DEF OpenedBy, Opens, TypeOK
    <3>2. QED
      BY <2>1, <3>1, RowFate
  <2>3. QED
    BY <1>3, <2>1, <2>2 DEF Stays, TokenInv
<1>4. QED
  BY <1>1, <1>2, <1>3

LEMMA TokenStep ==
    ASSUME TypeOK, TypeOK', TokenInv, NEW r, Step(r)
    PROVE  TokenInv'
<1>a. lastToken' \in {lastToken, lastToken + 1} /\ lastToken \in Nat /\ lastToken' \in Nat
  BY DEF Step, Ages, MovesAlone, Reads, Passes, Opens, Works, Records, TypeOK
<1>1. ASSUME NEW k \in Key, row'[k].state # "absent"
      PROVE  row'[k].token \in 1..lastToken'
  <2>1. CASE Stays(k)
    BY <1>a, <2>1 DEF Stays, TokenInv
  <2>2. CASE OpenedBy(r, k)
    BY <1>a, <2>2 DEF OpenedBy, Opens, InFlightRow
  <2>3. QED
    BY <1>1, <2>1, <2>2, RowFate
<1>2. ASSUME NEW p \in Request
      PROVE  claim'[p] <= lastToken' /\ saw'[p] <= lastToken'
  <2>1. claim[p] <= lastToken /\ claim[p] \in Nat /\ saw'[p] \in Nat
    BY DEF TokenInv, TypeOK
  <2>2. saw'[p] <= lastToken
    BY ReadToken
  <2>3. claim'[p] = claim[p] \/ claim'[p] = lastToken'
    BY TokenFate
  <2>4. QED
    BY <1>a, <2>1, <2>2, <2>3
<1>3. ASSUME NEW p \in Request
      PROVE  claim'[p] # 0 => pc'[p] \in Owner
  <2>1. CASE claim'[p] # claim[p]
    BY <2>1, TokenFate DEF Owner, Owning
  <2>2. CASE claim'[p] = claim[p] /\ claim[p] # 0
    BY <2>2, OwnerFate
  <2>3. QED
    BY <2>1, <2>2
<1>4. ASSUME NEW p \in Request, pc'[p] \in Owning \cup Kept \cup {"rethrown"}
      PROVE  claim'[p] # 0
  <2>1. CASE claim'[p] # claim[p]
    BY <1>a, <2>1, TokenFate
  <2>2. CASE claim'[p] = claim[p]
    <3>1. pc[p] \in Owning \cup Kept \cup {"rethrown"}
      <4>1. CASE Ages \/ p # r
        BY <1>4, <4>1 DEF Step, Ages, MovesAlone, Alone
      <4>2. CASE p = r /\ r \in Request /\ (Works(r) \/ Records(r))
        BY <4>2 DEF Works, Records
      <4>3. CASE p = r /\ r \in Request /\ (Passes(r) \/ Reads(r))
        <5>1. pc'[r] \in Polling \cup (Answer \ (Kept \cup {"rethrown"})) \cup {"crashed"}
          BY <4>3 DEF Passes, Reads, Decode, Polling, Answer, Kept
        <5>2. QED
          BY <1>4, <4>3, <5>1 DEF Owning, Polling, Answer, Kept
      <4>4. CASE p = r /\ r \in Request /\ Opens(r)
        <5>1. claim[r] <= lastToken /\ claim[r] \in Nat
          BY <4>4 DEF TokenInv, TypeOK
        <5>2. pc'[r] = "unavailable"
          BY <1>a, <2>2, <4>4, <5>1 DEF Opens
        <5>3. QED
          BY <1>4, <4>4, <5>2 DEF Owning, Kept
      <4>5. QED
        BY <4>1, <4>2, <4>3, <4>4 DEF Step, MovesAlone
    <3>2. QED
      BY <2>2, <3>1 DEF TokenInv
  <2>3. QED
    BY <2>1, <2>2
<1>5. ASSUME NEW o \in Request, NEW p \in Request, claim'[o] # 0, claim'[o] = claim'[p]
      PROVE  o = p
  <2>1. claim[o] <= lastToken /\ claim[p] <= lastToken /\ claim[o] \in Nat /\ claim[p] \in Nat
    BY DEF TokenInv, TypeOK
  <2>2. CASE claim'[o] # claim[o]
    BY <1>a, <1>5, <2>1, <2>2, TokenFate
  <2>3. CASE claim'[p] # claim[p]
    BY <1>a, <1>5, <2>1, <2>3, TokenFate
  <2>4. CASE claim'[o] = claim[o] /\ claim'[p] = claim[p]
    BY <1>5, <2>4 DEF TokenInv
  <2>5. QED
    BY <2>2, <2>3, <2>4
<1>6. ASSUME NEW o \in Request, NEW k \in Key,
             claim'[o] # 0, row'[k].state # "absent", row'[k].token = claim'[o]
      PROVE  ask' = ask /\ KeyOf(o) = k /\ row'[k].fp = ask[o].fp
  <2>a. ask' = ask
    BY DEF Step, Ages, MovesAlone, Alone
  <2>b. claim[o] <= lastToken /\ claim[o] \in Nat
    BY DEF TokenInv, TypeOK
  <2>c. claim'[o] = claim[o] \/ (claim'[o] = lastToken + 1 /\ o = r)
    BY TokenFate
  <2>1. CASE Stays(k)
    <3>1. row[k].token \in 1..lastToken
      BY <2>1 DEF Stays, TokenInv
    <3>2. claim'[o] = claim[o]
      <4>1. claim'[o] = row[k].token
        BY <1>6, <2>1 DEF Stays
      <4>2. claim'[o] # lastToken + 1
        BY <1>a, <3>1, <4>1
      <4>3. QED
        BY <2>c, <4>2
    <3>3. QED
      BY <1>6, <2>a, <2>1, <3>2 DEF Stays, TokenInv
  <2>2. CASE OpenedBy(r, k)
    <3>1. row'[k].token = lastToken + 1 /\ row'[k].fp = ask[r].fp /\ k = KeyOf(r)
      BY <2>2 DEF OpenedBy, Opens, InFlightRow
    <3>2. o = r
      BY <1>a, <1>6, <2>b, <2>c, <3>1
    <3>3. QED
      BY <2>a, <3>1, <3>2
  <2>3. QED
    BY <1>6, <2>1, <2>2, RowFate
<1>7. QED
  BY <1>1, <1>2, <1>3, <1>4, <1>5, <1>6 DEF TokenInv, Exists, KeyOf

-----------------------------------------------------------------------------
(* Rows *)

LEMMA RowStep ==
    ASSUME TypeOK, TypeOK', TokenInv, TokenInv', RowInv, NEW r, Step(r)
    PROVE  RowInv'
<1>a. lastToken' \in {lastToken, lastToken + 1} /\ lastToken \in Nat
  BY DEF Step, Ages, MovesAlone, Reads, Passes, Opens, Works, Records, TypeOK
<1>1. ASSUME NEW k \in Key, NEW o \in Request,
             claim'[o] # 0, row'[k].state # "absent", row'[k].token = claim'[o]
      PROVE  /\ row'[k].state \in {"completed", "oversized"} => pc'[o] \in Kept
             /\ row'[k].state = "failed" => pc'[o] = "rethrown"
             /\ row'[k].state \in {"in_flight", "unknown"} => pc'[o] # "created"
  <2>a. claim[o] <= lastToken /\ claim[o] \in Nat
    BY DEF TokenInv, TypeOK
  <2>b. \/ OpenedBy(r, k)
        \/ Stays(k) /\ RecordedBy(r, k)
        \/ /\ Stays(k)
           /\ ~(r \in Request /\ Records(r) /\ k = KeyOf(r))
           /\ row'[k].state = row[k].state \/ (Lapsed(row[k]) /\ row'[k].state = "unknown")
    BY <1>1, RowFate
  <2>1. CASE OpenedBy(r, k)
    <3>1. row'[k].state = "in_flight" /\ row'[k].token = lastToken + 1
      BY <2>1 DEF OpenedBy, Opens, InFlightRow
    <3>2. claim'[o] # claim[o]
      BY <1>a, <1>1, <2>a, <3>1
    <3>3. pc'[o] = "running"
      BY <3>2, TokenFate
    <3>4. QED
      BY <3>1, <3>3
  <2>2. CASE Stays(k) /\ ~OpenedBy(r, k)
    <3>1. claim'[o] = claim[o]
      <4>1. row[k].token \in 1..lastToken
        BY <2>2 DEF Stays, TokenInv
      <4>2. claim'[o] = row[k].token
        BY <1>1, <2>2 DEF Stays
      <4>3. claim'[o] # lastToken + 1
        BY <1>a, <4>1, <4>2
      <4>4. QED
        BY <4>3, TokenFate
    <3>2. /\ claim[o] # 0 /\ Exists(k) /\ row[k].token = claim[o]
          /\ KeyOf(o) = k
      BY <1>1, <2>2, <3>1 DEF Stays, TokenInv
    <3>3. /\ row[k].state \in {"completed", "oversized"} => pc[o] \in Kept
          /\ row[k].state = "failed" => pc[o] = "rethrown"
          /\ row[k].state \in {"in_flight", "unknown"} => pc[o] # "created"
      BY <3>2 DEF RowInv
    <3>4. /\ pc[o] \in Kept \cup {"rethrown"} => pc'[o] = pc[o]
          /\ pc'[o] = "created" => pc[o] = "created" \/ (o = r /\ Records(r))
      BY <3>2, OwnerFate
    <3>5. CASE RecordedBy(r, k)
      <4>1. o = r
        BY <3>2, <3>5 DEF RecordedBy, TokenInv
      <4>2. QED
        BY <3>5, <4>1 DEF RecordedBy
    <3>6. CASE ~RecordedBy(r, k)
      <4>1. /\ ~(r \in Request /\ Records(r) /\ k = KeyOf(r))
            /\ row'[k].state = row[k].state \/ (Lapsed(row[k]) /\ row'[k].state = "unknown")
        BY <2>b, <2>2, <3>6
      <4>2. pc'[o] = "created" => pc[o] = "created"
        BY <3>2, <3>4, <4>1
      <4>3. QED
        BY <3>3, <3>4, <4>1, <4>2 DEF Lapsed
    <3>7. QED
      BY <3>5, <3>6
  <2>3. QED
    BY <2>b, <2>1, <2>2
<1>2. ASSUME NEW k \in Key, row'[k].state = "completed"
      PROVE  \E o \in Request : /\ claim'[o] = row'[k].token
                                /\ KeyOf(o) = k /\ ask[o].fp = row'[k].fp
                                /\ pc'[o] \in Kept
  <2>1. CASE Stays(k) /\ row[k].state = "completed"
    <3>1. PICK o \in Request : /\ claim[o] = row[k].token
                               /\ KeyOf(o) = k /\ ask[o].fp = row[k].fp
                               /\ pc[o] \in Kept
      BY <2>1 DEF RowInv
    <3>2. claim[o] # 0
      BY <3>1 DEF TokenInv
    <3>3. claim'[o] = claim[o] /\ pc'[o] = pc[o]
      BY <3>1, <3>2, OwnerFate
    <3>4. QED
      BY <2>1, <3>1, <3>3 DEF Stays
  <2>2. CASE Stays(k) /\ RecordedBy(r, k)
    <3>1. r \in Request /\ claim[r] = row[k].token /\ k = KeyOf(r) /\ pc'[r] \in Kept
      BY <1>2, <2>2 DEF RecordedBy
    <3>2. claim[r] # 0
      BY <2>2 DEF RecordedBy, Records, TokenInv
    <3>3. row[k].fp = ask[r].fp /\ claim'[r] = claim[r]
      BY <2>2, <3>1, <3>2, OwnerFate DEF Stays, TokenInv
    <3>4. QED
      BY <2>2, <3>1, <3>3 DEF Stays
  <2>3. ~OpenedBy(r, k)
    BY <1>2 DEF OpenedBy, Opens, InFlightRow
  <2>4. QED
    BY <1>2, <2>1, <2>2, <2>3, RowFate
<1>3. ask' = ask
  BY DEF Step, Ages, MovesAlone, Alone
<1>4. QED
  BY <1>1, <1>2, <1>3 DEF RowInv, Exists, KeyOf

-----------------------------------------------------------------------------
(* Readers *)

(* What a request is told when it reads is true of the owner of the row. *)
LEMMA FreshAnswer ==
    ASSUME TypeOK, TypeOK', TokenInv', RowInv', NEW r \in Request, Alone(r), Reads(r),
           NEW o \in Request, claim'[o] # 0, saw'[r] = claim'[o]
    PROVE  /\ pc'[r] \in {"replayed", "not_replayable"} => pc'[o] \in Kept
           /\ pc'[r] = "previous_failed" => pc'[o] = "rethrown"
           /\ Rounding = 0 /\ pc'[r] \in {"expiring", "rereading", "previous_unknown"} => Lost(o)'
<1>1. PICK k \in Key : k = KeyOf(r)
  BY DEF KeyOf, TypeOK
<1>2. PICK e \in Row : e = row'[k]
  BY DEF TypeOK
<1>3. /\ e.state # "absent" /\ e.token = claim'[o]
      /\ \/ pc'[r] = Decode(e, ask[r].fp)
         \/ pc'[r] = "expiring" /\ e.state = "in_flight" /\ e.lease <= Rounding
  BY <1>1, <1>2 DEF Reads
<1>4. ask'[o].key = k
  BY <1>2, <1>3 DEF TokenInv, Exists, KeyOf
<1>5. /\ e.state \in {"completed", "oversized"} => pc'[o] \in Kept
      /\ e.state = "failed" => pc'[o] = "rethrown"
      /\ e.state \in {"in_flight", "unknown"} => pc'[o] # "created"
  BY <1>2, <1>3 DEF RowInv, Exists
<1>6. e.state \in RowState /\ e.lease \in 0..Lease
  BY <1>2 DEF Row
<1>7. /\ pc'[r] = "replayed" => e.state = "completed"
      /\ pc'[r] = "not_replayable" => e.state = "oversized"
      /\ pc'[r] = "previous_failed" => e.state = "failed"
      /\ pc'[r] = "previous_unknown" => e.state = "unknown"
      /\ pc'[r] = "expiring" => e.state = "in_flight" /\ e.lease <= Rounding
      /\ pc'[r] # "rereading"
  BY <1>3, <1>6 DEF Decode, RowState, Settled
<1>8. ASSUME Rounding = 0, pc'[r] \in {"expiring", "previous_unknown"}
      PROVE  Lost(o)'
  <2>1. ~(e.state = "in_flight" /\ e.lease > 0)
    BY <1>6, <1>7, <1>8, TimesAssumption
  <2>2. ~Holds(e, claim'[o])
    BY <2>1 DEF Holds
  <2>3. pc'[o] # "created"
    BY <1>5, <1>7, <1>8
  <2>4. QED
    BY <1>2, <1>4, <2>2, <2>3 DEF Lost, Mine, KeyOf
<1>9. QED
  BY <1>5, <1>7, <1>8

(* Who was told something keeps it; the next turn of the polling loop      *)
(* passes the loss on.                                                     *)
LEMMA OldAnswer ==
    ASSUME TypeOK, NEW r, Step(r), NEW p \in Request, ~(p = r /\ Reads(r))
    PROVE  /\ saw'[p] = saw[p]
           /\ pc'[p] \in {"replayed", "not_replayable", "previous_failed"} => pc'[p] = pc[p]
           /\ pc'[p] \in {"expiring", "rereading", "previous_unknown"} =>
                 pc[p] \in {"expiring", "rereading", "previous_unknown"}
<1>1. CASE Ages \/ p # r
  BY <1>1 DEF Step, Ages, MovesAlone, Alone
<1>2. CASE p = r /\ r \in Request /\ MovesAlone(r)
  BY <1>2 DEF MovesAlone, Passes, Opens, Works, Records, Owning, Kept
<1>3. QED
  BY <1>1, <1>2 DEF Step

LEMMA AnswerStep ==
    ASSUME TypeOK, TypeOK', TokenInv, TokenInv', RowInv', ReaderInv, NEW r, Step(r),
           NEW o \in Request, NEW p \in Request, claim'[o] # 0, saw'[p] = claim'[o]
    PROVE  /\ pc'[p] \in {"replayed", "not_replayable"} => pc'[o] \in Kept
           /\ pc'[p] = "previous_failed" => pc'[o] = "rethrown"
           /\ Rounding = 0 /\ pc'[p] \in {"expiring", "rereading", "previous_unknown"} => Lost(o)'
<1>1. CASE p = r /\ Reads(r)
  <2>1. CASE Ages
    <3>1. claim' = claim /\ pc' = pc /\ saw' = saw
      BY <2>1 DEF Ages
    <3>2. claim[o] # 0 /\ saw[p] = claim[o]
      BY <3>1
    <3>3. pc[p] \in {"replayed", "not_replayable"} => pc[o] \in Kept
      BY <3>2 DEF ReaderInv
    <3>4. pc[p] = "previous_failed" => pc[o] = "rethrown"
      BY <3>2 DEF ReaderInv
    <3>5. Rounding = 0 /\ pc[p] \in {"expiring", "rereading", "previous_unknown"} => Lost(o)
      BY <3>2 DEF ReaderInv
    <3>6. QED
      BY <3>1, <3>2, <3>3, <3>4, <3>5, LostForGood
  <2>2. CASE r \in Request /\ MovesAlone(r)
    BY <1>1, <2>2, FreshAnswer DEF MovesAlone
  <2>3. QED
    BY <2>1, <2>2 DEF Step
<1>2. CASE ~(p = r /\ Reads(r))
  <2>1. /\ saw'[p] = saw[p]
        /\ pc'[p] \in {"replayed", "not_replayable", "previous_failed"} => pc'[p] = pc[p]
        /\ pc'[p] \in {"expiring", "rereading", "previous_unknown"} =>
              pc[p] \in {"expiring", "rereading", "previous_unknown"}
    BY <1>2, OldAnswer
  <2>2. claim'[o] = claim[o]
    <3>1. saw[p] <= lastToken /\ lastToken \in Nat
      BY DEF TokenInv, TypeOK
    <3>2. claim'[o] # lastToken + 1
      BY <2>1, <3>1
    <3>3. QED
      BY <3>2, TokenFate
  <2>3. claim[o] # 0 /\ saw[p] = claim[o]
    BY <2>1, <2>2
  <2>4. /\ pc[p] \in {"replayed", "not_replayable"} => pc[o] \in Kept
        /\ pc[p] = "previous_failed" => pc[o] = "rethrown"
        /\ Rounding = 0 /\ pc[p] \in {"expiring", "rereading", "previous_unknown"} => Lost(o)
    BY <2>3 DEF ReaderInv
  <2>5. /\ pc[o] \in Kept \cup {"rethrown"} => pc'[o] = pc[o]
        /\ Lost(o) => Lost(o)'
    BY <2>3, OwnerFate, LostForGood
  <2>6. QED
    BY <2>1, <2>4, <2>5
<1>3. QED
  BY <1>1, <1>2

LEMMA ReplayStep ==
    ASSUME TypeOK, TypeOK', TokenInv, RowInv', ReplayFaithful, NEW r, Step(r),
           NEW p \in Request, pc'[p] = "replayed"
    PROVE  \E o \in Request : /\ claim'[o] = saw'[p]
                              /\ ask'[o] = ask'[p]
                              /\ pc'[o] \in {"created", "created-unconfirmed"}
<1>a. ask' = ask
  BY DEF Step, Ages, MovesAlone, Alone
<1>1. CASE pc[p] = "replayed" /\ saw'[p] = saw[p]
  <2>1. PICK o \in Request : claim[o] = saw[p] /\ ask[o] = ask[p] /\ pc[o] \in Kept
    BY <1>1 DEF ReplayFaithful, Kept
  <2>2. claim[o] # 0
    BY <2>1 DEF TokenInv
  <2>3. claim'[o] = claim[o] /\ pc'[o] = pc[o]
    BY <2>1, <2>2, OwnerFate
  <2>4. QED
    BY <1>a, <1>1, <2>1, <2>3 DEF Kept
<1>2. CASE p = r /\ Reads(r) /\ r \in Request
  <2>1. PICK k \in Key : k = KeyOf(r)
    BY <1>2 DEF KeyOf, TypeOK
  <2>2. row'[k].state # "absent" /\ saw'[r] = row'[k].token
        /\ Decode(row'[k], ask[r].fp) = "replayed"
    BY <1>2, <2>1 DEF Reads
  <2>3. row'[k].state = "completed" /\ row'[k].fp = ask[r].fp
    BY <2>2 DEF Decode
  <2>4. PICK o \in Request : /\ claim'[o] = row'[k].token
                             /\ ask'[o].key = k /\ ask'[o].fp = row'[k].fp
                             /\ pc'[o] \in Kept
    BY <2>3 DEF RowInv, KeyOf
  <2>5. ask[o] = ask[r]
    <3>1. ask[o] \in [key : Key, fp : Fingerprint] /\ ask[r] \in [key : Key, fp : Fingerprint]
      BY <1>2 DEF TypeOK
    <3>2. ask[o].key = ask[r].key /\ ask[o].fp = ask[r].fp
      BY <1>a, <2>1, <2>3, <2>4 DEF KeyOf
    <3>3. QED
      BY <3>1, <3>2
  <2>6. QED
    BY <1>a, <1>2, <2>2, <2>4, <2>5 DEF Kept
<1>3. QED
  <2>1. CASE Ages
    BY <1>1, <2>1 DEF Ages
  <2>2. CASE ~Ages /\ ~(p = r /\ Reads(r))
    BY <1>1, <2>2, OldAnswer
  <2>3. CASE ~Ages /\ p = r /\ Reads(r)
    BY <1>2, <2>3 DEF Step
  <2>4. QED
    BY <2>1, <2>2, <2>3

-----------------------------------------------------------------------------
(* The theorems *)

LEMMA AnswerInit == Init => AnswerInv
<1> SUFFICES ASSUME Init PROVE AnswerInv
  OBVIOUS
<1>1. TypeOK
  BY TypeInit
<1>2. /\ \A k \in Key : row[k].state = "absent"
      /\ \A r \in Request : claim[r] = 0 /\ saw[r] = 0 /\ pc[r] = "idle"
      /\ lastToken = 0
  BY DEF Init, Absent
<1>3. TokenInv
  BY <1>2 DEF TokenInv, Exists, Owning, Kept
<1>4. RowInv
  BY <1>2 DEF RowInv, Exists
<1>5. ReaderInv
  BY <1>2 DEF ReaderInv, ReplayFaithful
<1>6. QED
  BY <1>1, <1>3, <1>4, <1>5 DEF AnswerInv

LEMMA AnswerNext == AnswerInv /\ [Next]_vars => AnswerInv'
<1> SUFFICES ASSUME AnswerInv, [Next]_vars PROVE AnswerInv'
  OBVIOUS
<1>1. TypeOK /\ TokenInv /\ RowInv /\ ReaderInv /\ ReplayFaithful
  BY DEF AnswerInv, ReaderInv
<1>2. TypeOK'
  BY <1>1, TypeStep
<1>3. PICK r : Step(r)
  BY <1>1, StepMoves
<1>4. TokenInv'
  BY <1>1, <1>2, <1>3, TokenStep
<1>5. RowInv'
  BY <1>1, <1>2, <1>3, <1>4, RowStep
<1>6. ReplayFaithful'
  BY <1>1, <1>2, <1>3, <1>5, ReplayStep DEF ReplayFaithful
<1>7. ReaderInv'
  BY <1>1, <1>2, <1>3, <1>4, <1>5, <1>6, AnswerStep DEF ReaderInv
<1>8. QED
  BY <1>2, <1>4, <1>5, <1>7 DEF AnswerInv

(* Every reachable state has AnswerInv. *)
THEOREM AnswerInvariance == Spec => []AnswerInv
  BY AnswerInit, AnswerNext, PTL DEF Spec

(* A replay is the result of an operation that returned, for the same key  *)
(* and the same payload, whatever the rounding.                            *)
THEOREM Replays == Spec => []ReplayFaithful
<1>1. AnswerInv => ReplayFaithful
  BY DEF AnswerInv, ReaderInv
<1>2. QED
  BY <1>1, AnswerInvariance, PTL

(* If no remaining lease is rounded to nothing, no two requests are told   *)
(* contradictory things about one attempt.                                 *)
THEOREM Verdicts ==
    ASSUME Rounding = 0
    PROVE  Spec => []VerdictsAgree
<1>1. AnswerInv => VerdictsAgree
  <2> SUFFICES ASSUME AnswerInv, NEW o \in Request, NEW r \in Request,
                      claim[o] # 0, saw[r] = claim[o]
               PROVE  /\ pc[r] = "previous_unknown" => pc[o] # "created"
                      /\ pc[r] \in {"replayed", "not_replayable"} =>
                            pc[o] \in {"created", "created-unconfirmed"}
                      /\ pc[r] = "previous_failed" => pc[o] = "rethrown"
    BY DEF VerdictsAgree, UnknownMeansLost
  <2>1. /\ pc[r] \in {"replayed", "not_replayable"} => pc[o] \in Kept
        /\ pc[r] = "previous_failed" => pc[o] = "rethrown"
        /\ pc[r] = "previous_unknown" => Lost(o)
    BY DEF AnswerInv, ReaderInv
  <2>2. QED
    BY <2>1 DEF Lost, Kept
<1>2. QED
  BY <1>1, AnswerInvariance, PTL
=============================================================================
