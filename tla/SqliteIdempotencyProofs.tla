---------------------- MODULE SqliteIdempotencyProofs -----------------------
(***************************************************************************)
(* Proofs about SqliteIdempotency, for any set of requests, keys and       *)
(* payloads, any times and any age of the timestamps.                      *)
(***************************************************************************)
EXTENDS SqliteIdempotency, FiniteSetTheorems, TLAPS

Retention == Ttl - Busy

-----------------------------------------------------------------------------
(* The row operators *)

LEMMA TimesFacts ==
    /\ Lease \in Nat /\ Busy \in Nat /\ Ttl \in Nat /\ InFlightWait \in Nat
    /\ Ttl > Busy
    /\ Retention \in Nat /\ Retention > 0
    /\ 0 \in 0..Retention /\ Retention \in 0..Retention
    /\ \A d \in Age : d \in Nat /\ d <= Busy
  BY TimesAssumption DEF Retention, Age

LEMMA RowParts ==
    ASSUME NEW e \in Row
    PROVE  /\ e.state \in Settled \cup {"absent", "in_flight"}
           /\ e.token \in Nat
           /\ e.lease \in Int /\ -Busy <= e.lease /\ e.lease <= Lease
           /\ e.ttl \in Int /\ -Busy <= e.ttl /\ e.ttl <= Ttl
  BY TimesFacts DEF Row

LEMMA AbsentRow == Absent \in Row
<1>1. -Busy \in (-Busy)..Lease /\ -Busy \in (-Busy)..Ttl
  BY TimesFacts
<1>2. QED
  BY <1>1 DEF Absent, Row

LEMMA Stamps ==
    ASSUME NEW d \in Age
    PROVE  /\ Lease - d \in (-Busy)..Lease
           /\ Ttl - d \in (-Busy)..Ttl
           /\ -Busy \in (-Busy)..Lease
           /\ Ttl - d >= Retention
  BY TimesFacts DEF Retention

LEMMA RenewedRow ==
    ASSUME NEW e \in Row, NEW d \in Age
    PROVE  Renewed(e, d) \in Row
  BY Stamps DEF Row, Renewed

LEMMA RecordedRow ==
    ASSUME NEW e \in Row, NEW d \in Age, NEW v \in Settled
    PROVE  Recorded(e, v, d) \in Row
  BY Stamps DEF Row, Recorded

LEMMA NewRow ==
    ASSUME NEW fp \in Fingerprint, NEW t \in Nat, NEW d \in Age
    PROVE  InFlightRow(fp, t, d) \in Row
  BY Stamps DEF Row, InFlightRow

(* What expireLeases and deleteExpired do to one row: nothing, or they call *)
(* its owner lost for a whole retention, or they forget it.                *)
Tombstone(e, f) ==
    /\ e.state = "in_flight"
    /\ f.state = "unknown"
    /\ f.token = e.token
    /\ f.fp = e.fp
    /\ f.ttl >= Retention

Over(e) == e.state \in Settled /\ e.ttl <= 0

LEMMA SweptRow ==
    ASSUME NEW e \in Row, NEW d \in Age
    PROVE  /\ Swept(e, d) \in Row
           /\ Swept(e, d) = e \/ Tombstone(e, Swept(e, d))
<1>1. CASE e.state = "in_flight" /\ e.lease <= -d
  <2> DEFINE left == IF e.ttl > Ttl - d THEN e.ttl ELSE Ttl - d
  <2>1. Swept(e, d) = [e EXCEPT !.state = "unknown", !.lease = -Busy, !.ttl = left]
    BY <1>1 DEF Swept
  <2>2. left \in (-Busy)..Ttl /\ left >= Retention
    BY Stamps, RowParts, TimesFacts
  <2>3. "unknown" \in Settled
    BY DEF Settled
  <2> HIDE DEF left
  <2>4. Swept(e, d) \in Row
    BY <2>1, <2>2, <2>3, Stamps DEF Row
  <2>5. Tombstone(e, Swept(e, d))
    BY <1>1, <2>1, <2>2 DEF Tombstone, Row
  <2>6. QED
    BY <2>4, <2>5
<1>2. CASE ~(e.state = "in_flight" /\ e.lease <= -d)
  BY <1>2 DEF Swept
<1>3. QED
  BY <1>1, <1>2

LEMMA SweptCases ==
    ASSUME NEW e \in Row, NEW d \in Age
    PROVE  /\ Retained(Swept(e, d), d) \in Row
           /\ \/ Retained(Swept(e, d), d) = e
              \/ Tombstone(e, Retained(Swept(e, d), d))
              \/ Over(e) /\ Retained(Swept(e, d), d) = Absent
<1>1. Swept(e, d) \in Row
  BY SweptRow
<1>2. CASE Swept(e, d) = e
  BY <1>2, RowParts, TimesFacts, AbsentRow DEF Retained, Over
<1>3. CASE Tombstone(e, Swept(e, d))
  <2>1. ~(Swept(e, d).ttl <= -d)
    BY <1>1, <1>3, RowParts, TimesFacts DEF Tombstone
  <2>2. Retained(Swept(e, d), d) = Swept(e, d)
    BY <2>1 DEF Retained
  <2>3. QED
    BY <1>1, <1>3, <2>2
<1>4. QED
  BY <1>2, <1>3, SweptRow

LEMMA EarlierRange ==
    ASSUME NEW b \in Nat, NEW n \in (-Busy)..b
    PROVE  Earlier(n) \in (-Busy)..b /\ Earlier(n) >= n - 1 /\ Earlier(n) <= n
  BY TimesFacts DEF Earlier

LEMMA AgedRow ==
    ASSUME NEW e \in Row
    PROVE  [e EXCEPT !.lease = Earlier(@), !.ttl = Earlier(@)] \in Row
<1>1. Earlier(e.lease) \in (-Busy)..Lease /\ Earlier(e.ttl) \in (-Busy)..Ttl
  BY EarlierRange, TimesFacts DEF Row
<1>2. QED
  BY <1>1 DEF Row

LEMMA DecodedPc ==
    ASSUME NEW e, NEW fp
    PROVE  Decode(e, fp) \in {"waiting", "replayed", "key_reused", "not_replayable",
                              "previous_failed", "previous_unknown"}
  BY DEF Decode

-----------------------------------------------------------------------------
(* What a step may do to one row, and to the time since a lease of it was  *)
(* last unexpired                                                          *)

Untouched(k) == row'[k] = row[k] /\ quiet'[k] = quiet[k]

RenewedNow(k) ==
    /\ row[k].state = "in_flight"
    /\ \E d \in Age : row'[k] = Renewed(row[k], d)
    /\ quiet'[k] \in {0, quiet[k]}

SettledNow(k, v) ==
    /\ row[k].state = "in_flight"
    /\ row'[k].state = v
    /\ row'[k].token = row[k].token
    /\ row'[k].fp = row[k].fp
    /\ row'[k].ttl >= Retention
    /\ quiet'[k] = quiet[k]

Removed(k) == Over(row[k]) /\ row'[k] = Absent /\ quiet'[k] = quiet[k]

Claimed(k, fp) ==
    /\ row[k].state = "absent" \/ Over(row[k])
    /\ \E d \in Age : row'[k] = InFlightRow(fp, lastToken + 1, d)
    /\ quiet'[k] = 0

Aged(k) ==
    /\ row'[k] = [row[k] EXCEPT !.lease = Earlier(@), !.ttl = Earlier(@)]
    /\ quiet'[k] = IF Live(row[k]) \/ quiet[k] = Retention
                     THEN quiet[k] ELSE quiet[k] + 1

(* What the statements that precede every claim do to a row. *)
Calm(k) == Untouched(k) \/ SettledNow(k, "unknown") \/ Removed(k)

AllCalm == \A k \in Key : Calm(k)

-----------------------------------------------------------------------------
(* What a step may do, as far as rows, tokens and answers go *)

Outside == {"idle"} \cup Polling

Retired == {"created", "created-unconfirmed", "rethrown", "crashed"}

(* Only r moves. *)
Alone(r) ==
    /\ ask' = ask
    /\ \A o \in Request \ {r} : pc'[o] = pc[o] /\ claim'[o] = claim[o] /\ saw'[o] = saw[o]

(* r is told what the row of its key says. *)
Reads(r) ==
    /\ AllCalm
    /\ pc[r] \in Outside
    /\ claim'[r] = claim[r]
    /\ lastToken' = lastToken
    /\ row'[KeyOf(r)].state # "absent"
    /\ saw'[r] = row'[KeyOf(r)].token
    /\ pc'[r] = Decode(row'[KeyOf(r)], ask[r].fp)

(* r goes on, or gives up, and hears of no verdict. *)
Passes(r) ==
    /\ AllCalm
    /\ pc[r] \in Outside
    /\ claim'[r] = claim[r]
    /\ lastToken' = lastToken
    /\ saw'[r] \in {saw[r], row'[KeyOf(r)].token}
    /\ pc'[r] \in Polling \cup {"capacity", "unavailable", "in_progress", "crashed"}
    /\ pc'[r] \in {"waiting", "in_progress"} =>
          \/ pc[r] = "waiting" /\ saw'[r] = saw[r]
          \/ row'[KeyOf(r)].state # "absent" /\ saw'[r] = row'[KeyOf(r)].token

(* The row of k is one more than those that the sweep has left. *)
HasRoom(k) ==
    \E left \in SUBSET Entries(row) :
        /\ ~(Cardinality(left) >= MaxEntries)
        /\ Entries(row') = left \cup {k}

(* r inserts a row, and runs its operation or not. *)
Opens(r) ==
    /\ \A k \in Key \ {KeyOf(r)} : Calm(k)
    /\ Claimed(KeyOf(r), ask[r].fp)
    /\ HasRoom(KeyOf(r))
    /\ lastToken' = lastToken + 1
    /\ \/ /\ pc[r] = "idle" /\ pc'[r] = "running"
          /\ claim'[r] = lastToken + 1 /\ saw'[r] = saw[r]
       \/ /\ pc[r] = "reclaiming" /\ pc'[r] = "in_progress"
          /\ claim'[r] = claim[r] /\ saw'[r] = lastToken + 1

(* r is an owner, and records nothing. *)
Works(r) ==
    /\ \A k \in Key : Untouched(k) \/ RenewedNow(k)
    /\ pc[r] = "running"
    /\ claim'[r] = claim[r] /\ saw'[r] = saw[r]
    /\ lastToken' = lastToken
    /\ pc'[r] \in {"running"} \cup (Retired \ {"created"})

(* r is an owner, and records what became of its operation. *)
Records(r) ==
    /\ \A k \in Key \ {KeyOf(r)} : Untouched(k)
    /\ pc[r] = "running"
    /\ Owned(row[KeyOf(r)], claim[r])
    /\ claim'[r] = claim[r] /\ saw'[r] = saw[r]
    /\ lastToken' = lastToken
    /\ \/ SettledNow(KeyOf(r), "completed") /\ pc'[r] = "created"
       \/ SettledNow(KeyOf(r), "oversized") /\ pc'[r] = "created"
       \/ SettledNow(KeyOf(r), "failed") /\ pc'[r] = "rethrown"

(* Time passes, or nothing happens. *)
Ages ==
    /\ (\A k \in Key : Aged(k)) \/ (\A k \in Key : Untouched(k))
    /\ UNCHANGED <<lastToken, ask, pc, claim, saw>>

Moves(r) == Alone(r) /\ (Reads(r) \/ Passes(r) \/ Opens(r) \/ Works(r) \/ Records(r))

StepMoves == (\E r \in Request : Moves(r)) \/ Ages

-----------------------------------------------------------------------------
(* Types; the bound of the table is RoomInv, below *)

Types ==
    /\ row \in [Key -> Row]
    /\ lastToken \in Nat
    /\ ask \in [Request -> [key : Key, fp : Fingerprint]]
    /\ pc \in [Request -> Polling \cup Answer \cup {"idle", "running", "crashed"}]
    /\ claim \in [Request -> Nat]
    /\ saw \in [Request -> Nat]
    /\ wait \in [Request -> 0..InFlightWait]
    /\ quiet \in [Key -> 0..Retention]

LEMMA MyRow ==
    ASSUME Types, NEW r \in Request
    PROVE  /\ KeyOf(r) \in Key
           /\ ask[r].fp \in Fingerprint
           /\ Mine(r) \in Row
           /\ Mine(r) = row[KeyOf(r)]
  BY DEF Types, KeyOf, Mine

LEMMA TableType ==
    ASSUME Types, NEW d \in Age
    PROVE  /\ Table(d) \in [Key -> Row]
           /\ \A k \in Key : Table(d)[k] = Retained(Swept(row[k], d), d)
<1>1. \A k \in Key : row[k] \in Row
  BY DEF Types
<1>2. \A k \in Key : Retained(Swept(row[k], d), d) \in Row
  BY <1>1, SweptCases
<1>3. QED
  BY <1>2 DEF Table

LEMMA TypesInit == Init => Types
<1>1. Retention \in 0..Retention /\ 0 \in 0..InFlightWait
  BY TimesFacts
<1>2. QED
  BY <1>1, AbsentRow DEF Init, Types, Retention

LEMMA ReadTypes == ASSUME Types, NEW r \in Request, Read(r) PROVE Types'
<1>1. PICK d \in Age :
         /\ row' = Table(d)
         /\ Goto(r, Decode(Table(d)[KeyOf(r)], ask[r].fp))
         /\ saw' = [saw EXCEPT ![r] = Table(d)[KeyOf(r)].token]
  BY DEF Read
<1>2. Table(d) \in [Key -> Row] /\ Table(d)[KeyOf(r)] \in Row
  BY TableType, MyRow
<1>3. Decode(Table(d)[KeyOf(r)], ask[r].fp) \in Polling \cup Answer
  BY DecodedPc DEF Polling, Answer
<1>4. row' \in [Key -> Row]
  BY <1>1, <1>2
<1>5. Table(d)[KeyOf(r)].token \in Nat
  BY <1>2, RowParts
<1>6. pc' \in [Request -> Polling \cup Answer \cup {"idle", "running", "crashed"}]
  BY <1>1, <1>3 DEF Goto, Types
<1>7. saw' \in [Request -> Nat]
  BY <1>1, <1>5 DEF Types
<1>8. wait' \in [Request -> 0..InFlightWait]
  BY TimesFacts DEF Read, Types
<1>9. QED
  BY <1>4, <1>6, <1>7, <1>8 DEF Read, Types

LEMMA InsertTypes ==
    ASSUME Types, NEW r \in Request, NEW d \in Age, Insert(r, d)
    PROVE  /\ row' \in [Key -> Row]
           /\ lastToken' \in Nat
           /\ quiet' \in [Key -> 0..Retention]
           /\ ask' = ask /\ wait' = wait
<1>1. Table(d) \in [Key -> Row]
  BY TableType
<1>2. InFlightRow(ask[r].fp, lastToken + 1, d) \in Row
  BY NewRow, MyRow DEF Types
<1>3. row' \in [Key -> Row]
  BY <1>1, <1>2, MyRow DEF Insert
<1>4. quiet' \in [Key -> 0..Retention]
  BY TimesFacts DEF Insert, Types
<1>5. lastToken' \in Nat
  BY DEF Insert, Types
<1>6. QED
  BY <1>3, <1>4, <1>5 DEF Insert

LEMMA OwnerTypes ==
    ASSUME Types, NEW r \in Request, ExecuteOwned(r)
    PROVE  Types'
<1> USE MyRow
<1>1. CASE Heartbeat(r)
  <2>1. PICK d \in Age :
           /\ SetMine(r, Renewed(Mine(r), d))
           /\ quiet' = IF d < Lease THEN [quiet EXCEPT ![KeyOf(r)] = 0] ELSE quiet
    BY <1>1 DEF Heartbeat
  <2>2. Renewed(Mine(r), d) \in Row
    BY RenewedRow
  <2>3. row' \in [Key -> Row]
    BY <2>1, <2>2 DEF SetMine, Types
  <2>4. quiet' \in [Key -> 0..Retention]
    BY <2>1, TimesFacts DEF Types
  <2>5. QED
    BY <1>1, <2>3, <2>4 DEF Heartbeat, Types
<1>2. CASE Complete(r)
  <2>1. row' \in [Key -> Row]
    <3>1. CASE row' = row
      BY <3>1 DEF Types
    <3>2. CASE \E d \in Age, verdict \in {"completed", "oversized"} :
                  SetMine(r, Recorded(Mine(r), verdict, d))
      <4>1. PICK d \in Age, verdict \in {"completed", "oversized"} :
                  SetMine(r, Recorded(Mine(r), verdict, d))
        BY <3>2
      <4>2. Recorded(Mine(r), verdict, d) \in Row
        BY RecordedRow DEF Settled
      <4>3. QED
        BY <4>1, <4>2 DEF SetMine, Types
    <3>3. QED
      BY <1>2, <3>1, <3>2 DEF Complete
  <2>2. pc' \in [Request -> Polling \cup Answer \cup {"idle", "running", "crashed"}]
    BY <1>2 DEF Complete, Goto, Answer, Types
  <2>3. QED
    BY <1>2, <2>1, <2>2 DEF Complete, Types
<1>3. CASE Fail(r)
  <2>1. row' \in [Key -> Row]
    <3>1. CASE row' = row
      BY <3>1 DEF Types
    <3>2. CASE \E d \in Age : SetMine(r, Recorded(Mine(r), "failed", d))
      <4>1. PICK d \in Age : SetMine(r, Recorded(Mine(r), "failed", d))
        BY <3>2
      <4>2. Recorded(Mine(r), "failed", d) \in Row
        BY RecordedRow DEF Settled
      <4>3. QED
        BY <4>1, <4>2 DEF SetMine, Types
    <3>3. QED
      BY <1>3, <3>1, <3>2 DEF Fail
  <2>2. pc' \in [Request -> Polling \cup Answer \cup {"idle", "running", "crashed"}]
    BY <1>3 DEF Fail, Goto, Answer, Types
  <2>3. QED
    BY <1>3, <2>1, <2>2 DEF Fail, Types
<1>4. QED
  BY <1>1, <1>2, <1>3 DEF ExecuteOwned

LEMMA WaiterTypes ==
    ASSUME Types, NEW r \in Request, WaitForOwner(r)
    PROVE  Types'
<1>1. CASE Poll(r)
  <2>1. Decode(Mine(r), ask[r].fp) \in Polling \cup Answer
    BY DecodedPc DEF Polling, Answer
  <2>2. Mine(r).token \in Nat
    BY MyRow, RowParts
  <2>3. pc' \in [Request -> Polling \cup Answer \cup {"idle", "running", "crashed"}]
    BY <1>1, <2>1 DEF Poll, Goto, Types, Polling
  <2>4. saw' \in [Request -> Nat]
    BY <1>1, <2>2 DEF Poll, Types
  <2>5. QED
    BY <1>1, <2>3, <2>4 DEF Poll, Types
<1>2. CASE Reread(r)
  <2>1. PICK d \in Age :
           /\ row' = Table(d)
           /\ saw' = [saw EXCEPT ![r] = Table(d)[KeyOf(r)].token]
           /\ \E told \in {Decode(Table(d)[KeyOf(r)], ask[r].fp)} :
                 Goto(r, IF told = "waiting" THEN "in_progress" ELSE told)
    BY <1>2 DEF Reread
  <2>2. Table(d) \in [Key -> Row] /\ Table(d)[KeyOf(r)].token \in Nat
    BY TableType, MyRow, RowParts
  <2>3. row' \in [Key -> Row] /\ saw' \in [Request -> Nat]
    BY <2>1, <2>2 DEF Types
  <2>4. PICK told : /\ told = Decode(Table(d)[KeyOf(r)], ask[r].fp)
                    /\ Goto(r, IF told = "waiting" THEN "in_progress" ELSE told)
    BY <2>1
  <2>5. told \in Answer \cup {"waiting"}
    BY <2>4, DecodedPc DEF Answer
  <2>6. pc' \in [Request -> Polling \cup Answer \cup {"idle", "running", "crashed"}]
    BY <2>4, <2>5 DEF Goto, Answer, Types
  <2>7. QED
    BY <1>2, <2>3, <2>6 DEF Reread, Types
<1>3. CASE Reclaim(r)
  <2>1. PICK d \in Age : Insert(r, d)
    BY <1>3 DEF Reclaim
  <2>2. /\ row' \in [Key -> Row]
        /\ lastToken' \in Nat
        /\ quiet' \in [Key -> 0..Retention]
        /\ ask' = ask /\ wait' = wait
    BY <2>1, InsertTypes
  <2>3. pc' \in [Request -> Polling \cup Answer \cup {"idle", "running", "crashed"}]
    BY <1>3 DEF Reclaim, Goto, Answer, Types
  <2>4. saw' \in [Request -> Nat] /\ claim' = claim
    BY <1>3 DEF Reclaim, Types
  <2>5. QED
    BY <2>2, <2>3, <2>4 DEF Types
<1>4. CASE GiveUp(r)
  BY <1>4 DEF GiveUp, Goto, Answer, Types
<1>5. QED
  BY <1>1, <1>2, <1>3, <1>4 DEF WaitForOwner

LEMMA ClaimTypes == ASSUME Types, NEW r \in Request, Claim(r) PROVE Types'
<1>1. PICK d \in Age : Insert(r, d)
  BY DEF Claim
<1>2. /\ row' \in [Key -> Row]
      /\ lastToken' \in Nat
      /\ quiet' \in [Key -> 0..Retention]
      /\ ask' = ask /\ wait' = wait
  BY <1>1, InsertTypes
<1>3. pc' \in [Request -> Polling \cup Answer \cup {"idle", "running", "crashed"}]
  BY DEF Claim, Goto, Types
<1>4. claim' \in [Request -> Nat] /\ saw' = saw
  BY DEF Claim, Types
<1>5. QED
  BY <1>2, <1>3, <1>4 DEF Types

LEMMA RefuseTypes == ASSUME Types, NEW r \in Request, RefuseFull(r) PROVE Types'
<1>1. PICK d \in Age : row' = Table(d)
  BY DEF RefuseFull
<1>2. row' \in [Key -> Row]
  BY <1>1, TableType
<1>3. QED
  BY <1>2 DEF RefuseFull, Goto, Answer, Types

LEMMA TickTypes == ASSUME Types, Tick PROVE Types'
<1>1. \A k \in Key : [row[k] EXCEPT !.lease = Earlier(@), !.ttl = Earlier(@)] \in Row
  BY AgedRow DEF Types
<1>2. row' \in [Key -> Row]
  BY <1>1 DEF Tick
<1>3. ASSUME NEW r \in Request PROVE Less(wait[r]) \in 0..InFlightWait
  <2>1. wait[r] \in 0..InFlightWait /\ InFlightWait \in Nat
    BY TimesFacts DEF Types
  <2>2. QED
    BY <2>1 DEF Less
<1>4. wait' \in [Request -> 0..InFlightWait]
  BY <1>3 DEF Tick
<1>5. ASSUME NEW k \in Key, quiet[k] # Retention PROVE quiet[k] + 1 \in 0..Retention
  <2>1. quiet[k] \in 0..Retention /\ Retention \in Nat
    BY TimesFacts DEF Types
  <2>2. QED
    BY <1>5, <2>1
<1>6. \A k \in Key : quiet[k] \in 0..Retention
  BY DEF Types
<1>7. quiet' \in [Key -> 0..Retention]
  BY <1>5, <1>6 DEF Tick, Retention
<1>8. QED
  BY <1>2, <1>4, <1>7 DEF Tick, Types

LEMMA TypesStep == Types /\ [Next]_vars => Types'
<1> SUFFICES ASSUME Types, [Next]_vars PROVE Types'
  OBVIOUS
<1>1. ASSUME NEW r \in Request, ClaimOrRead(r) PROVE Types'
  BY <1>1, ReadTypes, ClaimTypes, RefuseTypes DEF ClaimOrRead
<1>2. ASSUME NEW r \in Request, Unavailable(r) PROVE Types'
  BY <1>2 DEF Unavailable, Goto, Answer, Types
<1>3. ASSUME NEW r \in Request, Crash(r) PROVE Types'
  BY <1>3 DEF Crash, Goto, Types
<1>4. CASE UNCHANGED vars
  BY <1>4 DEF vars, Types
<1>5. QED
  BY <1>1, <1>2, <1>3, <1>4, OwnerTypes, WaiterTypes, TickTypes DEF Next

-----------------------------------------------------------------------------
(* Every action is one of the moves *)

LEMMA TableCalm ==
    ASSUME Types, NEW k \in Key, NEW d \in Age, row'[k] = Table(d)[k],
           quiet'[k] = quiet[k]
    PROVE  Calm(k)
<1>1. row[k] \in Row /\ Table(d)[k] = Retained(Swept(row[k], d), d)
  BY TableType DEF Types
<1>2. QED
  BY <1>1, SweptCases DEF Calm, Untouched, SettledNow, Removed, Tombstone

LEMMA RowsCalm ==
    ASSUME Types, NEW d \in Age, row' = Table(d), quiet' = quiet
    PROVE  AllCalm
  BY TableCalm DEF AllCalm

LEMMA StillCalm ==
    ASSUME row' = row, quiet' = quiet
    PROVE  AllCalm
  BY DEF AllCalm, Calm, Untouched

LEMMA InsertMoves ==
    ASSUME Types, NEW r \in Request, NEW d \in Age, Insert(r, d)
    PROVE  /\ \A k \in Key \ {KeyOf(r)} : Calm(k)
           /\ Claimed(KeyOf(r), ask[r].fp)
           /\ HasRoom(KeyOf(r))
           /\ lastToken' = lastToken + 1
<1>1. /\ KeyOf(r) \in Key
      /\ Table(d) \in [Key -> Row]
      /\ \A k \in Key : Table(d)[k] = Retained(Swept(row[k], d), d)
      /\ row[KeyOf(r)] \in Row
      /\ quiet \in [Key -> 0..Retention]
  BY MyRow, TableType DEF Types
<1>2. ASSUME NEW k \in Key \ {KeyOf(r)} PROVE Calm(k)
  <2>1. row'[k] = Table(d)[k] /\ quiet'[k] = quiet[k]
    BY <1>1 DEF Insert
  <2>2. QED
    BY <2>1, TableCalm
<1>3. row[KeyOf(r)].state = "absent" \/ Over(row[KeyOf(r)])
  <2>1. Retained(Swept(row[KeyOf(r)], d), d).state = "absent"
    BY <1>1 DEF Insert, Reading
  <2>2. QED
    BY <1>1, <2>1, SweptCases DEF Tombstone
<1>4. row'[KeyOf(r)] = InFlightRow(ask[r].fp, lastToken + 1, d) /\ quiet'[KeyOf(r)] = 0
  BY <1>1 DEF Insert
<1>5. HasRoom(KeyOf(r))
  <2>1. ASSUME NEW k \in Key, Table(d)[k].state # "absent" PROVE row[k].state # "absent"
    <3>1. row[k] \in Row
      BY DEF Types
    <3>2. QED
      BY <1>1, <2>1, <3>1, SweptCases DEF Tombstone, Absent
  <2>2. Entries(Table(d)) \in SUBSET Entries(row)
    BY <2>1 DEF Entries
  <2>3. ~(Cardinality(Entries(Table(d))) >= MaxEntries)
    BY DEF Insert, Full
  <2>4. row' = [Table(d) EXCEPT ![KeyOf(r)] = InFlightRow(ask[r].fp, lastToken + 1, d)]
    BY DEF Insert
  <2>5. Entries(row') = Entries(Table(d)) \cup {KeyOf(r)}
    BY <1>1, <2>4 DEF Entries, InFlightRow
  <2>6. QED
    BY <2>2, <2>3, <2>5 DEF HasRoom
<1>6. QED
  BY <1>2, <1>3, <1>4, <1>5 DEF Claimed, Insert

LEMMA GotoAlone ==
    ASSUME Types, NEW r \in Request, NEW where,
           Goto(r, where), claim' = claim, saw' = saw, ask' = ask
    PROVE  Alone(r) /\ pc'[r] = where /\ claim'[r] = claim[r] /\ saw'[r] = saw[r]
  BY DEF Goto, Types, Alone

LEMMA GotoSaw ==
    ASSUME Types, NEW r \in Request, NEW where, NEW t,
           Goto(r, where), claim' = claim, saw' = [saw EXCEPT ![r] = t], ask' = ask
    PROVE  Alone(r) /\ pc'[r] = where /\ claim'[r] = claim[r] /\ saw'[r] = t
  BY DEF Goto, Types, Alone

LEMMA ClaimMoves ==
    ASSUME Types, NEW r \in Request,
           ClaimOrRead(r) \/ Unavailable(r) \/ Crash(r)
    PROVE  Moves(r)
<1>1. CASE Read(r)
  <2>1. PICK d \in Age :
           /\ Reading(r, d)
           /\ row' = Table(d)
           /\ Goto(r, Decode(Table(d)[KeyOf(r)], ask[r].fp))
           /\ saw' = [saw EXCEPT ![r] = Table(d)[KeyOf(r)].token]
    BY <1>1 DEF Read
  <2>2. AllCalm
    BY <1>1, <2>1, RowsCalm DEF Read
  <2>3. /\ Alone(r) /\ claim'[r] = claim[r]
        /\ pc'[r] = Decode(Table(d)[KeyOf(r)], ask[r].fp)
        /\ saw'[r] = Table(d)[KeyOf(r)].token
    BY <1>1, <2>1, GotoSaw DEF Read
  <2>4. Reads(r)
    BY <1>1, <2>1, <2>2, <2>3 DEF Read, Reads, Reading, Outside
  <2>5. QED
    BY <2>3, <2>4 DEF Moves
<1>2. CASE RefuseFull(r)
  <2>1. PICK d \in Age : row' = Table(d)
    BY <1>2 DEF RefuseFull
  <2>2. AllCalm
    BY <1>2, <2>1, RowsCalm DEF RefuseFull
  <2>3. Alone(r) /\ pc'[r] = "capacity" /\ claim'[r] = claim[r] /\ saw'[r] = saw[r]
    BY <1>2, GotoAlone DEF RefuseFull
  <2>4. QED
    BY <1>2, <2>2, <2>3 DEF RefuseFull, Moves, Passes, Outside, Polling
<1>3. CASE Claim(r)
  <2>1. PICK d \in Age : Insert(r, d)
    BY <1>3 DEF Claim
  <2>2. /\ Alone(r) /\ pc'[r] = "running"
        /\ claim'[r] = lastToken + 1 /\ saw'[r] = saw[r]
    BY <1>3, <2>1 DEF Claim, Insert, Goto, Types, Alone
  <2>3. QED
    BY <1>3, <2>1, <2>2, InsertMoves DEF Claim, Moves, Opens
<1>4. CASE Unavailable(r)
  <2>1. Alone(r) /\ pc'[r] = "unavailable" /\ claim'[r] = claim[r] /\ saw'[r] = saw[r]
    BY <1>4, GotoAlone DEF Unavailable
  <2>2. AllCalm
    BY <1>4, StillCalm DEF Unavailable
  <2>3. QED
    BY <1>4, <2>1, <2>2 DEF Unavailable, Moves, Passes, Outside
<1>5. CASE Crash(r)
  <2>1. Alone(r) /\ pc'[r] = "crashed" /\ claim'[r] = claim[r] /\ saw'[r] = saw[r]
    BY <1>5, GotoAlone DEF Crash
  <2>2. CASE pc[r] \in Polling
    <3>1. AllCalm
      BY <1>5, StillCalm DEF Crash
    <3>2. QED
      BY <1>5, <2>1, <2>2, <3>1 DEF Crash, Moves, Passes, Outside
  <2>3. CASE pc[r] = "running"
    BY <1>5, <2>1, <2>3 DEF Crash, Moves, Works, Untouched, Retired
  <2>4. QED
    BY <1>5, <2>2, <2>3 DEF Crash
<1>6. QED
  BY <1>1, <1>2, <1>3, <1>4, <1>5 DEF ClaimOrRead

LEMMA MySettled ==
    ASSUME Types, NEW r \in Request, NEW d \in Age, NEW v \in Settled,
           Owned(Mine(r), claim[r]), SetMine(r, Recorded(Mine(r), v, d)),
           quiet' = quiet
    PROVE  /\ SettledNow(KeyOf(r), v)
           /\ \A k \in Key \ {KeyOf(r)} : Untouched(k)
<1>1. /\ KeyOf(r) \in Key /\ row \in [Key -> Row] /\ row[KeyOf(r)] \in Row
      /\ Mine(r) = row[KeyOf(r)]
  BY MyRow DEF Types
<1>2. row'[KeyOf(r)] = Recorded(row[KeyOf(r)], v, d)
  BY <1>1 DEF SetMine
<1>3. SettledNow(KeyOf(r), v)
  BY <1>1, <1>2, Stamps DEF SettledNow, Recorded, Owned, Row
<1>4. QED
  BY <1>1, <1>3 DEF SetMine, Untouched

LEMMA OwnerMoves ==
    ASSUME Types, NEW r \in Request, ExecuteOwned(r)
    PROVE  Moves(r)
<1>0. Mine(r) = row[KeyOf(r)] /\ KeyOf(r) \in Key
  BY MyRow
<1>1. CASE Heartbeat(r)
  <2>1. PICK d \in Age :
           /\ SetMine(r, Renewed(Mine(r), d))
           /\ quiet' = IF d < Lease THEN [quiet EXCEPT ![KeyOf(r)] = 0] ELSE quiet
    BY <1>1 DEF Heartbeat
  <2>2. ASSUME NEW k \in Key \ {KeyOf(r)} PROVE Untouched(k)
    BY <1>0, <2>1 DEF SetMine, Untouched, Types
  <2>3. row'[KeyOf(r)] = Renewed(row[KeyOf(r)], d) /\ quiet'[KeyOf(r)] \in {0, quiet[KeyOf(r)]}
    BY <1>0, <2>1 DEF SetMine, Types
  <2>4. RenewedNow(KeyOf(r))
    BY <1>0, <1>1, <2>3 DEF Heartbeat, Owned, RenewedNow
  <2>5. \A k \in Key : Untouched(k) \/ RenewedNow(k)
    BY <2>2, <2>4
  <2>6. QED
    BY <1>1, <2>5 DEF Heartbeat, Moves, Works, Alone
<1>2. CASE Complete(r)
  <2>1. CASE \E d \in Age, v \in {"completed", "oversized"} :
                /\ Owned(Mine(r), claim[r])
                /\ SetMine(r, Recorded(Mine(r), v, d))
                /\ Goto(r, "created")
    <3>1. PICK d \in Age, v \in {"completed", "oversized"} :
                /\ Owned(Mine(r), claim[r])
                /\ SetMine(r, Recorded(Mine(r), v, d))
                /\ Goto(r, "created")
      BY <2>1
    <3>2. SettledNow(KeyOf(r), v) /\ \A k \in Key \ {KeyOf(r)} : Untouched(k)
      BY <1>2, <3>1, MySettled DEF Complete, Settled
    <3>3. Alone(r) /\ pc'[r] = "created" /\ claim'[r] = claim[r] /\ saw'[r] = saw[r]
      BY <1>2, <3>1, GotoAlone DEF Complete
    <3>4. QED
      BY <1>0, <1>2, <3>1, <3>2, <3>3 DEF Complete, Moves, Records
  <2>2. CASE Goto(r, "created-unconfirmed") /\ row' = row
    <3>1. /\ Alone(r) /\ pc'[r] = "created-unconfirmed"
          /\ claim'[r] = claim[r] /\ saw'[r] = saw[r]
      BY <1>2, <2>2, GotoAlone DEF Complete
    <3>2. QED
      BY <1>2, <2>2, <3>1 DEF Complete, Moves, Works, Untouched, Retired
  <2>3. QED
    BY <1>2, <2>1, <2>2 DEF Complete
<1>3. CASE Fail(r)
  <2>1. Alone(r) /\ pc'[r] = "rethrown" /\ claim'[r] = claim[r] /\ saw'[r] = saw[r]
    BY <1>3, GotoAlone DEF Fail
  <2>2. CASE \E d \in Age : /\ Owned(Mine(r), claim[r])
                            /\ SetMine(r, Recorded(Mine(r), "failed", d))
    <3>1. PICK d \in Age : /\ Owned(Mine(r), claim[r])
                           /\ SetMine(r, Recorded(Mine(r), "failed", d))
      BY <2>2
    <3>2. SettledNow(KeyOf(r), "failed") /\ \A k \in Key \ {KeyOf(r)} : Untouched(k)
      BY <1>3, <3>1, MySettled DEF Fail, Settled
    <3>3. QED
      BY <1>0, <1>3, <2>1, <3>1, <3>2 DEF Fail, Moves, Records
  <2>3. CASE row' = row
    BY <1>3, <2>1, <2>3 DEF Fail, Moves, Works, Untouched, Retired
  <2>4. QED
    BY <1>3, <2>2, <2>3 DEF Fail
<1>4. QED
  BY <1>1, <1>2, <1>3 DEF ExecuteOwned

LEMMA WaiterMoves ==
    ASSUME Types, NEW r \in Request, WaitForOwner(r)
    PROVE  Moves(r)
<1>0. Mine(r) = row[KeyOf(r)] /\ KeyOf(r) \in Key /\ Mine(r) \in Row
  BY MyRow
<1>1. CASE Poll(r)
  <2>1. AllCalm
    BY <1>1, StillCalm DEF Poll
  <2>2. CASE Mine(r).state \in Settled
    <3>1. Goto(r, Decode(Mine(r), ask[r].fp))
      BY <1>1, <2>2 DEF Poll
    <3>2. /\ Alone(r) /\ claim'[r] = claim[r] /\ saw'[r] = Mine(r).token
          /\ pc'[r] = Decode(Mine(r), ask[r].fp)
      BY <1>1, <3>1, GotoSaw DEF Poll
    <3>3. row'[KeyOf(r)] = Mine(r) /\ Mine(r).state # "absent"
      BY <1>0, <1>1, <2>2 DEF Poll, Settled
    <3>4. QED
      BY <1>1, <2>1, <3>2, <3>3 DEF Poll, Moves, Reads, Outside, Polling
  <2>3. CASE Mine(r).state \notin Settled
    <3>1. PICK where \in Polling : /\ Goto(r, where)
                                   /\ where = "waiting" => Mine(r).state # "absent"
      BY <1>1, <2>3 DEF Poll, Polling
    <3>2. /\ Alone(r) /\ claim'[r] = claim[r] /\ saw'[r] = Mine(r).token
          /\ pc'[r] = where
      BY <1>1, <3>1, GotoSaw DEF Poll
    <3>3. row'[KeyOf(r)] = Mine(r)
      BY <1>0, <1>1 DEF Poll
    <3>4. QED
      BY <1>1, <2>1, <3>1, <3>2, <3>3 DEF Poll, Moves, Passes, Outside, Polling
  <2>4. QED
    BY <2>2, <2>3
<1>2. CASE Reread(r)
  <2>1. PICK d \in Age :
           /\ Reading(r, d)
           /\ row' = Table(d)
           /\ saw' = [saw EXCEPT ![r] = Table(d)[KeyOf(r)].token]
           /\ Goto(r, IF Decode(Table(d)[KeyOf(r)], ask[r].fp) = "waiting"
                        THEN "in_progress"
                        ELSE Decode(Table(d)[KeyOf(r)], ask[r].fp))
    BY <1>2 DEF Reread
  <2>2. AllCalm
    BY <1>2, <2>1, RowsCalm DEF Reread
  <2>3. CASE Decode(Table(d)[KeyOf(r)], ask[r].fp) = "waiting"
    <3>1. /\ Alone(r) /\ claim'[r] = claim[r] /\ pc'[r] = "in_progress"
          /\ saw'[r] = Table(d)[KeyOf(r)].token
      BY <1>2, <2>1, <2>3, GotoSaw DEF Reread
    <3>2. QED
      BY <1>2, <2>1, <2>2, <3>1 DEF Reread, Reading, Moves, Passes, Outside, Polling
  <2>4. CASE Decode(Table(d)[KeyOf(r)], ask[r].fp) # "waiting"
    <3>1. /\ Alone(r) /\ claim'[r] = claim[r]
          /\ pc'[r] = Decode(Table(d)[KeyOf(r)], ask[r].fp)
          /\ saw'[r] = Table(d)[KeyOf(r)].token
      BY <1>2, <2>1, <2>4, GotoSaw DEF Reread
    <3>2. Reads(r)
      BY <1>2, <2>1, <2>2, <3>1 DEF Reread, Reads, Reading, Outside, Polling
    <3>3. QED
      BY <3>1, <3>2 DEF Moves
  <2>5. QED
    BY <2>3, <2>4
<1>3. CASE Reclaim(r)
  <2>1. PICK d \in Age : Insert(r, d)
    BY <1>3 DEF Reclaim
  <2>2. /\ Alone(r) /\ pc'[r] = "in_progress"
        /\ claim'[r] = claim[r] /\ saw'[r] = lastToken + 1
    BY <1>3, <2>1, GotoSaw DEF Reclaim, Insert
  <2>3. QED
    BY <1>3, <2>1, <2>2, InsertMoves DEF Reclaim, Moves, Opens
<1>4. CASE GiveUp(r)
  <2>1. Alone(r) /\ pc'[r] = "in_progress" /\ claim'[r] = claim[r] /\ saw'[r] = saw[r]
    BY <1>4, GotoAlone DEF GiveUp
  <2>2. AllCalm
    BY <1>4, StillCalm DEF GiveUp
  <2>3. QED
    BY <1>4, <2>1, <2>2 DEF GiveUp, Moves, Passes, Outside, Polling
<1>5. QED
  BY <1>1, <1>2, <1>3, <1>4 DEF WaitForOwner

LEMMA TickMoves == ASSUME Types, Tick PROVE Ages
<1>1. ASSUME NEW k \in Key PROVE Aged(k)
  BY DEF Tick, Aged, Types, Retention
<1>2. QED
  BY <1>1 DEF Ages, Tick

LEMMA NextMoves == Types /\ [Next]_vars => StepMoves
<1> SUFFICES ASSUME Types, [Next]_vars PROVE StepMoves
  OBVIOUS
<1>1. CASE UNCHANGED vars
  BY <1>1 DEF vars, StepMoves, Ages, Untouched
<1>2. QED
  BY <1>1, ClaimMoves, OwnerMoves, WaiterMoves, TickMoves DEF Next, StepMoves

-----------------------------------------------------------------------------
(* The invariants of the table *)

(* Only then does Cardinality count the rows. *)
RoomInv == IsFiniteSet(Entries(row)) /\ Cardinality(Entries(row)) <= MaxEntries

(* A row that is gone was gone for the whole retention, and a settled row  *)
(* has its retention left, less the time in which no lease was unexpired.  *)
(* It ties expires_at, as old as the timestamp may be, to that time.       *)
RetentionInv ==
    \A k \in Key :
        /\ row[k].state = "absent" => quiet[k] = Retention
        /\ row[k].state \in Settled =>
              quiet[k] = Retention \/ quiet[k] + row[k].ttl >= Retention

TableInv == Types /\ RoomInv /\ RetentionInv

Stays(k) ==
    \/ Untouched(k) \/ RenewedNow(k) \/ Removed(k) \/ Aged(k)
    \/ \E v \in Settled : SettledNow(k, v)

LEMMA CalmStays == ASSUME NEW k \in Key, Calm(k) PROVE Stays(k)
  BY DEF Calm, Stays, Settled

LEMMA RowsStay ==
    ASSUME Types, StepMoves
    PROVE  \/ /\ \A k \in Key : Stays(k)
              /\ lastToken' = lastToken
           \/ \E r \in Request :
                 /\ \A k \in Key \ {KeyOf(r)} : Stays(k)
                 /\ Claimed(KeyOf(r), ask[r].fp)
                 /\ HasRoom(KeyOf(r))
                 /\ lastToken' = lastToken + 1
                 /\ KeyOf(r) \in Key
<1>1. CASE Ages
  BY <1>1 DEF Ages, Stays
<1>2. ASSUME NEW r \in Request, Reads(r) \/ Passes(r)
      PROVE  (\A k \in Key : Stays(k)) /\ lastToken' = lastToken
  BY <1>2, CalmStays DEF Reads, Passes, AllCalm
<1>3. ASSUME NEW r \in Request, Works(r)
      PROVE  (\A k \in Key : Stays(k)) /\ lastToken' = lastToken
  BY <1>3 DEF Works, Stays
<1>4. ASSUME NEW r \in Request, Records(r)
      PROVE  (\A k \in Key : Stays(k)) /\ lastToken' = lastToken
  BY <1>4 DEF Records, Stays, Settled
<1>5. ASSUME NEW r \in Request, Opens(r)
      PROVE  /\ \A k \in Key \ {KeyOf(r)} : Stays(k)
             /\ Claimed(KeyOf(r), ask[r].fp)
             /\ HasRoom(KeyOf(r))
             /\ lastToken' = lastToken + 1
             /\ KeyOf(r) \in Key
  BY <1>5, CalmStays, MyRow DEF Opens
<1>6. QED
  BY <1>1, <1>2, <1>3, <1>4, <1>5 DEF StepMoves, Moves

LEMMA RoomInit == Init => RoomInv
<1> SUFFICES ASSUME Init PROVE RoomInv
  OBVIOUS
<1>1. Entries(row) = {}
  BY DEF Init, Entries, Absent
<1>2. QED
  BY <1>1, FS_EmptySet, MaxEntriesAssumption DEF RoomInv

LEMMA StaysEntry ==
    ASSUME Types, NEW k \in Key, Stays(k), row'[k].state # "absent"
    PROVE  row[k].state # "absent"
<1>1. row[k] \in Row
  BY DEF Types
<1>2. QED
  BY <1>1 DEF Stays, Untouched, RenewedNow, Removed, Aged, SettledNow, Over,
     Settled, Absent, Row

LEMMA RoomStep == ASSUME Types, RoomInv, StepMoves PROVE RoomInv'
<1>1. CASE \A k \in Key : Stays(k)
  <2>1. Entries(row)' \in SUBSET Entries(row)
    BY <1>1, StaysEntry DEF Entries
  <2>2. /\ IsFiniteSet(Entries(row)')
        /\ Cardinality(Entries(row)') <= Cardinality(Entries(row))
    BY <2>1, FS_Subset DEF RoomInv
  <2>3. Cardinality(Entries(row)') \in Nat /\ Cardinality(Entries(row)) \in Nat
    BY <2>2, FS_CardinalityType DEF RoomInv
  <2>4. QED
    BY <2>2, <2>3, MaxEntriesAssumption DEF RoomInv
<1>2. CASE \E r \in Request : HasRoom(KeyOf(r)) /\ KeyOf(r) \in Key
  <2>1. PICK k \in Key : HasRoom(k)
    BY <1>2
  <2>2. PICK left \in SUBSET Entries(row) :
           /\ ~(Cardinality(left) >= MaxEntries)
           /\ Entries(row') = left \cup {k}
    BY <2>1 DEF HasRoom
  <2>3. IsFiniteSet(left)
    BY FS_Subset DEF RoomInv
  <2>4. /\ IsFiniteSet(left \cup {k})
        /\ Cardinality(left \cup {k}) = IF k \in left THEN Cardinality(left)
                                                      ELSE Cardinality(left) + 1
    BY <2>3, FS_AddElement
  <2>5. Cardinality(left) \in Nat
    BY <2>3, FS_CardinalityType
  <2>6. Cardinality(left \cup {k}) <= MaxEntries
    BY <2>2, <2>4, <2>5, MaxEntriesAssumption
  <2>7. Entries(row)' = left \cup {k}
    BY <2>2 DEF Entries
  <2>8. QED
    BY <2>4, <2>6, <2>7 DEF RoomInv
<1>3. QED
  BY <1>1, <1>2, RowsStay

LEMMA RetentionInit == Init => RetentionInv
  BY DEF Init, RetentionInv, Retention, Absent, Settled

LEMMA StaysRetained ==
    ASSUME Types, Types', RetentionInv, NEW k \in Key, Stays(k)
    PROVE  /\ row'[k].state = "absent" => quiet'[k] = Retention
           /\ row'[k].state \in Settled =>
                 quiet'[k] = Retention \/ quiet'[k] + row'[k].ttl >= Retention
<1>1. /\ row[k] \in Row
      /\ quiet[k] \in Nat /\ quiet[k] <= Retention /\ Retention \in Nat
      /\ row[k].ttl \in Int
      /\ row[k].state = "absent" => quiet[k] = Retention
      /\ row[k].state \in Settled =>
            quiet[k] = Retention \/ quiet[k] + row[k].ttl >= Retention
  BY TimesFacts, RowParts DEF Types, RetentionInv
<1>2. CASE Untouched(k)
  BY <1>1, <1>2 DEF Untouched
<1>3. CASE RenewedNow(k)
  BY <1>1, <1>3 DEF RenewedNow, Renewed, Row, Settled
<1>4. ASSUME NEW v \in Settled, SettledNow(k, v) PROVE
        /\ row'[k].state \in Settled
        /\ quiet'[k] = Retention \/ quiet'[k] + row'[k].ttl >= Retention
  <2>1. row'[k].ttl >= Retention /\ quiet'[k] = quiet[k] /\ row'[k].state = v
    BY <1>4 DEF SettledNow
  <2>2. row'[k] \in Row
    BY DEF Types
  <2>3. row'[k].ttl \in Int
    BY <2>2, RowParts
  <2>4. QED
    BY <1>1, <2>1, <2>3
<1>5. CASE Removed(k)
  BY <1>1, <1>5 DEF Removed, Over, Absent, Settled
<1>6. CASE Aged(k)
  <2>1. /\ row'[k].state = row[k].state
        /\ row'[k].ttl = Earlier(row[k].ttl)
    BY <1>1, <1>6 DEF Aged, Row
  <2>2. Earlier(row[k].ttl) >= row[k].ttl - 1 /\ Earlier(row[k].ttl) \in Int
    BY <1>1, EarlierRange, TimesFacts DEF Row
  <2>3. CASE row[k].state = "absent"
    BY <1>1, <1>6, <2>1, <2>3 DEF Aged, Settled
  <2>4. CASE row[k].state \in Settled
    <3>1. ~Live(row[k])
      BY <2>4 DEF Live, Settled
    <3>2. quiet'[k] = IF quiet[k] = Retention THEN quiet[k] ELSE quiet[k] + 1
      BY <1>6, <3>1 DEF Aged
    <3>3. QED
      BY <1>1, <2>1, <2>2, <2>4, <3>2 DEF Settled
  <2>5. QED
    BY <2>1, <2>3, <2>4
<1>7. QED
  BY <1>2, <1>3, <1>4, <1>5, <1>6 DEF Stays, Settled

LEMMA RetentionStep ==
    ASSUME Types, Types', RetentionInv, StepMoves
    PROVE  RetentionInv'
<1>1. ASSUME NEW k \in Key, Stays(k)
      PROVE  /\ row'[k].state = "absent" => quiet'[k] = Retention
             /\ row'[k].state \in Settled =>
                   quiet'[k] = Retention \/ quiet'[k] + row'[k].ttl >= Retention
  BY <1>1, StaysRetained
<1>2. ASSUME NEW k \in Key, NEW fp, Claimed(k, fp)
      PROVE  row'[k].state \notin Settled \cup {"absent"}
  BY <1>2 DEF Claimed, InFlightRow, Settled
<1>3. CASE \A k \in Key : Stays(k)
  BY <1>1, <1>3 DEF RetentionInv
<1>4. ASSUME NEW r \in Request,
             \A k \in Key \ {KeyOf(r)} : Stays(k), Claimed(KeyOf(r), ask[r].fp),
             KeyOf(r) \in Key
      PROVE  RetentionInv'
  <2>1. row'[KeyOf(r)].state \notin Settled \cup {"absent"}
    BY <1>2, <1>4
  <2>2. ASSUME NEW k \in Key
        PROVE  /\ row'[k].state = "absent" => quiet'[k] = Retention
               /\ row'[k].state \in Settled =>
                     quiet'[k] = Retention \/ quiet'[k] + row'[k].ttl >= Retention
    <3>1. CASE k = KeyOf(r)
      BY <2>1, <3>1
    <3>2. CASE k # KeyOf(r)
      BY <1>1, <1>4, <3>2
    <3>3. QED
      BY <3>1, <3>2
  <2>3. QED
    BY <2>2 DEF RetentionInv
<1>5. QED
  BY <1>3, <1>4, RowsStay

LEMMA TableInvInit == Init => TableInv
  BY TypesInit, RoomInit, RetentionInit DEF TableInv

LEMMA TableInvNext == TableInv /\ [Next]_vars => TableInv'
  BY TypesStep, NextMoves, RoomStep, RetentionStep DEF TableInv

(* The columns keep their types, the table its bound, and a row is kept    *)
(* for its retention, in every reachable state (claimOrRead).              *)
THEOREM Invariance == Spec => []TableInv
  BY TableInvInit, TableInvNext, PTL DEF Spec

(* Every reachable state is well typed and its table has its bound, for    *)
(* first and second claims alike (claimOrRead).                            *)
THEOREM TypeCorrect == Spec => []TypeOK
<1>1. TableInv => TypeOK
  BY DEF TableInv, Types, RoomInv, TypeOK, Retention
<1>2. QED
  BY <1>1, Invariance, PTL

-----------------------------------------------------------------------------
(* The table implements the register *)

Cells == [k \in Key |-> Cell(row[k])]

LEMMA RegisterInit == Init => Register!Init
  BY DEF Init, Register!Init, Register!Free, Cell, Absent

LEMMA StaysSettles ==
    ASSUME Types, RetentionInv, NEW k \in Key, Stays(k)
    PROVE  Register!Settle(k)
<1>1. /\ row[k] \in Row
      /\ quiet[k] \in Nat /\ quiet[k] <= Retention /\ Retention \in Nat
      /\ row[k].ttl \in Int
      /\ row[k].state \in Settled =>
            quiet[k] = Retention \/ quiet[k] + row[k].ttl >= Retention
  BY TimesFacts, RowParts DEF Types, RetentionInv
<1>2. Cells[k] = Cell(row[k]) /\ Cells'[k] = Cell(row'[k])
  BY DEF Cells
<1>3. CASE Untouched(k)
  <2>1. Register!Keep(k)
    BY <1>2, <1>3 DEF Cells, Untouched, Register!Keep
  <2>2. QED
    BY <2>1 DEF Register!Settle
<1>4. CASE RenewedNow(k)
  <2>1. Cell(row'[k]) = Cell(row[k]) /\ Cell(row[k]).phase = "open"
    BY <1>1, <1>4 DEF RenewedNow, Renewed, Row, Cell
  <2>2. CASE quiet'[k] = quiet[k]
    <3>1. Register!Keep(k)
      BY <1>2, <2>1, <2>2 DEF Cells, Register!Keep
    <3>2. QED
      BY <3>1 DEF Register!Settle
  <2>3. CASE quiet'[k] = 0
    <3>1. Register!Revive(k)
      BY <1>2, <2>1, <2>3 DEF Cells, Register!Revive
    <3>2. QED
      BY <3>1 DEF Register!Settle
  <2>4. QED
    BY <1>4, <2>2, <2>3 DEF RenewedNow
<1>5. ASSUME NEW v \in Settled, SettledNow(k, v) PROVE Register!Settle(k)
  <2>1. /\ Cell(row'[k]) = Register!Closed(Cell(row[k]).token, v)
        /\ Cell(row[k]).phase = "open"
    BY <1>1, <1>5 DEF SettledNow, Cell, Settled, Register!Closed
  <2>2. Register!Close(k)
    BY <1>2, <1>5, <2>1 DEF Cells, SettledNow, Register!Close
  <2>3. QED
    BY <2>2 DEF Register!Settle
<1>6. CASE Removed(k)
  <2>1. quiet[k] = Retention
    BY <1>1, <1>6 DEF Removed, Over
  <2>2. /\ Cell(row[k]).phase = "closed"
        /\ Cell(row'[k]) = Register!Free
    BY <1>6 DEF Removed, Over, Cell, Settled, Absent, Register!Free
  <2>3. Register!Forget(k)
    BY <1>2, <1>6, <2>1, <2>2 DEF Cells, Removed, Retention, Register!Forget
  <2>4. QED
    BY <2>3 DEF Register!Settle
<1>7. CASE Aged(k)
  <2>1. Cell(row'[k]) = Cell(row[k])
    BY <1>1, <1>7 DEF Aged, Row, Cell
  <2>2. quiet'[k] \in {quiet[k], Register!Older(quiet[k])}
    BY <1>1, <1>7 DEF Aged, Retention, Register!Older
  <2>3. Register!Keep(k)
    BY <1>2, <2>1, <2>2 DEF Cells, Register!Keep
  <2>4. QED
    BY <2>3 DEF Register!Settle
<1>8. QED
  BY <1>3, <1>4, <1>5, <1>6, <1>7 DEF Stays

LEMMA ClaimedOpens ==
    ASSUME Types, RetentionInv, NEW k \in Key, NEW fp, Claimed(k, fp),
           lastToken' = lastToken + 1
    PROVE  Register!Open(k)
<1>1. /\ row[k] \in Row
      /\ quiet[k] \in Nat /\ quiet[k] <= Retention /\ Retention \in Nat
      /\ row[k].ttl \in Int /\ lastToken \in Nat
      /\ row[k].state = "absent" => quiet[k] = Retention
      /\ row[k].state \in Settled =>
            quiet[k] = Retention \/ quiet[k] + row[k].ttl >= Retention
  BY TimesFacts, RowParts DEF Types, RetentionInv
<1>2. quiet[k] = Retention
  BY <1>1 DEF Claimed, Over
<1>3. Cell(row[k]).phase # "open"
  BY DEF Claimed, Over, Cell, Settled
<1>4. Cell(row'[k]) = Register!Opened(lastToken')
  BY DEF Claimed, InFlightRow, Cell, Register!Opened
<1>5. lastToken' > lastToken /\ quiet'[k] = 0
  BY <1>1 DEF Claimed
<1>6. QED
  BY <1>2, <1>3, <1>4, <1>5 DEF Retention, Register!Open

LEMMA RegisterStep ==
    ASSUME Types, RetentionInv, StepMoves
    PROVE  Register!Next
<1>1. CASE (\A k \in Key : Stays(k)) /\ lastToken' = lastToken
  BY <1>1, StaysSettles DEF Register!Next
<1>2. ASSUME NEW r \in Request,
             \A k \in Key \ {KeyOf(r)} : Stays(k), Claimed(KeyOf(r), ask[r].fp),
             lastToken' = lastToken + 1, KeyOf(r) \in Key
      PROVE  Register!Next
  <2>1. Register!Open(KeyOf(r))
    BY <1>2, ClaimedOpens
  <2>2. \A k \in Key \ {KeyOf(r)} : Register!Settle(k)
    BY <1>2, StaysSettles
  <2>3. QED
    BY <1>2, <2>1, <2>2 DEF Register!Next
<1>3. QED
  BY <1>1, <1>2, RowsStay

(* The SQLite coordinator implements OnceRegister, with the retention less *)
(* the busy timeout: an outcome is recorded at most once per insertion,    *)
(* and a key is claimed anew only when no lease of it was unexpired for so *)
(* long, although neither a token nor the lease guards a write.            *)
THEOREM Implementation == Spec => AtMostOnce
<1>1. Init => Register!Init
  BY RegisterInit
<1>2. TableInv /\ [Next]_vars => [Register!Next]_(Register!vars)
  BY NextMoves, RegisterStep DEF TableInv
<1>3. QED
  BY <1>1, <1>2, Invariance, PTL DEF AtMostOnce, Register!Spec, Spec

-----------------------------------------------------------------------------
(* What the requests are told *)

(* An insertion is owned by one request at most, with its key and payload. *)
TokenInv ==
    /\ \A k \in Key : row[k].token <= lastToken
    /\ \A r \in Request :
          /\ claim[r] <= lastToken
          /\ saw[r] <= lastToken
          /\ claim[r] # 0 => pc[r] \in {"running"} \cup Retired
    /\ \A r \in Request : pc[r] = "running" => claim[r] # 0
    /\ \A o, p \in Request : claim[o] # 0 /\ claim[o] = claim[p] => o = p
    /\ \A o \in Request, k \in Key :
          claim[o] # 0 /\ row[k].token = claim[o] =>
             KeyOf(o) = k /\ row[k].fp = ask[o].fp

(* The owner o has not recorded a result, and never will. *)
Lost(o) == pc[o] # "created" /\ ~Owned(row[KeyOf(o)], claim[o])

(* A row says of its owner what the owner was told. *)
RowInv ==
    \A o \in Request, k \in Key : claim[o] # 0 /\ row[k].token = claim[o] =>
        /\ row[k].state \in {"completed", "oversized"} => pc[o] = "created"
        /\ row[k].state = "failed" => pc[o] = "rethrown"
        /\ row[k].state \in {"in_flight", "unknown"} => pc[o] # "created"

(* So does the answer of a reader. *)
ReaderInv ==
    \A o, r \in Request : claim[o] # 0 /\ saw[r] = claim[o] =>
        /\ pc[r] = "replayed" => ask[o] = ask[r]
        /\ pc[r] \in {"replayed", "not_replayable"} => pc[o] = "created"
        /\ pc[r] = "previous_failed" => pc[o] = "rethrown"
        /\ pc[r] = "previous_unknown" => Lost(o)

AnswerInv == TokenInv /\ RowInv /\ ReaderInv

LEMMA AnswerInit == Init => AnswerInv
  BY DEF Init, AnswerInv, TokenInv, RowInv, ReaderInv, Absent

(* A row after a step: as before, as far as its token goes, or new. *)
LEMMA RowFate ==
    ASSUME Types, StepMoves, NEW k \in Key
    PROVE  \/ row'[k].token = 0
           \/ /\ row'[k].token = row[k].token
              /\ row'[k].fp = row[k].fp
              /\ row'[k].state = "in_flight" => row[k].state = "in_flight"
           \/ \E r \in Request : /\ k = KeyOf(r) /\ Opens(r)
                                 /\ row'[k].token = lastToken + 1
                                 /\ row'[k].fp = ask[r].fp
                                 /\ row'[k].state = "in_flight"
<1>1. row[k] \in Row
  BY DEF Types
<1>2. CASE Stays(k)
  <2>1. CASE Untouched(k) \/ RenewedNow(k) \/ Aged(k)
    BY <1>1, <2>1 DEF Untouched, RenewedNow, Renewed, Aged, Row
  <2>2. CASE Removed(k)
    BY <2>2 DEF Removed, Absent
  <2>3. ASSUME NEW v \in Settled, SettledNow(k, v)
        PROVE  /\ row'[k].token = row[k].token
               /\ row'[k].fp = row[k].fp
               /\ row[k].state = "in_flight"
    BY <2>3 DEF SettledNow
  <2>4. QED
    BY <1>2, <2>1, <2>2, <2>3 DEF Stays
<1>3. ASSUME NEW r \in Request, Opens(r) PROVE
         \/ Stays(k)
         \/ /\ k = KeyOf(r)
            /\ row'[k].token = lastToken + 1
            /\ row'[k].fp = ask[r].fp
            /\ row'[k].state = "in_flight"
  BY <1>3, CalmStays DEF Opens, Claimed, InFlightRow
<1>4. CASE Ages
  BY <1>2, <1>4 DEF Ages, Stays
<1>5. ASSUME NEW r \in Request, Reads(r) \/ Passes(r) \/ Works(r) \/ Records(r)
      PROVE  Stays(k)
  BY <1>5, CalmStays DEF Reads, Passes, AllCalm, Works, Records, Stays, Settled
<1>6. QED
  BY <1>2, <1>3, <1>4, <1>5 DEF StepMoves, Moves

LEMMA TokenFacts ==
    ASSUME Types, TokenInv
    PROVE  /\ lastToken \in Nat
           /\ \A k \in Key : row[k].token \in Nat /\ row[k].token <= lastToken
           /\ \A r \in Request :
                 /\ claim[r] \in Nat /\ claim[r] <= lastToken
                 /\ saw[r] \in Nat /\ saw[r] <= lastToken
<1>1. \A k \in Key : row[k] \in Row
  BY DEF Types
<1>2. QED
  BY <1>1, RowParts DEF Types, TokenInv

LEMMA OwnerNotOutside ==
    ASSUME TokenInv, NEW o \in Request, claim[o] # 0
    PROVE  pc[o] \notin Outside
  BY DEF TokenInv, Outside, Polling, Retired

(* A request becomes an owner once, and is one for ever. *)
LEMMA OwnerFate ==
    ASSUME Types, TokenInv, StepMoves, NEW o \in Request
    PROVE  /\ ask' = ask
           /\ \/ claim'[o] = claim[o]
              \/ /\ Opens(o)
                 /\ claim[o] = 0
                 /\ claim'[o] = lastToken + 1
                 /\ pc'[o] = "running"
                 /\ saw'[o] = saw[o]
<1>1. CASE Ages
  BY <1>1 DEF Ages
<1>2. ASSUME NEW r \in Request, Moves(r), r # o
      PROVE  ask' = ask /\ claim'[o] = claim[o]
  BY <1>2 DEF Moves, Alone
<1>3. CASE Moves(o)
  <2>1. ask' = ask
    BY <1>3 DEF Moves, Alone
  <2>2. CASE Opens(o) /\ pc[o] = "idle"
    <3>1. claim[o] = 0
      BY <2>2, OwnerNotOutside DEF Outside
    <3>2. QED
      BY <2>1, <2>2, <3>1 DEF Opens
  <2>3. CASE Opens(o) /\ pc[o] # "idle"
    BY <2>1, <2>3 DEF Opens
  <2>4. CASE Reads(o) \/ Passes(o) \/ Works(o) \/ Records(o)
    BY <2>1, <2>4 DEF Reads, Passes, Works, Records
  <2>5. QED
    BY <1>3, <2>2, <2>3, <2>4 DEF Moves
<1>4. QED
  BY <1>1, <1>2, <1>3 DEF StepMoves

(* An owner's answer stands, and says created only if its row was its own. *)
LEMMA AnswerFate ==
    ASSUME Types, TokenInv, StepMoves, NEW o \in Request, claim[o] # 0
    PROVE  /\ pc[o] \in {"created", "rethrown"} => pc'[o] = pc[o]
           /\ pc'[o] = "created" => \/ pc[o] = "created"
                                    \/ Owned(row[KeyOf(o)], claim[o])
<1>1. CASE Ages
  BY <1>1 DEF Ages
<1>2. ASSUME NEW r \in Request, Moves(r), r # o PROVE pc'[o] = pc[o]
  BY <1>2 DEF Moves, Alone
<1>3. CASE Moves(o)
  <2>1. ~Reads(o) /\ ~Passes(o) /\ ~Opens(o)
    BY OwnerNotOutside DEF Reads, Passes, Opens, Outside, Polling
  <2>2. CASE Works(o)
    BY <2>2 DEF Works, Retired
  <2>3. CASE Records(o)
    BY <2>3 DEF Records
  <2>4. QED
    BY <1>3, <2>1, <2>2, <2>3 DEF Moves
<1>4. QED
  BY <1>1, <1>2, <1>3 DEF StepMoves

LEMMA LostForGood ==
    ASSUME Types, TokenInv, StepMoves, NEW o \in Request, claim[o] # 0, Lost(o)
    PROVE  pc'[o] # "created" /\ ~Owned(row'[KeyOf(o)], claim[o])
<1>1. pc'[o] # "created"
  BY AnswerFate DEF Lost
<1>2. KeyOf(o) \in Key /\ claim[o] <= lastToken /\ claim[o] \in Nat /\ lastToken \in Nat
  BY MyRow, TokenFacts
<1>3. claim[o] # lastToken + 1
  BY <1>2
<1>4. ASSUME Owned(row'[KeyOf(o)], claim[o]) PROVE FALSE
  <2>1. row'[KeyOf(o)].token = claim[o] /\ row'[KeyOf(o)].state = "in_flight"
    BY <1>4 DEF Owned
  <2>2. row[KeyOf(o)].token = claim[o] /\ row[KeyOf(o)].state = "in_flight"
    BY <1>2, <1>3, <2>1, RowFate
  <2>3. QED
    BY <2>2 DEF Lost, Owned
<1>5. QED
  BY <1>1, <1>4

(* The lines of TokenInv after a step. *)
LEMMA LastTokenStep ==
    ASSUME Types, StepMoves
    PROVE  /\ lastToken' \in {lastToken, lastToken + 1}
           /\ lastToken' \in Nat
           /\ lastToken <= lastToken'
           /\ \A r \in Request : Opens(r) => lastToken' = lastToken + 1
<1>1. lastToken' \in {lastToken, lastToken + 1}
  BY DEF StepMoves, Moves, Reads, Passes, Opens, Works, Records, Ages
<1>2. lastToken \in Nat
  BY DEF Types
<1>3. QED
  BY <1>1, <1>2 DEF Opens

LEMMA TokensBounded ==
    ASSUME Types, TokenInv, StepMoves
    PROVE  /\ \A k \in Key : row'[k].token <= lastToken'
           /\ \A r \in Request : claim'[r] <= lastToken' /\ saw'[r] <= lastToken'
<1>0. /\ lastToken \in Nat /\ lastToken' \in Nat /\ lastToken <= lastToken'
      /\ \A r \in Request : Opens(r) => lastToken' = lastToken + 1
  BY LastTokenStep DEF Types
<1>1. ASSUME NEW k \in Key PROVE row'[k].token <= lastToken'
  <2>1. row[k].token \in Nat /\ row[k].token <= lastToken
    BY TokenFacts
  <2>2. row'[k].token \in {0, row[k].token}
           \/ (row'[k].token = lastToken + 1 /\ lastToken' = lastToken + 1)
    BY <1>0, RowFate
  <2>3. QED
    BY <1>0, <2>1, <2>2
<1>2. ASSUME NEW r \in Request PROVE claim'[r] <= lastToken'
  <2>1. claim[r] \in Nat /\ claim[r] <= lastToken
    BY TokenFacts
  <2>2. claim'[r] = claim[r] \/ (claim'[r] = lastToken + 1 /\ lastToken' = lastToken + 1)
    BY <1>0, OwnerFate
  <2>3. QED
    BY <1>0, <2>1, <2>2
<1>3. ASSUME NEW r \in Request PROVE saw'[r] <= lastToken'
  <2>1. saw[r] \in Nat /\ saw[r] <= lastToken
    BY TokenFacts
  <2>2. KeyOf(r) \in Key
    BY MyRow
  <2>3. \/ saw'[r] \in {saw[r], row'[KeyOf(r)].token}
        \/ saw'[r] = lastToken + 1 /\ lastToken' = lastToken + 1
    BY DEF StepMoves, Moves, Alone, Reads, Passes, Opens, Works, Records, Ages
  <2>4. QED
    BY <1>0, <1>1, <2>1, <2>2, <2>3
<1>4. QED
  BY <1>1, <1>2, <1>3

LEMMA OwnersPlace ==
    ASSUME Types, TokenInv, StepMoves, NEW r \in Request
    PROVE  /\ claim'[r] # 0 => pc'[r] \in {"running"} \cup Retired
           /\ pc'[r] = "running" => claim'[r] # 0
<1>0. lastToken + 1 # 0
  BY DEF Types
<1>1. CASE Ages
  BY <1>1 DEF Ages, TokenInv
<1>2. ASSUME NEW o \in Request, Moves(o), r # o PROVE pc'[r] = pc[r] /\ claim'[r] = claim[r]
  BY <1>2 DEF Moves, Alone
<1>3. CASE Moves(r)
  <2>1. CASE Reads(r)
    <3>1. claim'[r] = 0
      BY <2>1, OwnerNotOutside DEF Reads
    <3>2. pc'[r] # "running"
      BY <2>1, DecodedPc DEF Reads
    <3>3. QED
      BY <3>1, <3>2
  <2>2. CASE Passes(r)
    <3>1. claim'[r] = 0
      BY <2>2, OwnerNotOutside DEF Passes
    <3>2. QED
      BY <2>2, <3>1 DEF Passes, Polling
  <2>3. CASE Opens(r)
    <3>1. pc[r] \in Outside => claim[r] = 0
      BY OwnerNotOutside
    <3>2. QED
      BY <1>0, <2>3, <3>1 DEF Opens, Outside, Polling
  <2>4. CASE Works(r) \/ Records(r)
    BY <2>4 DEF Works, Records, TokenInv, Retired
  <2>5. QED
    BY <1>3, <2>1, <2>2, <2>3, <2>4 DEF Moves
<1>4. QED
  BY <1>1, <1>2, <1>3 DEF StepMoves, TokenInv

LEMMA OneOwner ==
    ASSUME Types, TokenInv, StepMoves, NEW o \in Request, NEW p \in Request,
           claim'[o] # 0, claim'[o] = claim'[p]
    PROVE  o = p
<1>1. /\ claim[o] \in Nat /\ claim[o] <= lastToken
      /\ claim[p] \in Nat /\ claim[p] <= lastToken
      /\ lastToken \in Nat
  BY TokenFacts
<1>2. claim[o] # lastToken + 1 /\ claim[p] # lastToken + 1
  BY <1>1
<1>3. CASE claim'[o] = claim[o] /\ claim'[p] = claim[p]
  BY <1>3 DEF TokenInv
<1>4. CASE claim'[o] # claim[o]
  <2>1. Opens(o) /\ claim'[p] = lastToken + 1
    BY <1>4, OwnerFate
  <2>2. claim'[p] # claim[p]
    BY <1>2, <2>1
  <2>3. QED
    BY <1>4, <2>2 DEF StepMoves, Moves, Alone, Ages
<1>5. CASE claim'[p] # claim[p]
  <2>1. claim'[o] = lastToken + 1
    BY <1>5, OwnerFate
  <2>2. claim'[o] # claim[o]
    BY <1>2, <2>1
  <2>3. QED
    BY <1>5, <2>2 DEF StepMoves, Moves, Alone, Ages
<1>6. QED
  BY <1>3, <1>4, <1>5

LEMMA OwnIdentity ==
    ASSUME Types, TokenInv, StepMoves, NEW o \in Request, NEW k \in Key,
           claim'[o] # 0, row'[k].token = claim'[o]
    PROVE  /\ KeyOf(o) = k /\ row'[k].fp = ask[o].fp
           /\ \/ claim'[o] = claim[o] /\ row[k].token = claim[o]
              \/ row'[k].state = "in_flight" /\ pc'[o] = "running"
<1>1. /\ claim[o] \in Nat /\ claim[o] <= lastToken /\ lastToken \in Nat
      /\ row[k].token \in Nat /\ row[k].token <= lastToken
  BY TokenFacts
<1>2. claim[o] # lastToken + 1 /\ row[k].token # lastToken + 1
  BY <1>1
<1>3. CASE claim'[o] = claim[o]
  <2>1. row'[k].token = row[k].token /\ row'[k].fp = row[k].fp
    BY <1>2, <1>3, RowFate
  <2>2. QED
    BY <1>3, <2>1 DEF TokenInv
<1>4. CASE claim'[o] # claim[o]
  <2>1. Opens(o) /\ claim'[o] = lastToken + 1 /\ pc'[o] = "running"
    BY <1>4, OwnerFate
  <2>2. PICK r \in Request : /\ k = KeyOf(r) /\ Opens(r)
                             /\ row'[k].fp = ask[r].fp
                             /\ row'[k].state = "in_flight"
    BY <1>1, <1>2, <2>1, RowFate
  <2>3. r = o
    <3>1. KeyOf(o) \in Key /\ row'[KeyOf(o)].token = lastToken + 1
      BY <2>1, MyRow DEF Opens, Claimed, InFlightRow
    <3>2. claim'[o] # claim[o]
      BY <1>4
    <3>3. pc'[r] # pc[r]
      BY <2>2 DEF Opens
    <3>4. QED
      BY <3>2, <3>3 DEF StepMoves, Moves, Alone, Ages
  <2>4. QED
    BY <2>1, <2>2, <2>3
<1>5. QED
  BY <1>3, <1>4

LEMMA TokenStep ==
    ASSUME Types, TokenInv, StepMoves
    PROVE  TokenInv'
<1>1. ask' = ask /\ (\A r \in Request : KeyOf(r)' = KeyOf(r))
  <2>1. ask' = ask
    BY DEF StepMoves, Moves, Alone, Ages
  <2>2. QED
    BY <2>1 DEF KeyOf
<1>2. \A o \in Request, k \in Key :
         claim'[o] # 0 /\ row'[k].token = claim'[o] =>
            KeyOf(o)' = k /\ row'[k].fp = ask'[o].fp
  BY <1>1, OwnIdentity
<1>3. QED
  BY <1>2, TokensBounded, OwnersPlace, OneOwner DEF TokenInv

(* What a row said of an owner that has not changed, or that recorded it. *)
LEMMA RowTells ==
    ASSUME Types, TokenInv, RowInv, StepMoves,
           NEW o \in Request, NEW k \in Key,
           claim[o] # 0, row[k].token = claim[o], row'[k].token = claim[o]
    PROVE  /\ row'[k].state \in {"completed", "oversized"} => pc'[o] = "created"
           /\ row'[k].state = "failed" => pc'[o] = "rethrown"
           /\ row'[k].state \in {"in_flight", "unknown"} => pc'[o] # "created"
<1>1. /\ row[k].state \in {"completed", "oversized"} => pc[o] = "created"
      /\ row[k].state = "failed" => pc[o] = "rethrown"
      /\ row[k].state \in {"in_flight", "unknown"} => pc[o] # "created"
  BY DEF RowInv
<1>2. row[k] \in Row /\ KeyOf(o) = k
  BY DEF Types, TokenInv
<1>3. Absent.token = 0 /\ claim[o] # lastToken + 1
  BY TokenFacts DEF Absent
<1>4. CASE Calm(k) /\ pc'[o] = pc[o]
  BY <1>1, <1>3, <1>4 DEF Calm, Untouched, SettledNow, Removed
<1>5. CASE RenewedNow(k) /\ pc'[o] = pc[o]
  BY <1>1, <1>2, <1>5 DEF RenewedNow, Renewed, Row
<1>6. CASE Ages
  <2>1. pc'[o] = pc[o]
    BY <1>6 DEF Ages
  <2>2. CASE Aged(k)
    BY <1>1, <1>2, <2>1, <2>2 DEF Aged, Row
  <2>3. CASE Untouched(k)
    BY <1>4, <2>1, <2>3 DEF Calm
  <2>4. QED
    BY <1>6, <2>2, <2>3 DEF Ages
<1>7. ASSUME NEW r \in Request, Moves(r), r # o
      PROVE  Calm(k) \/ RenewedNow(k)
  <2>1. CASE Reads(r) \/ Passes(r)
    BY <2>1 DEF Reads, Passes, AllCalm
  <2>2. CASE Works(r)
    BY <2>2 DEF Works, Calm
  <2>3. CASE Opens(r)
    <3>1. k = KeyOf(r) => row'[k].token = lastToken + 1
      BY <2>3 DEF Opens, Claimed, InFlightRow
    <3>2. QED
      BY <1>3, <2>3, <3>1 DEF Opens
  <2>4. CASE Records(r)
    <3>1. k # KeyOf(r)
      <4>1. SUFFICES ASSUME k = KeyOf(r) PROVE FALSE
        OBVIOUS
      <4>2. claim[r] = claim[o]
        BY <2>4, <4>1 DEF Records, Owned
      <4>3. QED
        BY <1>7, <4>2 DEF TokenInv
    <3>2. QED
      BY <2>4, <3>1 DEF Records, Calm
  <2>5. QED
    BY <1>7, <2>1, <2>2, <2>3, <2>4 DEF Moves
<1>8. ASSUME NEW r \in Request, Moves(r), r # o
      PROVE  pc'[o] = pc[o]
  BY <1>8 DEF Moves, Alone
<1>9. CASE Moves(o)
  <2>1. ~Reads(o) /\ ~Passes(o) /\ ~Opens(o)
    BY OwnerNotOutside DEF Reads, Passes, Opens, Outside, Polling
  <2>2. CASE Works(o)
    <3>1. pc[o] = "running" /\ pc'[o] # "created"
      BY <2>2 DEF Works, Retired
    <3>2. row'[k].state = row[k].state
      BY <1>2, <2>2 DEF Works, Untouched, RenewedNow, Renewed, Row
    <3>3. QED
      BY <1>1, <3>1, <3>2
  <2>3. CASE Records(o)
    BY <1>2, <2>3 DEF Records, SettledNow
  <2>4. QED
    BY <1>9, <2>1, <2>2, <2>3 DEF Moves
<1>10. QED
  BY <1>4, <1>5, <1>6, <1>7, <1>8, <1>9 DEF StepMoves

LEMMA RowStep ==
    ASSUME Types, TokenInv, RowInv, StepMoves
    PROVE  RowInv'
<1> SUFFICES ASSUME NEW o \in Request, NEW k \in Key,
                    claim'[o] # 0, row'[k].token = claim'[o]
             PROVE  /\ row'[k].state \in {"completed", "oversized"} => pc'[o] = "created"
                    /\ row'[k].state = "failed" => pc'[o] = "rethrown"
                    /\ row'[k].state \in {"in_flight", "unknown"} => pc'[o] # "created"
  BY DEF RowInv
<1>1. CASE claim'[o] = claim[o] /\ row[k].token = claim[o]
  BY <1>1, RowTells
<1>2. CASE row'[k].state = "in_flight" /\ pc'[o] = "running"
  BY <1>2
<1>3. QED
  BY <1>1, <1>2, OwnIdentity

(* What r reads of the owner of its row is true after the step. *)
LEMMA FreshAnswer ==
    ASSUME Types, Types', TokenInv, TokenInv', RowInv', StepMoves,
           NEW o \in Request, NEW r \in Request, Reads(r), ask' = ask,
           claim'[o] # 0, saw'[r] = claim'[o]
    PROVE  /\ pc'[r] = "replayed" => ask'[o] = ask'[r]
           /\ pc'[r] \in {"replayed", "not_replayable"} => pc'[o] = "created"
           /\ pc'[r] = "previous_failed" => pc'[o] = "rethrown"
           /\ pc'[r] = "previous_unknown" =>
                 pc'[o] # "created" /\ ~Owned(row'[KeyOf(o)], claim'[o])
<1>1. PICK k \in Key : k = KeyOf(r)
  BY MyRow
<1>2. /\ row'[k].token = claim'[o]
      /\ row'[k].state # "absent"
      /\ pc'[r] = Decode(row'[k], ask[r].fp)
  BY <1>1 DEF Reads
<1>3. KeyOf(o) = k /\ row'[k].fp = ask[o].fp
  BY <1>2, OwnIdentity
<1>4. /\ row'[k].state \in {"completed", "oversized"} => pc'[o] = "created"
      /\ row'[k].state = "failed" => pc'[o] = "rethrown"
      /\ row'[k].state \in {"in_flight", "unknown"} => pc'[o] # "created"
  BY <1>2 DEF RowInv
<1>5. row'[k].state \in Settled \cup {"absent", "in_flight"}
  BY DEF Types, Row
<1>6. /\ pc'[r] = "replayed" =>
            row'[k].fp = ask[r].fp /\ row'[k].state = "completed"
      /\ pc'[r] = "not_replayable" => row'[k].state = "oversized"
      /\ pc'[r] = "previous_failed" => row'[k].state = "failed"
      /\ pc'[r] = "previous_unknown" => row'[k].state = "unknown"
  BY <1>2, <1>5 DEF Decode, Settled
<1>7. pc'[r] = "replayed" => ask[o] = ask[r]
  <2>1. SUFFICES ASSUME pc'[r] = "replayed" PROVE ask[o] = ask[r]
    OBVIOUS
  <2>2. ask[o].fp = ask[r].fp /\ ask[o].key = ask[r].key
    BY <1>1, <1>3, <1>6, <2>1 DEF KeyOf
  <2>3. /\ ask[o] \in [key : Key, fp : Fingerprint]
        /\ ask[r] \in [key : Key, fp : Fingerprint]
    BY DEF Types
  <2>4. QED
    BY <2>2, <2>3
<1>8. QED
  BY <1>3, <1>4, <1>6, <1>7 DEF Owned

LEMMA ReaderStep ==
    ASSUME Types, Types', TokenInv, TokenInv', RowInv', ReaderInv, StepMoves
    PROVE  ReaderInv'
<1>0. ask' = ask /\ (\A o \in Request : KeyOf(o)' = KeyOf(o))
  <2>1. ask' = ask
    BY DEF StepMoves, Moves, Alone, Ages
  <2>2. QED
    BY <2>1 DEF KeyOf
<1> SUFFICES ASSUME NEW o \in Request, NEW r \in Request,
                    claim'[o] # 0, saw'[r] = claim'[o]
             PROVE  /\ pc'[r] = "replayed" => ask'[o] = ask'[r]
                    /\ pc'[r] \in {"replayed", "not_replayable"} => pc'[o] = "created"
                    /\ pc'[r] = "previous_failed" => pc'[o] = "rethrown"
                    /\ pc'[r] = "previous_unknown" =>
                          pc'[o] # "created" /\ ~Owned(row'[KeyOf(o)], claim'[o])
  BY <1>0 DEF ReaderInv, Lost
<1>1. CASE pc'[r] = pc[r] /\ saw'[r] = saw[r]
  <2>1. saw[r] \in Nat /\ saw[r] <= lastToken /\ lastToken \in Nat
    BY TokenFacts
  <2>2. saw[r] # lastToken + 1
    BY <2>1
  <2>3. claim'[o] = claim[o]
    BY <1>1, <2>2, OwnerFate
  <2>4. /\ pc[r] = "replayed" => ask[o] = ask[r]
        /\ pc[r] \in {"replayed", "not_replayable"} => pc[o] = "created"
        /\ pc[r] = "previous_failed" => pc[o] = "rethrown"
        /\ pc[r] = "previous_unknown" => Lost(o)
    BY <1>1, <2>3 DEF ReaderInv
  <2>5. pc[o] \in {"created", "rethrown"} => pc'[o] = pc[o]
    BY <2>3, AnswerFate
  <2>6. Lost(o) => pc'[o] # "created" /\ ~Owned(row'[KeyOf(o)], claim[o])
    BY <2>3, LostForGood
  <2>7. QED
    BY <1>0, <1>1, <2>3, <2>4, <2>5, <2>6
<1>2. CASE Reads(r)
  BY <1>0, <1>2, FreshAnswer
<1>3. CASE Passes(r) \/ Opens(r) \/ Works(r) \/ Records(r)
  <2>1. pc'[r] \in Polling \cup {"capacity", "unavailable", "in_progress", "crashed",
                                 "running"} \cup Retired
    BY <1>3 DEF Passes, Opens, Works, Records, Retired
  <2>2. QED
    BY <2>1 DEF Polling, Retired
<1>4. QED
  BY <1>1, <1>2, <1>3 DEF StepMoves, Moves, Alone, Ages

LEMMA AnswerNext == Types /\ AnswerInv /\ [Next]_vars => Types' /\ AnswerInv'
<1> SUFFICES ASSUME Types, AnswerInv, [Next]_vars PROVE Types' /\ AnswerInv'
  OBVIOUS
<1>1. Types' /\ StepMoves
  BY TypesStep, NextMoves
<1>2. TokenInv'
  BY <1>1, TokenStep DEF AnswerInv
<1>3. RowInv'
  BY <1>1, RowStep DEF AnswerInv
<1>4. ReaderInv'
  BY <1>1, <1>2, <1>3, ReaderStep DEF AnswerInv
<1>5. QED
  BY <1>1, <1>2, <1>3, <1>4 DEF AnswerInv

LEMMA InvAgree == AnswerInv => VerdictsAgree
  BY DEF AnswerInv, ReaderInv, Lost, VerdictsAgree

(* No request is told anything about another one's operation that the      *)
(* owner's own answer contradicts, however old the timestamps are with     *)
(* which rows are swept and claimed (executeOwned, decodeRow).             *)
THEOREM Verdicts == Spec => []VerdictsAgree
<1>1. Init => Types /\ AnswerInv
  BY TypesInit, AnswerInit
<1>2. QED
  BY <1>1, AnswerNext, InvAgree, PTL DEF Spec


-----------------------------------------------------------------------------
(* Who is waited for *)

Started(n) == \E o \in Request : claim[o] # 0 /\ claim[o] = n

StartedNext(n) == \E o \in Request : claim'[o] # 0 /\ claim'[o] = n

(* Every row, and whatever a waiter has read of one, is of an operation    *)
(* that some request started.                                              *)
StartedInv ==
    /\ \A k \in Key : row[k].state # "absent" => Started(row[k].token)
    /\ \A r \in Request : pc[r] \in {"waiting", "in_progress"} => Started(saw[r])

LEMMA StaysStarted ==
    ASSUME Types, TokenInv, StepMoves, NEW n, Started(n)
    PROVE  StartedNext(n)
<1>1. PICK o \in Request : claim[o] # 0 /\ claim[o] = n
  BY DEF Started, StartedNext
<1>2. claim'[o] = claim[o]
  BY <1>1, OwnerFate
<1>3. QED
  BY <1>1, <1>2 DEF Started, StartedNext

(* The second claimOrRead of a waiter inserts a row in Reclaim only. *)
LEMMA RereadInserts ==
    ASSUME Types, [Next]_vars, NEW r \in Request, ~Reclaim(r),
           pc[r] = "reclaiming", pc'[r] = "in_progress"
    PROVE  lastToken' = lastToken
<1>1. ASSUME NEW o \in Request, o # r,
             ClaimOrRead(o) \/ ExecuteOwned(o) \/ WaitForOwner(o) \/ Unavailable(o) \/ Crash(o)
      PROVE  FALSE
  <2>1. Moves(o)
    BY <1>1, ClaimMoves, OwnerMoves, WaiterMoves
  <2>2. QED
    BY <1>1, <2>1 DEF Moves, Alone
<1>2. CASE \/ ClaimOrRead(r) \/ ExecuteOwned(r) \/ WaitForOwner(r)
           \/ Unavailable(r) \/ Crash(r)
  BY <1>2 DEF ClaimOrRead, Read, RefuseFull, Claim, ExecuteOwned, Heartbeat, Complete, Fail,
     WaitForOwner, Poll, Reread, GiveUp, Unavailable, Crash
<1>3. CASE Tick \/ UNCHANGED vars
  BY <1>3 DEF Tick, vars
<1>4. QED
  BY <1>1, <1>2, <1>3 DEF Next

LEMMA StartedStep ==
    ASSUME Types, TokenInv, StartedInv, [Next]_vars, \A r \in Request : ~Reclaim(r)
    PROVE  StartedInv'
<1>1. StepMoves
  BY NextMoves
<1>2. lastToken \in Nat /\ lastToken + 1 # 0
  BY DEF Types
<1>3. ASSUME NEW r \in Request, Opens(r)
      PROVE  pc[r] = "idle" /\ StartedNext(lastToken + 1)
  <2>1. lastToken' # lastToken
    BY <1>2, <1>3 DEF Opens
  <2>2. CASE pc[r] = "idle" /\ claim'[r] = lastToken + 1
    BY <1>2, <2>2 DEF Started, StartedNext
  <2>3. CASE pc[r] = "reclaiming" /\ pc'[r] = "in_progress"
    BY <2>1, <2>3, RereadInserts
  <2>4. QED
    BY <1>3, <2>2, <2>3 DEF Opens
<1>4. ASSUME NEW k \in Key, row'[k].state # "absent"
      PROVE  StartedNext(row'[k].token)
  <2>1. CASE Stays(k)
    <3>1. row[k].state # "absent"
      BY <1>4, <2>1, StaysEntry
    <3>2. row'[k].token = row[k].token
      <4>0. row[k] \in Row
        BY DEF Types
      <4>1. CASE Untouched(k) \/ RenewedNow(k) \/ Aged(k)
        BY <4>0, <4>1 DEF Row, Untouched, RenewedNow, Renewed, Aged
      <4>2. CASE \E v \in Settled : SettledNow(k, v)
        BY <4>2 DEF SettledNow
      <4>3. QED
        BY <1>4, <2>1, <4>1, <4>2 DEF Stays, Removed, Absent
    <3>3. Started(row[k].token)
      BY <3>1 DEF StartedInv
    <3>4. PICK n : n = row[k].token
      OBVIOUS
    <3>5. StartedNext(n)
      BY <1>1, <3>3, <3>4, StaysStarted
    <3>6. QED
      BY <3>2, <3>4, <3>5 DEF Started, StartedNext
  <2>2. CASE ~Stays(k)
    <3>1. row'[k].token = lastToken + 1 /\ lastToken' = lastToken + 1
      <4>1. PICK r \in Request : /\ \A x \in Key \ {KeyOf(r)} : Stays(x)
                                 /\ Claimed(KeyOf(r), ask[r].fp)
                                 /\ lastToken' = lastToken + 1
        BY <1>1, <2>2, RowsStay
      <4>2. k = KeyOf(r)
        BY <2>2, <4>1
      <4>3. QED
        BY <4>1, <4>2 DEF Claimed, InFlightRow
    <3>2. \E r \in Request : Opens(r)
      BY <1>1, <1>2, <3>1 DEF StepMoves, Ages, Moves, Reads, Passes, Works, Records
    <3>3. StartedNext(lastToken + 1)
      BY <1>3, <3>2
    <3>4. QED
      BY <3>1, <3>3 DEF Started, StartedNext
  <2>3. QED
    BY <2>1, <2>2
<1>5. ASSUME NEW r \in Request, pc'[r] \in {"waiting", "in_progress"}
      PROVE  StartedNext(saw'[r])
  <2>1. KeyOf(r) \in Key
    BY MyRow
  <2>2. CASE /\ row'[KeyOf(r)].state # "absent"
             /\ saw'[r] = row'[KeyOf(r)].token
    BY <1>4, <2>1, <2>2 DEF Started, StartedNext
  <2>3. CASE saw'[r] = saw[r] /\ pc[r] \in {"waiting", "in_progress"}
    <3>1. PICK n : n = saw[r]
      OBVIOUS
    <3>2. Started(n)
      BY <2>3, <3>1 DEF StartedInv
    <3>3. StartedNext(n)
      BY <1>1, <3>2, StaysStarted
    <3>4. QED
      BY <2>3, <3>1, <3>3 DEF Started, StartedNext
  <2>4. CASE Moves(r)
    <3>1. CASE Reads(r) \/ Passes(r)
      BY <1>5, <2>2, <2>3, <3>1 DEF Reads, Passes
    <3>2. ~Opens(r)
      BY <1>2, <1>3, <1>5 DEF Opens
    <3>3. ~Works(r) /\ ~Records(r)
      BY <1>5 DEF Works, Records, Retired
    <3>4. QED
      BY <2>4, <3>1, <3>2, <3>3 DEF Moves
  <2>5. CASE Ages \/ \E o \in Request \ {r} : Moves(o)
    BY <1>5, <2>3, <2>5 DEF Ages, Moves, Alone
  <2>6. QED
    BY <1>1, <2>4, <2>5 DEF StepMoves
<1>6. QED
  BY <1>4, <1>5 DEF StartedInv, Started, StartedNext

(* Who waits is answered "in progress" about an operation that some        *)
(* request started, as long as no waiter inserts the row itself: that is   *)
(* the only way to an identity that nobody works for (waitForOwner).       *)
THEOREM InProgressUnlessReclaimed ==
    Spec /\ [][\A r \in Request : ~Reclaim(r)]_vars => []InProgressHasOwner
<1>1. Init => StartedInv
  BY DEF Init, StartedInv, Absent
<1>2. Types /\ AnswerInv /\ StartedInv /\ [Next]_vars /\ [\A r \in Request : ~Reclaim(r)]_vars
          => StartedInv'
  <2> SUFFICES ASSUME Types, AnswerInv, StartedInv, [Next]_vars,
                      [\A r \in Request : ~Reclaim(r)]_vars
               PROVE  StartedInv'
    OBVIOUS
  <2>1. CASE UNCHANGED vars
    BY <2>1 DEF vars, StartedInv, Started
  <2>2. CASE \A r \in Request : ~Reclaim(r)
    BY <2>2, StartedStep DEF AnswerInv
  <2>3. QED
    BY <2>1, <2>2
<1>3. StartedInv => InProgressHasOwner
  BY DEF StartedInv, Started, InProgressHasOwner
<1>4. Types /\ AnswerInv /\ [Next]_vars => Types' /\ AnswerInv'
  BY AnswerNext
<1>5. QED
  BY <1>1, <1>2, <1>3, <1>4, TypesInit, AnswerInit, PTL DEF Spec
=============================================================================
