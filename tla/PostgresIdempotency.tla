------------------------ MODULE PostgresIdempotency ------------------------
(***************************************************************************)
(* The PostgreSQL idempotency coordinator of the gateway service           *)
(* (http/postgresIdempotencyCoordinator.ts): many gateway processes share  *)
(* one table of request identities.  The first request of an identity      *)
(* inserts an in_flight row and runs the operation under a lease it renews *)
(* from a heartbeat; the others poll the row, and answer from what it says.*)
(*                                                                         *)
(* Every database statement, and every transaction, is one action: the     *)
(* requests of all processes interleave between them, a process may crash  *)
(* between them, and each statement may fail before it is applied or be    *)
(* applied and have its acknowledgement lost.  Time is relative: a row     *)
(* holds the time left of its lease and of its retention, and Tick counts  *)
(* both down, so the database clock needs no bound.                        *)
(***************************************************************************)
EXTENDS Integers, FiniteSets

CONSTANTS
    Request,        \* calls of execute(), by any process of any host
    Key,            \* identities: caller, route and Idempotency-Key, hashed
    Fingerprint,    \* hashes of request payloads
    NoFingerprint,  \* the fingerprint of a row that does not exist
    Lease,          \* options.leaseMs
    Ttl,            \* options.ttlMs
    InFlightWait,   \* options.inFlightWaitMs
    MaxEntries,     \* options.maxEntries
    Rounding        \* a remaining lease this short is read as 0: the bigint
                    \* cast of lease_remaining_ms rounds to the nearest ms

ASSUME TimesAssumption ==
    /\ Lease \in Nat \ {0}
    /\ Ttl \in Nat \ {0}
    /\ InFlightWait \in Nat
    /\ Rounding \in Nat

ASSUME MaxEntriesAssumption == MaxEntries \in Nat \ {0}

ASSUME NoFingerprintAssumption == NoFingerprint \notin Fingerprint

VARIABLES
    row,        \* the table, by its primary key
    lastToken,  \* the fencing sequence
    ask,        \* ask[r]: the key and the payload of request r
    pc,         \* pc[r]: where request r stands, in the end its answer
    claim,      \* claim[r]: the fencing token r owns, 0 if none
    saw,        \* saw[r]: the token of the row r waits for or answers from
    leaseLost,  \* leaseLost[r]: the flag of the same name in executeOwned
    wait,       \* wait[r]: time left until waitDeadline
    quiet       \* quiet[k]: time since a lease of k was last unexpired; only
                \* the properties read it

vars == <<row, lastToken, ask, pc, claim, saw, leaseLost, wait, quiet>>

-----------------------------------------------------------------------------
(* The rows *)

Settled == {"completed", "oversized", "failed", "unknown"}

RowState == Settled \cup {"absent", "in_flight"}

Row == [state : RowState, fp : Fingerprint \cup {NoFingerprint},
        token : Nat, lease : 0..Lease, ttl : 0..Ttl]

(* The result column needs no field: a completed row holds the value of the *)
(* operation that its token started, written by the same UPDATE.            *)
Absent == [state |-> "absent", fp |-> NoFingerprint,
           token |-> 0, lease |-> 0, ttl |-> 0]

(* Mutant of InFlightRow: leaseMs and ttlMs are passed in the wrong order. *)
BugInFlightRow(fp, t) == [state |-> "in_flight", fp |-> fp,
                          token |-> t, lease |-> Ttl, ttl |-> Lease]

InFlightRow(fp, t) == [state |-> "in_flight", fp |-> fp,
                       token |-> t, lease |-> Lease, ttl |-> Ttl]

Lapsed(e) == e.state = "in_flight" /\ e.lease = 0

(* Mutant of Holds: the WHERE clause names the token and forgets the state *)
(* and the expiry of the lease.                                            *)
BugHolds(e, t) == e.token = t

(* The WHERE clause of renew, complete and fail; the owner UUID and the     *)
(* token are drawn together, and the token stands for both.                 *)
Holds(e, t) == e.state = "in_flight" /\ e.token = t /\ e.lease > 0

Renewed(e) == [e EXCEPT !.lease = Lease]

(* The SET clause of complete and fail. *)
Recorded(e, verdict) == [e EXCEPT !.state = verdict, !.lease = 0, !.ttl = Ttl]

(* Mutant of MarkedUnknown: the retention is not refreshed. *)
BugMarkedUnknown(e) == [e EXCEPT !.state = "unknown"]

(* The SET clause of expire-leases and mark-unknown; GREATEST(expires_at,   *)
(* now + ttlMs) is now + ttlMs, as no expiry is ever further away.          *)
MarkedUnknown(e) == [e EXCEPT !.state = "unknown", !.ttl = Ttl]

(* expire-leases, then delete-expired, on one row. *)
Swept(e) == IF Lapsed(e) THEN MarkedUnknown(e) ELSE e

(* Mutant of Retained: a row goes one unit of time too early. *)
BugRetained(e) == IF e.state \in Settled /\ e.ttl <= 1 THEN Absent ELSE e

Retained(e) == IF e.state \in Settled /\ e.ttl = 0 THEN Absent ELSE e

Table == [k \in Key |-> Retained(Swept(row[k]))]

Entries(table) == {k \in Key : table[k].state # "absent"}

(* Mutant of Decode: the payload is not compared. *)
BugDecode(e, fp) ==
    CASE e.state = "in_flight"  -> "waiting"
      [] e.state = "completed"  -> "replayed"
      [] e.state = "oversized"  -> "not_replayable"
      [] e.state = "failed"     -> "previous_failed"
      [] OTHER                  -> "previous_unknown"

(* decodeRow: what a request with payload fp is told by row e. *)
Decode(e, fp) ==
    IF e.fp # fp THEN "key_reused"
    ELSE CASE e.state = "in_flight"  -> "waiting"
           [] e.state = "completed"  -> "replayed"
           [] e.state = "oversized"  -> "not_replayable"
           [] e.state = "failed"     -> "previous_failed"
           [] OTHER                  -> "previous_unknown"

-----------------------------------------------------------------------------
(* The requests *)

Owning == {"running", "returned", "confirmed", "threw"}

Polling == {"waiting", "expiring", "rereading"}

(* created is the only answer that says the result is on record; vanished  *)
(* is the answer PREVIOUS_ATTEMPT_UNKNOWN for a row that is gone; rethrown *)
(* passes on the error of the operation.                                   *)
Answer == {"created", "created-unconfirmed", "rethrown", "replayed",
           "key_reused", "not_replayable", "previous_failed",
           "previous_unknown", "vanished", "in_progress", "capacity",
           "unavailable"}

KeyOf(r) == ask[r].key

Mine(r) == row[KeyOf(r)]

Init ==
    /\ row = [k \in Key |-> Absent]
    /\ lastToken = 0
    /\ ask \in [Request -> [key : Key, fp : Fingerprint]]
    /\ pc = [r \in Request |-> "idle"]
    /\ claim = [r \in Request |-> 0]
    /\ saw = [r \in Request |-> 0]
    /\ leaseLost = [r \in Request |-> FALSE]
    /\ wait = [r \in Request |-> 0]
    /\ quiet = [k \in Key |-> Ttl]

Goto(r, where) == pc' = [pc EXCEPT ![r] = where]

SetMine(r, e) == row' = [row EXCEPT ![KeyOf(r)] = e]

-----------------------------------------------------------------------------
(* claimOrRead: one transaction under the advisory lock *)

(* A row of the identity exists: answer from it, or wait for its owner. *)
ReadExisting(r) ==
    LET e == Table[KeyOf(r)] IN
    /\ pc[r] = "idle"
    /\ e.state # "absent"
    /\ row' = Table
    /\ Goto(r, Decode(e, ask[r].fp))
    /\ saw' = [saw EXCEPT ![r] = e.token]
    /\ wait' = [wait EXCEPT ![r] = InFlightWait]
    /\ UNCHANGED <<lastToken, ask, claim, leaseLost, quiet>>

RefuseFull(r) ==
    /\ pc[r] = "idle"
    /\ Table[KeyOf(r)].state = "absent"
    /\ Cardinality(Entries(Table)) >= MaxEntries
    /\ row' = Table
    /\ Goto(r, "capacity")
    /\ UNCHANGED <<lastToken, ask, claim, saw, leaseLost, wait, quiet>>

Insert(r) ==
    /\ pc[r] = "idle"
    /\ Table[KeyOf(r)].state = "absent"
    /\ Cardinality(Entries(Table)) < MaxEntries
    /\ lastToken' = lastToken + 1
    /\ row' = [Table EXCEPT ![KeyOf(r)] = InFlightRow(ask[r].fp, lastToken + 1)]
    /\ quiet' = [quiet EXCEPT ![KeyOf(r)] = 0]
    /\ UNCHANGED <<ask, saw, leaseLost, wait>>

(* The request owns the new row and starts the operation. *)
Claim(r) ==
    /\ Insert(r)
    /\ claim' = [claim EXCEPT ![r] = lastToken + 1]
    /\ Goto(r, "running")

(* The COMMIT was applied but not acknowledged: the row is there and nobody *)
(* will ever run its operation.                                            *)
LoseClaim(r) ==
    /\ Insert(r)
    /\ Goto(r, "unavailable")
    /\ UNCHANGED claim

(* Any statement failed and the transaction is rolled back; the sequence   *)
(* keeps what nextval drew.                                                *)
FailToClaim(r) ==
    /\ pc[r] = "idle"
    /\ lastToken' \in {lastToken, lastToken + 1}
    /\ Goto(r, "unavailable")
    /\ UNCHANGED <<row, ask, claim, saw, leaseLost, wait, quiet>>

-----------------------------------------------------------------------------
(* executeOwned: the owner renews, and records how the operation ended *)

(* The heartbeat's UPDATE.  It does nothing once the lease is known lost.  *)
Heartbeat(r) ==
    /\ pc[r] = "running"
    /\ ~leaseLost[r]
    /\ IF Holds(Mine(r), claim[r])
         THEN /\ SetMine(r, Renewed(Mine(r)))
              /\ UNCHANGED leaseLost
         ELSE /\ leaseLost' = [leaseLost EXCEPT ![r] = TRUE]
              /\ UNCHANGED row
    /\ UNCHANGED <<lastToken, ask, pc, claim, saw, wait, quiet>>

(* The heartbeat's query failed, applied or not, or the coordinator is     *)
(* closed: the flag is set for good.                                       *)
HeartbeatFails(r) ==
    /\ pc[r] = "running"
    /\ ~leaseLost[r]
    /\ leaseLost' = [leaseLost EXCEPT ![r] = TRUE]
    /\ \/ UNCHANGED row
       \/ Holds(Mine(r), claim[r]) /\ SetMine(r, Renewed(Mine(r)))
    /\ UNCHANGED <<lastToken, ask, pc, claim, saw, wait, quiet>>

(* The operation ends, well or with an error; the heartbeat is cleared. *)
OperationEnds(r) ==
    /\ pc[r] = "running"
    /\ \E how \in {"returned", "threw"} : Goto(r, how)
    /\ UNCHANGED <<row, lastToken, ask, claim, saw, leaseLost, wait, quiet>>

(* One more renewal before the result is recorded. *)
ConfirmLease(r) ==
    /\ pc[r] = "returned"
    /\ \/ /\ ~leaseLost[r]
          /\ Holds(Mine(r), claim[r])
          /\ SetMine(r, Renewed(Mine(r)))
          /\ Goto(r, "confirmed")
       \/ /\ leaseLost[r] \/ ~Holds(Mine(r), claim[r])
          /\ Goto(r, "created-unconfirmed")
          /\ UNCHANGED row
       \/ /\ ~leaseLost[r]       \* the query failed, applied or not
          /\ Goto(r, "created-unconfirmed")
          /\ \/ UNCHANGED row
             \/ Holds(Mine(r), claim[r]) /\ SetMine(r, Renewed(Mine(r)))
    /\ UNCHANGED <<lastToken, ask, claim, saw, leaseLost, wait, quiet>>

(* complete: durable only if the one row was updated and that was heard. *)
Complete(r) ==
    /\ pc[r] = "confirmed"
    /\ \/ /\ Holds(Mine(r), claim[r])
          /\ \E verdict \in {"completed", "oversized"} :
                SetMine(r, Recorded(Mine(r), verdict))
          /\ \E answer \in {"created", "created-unconfirmed"} : Goto(r, answer)
       \/ /\ Goto(r, "created-unconfirmed")     \* no row, or the query failed
          /\ UNCHANGED row
    /\ UNCHANGED <<lastToken, ask, claim, saw, leaseLost, wait, quiet>>

(* fail: skipped when the lease is known lost, and best effort otherwise. *)
RecordFailure(r) ==
    /\ pc[r] = "threw"
    /\ Goto(r, "rethrown")
    /\ \/ UNCHANGED row
       \/ /\ ~leaseLost[r]
          /\ Holds(Mine(r), claim[r])
          /\ SetMine(r, Recorded(Mine(r), "failed"))
    /\ UNCHANGED <<lastToken, ask, claim, saw, leaseLost, wait, quiet>>

-----------------------------------------------------------------------------
(* waitForOwner: the other requests of the identity poll the row *)

ReadsAsExpired(e) == e.lease <= Rounding

(* One turn of the polling loop. *)
Poll(r) ==
    LET e == Mine(r) IN
    /\ pc[r] = "waiting"
    /\ InFlightWait > 0
    /\ IF e.state = "absent"
         THEN Goto(r, "vanished") /\ UNCHANGED saw
         ELSE /\ saw' = [saw EXCEPT ![r] = e.token]
              /\ LET told == Decode(e, ask[r].fp) IN
                 Goto(r, IF told = "waiting" /\ ReadsAsExpired(e)
                           THEN "expiring" ELSE told)
    /\ UNCHANGED <<row, lastToken, ask, claim, leaseLost, wait, quiet>>

(* mark-unknown, guarded by the expiry on the database clock. *)
MarkUnknown(r) ==
    /\ pc[r] = "expiring"
    /\ IF Lapsed(Mine(r)) THEN SetMine(r, MarkedUnknown(Mine(r))) ELSE UNCHANGED row
    /\ Goto(r, "rereading")
    /\ UNCHANGED <<lastToken, ask, claim, saw, leaseLost, wait, quiet>>

(* The second read, through decodeTerminal: a row that is still in_flight  *)
(* leaves the answer about the owner whose lease read as expired.          *)
Reread(r) ==
    LET e == Mine(r)
        told == Decode(e, ask[r].fp) IN
    /\ pc[r] = "rereading"
    /\ IF e.state = "absent" \/ told = "waiting"
         THEN /\ Goto(r, IF e.state = "absent" THEN "vanished" ELSE "previous_unknown")
              /\ UNCHANGED saw
         ELSE /\ Goto(r, told)
              /\ saw' = [saw EXCEPT ![r] = e.token]
    /\ UNCHANGED <<row, lastToken, ask, claim, leaseLost, wait, quiet>>

PollFails(r) ==
    /\ pc[r] \in Polling
    /\ InFlightWait > 0
    /\ Goto(r, "unavailable")
    /\ UNCHANGED <<row, lastToken, ask, claim, saw, leaseLost, wait, quiet>>

Live(e) == e.state = "in_flight" /\ e.lease > 0

(* Mutant of GiveUp: the loop checks waitDeadline only when the lease of   *)
(* the owner has lapsed.                                                   *)
BugGiveUp(r) ==
    /\ pc[r] = "waiting"
    /\ wait[r] = 0
    /\ ~Live(Mine(r))
    /\ Goto(r, "in_progress")
    /\ UNCHANGED <<row, lastToken, ask, claim, saw, leaseLost, wait, quiet>>

(* waitDeadline has passed. *)
GiveUp(r) ==
    /\ pc[r] = "waiting"
    /\ wait[r] = 0
    /\ Goto(r, "in_progress")
    /\ UNCHANGED <<row, lastToken, ask, claim, saw, leaseLost, wait, quiet>>

-----------------------------------------------------------------------------
(* The environment *)

(* The process of r dies; its row, if it owns one, stays in_flight. *)
Crash(r) ==
    /\ pc[r] \in Owning \cup Polling
    /\ Goto(r, "crashed")
    /\ UNCHANGED <<row, lastToken, ask, claim, saw, leaseLost, wait, quiet>>

Less(n) == IF n = 0 THEN 0 ELSE n - 1

Elapsed(e) == [e EXCEPT !.lease = Less(e.lease), !.ttl = Less(e.ttl)]

Tick ==
    /\ row' = [k \in Key |-> Elapsed(row[k])]
    /\ wait' = [r \in Request |-> Less(wait[r])]
    /\ quiet' = [k \in Key |-> IF Live(row[k]) \/ quiet[k] = Ttl
                                 THEN quiet[k] ELSE quiet[k] + 1]
    /\ UNCHANGED <<lastToken, ask, pc, claim, saw, leaseLost>>

-----------------------------------------------------------------------------

ClaimOrRead(r) == ReadExisting(r) \/ RefuseFull(r) \/ Claim(r)
                    \/ LoseClaim(r) \/ FailToClaim(r)

ExecuteOwned(r) == Heartbeat(r) \/ HeartbeatFails(r) \/ OperationEnds(r)
                     \/ ConfirmLease(r) \/ Complete(r) \/ RecordFailure(r)

WaitForOwner(r) == Poll(r) \/ MarkUnknown(r) \/ Reread(r) \/ GiveUp(r)

Next ==
    \/ \E r \in Request : ClaimOrRead(r) \/ ExecuteOwned(r) \/ WaitForOwner(r)
                            \/ PollFails(r) \/ Crash(r)
    \/ Tick

Spec == Init /\ [][Next]_vars

(* Time passes, and a process that is alive takes its next statement: the  *)
(* event loop runs every timer and every database reply.  Nothing makes a  *)
(* query fail, an operation end, a request arrive, or a process crash.     *)
Fairness ==
    /\ WF_vars(Tick)
    /\ \A r \in Request : WF_vars(WaitForOwner(r))

FairSpec == Spec /\ Fairness

-----------------------------------------------------------------------------
(* Properties *)

(* The columns and the local state of each request keep their types, and a *)
(* row that exists was stamped by the sequence.                            *)
TypeOK ==
    /\ row \in [Key -> Row]
    /\ lastToken \in Nat
    /\ ask \in [Request -> [key : Key, fp : Fingerprint]]
    /\ pc \in [Request -> Owning \cup Polling \cup Answer \cup {"idle", "crashed"}]
    /\ claim \in [Request -> Nat]
    /\ saw \in [Request -> Nat]
    /\ leaseLost \in [Request -> BOOLEAN]
    /\ wait \in [Request -> 0..InFlightWait]
    /\ quiet \in [Key -> 0..Ttl]

(* The table implements a OnceRegister: an operation is started at most    *)
(* once per identity while a row remembers it, a recorded outcome is never *)
(* overwritten, and after an owner of any kind -- one that answered, threw,*)
(* crashed or lost its lease -- Ttl must pass before the operation may be  *)
(* started again.                                                          *)
Cell(e) ==
    IF e.state = "absent"
      THEN [phase |-> "free", token |-> 0, verdict |-> "none"]
      ELSE IF e.state = "in_flight"
             THEN [phase |-> "open", token |-> e.token, verdict |-> "none"]
             ELSE [phase |-> "closed", token |-> e.token, verdict |-> e.state]

Register == INSTANCE OnceRegister WITH
    Verdict <- Settled, Retention <- Ttl,
    cell <- [k \in Key |-> Cell(row[k])], issued <- lastToken

AtMostOnce == Register!Spec

(* A replayed answer is the result of an operation that returned, started  *)
(* by a request with the same key and the same payload (decodeRow,         *)
(* complete).                                                              *)
ReplayFaithful ==
    \A r \in Request : pc[r] = "replayed" =>
        \E o \in Request : /\ claim[o] = saw[r]
                           /\ ask[o] = ask[r]
                           /\ pc[o] \in {"created", "created-unconfirmed"}

(* Who is told that the previous owner lost its lease before it recorded a *)
(* result is right: no owner of that attempt is ever told that its result  *)
(* is on record (previousAttemptUnknown, executeOwned).                    *)
UnknownMeansLost ==
    \A o, r \in Request : claim[o] # 0 /\ saw[r] = claim[o] =>
        (pc[r] = "previous_unknown" => pc[o] # "created")

(* Two requests are never told contradictory things about one attempt: who *)
(* is told that it completed, failed or was lost is right about what its   *)
(* owner was told (executeOwned against waitForOwner and claimOrRead).     *)
VerdictsAgree ==
    /\ UnknownMeansLost
    /\ \A o, r \in Request : claim[o] # 0 /\ saw[r] = claim[o] =>
          /\ pc[r] \in {"replayed", "not_replayable"} =>
                pc[o] \in {"created", "created-unconfirmed"}
          /\ pc[r] = "previous_failed" => pc[o] = "rethrown"

(* A request that waits for the owner of its key is answered, whatever the *)
(* owner does: it may renew its lease for ever, throw, crash or lose it    *)
(* (waitForOwner).                                                         *)
EveryWaiterAnswered ==
    \A r \in Request :
        pc[r] \in Polling ~> pc[r] \in Answer \cup {"crashed"}
=============================================================================
