------------------------- MODULE SqliteIdempotency --------------------------
(***************************************************************************)
(* The SQLite idempotency coordinator (http/sqliteIdempotencyCoordinator.ts*)
(* ): the gateway processes of one host share one database file.  It keeps *)
(* the rows of PostgresIdempotency without a fencing token, with other     *)
(* guards: renewal and completion ask for the owner and never for the      *)
(* lease, and a waiter whose row lapsed or vanished claims again.          *)
(*                                                                         *)
(* Each statement reads the clock before it waits, up to busy_timeout, for *)
(* the lock of the file, so a timestamp may be old when it is used.  Time  *)
(* is relative, as in PostgresIdempotency: a row holds the time left of    *)
(* its lease and of its retention, here down to -Busy.                     *)
(***************************************************************************)
EXTENDS Integers, FiniteSets

CONSTANTS
    Request,        \* calls of execute(), by any process of the host
    Key,            \* identities: caller, route and Idempotency-Key, hashed
    Fingerprint,    \* hashes of request payloads
    NoFingerprint,  \* the fingerprint of a row that does not exist
    Lease,          \* options.leaseMs
    Ttl,            \* options.ttlMs
    InFlightWait,   \* options.inFlightWaitMs
    MaxEntries,     \* options.maxEntries
    Busy            \* PRAGMA busy_timeout

ASSUME TimesAssumption ==
    /\ Lease \in Nat \ {0}
    /\ InFlightWait \in Nat
    /\ Busy \in Nat
    /\ Ttl \in Nat /\ Ttl > Busy

ASSUME MaxEntriesAssumption == MaxEntries \in Nat \ {0}

ASSUME NoFingerprintAssumption == NoFingerprint \notin Fingerprint

VARIABLES
    row,        \* the table, by its primary key
    lastToken,  \* numbers the insertions; it stands for the random lease_owner
    ask,        \* ask[r]: the key and the payload of request r
    pc,         \* pc[r]: where request r stands, in the end its answer
    claim,      \* claim[r]: the insertion whose operation r runs, 0 if none
    saw,        \* saw[r]: the insertion r waits for or answers from
    wait,       \* wait[r]: time left until waitDeadline
    quiet       \* quiet[k]: time since a lease of k was last unexpired; it
                \* only serves the properties

vars == <<row, lastToken, ask, pc, claim, saw, wait, quiet>>

-----------------------------------------------------------------------------
(* The rows; d is the age of the timestamp that the statement uses *)

Age == 0..Busy

Settled == {"completed", "oversized", "failed", "unknown"}

Row == [state : Settled \cup {"absent", "in_flight"},
        fp : Fingerprint \cup {NoFingerprint},
        token : Nat, lease : (-Busy)..Lease, ttl : (-Busy)..Ttl]

Absent == [state |-> "absent", fp |-> NoFingerprint,
           token |-> 0, lease |-> -Busy, ttl |-> -Busy]

InFlightRow(fp, t, d) == [state |-> "in_flight", fp |-> fp, token |-> t,
                          lease |-> Lease - d, ttl |-> Ttl - d]

(* Mutant of Owned: the state of the row is not part of the WHERE clause. *)
BugOwned(e, t) == e.token = t

(* The WHERE clause of renewLease, completeEntry and failEntry. *)
Owned(e, t) == e.state = "in_flight" /\ e.token = t

Renewed(e, d) == [e EXCEPT !.lease = Lease - d]

Recorded(e, verdict, d) ==
    [e EXCEPT !.state = verdict, !.lease = -Busy, !.ttl = Ttl - d]

(* Mutant of Swept: the retention of the tombstone is not extended. *)
BugSwept(e, d) ==
    IF e.state = "in_flight" /\ e.lease <= -d
      THEN [e EXCEPT !.state = "unknown", !.lease = -Busy]
      ELSE e

(* expireLeases, with the later of the two expiries. *)
Swept(e, d) ==
    IF e.state = "in_flight" /\ e.lease <= -d
      THEN [e EXCEPT !.state = "unknown", !.lease = -Busy,
                     !.ttl = IF @ > Ttl - d THEN @ ELSE Ttl - d]
      ELSE e

(* deleteExpired *)
Retained(e, d) == IF e.state \in Settled /\ e.ttl <= -d THEN Absent ELSE e

Table(d) == [k \in Key |-> Retained(Swept(row[k], d), d)]

Entries(table) == {k \in Key : table[k].state # "absent"}

(* decodeRow: what a request with payload fp is told by row e. *)
Decode(e, fp) ==
    IF e.fp # fp THEN "key_reused"
    ELSE CASE e.state = "in_flight"  -> "waiting"
           [] e.state = "completed"  -> "replayed"
           [] e.state = "oversized"  -> "not_replayable"
           [] e.state = "failed"     -> "previous_failed"
           [] OTHER                  -> "previous_unknown"

-----------------------------------------------------------------------------
(* The requests *)

Polling == {"waiting", "reclaiming"}

Answer == {"created", "created-unconfirmed", "rethrown", "replayed",
           "key_reused", "not_replayable", "previous_failed",
           "previous_unknown", "in_progress", "capacity", "unavailable"}

KeyOf(r) == ask[r].key

Mine(r) == row[KeyOf(r)]

Init ==
    /\ row = [k \in Key |-> Absent]
    /\ lastToken = 0
    /\ ask \in [Request -> [key : Key, fp : Fingerprint]]
    /\ pc = [r \in Request |-> "idle"]
    /\ claim = [r \in Request |-> 0]
    /\ saw = [r \in Request |-> 0]
    /\ wait = [r \in Request |-> 0]
    /\ quiet = [k \in Key |-> Ttl - Busy]

Goto(r, where) == pc' = [pc EXCEPT ![r] = where]

SetMine(r, e) == row' = [row EXCEPT ![KeyOf(r)] = e]

-----------------------------------------------------------------------------
(* claimOrRead: BEGIN IMMEDIATE ... COMMIT, in execute and in waitForOwner *)

Reading(r, d) == Table(d)[KeyOf(r)].state # "absent"

(* Mutant of Full: one entry too many. *)
BugFull(r, d) == ~Reading(r, d) /\ Cardinality(Entries(Table(d))) > MaxEntries

Full(r, d) == ~Reading(r, d) /\ Cardinality(Entries(Table(d))) >= MaxEntries

Insert(r, d) ==
    /\ ~Reading(r, d) /\ ~Full(r, d)
    /\ lastToken' = lastToken + 1
    /\ row' = [Table(d) EXCEPT ![KeyOf(r)] = InFlightRow(ask[r].fp, lastToken + 1, d)]
    /\ quiet' = [quiet EXCEPT ![KeyOf(r)] = 0]
    /\ UNCHANGED <<ask, wait>>

Read(r) ==
    /\ pc[r] = "idle"
    /\ \E d \in Age :
          /\ Reading(r, d)
          /\ row' = Table(d)
          /\ Goto(r, Decode(Table(d)[KeyOf(r)], ask[r].fp))
          /\ saw' = [saw EXCEPT ![r] = Table(d)[KeyOf(r)].token]
    /\ wait' = [wait EXCEPT ![r] = InFlightWait]
    /\ UNCHANGED <<lastToken, ask, claim, quiet>>

RefuseFull(r) ==
    /\ pc[r] \in {"idle", "reclaiming"}
    /\ \E d \in Age : Full(r, d) /\ row' = Table(d)
    /\ Goto(r, "capacity")
    /\ UNCHANGED <<lastToken, ask, claim, saw, wait, quiet>>

(* The request owns the new row and starts the operation. *)
Claim(r) ==
    /\ pc[r] = "idle"
    /\ \E d \in Age : Insert(r, d)
    /\ claim' = [claim EXCEPT ![r] = lastToken + 1]
    /\ Goto(r, "running")
    /\ UNCHANGED saw

(* The lock is not had in time, or a statement fails: ROLLBACK, in claim   *)
(* or in the loop of a waiter.                                             *)
Unavailable(r) ==
    /\ pc[r] = "idle" \/ (pc[r] \in Polling /\ InFlightWait > 0)
    /\ Goto(r, "unavailable")
    /\ UNCHANGED <<row, lastToken, ask, claim, saw, wait, quiet>>

-----------------------------------------------------------------------------
(* executeOwned *)

(* The heartbeat renews a row that is in flight, lapsed or not; when it    *)
(* fails, or finds no row, nothing happens.                                *)
Heartbeat(r) ==
    /\ pc[r] = "running"
    /\ Owned(Mine(r), claim[r])
    /\ \E d \in Age :
          /\ SetMine(r, Renewed(Mine(r), d))
          /\ quiet' = IF d < Lease THEN [quiet EXCEPT ![KeyOf(r)] = 0] ELSE quiet
    /\ UNCHANGED <<lastToken, ask, pc, claim, saw, wait>>

(* The operation returned, and completeEntry runs in the same turn of the  *)
(* event loop.  It updates no row, or fails: created-unconfirmed.          *)
Complete(r) ==
    /\ pc[r] = "running"
    /\ \/ /\ Owned(Mine(r), claim[r])
          /\ \E d \in Age, verdict \in {"completed", "oversized"} :
                SetMine(r, Recorded(Mine(r), verdict, d))
          /\ Goto(r, "created")
       \/ Goto(r, "created-unconfirmed") /\ UNCHANGED row
    /\ UNCHANGED <<lastToken, ask, claim, saw, wait, quiet>>

(* The operation threw; failEntry is best effort. *)
Fail(r) ==
    /\ pc[r] = "running"
    /\ \/ /\ Owned(Mine(r), claim[r])
          /\ \E d \in Age : SetMine(r, Recorded(Mine(r), "failed", d))
       \/ UNCHANGED row
    /\ Goto(r, "rethrown")
    /\ UNCHANGED <<lastToken, ask, claim, saw, wait, quiet>>

-----------------------------------------------------------------------------
(* waitForOwner *)

(* One turn of the loop: answer from a settled row, claim again when the   *)
(* row is gone or lapsed, and otherwise keep the lease that was read.      *)
Poll(r) ==
    LET e == Mine(r) IN
    /\ pc[r] = "waiting"
    /\ InFlightWait > 0
    /\ Goto(r, IF e.state \in Settled THEN Decode(e, ask[r].fp)
               ELSE IF e.state = "absent" \/ e.lease <= 0 THEN "reclaiming"
               ELSE "waiting")
    /\ saw' = [saw EXCEPT ![r] = e.token]
    /\ UNCHANGED <<row, lastToken, ask, claim, wait, quiet>>

(* The second claimOrRead found a row: a settled one, or another owner. *)
Reread(r) ==
    /\ pc[r] = "reclaiming"
    /\ \E d \in Age :
          LET told == Decode(Table(d)[KeyOf(r)], ask[r].fp) IN
          /\ Reading(r, d)
          /\ row' = Table(d)
          /\ saw' = [saw EXCEPT ![r] = Table(d)[KeyOf(r)].token]
          /\ Goto(r, IF told = "waiting" THEN "in_progress" ELSE told)
    /\ UNCHANGED <<lastToken, ask, claim, wait, quiet>>

(* The second claimOrRead made the waiter an owner.  It answers that the   *)
(* original request is still in progress, and runs nothing.                *)
Reclaim(r) ==
    /\ pc[r] = "reclaiming"
    /\ \E d \in Age : Insert(r, d)
    /\ saw' = [saw EXCEPT ![r] = lastToken + 1]
    /\ Goto(r, "in_progress")
    /\ UNCHANGED claim

GiveUp(r) ==
    /\ pc[r] = "waiting"
    /\ wait[r] = 0
    /\ Goto(r, "in_progress")
    /\ UNCHANGED <<row, lastToken, ask, claim, saw, wait, quiet>>

-----------------------------------------------------------------------------
(* The environment *)

Crash(r) ==
    /\ pc[r] \in Polling \cup {"running"}
    /\ Goto(r, "crashed")
    /\ UNCHANGED <<row, lastToken, ask, claim, saw, wait, quiet>>

Live(e) == e.state = "in_flight" /\ e.lease > 0

Less(n) == IF n = 0 THEN 0 ELSE n - 1

Earlier(n) == IF n = -Busy THEN n ELSE n - 1

Tick ==
    /\ row' = [k \in Key |-> [row[k] EXCEPT !.lease = Earlier(@), !.ttl = Earlier(@)]]
    /\ wait' = [r \in Request |-> Less(wait[r])]
    /\ quiet' = [k \in Key |-> IF Live(row[k]) \/ quiet[k] = Ttl - Busy
                                 THEN quiet[k] ELSE quiet[k] + 1]
    /\ UNCHANGED <<lastToken, ask, pc, claim, saw>>

-----------------------------------------------------------------------------

ClaimOrRead(r) == Read(r) \/ RefuseFull(r) \/ Claim(r)

ExecuteOwned(r) == Heartbeat(r) \/ Complete(r) \/ Fail(r)

WaitForOwner(r) == Poll(r) \/ Reread(r) \/ Reclaim(r) \/ GiveUp(r)

Next ==
    \/ \E r \in Request : \/ ClaimOrRead(r) \/ ExecuteOwned(r) \/ WaitForOwner(r)
                          \/ Unavailable(r) \/ Crash(r)
    \/ Tick

Spec == Init /\ [][Next]_vars

-----------------------------------------------------------------------------
(* Properties *)

(* The columns and the local state of each request keep their types, and   *)
(* the table keeps its bound, whoever claims for the first or the second   *)
(* time (claimOrRead).                                                     *)
TypeOK ==
    /\ Cardinality(Entries(row)) <= MaxEntries
    /\ row \in [Key -> Row]
    /\ lastToken \in Nat
    /\ ask \in [Request -> [key : Key, fp : Fingerprint]]
    /\ pc \in [Request -> Polling \cup Answer \cup {"idle", "running", "crashed"}]
    /\ claim \in [Request -> Nat]
    /\ saw \in [Request -> Nat]
    /\ wait \in [Request -> 0..InFlightWait]
    /\ quiet \in [Key -> 0..(Ttl - Busy)]

(* The table implements a OnceRegister although nothing but the owner and  *)
(* the state guard its writes: an outcome is recorded once per insertion,  *)
(* whatever lapsed in between, and a key is claimed again only when no     *)
(* lease of it was unexpired for the retention less the time a statement   *)
(* may wait for the lock with its timestamp in hand (claimOrRead,          *)
(* completeEntry, expireLeases).                                           *)
Cell(e) ==
    IF e.state = "absent"
      THEN [phase |-> "free", token |-> 0, verdict |-> "none"]
      ELSE IF e.state = "in_flight"
             THEN [phase |-> "open", token |-> e.token, verdict |-> "none"]
             ELSE [phase |-> "closed", token |-> e.token, verdict |-> e.state]

Register == INSTANCE OnceRegister WITH
    Verdict <- Settled, Retention <- Ttl - Busy,
    cell <- [k \in Key |-> Cell(row[k])], issued <- lastToken

AtMostOnce == Register!Spec

(* No two requests are told contradictory things about one insertion: a    *)
(* replay is of an operation with the same payload that returned, and      *)
(* whoever hears that it completed, failed or was lost hears what the      *)
(* owner's own answer agrees with (executeOwned, decodeRow).               *)
VerdictsAgree ==
    \A o, r \in Request : claim[o] # 0 /\ saw[r] = claim[o] =>
        /\ pc[r] = "replayed" => ask[o] = ask[r]
        /\ pc[r] \in {"replayed", "not_replayable"} => pc[o] = "created"
        /\ pc[r] = "previous_failed" => pc[o] = "rethrown"
        /\ pc[r] = "previous_unknown" => pc[o] # "created"

(* Who is told that the original request is still in progress is told so   *)
(* about an operation that some request started (waitForOwner).            *)
InProgressHasOwner ==
    \A r \in Request : pc[r] = "in_progress" => \E o \in Request : claim[o] = saw[r]
=============================================================================
