--------------------------- MODULE ClientRegistry ---------------------------
(***************************************************************************)
(* The registry of local clients (capabilities/                            *)
(* localClientManagementService.ts), as one of its clients sees it: the    *)
(* object in memory, the signed file, and the checkpoint store that binds  *)
(* the two (localClientSqliteVerificationAuthorityEpochStore.ts).          *)
(*                                                                         *)
(* Requests change the object and then save the whole registry.  Saves     *)
(* queue up; each takes its snapshot when its turn comes, so it also       *)
(* carries what others have changed by then, and the object may change     *)
(* again while the file is written.  The file is replaced by one rename.   *)
(* With a checkpoint store a save is bracketed by a reservation and its    *)
(* finalization: after a save that failed the process refuses every        *)
(* request, and after a crash in between it refuses to load the file.      *)
(*                                                                         *)
(* Some requests change the object in place, others put a copy into its    *)
(* slot.  A request that holds the old object then works on one that is    *)
(* no longer in the registry.                                              *)
(***************************************************************************)
EXTENDS Naturals, Sequences

CONSTANTS
    Event,          \* feedback events: tenant and event id
    MaxAdmission,   \* how often an event is admitted anew
    Op,             \* feedback requests inside the process
    Other,          \* any request that is not a feedback
    NoClient        \* no object

ASSUME AdmissionAssumption == MaxAdmission \in Nat \ {0}

ASSUME OtherAssumption == Other \notin Op

VARIABLES
    mem,        \* the client's object in the registry of the process
    disk,       \* the client in the registry file
    saves,      \* the persistence tail: who waits for a save, oldest first
    writing,    \* the snapshot that is being saved, NoClient if none
    checkpoint, \* the checkpoint store: absent, clean, or a generation pending
    usable,     \* no authority failure: the process may use its registry
    faults,     \* how often a device or a store may still fail
    changes     \* how many requests other than feedback may still come

registryVars == <<mem, disk, saves, writing, checkpoint, usable, faults, changes>>

(* The deduplication store stamps a new admission of an event with its     *)
(* time; event and time are the marker that a client carries.              *)
Admission == 1..MaxAdmission

Marker == Event \X Admission

(* A client: whether it was revoked, how often each admission of an event  *)
(* is contained in its statistics, and its feedbackAppliedEventMarkers.    *)
Client == [revoked : BOOLEAN,
           counted : [Marker -> 0..2],
           markers : SUBSET Marker]

ASSUME NoClientAssumption == NoClient \notin Client

NewClient == [revoked |-> FALSE,
              counted |-> [m \in Marker |-> 0],
              markers |-> {}]

RegistryTypeOK ==
    /\ mem \in Client
    /\ disk \in Client
    /\ saves \in Seq(Op \union {Other})
    /\ writing \in Client \union {NoClient}
    /\ checkpoint \in {"absent", "clean", "pending"}
    /\ usable \in BOOLEAN
    /\ faults \in Nat
    /\ changes \in Nat

RegistryInit(maxFaults, maxChanges) ==
    /\ mem = NewClient
    /\ disk = NewClient
    /\ saves = <<>>
    /\ writing = NoClient
    /\ checkpoint \in {"absent", "clean"}
    /\ usable = TRUE
    /\ faults = maxFaults
    /\ changes = maxChanges

-----------------------------------------------------------------------------
(* saveRegistry, for the request at the head of the tail. *)

(* The turn comes: the next generation is reserved and the snapshot taken. *)
SaveStart ==
    /\ saves # <<>>
    /\ writing = NoClient
    /\ usable
    /\ writing' = mem
    /\ checkpoint' = IF checkpoint = "absent" THEN "absent" ELSE "pending"
    /\ UNCHANGED <<mem, disk, saves, usable, faults, changes>>

(* saveJson has renamed the new file over the old one. *)
SaveWrite ==
    /\ writing # NoClient
    /\ disk # writing
    /\ disk' = writing
    /\ UNCHANGED <<mem, saves, writing, checkpoint, usable, faults, changes>>

(* The file is in place and the generation finalized: the save succeeds. *)
Saved ==
    /\ writing # NoClient
    /\ disk = writing
    /\ saves' = Tail(saves)
    /\ writing' = NoClient
    /\ checkpoint' = IF checkpoint = "pending" THEN "clean" ELSE checkpoint
    /\ UNCHANGED <<disk, usable, faults, changes>>

(* Mutant of Trusted: a failed save is an error of its request only. *)
BugTrusted == usable

(* registryAuthorityFailure is set when there is a checkpoint store. *)
Trusted == usable /\ checkpoint = "absent"

(* The save fails: its turn comes when the registry is refused, or the     *)
(* store or the disk fails, before the rename or after it.  With a         *)
(* checkpoint store nobody may go on.                                      *)
SaveFails ==
    /\ saves # <<>>
    /\ \/ ~usable /\ UNCHANGED faults
       \/ /\ usable
          /\ faults > 0
          /\ faults' = faults - 1
    /\ saves' = Tail(saves)
    /\ writing' = NoClient
    /\ usable' = Trusted
    /\ UNCHANGED <<disk, checkpoint, changes>>

-----------------------------------------------------------------------------
(* Requests that are not feedback.  Each saves what it changed and keeps   *)
(* it in memory when that save fails.                                      *)

Ask ==
    /\ usable
    /\ changes > 0
    /\ changes' = changes - 1
    /\ saves' = Append(saves, Other)
    /\ UNCHANGED <<disk, writing, checkpoint, usable, faults>>

(* revoke, and like it heartbeat and disable, writes into the object. *)
Revoke ==
    /\ Ask
    /\ ~mem.revoked
    /\ mem' = [mem EXCEPT !.revoked = TRUE]

(* register and discover put a copy into the slot of the client, which     *)
(* has the old one's statistics and markers.  register refuses a revoked   *)
(* client, discover does not.                                              *)
Replace ==
    /\ Ask
    /\ UNCHANGED mem

(* The process stops.  The next one loads the file, unless a generation is *)
(* pending: that takes an operator.                                        *)
Restart ==
    /\ mem' = disk
    /\ saves' = <<>>
    /\ writing' = NoClient
    /\ usable' = (checkpoint # "pending")
    /\ UNCHANGED <<disk, checkpoint, changes>>
=============================================================================
