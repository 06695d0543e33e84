--------------------------- MODULE ClientFeedback ---------------------------
(***************************************************************************)
(* One feedback sample and the two stores it must reach: the statistics    *)
(* in the client registry, and the deduplication store (capabilities/      *)
(* localClientSqliteFeedbackDedupStore.ts), by processFeedback of          *)
(* localClientManagementService.ts.                                        *)
(*                                                                         *)
(* An event is claimed under a lease, its sample and a marker are saved in *)
(* one snapshot of the registry, the claim is acknowledged, and the marker *)
(* is removed by a second save.  After a crash or a failure in between,    *)
(* the next request for the event finds the marker and only acknowledges.  *)
(*                                                                         *)
(* Requests wait for each other (feedbackMutationTail), other requests do  *)
(* not wait for them.  An action is what runs between two awaits.  A       *)
(* transaction purges retired rows first, so a row disappears when its     *)
(* retention ends; time is not measured, leases and rows may lapse at any  *)
(* moment.                                                                 *)
(***************************************************************************)
EXTENDS ClientRegistry, FiniteSets

CONSTANTS
    NoOp,           \* no feedback request
    NoEvent,        \* no event
    MaxMarkers      \* MAX_PENDING_FEEDBACK_MARKERS_PER_CLIENT

ASSUME NoOpAssumption == NoOp \notin Op

ASSUME NoEventAssumption == NoEvent \notin Event

ASSUME MaxMarkersAssumption == MaxMarkers \in Nat

VARIABLES
    rows,       \* the deduplication store
    admitted,   \* admitted[e]: the time of the latest admission of e
    queue,      \* feedbackMutationTail
    about,      \* about[o]: the event of request o, NoEvent when o is unused
    step,       \* where the request at the head stands
    detached,   \* its client, once that is no longer in the registry
    before,     \* the client as it was before the sample
    awaited,    \* the request whose caller still waits for the answer
    answer,     \* that answer
    orphaned    \* events whose sample went into a detached client

feedbackVars == <<rows, admitted, queue, about, step, detached, before,
                  awaited, answer, orphaned>>

Row == [state : {"none", "pending", "applied"}, lease : Op \union {NoOp}, live : BOOLEAN]

NoRow == [state |-> "none", lease |-> NoOp, live |-> FALSE]

Held(o) == [state |-> "pending", lease |-> o, live |-> TRUE]

FeedbackTypeOK ==
    /\ rows \in [Event -> Row]
    /\ admitted \in [Event -> 0..MaxAdmission]
    /\ queue \in Seq(Op)
    /\ about \in [Op -> Event \union {NoEvent}]
    /\ step \in {"waiting", "claimed", "replayed", "pending", "counting",
                 "counted", "uncounted", "clearing", "finished", "failed"}
    /\ detached \in Client \union {NoClient}
    /\ before \in Client \union {NoClient}
    /\ awaited \in Op \union {NoOp}
    /\ answer \in {"none", "accepted", "error"}
    /\ orphaned \subseteq Event

FeedbackInit ==
    /\ rows = [e \in Event |-> NoRow]
    /\ admitted = [e \in Event |-> 0]
    /\ queue = <<>>
    /\ about = [o \in Op |-> NoEvent]
    /\ step = "waiting"
    /\ detached = NoClient
    /\ before = NoClient
    /\ awaited = NoOp
    /\ answer = "none"
    /\ orphaned = {}

-----------------------------------------------------------------------------
(* The request at the head and what it works on. *)

Now == Head(queue)

This == about[Now]

(* Its client: the object it found in the registry when it began. *)
Target == IF detached = NoClient THEN mem ELSE detached

(* Its client becomes c. *)
SetTarget(c) ==
    IF detached = NoClient
    THEN mem' = c /\ detached' = NoClient
    ELSE mem' = mem /\ detached' = c

ThisMarker == <<This, admitted[This]>>

(* removeFeedbackMarkers for an event. *)
Unmarked(c, e) == [c EXCEPT !.markers = {m \in @ : m[1] # e}]

(* Mutant of Sampled: the sample leaves no marker. *)
BugSampled(c, m) == [c EXCEPT !.counted[m] = IF @ < 2 THEN @ + 1 ELSE @]

(* Mutant of Sampled: the marker does not name the admission. *)
BugSampledUnversioned(c, m) ==
    [c EXCEPT !.counted[m] = IF @ < 2 THEN @ + 1 ELSE @,
              !.markers = @ \union {m[1]}]

(* applyFeedbackAggregate, and the marker. *)
Sampled(c, m) == [c EXCEPT !.counted[m] = IF @ < 2 THEN @ + 1 ELSE @,
                           !.markers = @ \union {m}]

(* Mutant of HasRoom: one marker too many. *)
BugHasRoom(c) == Cardinality(c.markers) <= MaxMarkers

HasRoom(c) == Cardinality(c.markers) < MaxMarkers

(* Mutant of PutBack: the sample stays in memory when its save failed. *)
BugPutBack == mem' = mem

(* The earlier client goes back into its slot. *)
PutBack == mem' = before

(* acknowledgeApplied and releaseClaim accept the holder of the lease, the *)
(* former only while the lease lasts.                                      *)
Acknowledgeable(e, o) ==
    /\ rows[e].lease = o
    /\ rows[e].state = "applied" \/ rows[e].live

Applied(e) == [rows EXCEPT ![e].state = "applied", ![e].live = FALSE]

Released(e, o) ==
    IF rows[e].state = "pending" /\ rows[e].lease = o
    THEN [rows EXCEPT ![e].lease = NoOp, ![e].live = FALSE]
    ELSE rows

(* The request answers r and leaves the tail. *)
Leave(r) ==
    /\ queue' = Tail(queue)
    /\ about' = [about EXCEPT ![Now] = NoEvent]
    /\ step' = "waiting"
    /\ detached' = NoClient
    /\ before' = NoClient
    /\ answer' = IF awaited = Now THEN r ELSE answer
    /\ UNCHANGED awaited

(* It goes on to wait for a save, or for a turn of the event loop. *)
Proceed(s) ==
    /\ step' = s
    /\ UNCHANGED <<queue, about, awaited, answer>>

(* It fails; a failing release is swallowed, and its lease will lapse.     *)
GiveUp(failing) ==
    /\ \/ rows' = Released(This, Now) /\ faults' = faults - failing
       \/ /\ faults > failing
          /\ faults' = faults - failing - 1
          /\ UNCHANGED rows
    /\ Leave("error")

(* The acknowledgement is refused, or the store fails. *)
NotAcknowledged ==
    \/ ~Acknowledgeable(This, Now) /\ GiveUp(0)
    \/ faults > 0 /\ GiveUp(1)

-----------------------------------------------------------------------------
(* A request for e arrives and queues up. *)
Arrive(o, e) ==
    /\ about[o] = NoEvent
    /\ awaited # o
    /\ about' = [about EXCEPT ![o] = e]
    /\ queue' = Append(queue, o)
    /\ UNCHANGED <<rows, admitted, step, detached, before, orphaned>>

(* The registry is refused, or the deduplication store refuses: an error,  *)
(* no room, other content under the same event id.                         *)
Refused ==
    /\ queue # <<>>
    /\ step = "waiting"
    /\ \/ ~usable /\ UNCHANGED faults
       \/ usable /\ faults > 0 /\ faults' = faults - 1
    /\ Leave("error")
    /\ UNCHANGED <<mem, disk, saves, writing, checkpoint, usable, changes,
                   rows, admitted, orphaned>>

(* Mutant of Reclaimable: a lease is only ended by its release. *)
BugReclaimable(e) == rows[e].state = "pending" /\ rows[e].lease = NoOp

(* hasActiveLease: nobody applies the event under a lease that lasts. *)
Reclaimable(e) == rows[e].state = "pending" /\ ~rows[e].live

(* processFeedback finds its client, and admitAndClaim admits a new event  *)
(* or claims a pending one, without a live lease, under its old admission. *)
Claim ==
    /\ queue # <<>>
    /\ step = "waiting"
    /\ usable
    /\ \/ /\ rows[This].state = "none"
          /\ admitted[This] < MaxAdmission
          /\ admitted' = [admitted EXCEPT ![This] = @ + 1]
          /\ rows' = [rows EXCEPT ![This] = Held(Now)]
          /\ Proceed("claimed")
       \/ /\ Reclaimable(This)
          /\ rows' = [rows EXCEPT ![This] = Held(Now)]
          /\ Proceed("claimed")
          /\ UNCHANGED admitted
       \/ /\ rows[This].state = "pending"
          /\ ~Reclaimable(This)
          /\ Proceed("pending")
          /\ UNCHANGED <<rows, admitted>>
       \/ /\ rows[This].state = "applied"
          /\ Proceed("replayed")
          /\ UNCHANGED <<rows, admitted>>
    /\ UNCHANGED <<registryVars, detached, before, orphaned>>

(* Another request is applying the event: conflict. *)
InProgress ==
    /\ step = "pending"
    /\ Leave("error")
    /\ UNCHANGED <<registryVars, rows, admitted, orphaned>>

(* The event was applied before: markers left behind are removed. *)
Replayed ==
    /\ step = "replayed"
    /\ IF Unmarked(Target, This) # Target
       THEN /\ SetTarget(Unmarked(Target, This))
            /\ saves' = Append(saves, Now)
            /\ Proceed("clearing")
            /\ UNCHANGED before
       ELSE Leave("accepted") /\ UNCHANGED <<mem, saves>>
    /\ UNCHANGED <<disk, writing, checkpoint, usable, faults, changes,
                   rows, admitted, orphaned>>

(* The claim is acknowledged and the marker removed, which is saved. *)
Acknowledge ==
    /\ Acknowledgeable(This, Now)
    /\ rows' = Applied(This)
    /\ SetTarget([Target EXCEPT !.markers = @ \ {ThisMarker}])
    /\ saves' = Append(saves, Now)
    /\ Proceed("clearing")
    /\ UNCHANGED <<faults, before>>

(* The sample of this very admission is in the registry already. *)
Reconcile ==
    /\ step = "claimed"
    /\ ThisMarker \in Target.markers
    /\ \/ Acknowledge
       \/ NotAcknowledged /\ UNCHANGED <<mem, saves>>
    /\ UNCHANGED <<disk, writing, checkpoint, usable, changes, admitted, orphaned>>

(* The client has no room for another marker. *)
MarkersFull ==
    /\ step = "claimed"
    /\ ThisMarker \notin Target.markers
    /\ ~HasRoom(Unmarked(Target, This))
    /\ mem' = IF detached = NoClient THEN Unmarked(mem, This) ELSE mem
    /\ GiveUp(0)
    /\ UNCHANGED <<disk, saves, writing, checkpoint, usable, changes,
                   admitted, orphaned>>

(* The sample and its marker are put into the client, and saved. *)
Count ==
    /\ step = "claimed"
    /\ ThisMarker \notin Target.markers
    /\ LET clean == Unmarked(Target, This) IN
       /\ HasRoom(clean)
       /\ before' = clean
       /\ SetTarget(Sampled(clean, ThisMarker))
    /\ saves' = Append(saves, Now)
    /\ Proceed("counting")
    /\ orphaned' = IF detached = NoClient THEN orphaned ELSE orphaned \union {This}
    /\ UNCHANGED <<disk, writing, checkpoint, usable, faults, changes, rows, admitted>>

(* The snapshot with the sample was saved. *)
Counted ==
    /\ step = "counted"
    /\ \/ Acknowledge
       \/ NotAcknowledged /\ UNCHANGED <<mem, saves>>
    /\ UNCHANGED <<disk, writing, checkpoint, usable, changes, admitted, orphaned>>

(* It was not: the sample is taken back. *)
Uncounted ==
    /\ step = "uncounted"
    /\ PutBack
    /\ GiveUp(0)
    /\ UNCHANGED <<disk, saves, writing, checkpoint, usable, changes,
                   admitted, orphaned>>

(* Mutant of Finish: the earlier client goes back after any failed save. *)
BugFinish ==
    /\ step \in {"finished", "failed"}
    /\ Leave(IF step = "finished" THEN "accepted" ELSE "error")
    /\ mem' = IF step = "failed" /\ before # NoClient THEN before ELSE mem
    /\ UNCHANGED <<disk, saves, writing, checkpoint, usable, faults, changes,
                   rows, admitted, orphaned>>

(* The marker was removed from the file as well, or not. *)
Finish ==
    /\ step \in {"finished", "failed"}
    /\ Leave(IF step = "finished" THEN "accepted" ELSE "error")
    /\ UNCHANGED <<registryVars, rows, admitted, orphaned>>

-----------------------------------------------------------------------------
(* The end of a save wakes the request that waits for it. *)
Woken(saved) ==
    IF Head(saves) = Other THEN step
    ELSE IF step = "counting" THEN (IF saved THEN "counted" ELSE "uncounted")
    ELSE (IF saved THEN "finished" ELSE "failed")

SaveSucceeds ==
    /\ Saved
    /\ step' = Woken(TRUE)
    /\ UNCHANGED <<mem, rows, admitted, queue, about, detached, before,
                   awaited, answer, orphaned>>

SaveIsLost ==
    /\ SaveFails
    /\ step' = Woken(FALSE)
    /\ UNCHANGED <<mem, rows, admitted, queue, about, detached, before,
                   awaited, answer, orphaned>>

(* A copy of the client takes its slot: a request that began with the old  *)
(* object keeps it.                                                        *)
Supersede ==
    /\ Replace
    /\ detached' = IF step # "waiting" /\ detached = NoClient THEN mem ELSE detached
    /\ UNCHANGED <<rows, admitted, queue, about, step, before, awaited, answer, orphaned>>

(* Time passes: the lease of a request that is gone lapses, or that of one *)
(* which was held up for longer than its lease.  An applied row is due for *)
(* purging.                                                                *)
LeaseLapses(e) ==
    /\ rows[e].live
    /\ rows' = [rows EXCEPT ![e].live = FALSE]
    /\ IF queue # <<>> /\ step \notin {"waiting", "pending"} /\ This = e
       THEN faults > 0 /\ faults' = faults - 1
       ELSE UNCHANGED faults
    /\ UNCHANGED <<mem, disk, saves, writing, checkpoint, usable, changes,
                   admitted, queue, about, step, detached, before,
                   awaited, answer, orphaned>>

Retires(e) ==
    /\ rows[e].state = "applied"
    /\ admitted[e] < MaxAdmission
    /\ rows' = [rows EXCEPT ![e] = NoRow]
    /\ UNCHANGED <<registryVars, admitted, queue, about, step, detached, before,
                   awaited, answer, orphaned>>

(* A new process. *)
Reborn ==
    /\ Restart
    /\ queue' = <<>>
    /\ about' = [o \in Op |-> NoEvent]
    /\ step' = "waiting"
    /\ detached' = NoClient
    /\ before' = NoClient
    /\ awaited' = NoOp
    /\ answer' = "none"
    /\ UNCHANGED <<rows, admitted, orphaned>>
=============================================================================
