------------------------ MODULE FeedbackStoresProofs ------------------------
(***************************************************************************)
(* What the three stores of FeedbackDelivery know of each other: proofs,   *)
(* for any events, requests and bounds.                                    *)
(*                                                                         *)
(* The outbox lets an event go because of an answer, the answer is given   *)
(* because of a row of the deduplication store, and the row says applied   *)
(* because a save succeeded.  None of them looks into the file when it     *)
(* decides.  What makes them right is that every copy of the client that   *)
(* may yet reach the file contains the sample by then.                     *)
(***************************************************************************)
EXTENDS FeedbackDeliveryProofs, FiniteSetTheorems

(* d is c, but for markers that it has lost. *)
Thins(c, d) == d.counted = c.counted /\ d.markers \subseteq c.markers

-----------------------------------------------------------------------------
(* What an action may do to the copies of the client *)

(* The request at the head does not move. *)
Outside ==
    /\ UNCHANGED <<step, before, admitted, orphaned, disk, writing>>
    /\ step # "waiting" => This' = This
    /\ \A e \in Event :
          rows'[e].state = rows[e].state \/ (rows[e].state = "applied" /\ rows'[e].state = "none")
    /\ writing # NoClient => Head(saves') = Head(saves)
    /\ mem'.counted = mem.counted /\ mem'.markers = mem.markers
    /\ \/ detached' = detached
       \/ step # "waiting" /\ detached = NoClient /\ mem' = mem /\ detached' = mem

(* A save goes on. *)
Saving ==
    /\ UNCHANGED <<mem, detached, before, rows, admitted, orphaned>>
    /\ This' = This
    /\ \/ /\ UNCHANGED <<step, saves, disk>>
          /\ writing = NoClient
          /\ writing' = mem
       \/ /\ UNCHANGED <<step, saves, writing>>
          /\ writing # NoClient
          /\ disk' = writing
       \/ /\ step' = Woken(FALSE)
          /\ saves # <<>>
          /\ disk' = disk
          /\ writing' = NoClient
       \/ /\ step' = Woken(TRUE)
          /\ saves # <<>>
          /\ writing # NoClient
          /\ disk = writing
          /\ disk' = disk
          /\ writing' = NoClient

(* A request begins. *)
Begins ==
    /\ step = "waiting"
    /\ step' \in {"claimed", "pending", "replayed"}
    /\ UNCHANGED <<mem, disk, writing, detached, before, orphaned>>
    /\ This \in Event /\ This' = This
    /\ \A e \in Event :
          \/ rows'[e].state = rows[e].state /\ admitted'[e] = admitted[e]
          \/ /\ rows[e].state = "none" /\ rows'[e].state = "pending"
             /\ admitted'[e] = admitted[e] + 1
    /\ step' = "replayed" => rows[This].state = "applied"

(* The event of the head is applied, its client c loses markers. *)
Trims(c) ==
    /\ \/ step = "replayed" /\ rows' = rows
       \/ step = "counted" /\ rows'[This].state = "applied"
       \/ step = "claimed" /\ rows'[This].state = "applied" /\ ThisMarker \in Target.markers
    /\ \A e \in Event : e # This => rows'[e] = rows[e]
    /\ step' = "clearing"
    /\ SetTarget(c)
    /\ c # NoClient /\ Thins(Target, c)
    /\ UNCHANGED <<disk, writing, before, admitted, orphaned>>
    /\ This' = This

(* The head leaves; the earlier client goes back when its save failed. *)
Leaves ==
    /\ step \notin {"counting", "clearing"}
    /\ step' = "waiting"
    /\ \/ step # "uncounted" /\ Thins(mem, mem')
       \/ step = "uncounted" /\ mem' = before
    /\ detached' = NoClient /\ before' = NoClient
    /\ UNCHANGED <<disk, writing, admitted, orphaned>>
    /\ \A e \in Event : rows'[e].state = rows[e].state

(* The sample goes into its client: c before it, d with it. *)
Counts(c, d) ==
    /\ step = "claimed"
    /\ step' = "counting"
    /\ c \in Client /\ Thins(Target, c) /\ ThisMarker \notin c.markers
    /\ HasRoom(c)
    /\ d.markers = c.markers \cup {ThisMarker}
    /\ d.counted[ThisMarker] # 0
    /\ \A m \in Marker : c.counted[m] # 0 => d.counted[m] # 0
    /\ SetTarget(d)
    /\ before' = c
    /\ UNCHANGED <<disk, writing, rows, admitted>>
    /\ This' = This
    /\ orphaned' = IF detached = NoClient THEN orphaned ELSE orphaned \cup {This}
    /\ writing # NoClient => Head(saves') = Other

(* The process dies. *)
Dies ==
    /\ step' = "waiting"
    /\ mem' = disk
    /\ writing' = NoClient /\ detached' = NoClient /\ before' = NoClient
    /\ UNCHANGED <<disk, rows, admitted, orphaned>>

LEMMA HeadStays ==
    ASSUME BaseInv, NEW o \in Op, NEW e \in Event, Arrive(o, e), step # "waiting"
    PROVE  This' = This
<1>1. /\ queue \in Seq(Op) /\ queue # <<>> /\ queue' = Append(queue, o)
      /\ about[o] = NoEvent /\ about' = [about EXCEPT ![o] = e]
      /\ about \in [Op -> Event \cup {NoEvent}]
  BY DEF BaseInv, TypeOK, FeedbackTypeOK, QueueInv, Arrive
<1>2. Now' = Now /\ Now \in Op
  BY <1>1, HeadFacts DEF Now
<1>3. Now # o
  BY <1>1, HeadFacts, NoEventAssumption DEF This
<1>4. QED
  BY <1>1, <1>2, <1>3 DEF This

LEMMA SaveMoves ==
    ASSUME BaseInv, (Save /\ UNCHANGED feedbackVars) \/ SaveSucceeds \/ SaveIsLost
    PROVE  Saving
<1>1. This' = This /\ UNCHANGED <<mem, detached, before, rows, admitted, orphaned>>
  BY DEF Save, SaveStart, SaveWrite, SaveSucceeds, SaveIsLost, feedbackVars, This, Now
<1>2. CASE Save /\ UNCHANGED feedbackVars
  BY <1>1, <1>2 DEF Save, SaveStart, SaveWrite, feedbackVars, Saving
<1>3. CASE SaveSucceeds
  BY <1>1, <1>3 DEF SaveSucceeds, Saved, Saving, BaseInv, WriterInv
<1>4. CASE SaveIsLost
  BY <1>1, <1>4 DEF SaveIsLost, SaveFails, Saving
<1>5. QED
  BY <1>2, <1>3, <1>4

LEMMA ClaimBegins ==
    ASSUME BaseInv, Claim
    PROVE  Begins
<1>1. /\ queue # <<>> /\ step = "waiting" /\ This \in Event
      /\ UNCHANGED <<mem, disk, writing, detached, before, orphaned>>
  BY HeadFacts DEF Claim, registryVars
<1>2. rows \in [Event -> Row] /\ admitted \in [Event -> 0..MaxAdmission]
  BY DEF BaseInv, TypeOK, FeedbackTypeOK
<1>3. step' \in {"claimed", "pending", "replayed"} /\ This' = This
      /\ (step' = "replayed" => rows[This].state = "applied")
  BY DEF Claim, Proceed, This, Now
<1>4. \A e \in Event :
          \/ rows'[e].state = rows[e].state /\ admitted'[e] = admitted[e]
          \/ /\ rows[e].state = "none" /\ rows'[e].state = "pending"
             /\ admitted'[e] = admitted[e] + 1
  <2>1. CASE /\ rows[This].state = "none"
             /\ admitted' = [admitted EXCEPT ![This] = @ + 1]
             /\ rows' = [rows EXCEPT ![This] = Held(Now)]
    <3>1. /\ admitted'[This] = admitted[This] + 1 /\ rows'[This] = Held(Now)
          /\ \A e \in Event : e # This => admitted'[e] = admitted[e] /\ rows'[e] = rows[e]
      BY <1>1, <1>2, <2>1
    <3>2. Held(Now).state = "pending"
      BY DEF Held
    <3>3. QED
      BY <2>1, <3>1, <3>2
  <2>2. CASE /\ Reclaimable(This) /\ admitted' = admitted
             /\ rows' = [rows EXCEPT ![This] = Held(Now)]
    <3>1. rows'[This] = Held(Now) /\ \A e \in Event : e # This => rows'[e] = rows[e]
      BY <1>1, <1>2, <2>2
    <3>2. Held(Now).state = "pending" /\ rows[This].state = "pending"
      BY <2>2 DEF Held, Reclaimable
    <3>3. QED
      BY <2>2, <3>1, <3>2
  <2>3. CASE UNCHANGED <<rows, admitted>>
    BY <2>3
  <2>4. QED
    BY <2>1, <2>2, <2>3 DEF Claim
<1>5. QED
  BY <1>1, <1>3, <1>4 DEF Begins

LEMMA AcknowledgeTrims ==
    ASSUME BaseInv, Acknowledge, Reconcile \/ Counted
    PROVE  \E c : Trims(c)
<1>1. PICK c : c = [Target EXCEPT !.markers = @ \ {ThisMarker}]
  OBVIOUS
<1>2. /\ queue # <<>> /\ step \in {"claimed", "counted"}
      /\ step = "claimed" => ThisMarker \in Target.markers
      /\ UNCHANGED <<disk, writing, admitted, orphaned>>
  BY DEF Reconcile, Counted, BaseInv, QueueInv
<1>3. /\ rows' = Applied(This) /\ SetTarget(c) /\ step' = "clearing"
      /\ UNCHANGED <<before, queue, about>>
  BY <1>1 DEF Acknowledge, Proceed
<1>4. Target \in Client /\ This \in Event /\ Now \in Op
  BY <1>2, HeadFacts
<1>5. c # NoClient /\ Thins(Target, c)
  <2>1. c \in Client /\ c.counted = Target.counted /\ c.markers = Target.markers \ {ThisMarker}
    BY <1>1, <1>4, AcknowledgedClient
  <2>2. QED
    BY <2>1, NoClientAssumption DEF Thins
<1>6. rows'[This].state = "applied" /\ \A e \in Event : e # This => rows'[e] = rows[e]
  BY <1>3, <1>4, RowsTyped
<1>7. This' = This
  BY <1>3 DEF This, Now
<1>8. Trims(c)
  BY <1>2, <1>3, <1>5, <1>6, <1>7 DEF Trims
<1>9. QED
  BY <1>8

LEMMA ReplayedTrims ==
    ASSUME BaseInv, Replayed
    PROVE  (\E c : Trims(c)) \/ Leaves
<1>1. /\ step = "replayed" /\ queue # <<>>
      /\ UNCHANGED <<disk, writing, rows, admitted, orphaned>>
  BY DEF Replayed, BaseInv, QueueInv
<1>2. CASE Leave("accepted") /\ UNCHANGED <<mem, saves>>
  BY <1>1, <1>2 DEF Leave, Leaves, Thins
<1>3. CASE SetTarget(Unmarked(Target, This)) /\ Proceed("clearing") /\ UNCHANGED before
  <2>1. PICK c : c = Unmarked(Target, This)
    OBVIOUS
  <2>2. c \in Client /\ c.counted = Target.counted
        /\ c.markers = {m \in Target.markers : m[1] # This}
    BY <1>1, <2>1, HeadFacts, UnmarkedClient
  <2>3. c # NoClient /\ Thins(Target, c)
    BY <2>2, NoClientAssumption DEF Thins
  <2>4. step' = "clearing" /\ This' = This
    BY <1>3 DEF Proceed, This, Now
  <2>5. Trims(c)
    BY <1>1, <1>3, <2>1, <2>3, <2>4 DEF Trims
  <2>6. QED
    BY <2>5
<1>4. QED
  BY <1>2, <1>3 DEF Replayed

LEMMA GiveUpLeaves ==
    ASSUME BaseInv, queue # <<>>, NEW failing \in {0, 1}, GiveUp(failing)
    PROVE  /\ step' = "waiting" /\ detached' = NoClient /\ before' = NoClient
           /\ \A e \in Event : rows'[e].state = rows[e].state
<1>1. Now \in Op /\ This \in Event
  BY HeadFacts
<1>2. \A e \in Event : Released(This, Now)[e].state = rows[e].state
  BY <1>1, RowsTyped
<1>3. QED
  BY <1>2 DEF GiveUp, Leave

LEMMA HeadLeaves ==
    ASSUME BaseInv,
           \/ Refused \/ InProgress \/ Finish \/ MarkersFull \/ Uncounted
           \/ (Reconcile \/ Counted) /\ NotAcknowledged /\ UNCHANGED <<mem, saves>>
    PROVE  Leaves
<1>1. CASE Refused \/ InProgress \/ Finish
  BY <1>1 DEF Refused, InProgress, Finish, Leave, registryVars, Leaves, Thins
<1>2. CASE MarkersFull
  <2>1. queue # <<>> /\ step = "claimed" /\ GiveUp(0)
        /\ UNCHANGED <<disk, writing, admitted, orphaned>>
        /\ mem' = IF detached = NoClient THEN Unmarked(mem, This) ELSE mem
    BY <1>2 DEF MarkersFull, BaseInv, QueueInv
  <2>2. /\ Unmarked(mem, This).counted = mem.counted
        /\ Unmarked(mem, This).markers = {m \in mem.markers : m[1] # This}
    BY UnmarkedClient DEF BaseInv, TypeOK, RegistryTypeOK
  <2>3. Thins(mem, mem')
    BY <2>1, <2>2 DEF Thins
  <2>4. QED
    BY <2>1, <2>3, GiveUpLeaves DEF Leaves
<1>3. CASE Uncounted
  <2>1. queue # <<>> /\ step = "uncounted" /\ GiveUp(0) /\ mem' = before
        /\ UNCHANGED <<disk, writing, admitted, orphaned>>
    BY <1>3 DEF Uncounted, PutBack, BaseInv, QueueInv
  <2>2. QED
    BY <2>1, GiveUpLeaves DEF Leaves
<1>4. CASE (Reconcile \/ Counted) /\ NotAcknowledged /\ UNCHANGED <<mem, saves>>
  <2>1. queue # <<>> /\ step \in {"claimed", "counted"}
        /\ UNCHANGED <<mem, disk, writing, admitted, orphaned>>
    BY <1>4 DEF Reconcile, Counted, BaseInv, QueueInv
  <2>2. PICK failing \in {0, 1} : GiveUp(failing)
    BY <1>4 DEF NotAcknowledged
  <2>3. QED
    BY <2>1, <2>2, GiveUpLeaves DEF Leaves, Thins
<1>5. QED
  BY <1>1, <1>2, <1>3, <1>4

LEMMA SampleCounts ==
    ASSUME BaseInv, Count
    PROVE  \E c, d : Counts(c, d)
<1>1. PICK c : c = Unmarked(Target, This)
  OBVIOUS
<1>2. PICK d : d = Sampled(c, ThisMarker)
  OBVIOUS
<1>3. /\ queue # <<>> /\ step = "claimed" /\ step' = "counting" /\ HasRoom(c)
      /\ ThisMarker \notin Target.markers
      /\ before' = c /\ SetTarget(d) /\ saves' = Append(saves, Now)
      /\ UNCHANGED <<disk, writing, rows, admitted>> /\ This' = This
      /\ orphaned' = IF detached = NoClient THEN orphaned ELSE orphaned \cup {This}
  BY <1>1, <1>2 DEF Count, Proceed, This, Now, BaseInv, QueueInv
<1>4. /\ c \in Client /\ c.counted = Target.counted
      /\ c.markers = {m \in Target.markers : m[1] # This}
      /\ ThisMarker \in Marker
  BY <1>1, <1>3, HeadFacts, UnmarkedClient
<1>5. /\ d.counted = [c.counted EXCEPT ![ThisMarker] = IF @ < 2 THEN @ + 1 ELSE @]
      /\ d.markers = c.markers \cup {ThisMarker}
  BY <1>2, <1>4, SampledClient
<1>6. c.counted \in [Marker -> 0..2]
  BY <1>4 DEF Client
<1>7. d.counted[ThisMarker] # 0
  <2>1. c.counted[ThisMarker] \in 0..2
    BY <1>4, <1>6
  <2>2. d.counted[ThisMarker] =
           IF c.counted[ThisMarker] < 2 THEN c.counted[ThisMarker] + 1 ELSE c.counted[ThisMarker]
    BY <1>4, <1>5, <1>6
  <2>3. QED
    BY <2>1, <2>2
<1>8. \A m \in Marker : c.counted[m] # 0 => d.counted[m] # 0
  BY <1>5, <1>6, <1>7
<1>9. writing # NoClient => Head(saves') = Other
  <2>1. saves \in Seq(Op \cup {Other}) /\ (writing # NoClient => saves # <<>>)
    BY DEF BaseInv, TypeOK, RegistryTypeOK, WriterInv
  <2>2. \A i \in 1..Len(saves) : saves[i] = Other
    BY <1>3 DEF BaseInv, SavesInv
  <2>3. QED
    BY <1>3, <2>1, <2>2
<1>10. Thins(Target, c) /\ ThisMarker \notin c.markers
  BY <1>3, <1>4 DEF Thins
<1>11. Counts(c, d)
  BY <1>3, <1>4, <1>5, <1>7, <1>8, <1>9, <1>10 DEF Counts
<1>12. QED
  BY <1>11

(* Whatever is not done by the request at the head, the persistence tail   *)
(* or the death of the process.                                            *)
LEMMA OthersStayOutside ==
    ASSUME BaseInv,
           \/ Dispatch
           \/ Supersede \/ (Revoke /\ UNCHANGED feedbackVars)
           \/ \E e \in Event : Stage(e)
           \/ \E o \in Op, e \in Posted : Post(o, e)
           \/ UNCHANGED vars
    PROVE  Outside
<1>1. CASE \/ ClaimBatch \/ Accepted \/ NotAccepted \/ AcknowledgeBatch
           \/ BatchNotAcknowledged \/ ReleaseBatch
           \/ \E e \in Event : Stage(e)
           \/ UNCHANGED vars
  <2>1. UNCHANGED <<mem, disk, saves, writing, rows, admitted, queue, about, step, detached,
                    before, orphaned>>
    BY <1>1 DEF ClaimBatch, Accepted, NotAccepted, AcknowledgeBatch, BatchNotAcknowledged,
       ReleaseBatch, Stage, vars, registryVars, feedbackVars
  <2>2. QED
    BY <2>1 DEF Outside, This, Now
<1>2. ASSUME NEW o \in Op, NEW e \in Event, Arrive(o, e), UNCHANGED registryVars
      PROVE  Outside
  <2>1. step # "waiting" => This' = This
    BY <1>2, HeadStays
  <2>2. QED
    BY <1>2, <2>1 DEF Arrive, registryVars, Outside
<1>3. CASE \/ \E o \in Op : Send(o)
           \/ \E o \in Op, e \in Posted : Post(o, e)
  <2>1. PICK o \in Op, e \in Event : Arrive(o, e) /\ UNCHANGED registryVars
    BY <1>3, PostedAssumption DEF Send, Post, BaseInv, TypeOK
  <2>2. QED
    BY <1>2, <2>1
<1>4. CASE Supersede \/ (Revoke /\ UNCHANGED feedbackVars)
  <2>1. /\ saves' = Append(saves, Other)
        /\ UNCHANGED <<step, before, admitted, orphaned, disk, writing, rows, queue, about>>
    BY <1>4 DEF Supersede, Replace, Revoke, Ask, feedbackVars
  <2>2. writing # NoClient => Head(saves') = Head(saves)
    BY <2>1 DEF BaseInv, TypeOK, RegistryTypeOK, WriterInv
  <2>3. mem'.counted = mem.counted /\ mem'.markers = mem.markers
    <3>1. CASE Supersede
      BY <3>1 DEF Supersede, Replace
    <3>2. CASE Revoke
      BY <3>2 DEF Revoke, BaseInv, TypeOK, RegistryTypeOK, Client
    <3>3. QED
      BY <1>4, <3>1, <3>2
  <2>4. \/ detached' = detached
        \/ step # "waiting" /\ detached = NoClient /\ mem' = mem /\ detached' = mem
    BY <1>4 DEF Supersede, Replace, Revoke, feedbackVars
  <2>5. QED
    BY <2>1, <2>2, <2>3, <2>4 DEF Outside, This, Now
<1>5. QED
  BY <1>1, <1>3, <1>4 DEF Dispatch

LEMMA TimeStaysOutside ==
    ASSUME BaseInv, Time
    PROVE  Outside
<1>1. UNCHANGED <<mem, disk, saves, writing, admitted, queue, about, step, detached, before,
                  orphaned>>
  BY DEF Time, LeaseLapses, Retires, ClaimLapses, Purge, registryVars, feedbackVars
<1>2. rows \in [Event -> Row]
  BY DEF BaseInv, TypeOK, FeedbackTypeOK
<1>3. \A e \in Event :
          rows'[e].state = rows[e].state \/ (rows[e].state = "applied" /\ rows'[e].state = "none")
  <2>1. ASSUME NEW d \in Event, LeaseLapses(d)
        PROVE  \A e \in Event : rows'[e].state = rows[e].state
    <3>1. rows' = [rows EXCEPT ![d] = [rows[d] EXCEPT !.live = FALSE]]
      BY <1>2, <2>1 DEF LeaseLapses
    <3>2. [rows[d] EXCEPT !.live = FALSE].state = rows[d].state
      BY <1>2 DEF Row
    <3>3. QED
      BY <1>2, <3>1, <3>2
  <2>2. ASSUME NEW d \in Event, Retires(d)
        PROVE  \A e \in Event : \/ rows'[e].state = rows[e].state
                                \/ rows[e].state = "applied" /\ rows'[e].state = "none"
    <3>1. rows[d].state = "applied" /\ rows' = [rows EXCEPT ![d] = NoRow]
      BY <2>2 DEF Retires
    <3>2. NoRow.state = "none"
      BY DEF NoRow
    <3>3. QED
      BY <1>2, <3>1, <3>2
  <2>3. CASE UNCHANGED rows
    BY <2>3
  <2>4. QED
    BY <2>1, <2>2, <2>3 DEF Time, ClaimLapses, Purge, feedbackVars
<1>4. QED
  BY <1>1, <1>3 DEF Outside, This, Now

LEMMA FeedbackMoves ==
    ASSUME BaseInv, Feedback
    PROVE  Saving \/ Begins \/ (\E c : Trims(c)) \/ Leaves \/ (\E c, d : Counts(c, d))
<1>1. CASE (Save /\ UNCHANGED feedbackVars) \/ SaveSucceeds \/ SaveIsLost
  BY <1>1, SaveMoves
<1>2. CASE Claim
  BY <1>2, ClaimBegins
<1>3. CASE Replayed
  BY <1>3, ReplayedTrims
<1>4. CASE Reconcile \/ Counted
  <2>1. CASE Acknowledge
    BY <1>4, <2>1, AcknowledgeTrims
  <2>2. CASE NotAcknowledged /\ UNCHANGED <<mem, saves>>
    BY <1>4, <2>2, HeadLeaves
  <2>3. QED
    BY <1>4, <2>1, <2>2 DEF Reconcile, Counted
<1>5. CASE Refused \/ InProgress \/ Finish \/ MarkersFull \/ Uncounted
  BY <1>5, HeadLeaves
<1>6. CASE Count
  BY <1>6, SampleCounts
<1>7. QED
  BY <1>1, <1>2, <1>3, <1>4, <1>5, <1>6 DEF Feedback

LEMMA CrashDies ==
    ASSUME Crash
    PROVE  Dies
BY DEF Crash, Reborn, Restart, Dies

(* Every step is one of these. *)
LEMMA NextMoves ==
    ASSUME BaseInv, [Next]_vars
    PROVE  \/ Outside \/ Saving \/ Begins \/ (\E c : Trims(c)) \/ Leaves
           \/ (\E c, d : Counts(c, d)) \/ Dies
<1>1. CASE Feedback
  BY <1>1, FeedbackMoves
<1>2. CASE Crash
  BY <1>2, CrashDies
<1>3. CASE Time
  BY <1>3, TimeStaysOutside
<1>4. CASE \/ Dispatch \/ Supersede \/ (Revoke /\ UNCHANGED feedbackVars)
           \/ \E e \in Event : Stage(e)
           \/ \E o \in Op, e \in Posted : Post(o, e)
           \/ UNCHANGED vars
  BY <1>4, OthersStayOutside
<1>5. Revoke /\ UNCHANGED <<feedbackVars, outboxVars>> => Revoke /\ UNCHANGED feedbackVars
  OBVIOUS
<1>6. QED
  BY <1>1, <1>2, <1>3, <1>4, <1>5 DEF Next

-----------------------------------------------------------------------------
(* Markers *)

(* Every copy of the client keeps within the limit, and a marker is not    *)
(* without its sample.                                                     *)
Fits(c) ==
    /\ IsFiniteSet(c.markers)
    /\ Cardinality(c.markers) <= MaxMarkers
    /\ \A m \in c.markers : c.counted[m] # 0

MarkersInv == \A c : Copy(c) => Fits(c)

LEMMA ThinnerFits ==
    ASSUME NEW c, NEW d, Fits(c), Thins(c, d)
    PROVE  Fits(d)
<1>1. d.markers \in SUBSET c.markers
  BY DEF Thins
<1>2. /\ IsFiniteSet(d.markers) /\ Cardinality(d.markers) <= Cardinality(c.markers)
      /\ Cardinality(d.markers) \in Nat /\ Cardinality(c.markers) \in Nat
  BY <1>1, FS_Subset, FS_CardinalityType DEF Fits
<1>3. QED
  BY <1>1, <1>2, MaxMarkersAssumption DEF Fits, Thins

(* A client with room fits with one more marker. *)
LEMMA CountedFits ==
    ASSUME NEW c \in Client, NEW d, Fits(c), HasRoom(c), NEW m,
           d.markers = c.markers \cup {m}, d.counted[m] # 0,
           \A k \in Marker : c.counted[k] # 0 => d.counted[k] # 0
    PROVE  Fits(d)
<1>1. /\ IsFiniteSet(d.markers) /\ Cardinality(c.markers) \in Nat
      /\ Cardinality(d.markers) \in {Cardinality(c.markers), Cardinality(c.markers) + 1}
  BY FS_AddElement, FS_CardinalityType DEF Fits
<1>2. Cardinality(d.markers) <= MaxMarkers
  BY <1>1, MaxMarkersAssumption DEF Fits, HasRoom
<1>3. \A k \in d.markers : d.counted[k] # 0
  BY DEF Fits, Client
<1>4. QED
  BY <1>1, <1>2, <1>3 DEF Fits

LEMMA TargetIsCopy == Copy(Target)
BY DEF Copy, Target

LEMMA MarkersStep ==
    ASSUME BaseInv, MarkersInv, [Next]_vars
    PROVE  MarkersInv'
<1>1. SUFFICES ASSUME NEW k, Copy(k)'
               PROVE  Fits(k)
  BY DEF MarkersInv, Fits
<1>2. \A c : Copy(c) => Fits(c)
  BY DEF MarkersInv
<1>3. Fits(mem) /\ Fits(disk) /\ Fits(Target)
  BY <1>2, TargetIsCopy DEF Copy
<1>4. CASE Outside
  <2>1. Thins(mem, mem')
    BY <1>4 DEF Outside, Thins
  <2>2. Copy(k) \/ k = mem'
    BY <1>1, <1>4 DEF Outside, Copy
  <2>3. QED
    BY <1>2, <1>3, <2>1, <2>2, ThinnerFits
<1>5. CASE Saving \/ Begins \/ Dies
  <2>1. Copy(k)
    BY <1>1, <1>5 DEF Saving, Begins, Dies, Copy
  <2>2. QED
    BY <1>2, <2>1
<1>6. ASSUME NEW c, Trims(c)
      PROVE  Fits(k)
  <2>1. Copy(k) \/ k = c
    BY <1>1, <1>6 DEF Trims, SetTarget, Copy
  <2>2. Fits(c)
    BY <1>3, <1>6, ThinnerFits DEF Trims
  <2>3. QED
    BY <1>2, <2>1, <2>2
<1>7. CASE Leaves
  <2>1. CASE Copy(k)
    BY <1>2, <2>1
  <2>2. CASE k = mem' /\ Thins(mem, mem')
    BY <1>3, <2>2, ThinnerFits
  <2>3. CASE k = before /\ step = "uncounted"
    <3>1. before # NoClient
      BY <2>3, NoClientAssumption DEF BaseInv, StepInv
    <3>2. QED
      BY <1>2, <2>3, <3>1 DEF Copy
  <2>4. QED
    BY <1>1, <1>7, <2>1, <2>2, <2>3 DEF Leaves, Copy
<1>8. ASSUME NEW c, NEW d, Counts(c, d)
      PROVE  Fits(k)
  <2>1. Fits(c)
    BY <1>3, <1>8, ThinnerFits DEF Counts
  <2>2. Fits(d)
    BY <1>8, <2>1, CountedFits DEF Counts
  <2>3. Copy(k) \/ k \in {c, d}
    BY <1>1, <1>8 DEF Counts, SetTarget, Copy
  <2>4. QED
    BY <1>2, <2>1, <2>2, <2>3
<1>9. QED
  BY <1>4, <1>5, <1>6, <1>7, <1>8, NextMoves

LEMMA MarkersInitially == Init => MarkersInv
<1> SUFFICES ASSUME Init
             PROVE  MarkersInv
  OBVIOUS
<1>1. \A c : Copy(c) => c = NewClient
  BY DEF Init, RegistryInit, FeedbackInit, Copy
<1>2. NewClient.markers = {}
  BY DEF NewClient
<1>3. QED
  BY <1>1, <1>2, FS_EmptySet, MaxMarkersAssumption DEF MarkersInv, Fits

LEMMA SpecMarkers == Spec => []MarkersInv
<1>1. BaseInv /\ MarkersInv /\ [Next]_vars => MarkersInv'
  BY MarkersStep
<1>2. QED
  BY <1>1, MarkersInitially, SpecBase, PTL DEF Spec

(* The client never carries more markers than its limit, neither in memory *)
(* nor in the file, so loading the registry cuts none off                  *)
(* (normalizeFeedbackAppliedEventMarkers).                                 *)
THEOREM MarkersAlwaysFit == Spec => []MarkersFit
<1>1. MarkersInv => MarkersFit
  BY DEF MarkersInv, Copy, Fits, MarkersFit
<1>2. QED
  BY <1>1, SpecMarkers, PTL

-----------------------------------------------------------------------------
(* Where the client of the head is *)

(* Until the sample is put in, a client that was superseded carries the    *)
(* markers of the one that took its slot; and the earlier client, which    *)
(* may go back into the slot, none that the slot does not have.            *)
PlaceInv ==
    /\ step = "waiting" => detached = NoClient
    /\ step \in {"claimed", "pending", "replayed"} /\ detached # NoClient =>
          detached.markers = mem.markers
    /\ step \in {"counting", "uncounted"} =>
          before.markers \subseteq mem.markers /\ ThisMarker \notin before.markers

LEMMA PlaceStep ==
    ASSUME BaseInv, PlaceInv, [Next]_vars
    PROVE  PlaceInv'
<1>1. CASE Outside
  <2>1. step # "waiting" => ThisMarker' = ThisMarker
    BY <1>1 DEF Outside, ThisMarker
  <2>2. QED
    BY <1>1, <2>1 DEF Outside, PlaceInv
<1>2. CASE Saving
  <2>1. ThisMarker' = ThisMarker
    BY <1>2 DEF Saving, ThisMarker
  <2>2. UNCHANGED <<mem, detached, before>>
    BY <1>2 DEF Saving
  <2>3. \/ step' = step
        \/ step' \in {"counted", "finished", "failed"}
        \/ step' = "uncounted" /\ step = "counting"
    BY <1>2 DEF Saving, Woken
  <2>4. QED
    BY <2>1, <2>2, <2>3 DEF PlaceInv
<1>3. CASE Begins
  BY <1>3 DEF Begins, PlaceInv
<1>4. CASE (\E c : Trims(c)) \/ Leaves \/ Dies
  BY <1>4 DEF Trims, Leaves, Dies, PlaceInv
<1>5. ASSUME NEW c, NEW d, Counts(c, d)
      PROVE  PlaceInv'
  <2>1. /\ step' = "counting" /\ before' = c /\ ThisMarker' = ThisMarker
        /\ ThisMarker \notin c.markers
    BY <1>5 DEF Counts, ThisMarker
  <2>2. Target.markers = mem.markers
    BY <1>5 DEF Counts, Target, PlaceInv
  <2>3. mem' \in {mem, d} /\ c.markers \subseteq Target.markers /\ c.markers \subseteq d.markers
    BY <1>5 DEF Counts, SetTarget, Thins
  <2>4. QED
    BY <2>1, <2>2, <2>3 DEF PlaceInv
<1>6. QED
  BY <1>1, <1>2, <1>3, <1>4, <1>5, NextMoves

(* While the save of a sample is under way, the sample is in the client    *)
(* and, if the snapshot is being written, in that, unless it went into a   *)
(* detached client.                                                        *)
CountingInv ==
    step = "counting" /\ This \notin orphaned =>
        /\ mem.counted[ThisMarker] # 0
        /\ detached # NoClient => detached.counted[ThisMarker] # 0
        /\ writing # NoClient /\ Head(saves) # Other => writing.counted[ThisMarker] # 0

LEMMA CountingStep ==
    ASSUME BaseInv, CountingInv, [Next]_vars
    PROVE  CountingInv'
<1>1. CASE Outside
  <2>1. step # "waiting" => ThisMarker' = ThisMarker
    BY <1>1 DEF Outside, ThisMarker
  <2>2. QED
    BY <1>1, <2>1 DEF Outside, CountingInv
<1>2. CASE Saving
  <2>1. ThisMarker' = ThisMarker /\ UNCHANGED <<mem, detached, orphaned>> /\ This' = This
    BY <1>2 DEF Saving, ThisMarker
  <2>2. step' = "counting" => step = "counting"
    BY <1>2 DEF Saving, Woken
  <2>3. \/ writing' = NoClient
        \/ writing' = mem
        \/ UNCHANGED <<writing, saves>>
    BY <1>2 DEF Saving
  <2>4. QED
    BY <2>1, <2>2, <2>3 DEF CountingInv
<1>3. CASE Begins \/ (\E c : Trims(c)) \/ Leaves \/ Dies
  BY <1>3 DEF Begins, Trims, Leaves, Dies, CountingInv
<1>4. ASSUME NEW c, NEW d, Counts(c, d)
      PROVE  CountingInv'
  <2>1. ThisMarker' = ThisMarker /\ This' = This /\ d.counted[ThisMarker] # 0
    BY <1>4 DEF Counts, ThisMarker
  <2>2. CASE detached = NoClient
    BY <1>4, <2>1, <2>2 DEF Counts, SetTarget, CountingInv
  <2>3. CASE detached # NoClient
    BY <1>4, <2>1, <2>3 DEF Counts, CountingInv
  <2>4. QED
    BY <2>2, <2>3
<1>5. QED
  BY <1>1, <1>2, <1>3, <1>4, NextMoves

-----------------------------------------------------------------------------
(* What every kept copy contains stays in every kept copy *)

HeldAll(m) == \A c \in Kept : c.counted[m] # 0

LEMMA TargetIsKept == Target \in Kept
BY DEF Kept, Target

LEMMA HeldStays ==
    ASSUME BaseInv, [Next]_vars, NEW m \in Marker, HeldAll(m)
    PROVE  HeldAll(m)'
<1>1. SUFFICES ASSUME NEW k, k \in Kept'
               PROVE  k.counted[m] # 0
  BY DEF HeldAll
<1>2. mem.counted[m] # 0 /\ disk.counted[m] # 0 /\ Target.counted[m] # 0
  BY TargetIsKept DEF HeldAll, Kept
<1>3. CASE Outside
  <2>1. mem'.counted[m] # 0
    BY <1>2, <1>3 DEF Outside
  <2>2. k \in Kept \/ k = mem'
    BY <1>1, <1>3 DEF Outside, Kept
  <2>3. QED
    BY <2>1, <2>2 DEF HeldAll
<1>4. CASE Saving
  <2>1. UNCHANGED <<mem, detached, before>>
        /\ disk' \in {disk, writing} /\ (disk' = writing => writing # NoClient)
        /\ writing' \in {writing, mem, NoClient}
    <3>1. mem # NoClient /\ disk # NoClient
      BY NoClientAssumption DEF BaseInv, TypeOK, RegistryTypeOK
    <3>2. QED
      BY <1>4, <3>1 DEF Saving
  <2>2. step' = "uncounted" => step \in {"counting", "uncounted"}
    BY <1>4 DEF Saving, Woken
  <2>3. step' = "counting" => step = "counting"
    BY <1>4 DEF Saving, Woken
  <2>4. k \in Kept
    BY <1>1, <2>1, <2>2, <2>3 DEF Kept
  <2>5. QED
    BY <2>4 DEF HeldAll
<1>5. CASE Begins \/ Dies
  <2>1. k \in Kept
    BY <1>1, <1>5 DEF Begins, Dies, Kept
  <2>2. QED
    BY <2>1 DEF HeldAll
<1>6. ASSUME NEW c, Trims(c)
      PROVE  k.counted[m] # 0
  <2>1. k \in Kept \/ k = c
    BY <1>1, <1>6 DEF Trims, SetTarget, Kept
  <2>2. c.counted = Target.counted
    BY <1>6 DEF Trims, Thins
  <2>3. QED
    BY <1>2, <2>1, <2>2 DEF HeldAll
<1>7. CASE Leaves
  <2>1. k \in Kept \/ (k = mem' /\ mem'.counted = mem.counted)
    BY <1>1, <1>7 DEF Leaves, Thins, Kept
  <2>2. QED
    BY <1>2, <2>1 DEF HeldAll
<1>8. ASSUME NEW c, NEW d, Counts(c, d)
      PROVE  k.counted[m] # 0
  <2>1. k \in Kept \/ k \in {c, d}
    BY <1>1, <1>8 DEF Counts, SetTarget, Kept
  <2>2. c.counted[m] # 0
    BY <1>2, <1>8 DEF Counts, Thins
  <2>3. d.counted[m] # 0
    BY <1>8, <2>2 DEF Counts
  <2>4. QED
    BY <2>1, <2>2, <2>3 DEF HeldAll
<1>9. QED
  BY <1>3, <1>4, <1>5, <1>6, <1>7, <1>8, NextMoves

-----------------------------------------------------------------------------
(* The deduplication store *)

(* An event whose latest admission is applied, or will be as soon as its   *)
(* request, or the next one for it, gets so far: nobody will count it.     *)
Secure(e) ==
    \/ rows[e].state = "applied"
    \/ /\ rows[e].state = "pending"
       /\ <<e, admitted[e]>> \in mem.markers
       /\ ~(step \in {"counting", "uncounted"} /\ This = e)
    \/ step = "counted" /\ This = e

SecureInv ==
    \A e \in Event \ orphaned : Secure(e) => HeldAll(<<e, admitted[e]>>)

LEMMA SecureAdmitted ==
    ASSUME BaseInv, NEW e \in Event, Secure(e)
    PROVE  <<e, admitted[e]>> \in Marker
BY DEF BaseInv, StepInv, Secure, Marker

(* The rest of the persistence tail is not a feedback's. *)
LEMMA WakesOnlySavers ==
    ASSUME BaseInv, saves # <<>>, Head(saves) # Other
    PROVE  step \in {"counting", "clearing"}
<1>1. saves \in Seq(Op \cup {Other}) /\ Head(saves) = saves[1] /\ 1 \in 1..Len(saves)
  BY DEF BaseInv, TypeOK, RegistryTypeOK
<1>2. QED
  BY <1>1 DEF BaseInv, SavesInv

(* The save of the sample succeeds: every copy has it. *)
LEMMA CountedIsHeld ==
    ASSUME BaseInv, CountingInv, Saving, step = "counting", step' = "counted", This \notin orphaned
    PROVE  HeldAll(ThisMarker)'
<1>1. /\ Head(saves) # Other /\ writing # NoClient /\ disk = writing
      /\ UNCHANGED <<mem, detached, disk>> /\ writing' = NoClient
  BY DEF Saving, Woken
<1>2. /\ mem.counted[ThisMarker] # 0 /\ disk.counted[ThisMarker] # 0
      /\ detached # NoClient => detached.counted[ThisMarker] # 0
  BY <1>1 DEF CountingInv
<1>3. ThisMarker' = ThisMarker
  BY DEF Saving, ThisMarker
<1>4. \A k : k \in Kept' => k \in {mem, disk} \/ (k = detached /\ k # NoClient)
  BY <1>1 DEF Kept
<1>5. \A k : k \in Kept' => k.counted[ThisMarker'] # 0
  BY <1>2, <1>3, <1>4
<1>6. QED
  BY <1>5 DEF HeldAll

LEMMA SecureStep ==
    ASSUME BaseInv, BaseInv', CountInv, MarkersInv, PlaceInv, CountingInv, SecureInv, [Next]_vars
    PROVE  SecureInv'
<1>1. SUFFICES ASSUME NEW e \in Event, e \notin orphaned', Secure(e)'
               PROVE  HeldAll(<<e, admitted[e]>>)'
  BY DEF SecureInv
<1>2. e \notin orphaned
  BY <1>1, NextMoves DEF Outside, Saving, Begins, Trims, Leaves, Counts, Dies
<1>3. ASSUME Secure(e), admitted'[e] = admitted[e]
      PROVE  HeldAll(<<e, admitted[e]>>)'
  <2>1. PICK m \in Marker : m = <<e, admitted[e]>>
    BY <1>3, SecureAdmitted
  <2>2. HeldAll(m)
    BY <1>2, <1>3, <2>1 DEF SecureInv
  <2>3. HeldAll(m)'
    BY <2>2, HeldStays
  <2>4. QED
    BY <1>3, <2>1, <2>3 DEF HeldAll
<1>4. /\ step \in {"claimed", "counting", "counted", "uncounted"} => rows[This].state = "pending"
      /\ step = "replayed" => rows[This].state # "pending"
  BY DEF BaseInv, StepInv
<1>5. CASE Outside
  <2>1. /\ step' = step /\ admitted' = admitted /\ mem'.markers = mem.markers
        /\ step # "waiting" => This' = This
        /\ rows'[e].state \in {"applied", "pending"} => rows'[e].state = rows[e].state
    BY <1>5 DEF Outside
  <2>2. Secure(e)
    BY <1>1, <2>1 DEF Secure
  <2>3. QED
    BY <1>3, <2>1, <2>2
<1>6. CASE Saving
  <2>1. UNCHANGED <<mem, rows, admitted, orphaned>> /\ This' = This
    BY <1>6 DEF Saving
  <2>2. CASE step = "counting" /\ step' = "counted" /\ This = e
    <3>1. HeldAll(ThisMarker)'
      BY <1>2, <1>6, <2>2, CountedIsHeld
    <3>2. QED
      BY <2>1, <2>2, <3>1 DEF ThisMarker
  <2>3. CASE ~(step = "counting" /\ step' = "counted" /\ This = e)
    <3>1. step' = "counted" => step \in {"counted", "counting"}
      BY <1>6 DEF Saving, Woken
    <3>2. step = "counting" => step' \in {"counting", "uncounted", "counted"}
      BY <1>6 DEF Saving, Woken
    <3>3. step = "uncounted" => step' = "uncounted"
      BY <1>6, WakesOnlySavers DEF Saving, Woken
    <3>4. Secure(e)
      BY <1>1, <2>1, <2>3, <3>1, <3>2, <3>3 DEF Secure
    <3>5. QED
      BY <1>3, <2>1, <3>4
  <2>4. QED
    BY <2>2, <2>3
<1>7. CASE Begins
  <2>1. /\ step = "waiting" /\ step' \in {"claimed", "pending", "replayed"} /\ mem' = mem
        /\ \/ rows'[e].state = rows[e].state /\ admitted'[e] = admitted[e]
           \/ /\ rows[e].state = "none" /\ rows'[e].state = "pending"
             /\ admitted'[e] = admitted[e] + 1
    BY <1>7 DEF Begins
  <2>2. CASE rows'[e].state = rows[e].state /\ admitted'[e] = admitted[e]
    <3>1. Secure(e)
      BY <1>1, <2>1, <2>2 DEF Secure
    <3>2. QED
      BY <1>3, <2>2, <3>1
  <2>3. CASE rows'[e].state = "pending" /\ admitted'[e] = admitted[e] + 1
    <3>1. PICK n \in Admission : n = admitted'[e]
      BY <2>3 DEF BaseInv, StepInv
    <3>2. admitted[e] \in Nat /\ n > admitted[e]
      BY <2>3, <3>1, AdmissionAssumption DEF BaseInv, TypeOK, FeedbackTypeOK
    <3>3. mem.counted[<<e, n>>] = 0
      BY <3>2 DEF CountInv, Copy, Sound
    <3>4. <<e, n>> \notin mem.markers
      BY <3>3 DEF MarkersInv, Copy, Fits
    <3>5. QED
      BY <1>1, <2>1, <2>3, <3>1, <3>4 DEF Secure
  <2>4. QED
    BY <2>1, <2>2, <2>3
<1>8. ASSUME NEW c, Trims(c)
      PROVE  HeldAll(<<e, admitted[e]>>)'
  <2>1. /\ step' = "clearing" /\ admitted' = admitted
        /\ step \in {"claimed", "counted", "replayed"}
        /\ \A d \in Event : d # This => rows'[d] = rows[d]
    BY <1>8 DEF Trims
  <2>2. mem'.markers \subseteq mem.markers
    BY <1>8 DEF Trims, SetTarget, Thins, Target
  <2>3. CASE e # This
    <3>1. Secure(e)
      BY <1>1, <2>1, <2>2, <2>3 DEF Secure
    <3>2. QED
      BY <1>3, <2>1, <3>1
  <2>4. CASE e = This
    <3>1. CASE step = "replayed" /\ rows' = rows
      <4>1. Secure(e)
        BY <1>1, <1>4, <2>1, <2>4, <3>1 DEF Secure
      <4>2. QED
        BY <1>3, <2>1, <4>1
    <3>2. CASE step = "counted"
      BY <1>3, <2>1, <2>4, <3>2 DEF Secure
    <3>3. CASE step = "claimed" /\ ThisMarker \in Target.markers
      <4>1. ThisMarker \in mem.markers
        BY <3>3 DEF PlaceInv, Target
      <4>2. Secure(e)
        BY <1>4, <2>4, <3>3, <4>1 DEF Secure, ThisMarker
      <4>3. QED
        BY <1>3, <2>1, <4>2
    <3>4. QED
      BY <1>8, <3>1, <3>2, <3>3 DEF Trims
  <2>5. QED
    BY <2>3, <2>4
<1>9. CASE Leaves
  <2>1. /\ step' = "waiting" /\ admitted' = admitted /\ rows'[e].state = rows[e].state
        /\ step # "counting"
    BY <1>9 DEF Leaves
  <2>2. CASE step # "uncounted" /\ mem'.markers \subseteq mem.markers
    <3>1. Secure(e)
      BY <1>1, <2>1, <2>2 DEF Secure
    <3>2. QED
      BY <1>3, <2>1, <3>1
  <2>3. CASE step = "uncounted" /\ mem' = before
    <3>1. before.markers \subseteq mem.markers /\ ThisMarker \notin before.markers
      BY <2>3 DEF PlaceInv
    <3>2. Secure(e)
      BY <1>1, <2>1, <2>3, <3>1 DEF Secure, ThisMarker
    <3>3. QED
      BY <1>3, <2>1, <3>2
  <2>4. QED
    BY <1>9, <2>2, <2>3 DEF Leaves, Thins
<1>10. ASSUME NEW c, NEW d, Counts(c, d)
       PROVE  HeldAll(<<e, admitted[e]>>)'
  <2>1. /\ step' = "counting" /\ step = "claimed" /\ UNCHANGED <<rows, admitted>> /\ This' = This
        /\ mem'.markers \subseteq mem.markers \cup {ThisMarker}
    BY <1>10 DEF Counts, SetTarget, Thins, Target
  <2>2. e # This => <<e, admitted[e]>> # ThisMarker
    BY DEF ThisMarker
  <2>3. Secure(e)
    BY <1>1, <2>1, <2>2 DEF Secure
  <2>4. QED
    BY <1>3, <2>1, <2>3
<1>11. CASE Dies
  <2>1. /\ step' = "waiting" /\ UNCHANGED <<rows, admitted, disk>> /\ mem' = disk
        /\ writing' = NoClient /\ detached' = NoClient
    BY <1>11 DEF Dies
  <2>2. CASE rows[e].state = "applied"
    BY <1>3, <2>1, <2>2 DEF Secure
  <2>3. CASE <<e, admitted[e]>> \in disk.markers
    <3>1. disk.counted[<<e, admitted[e]>>] # 0
      BY <2>3 DEF MarkersInv, Copy, Fits
    <3>2. \A k : k \in Kept' => k = disk
      BY <2>1 DEF Kept
    <3>3. QED
      BY <2>1, <3>1, <3>2 DEF HeldAll
  <2>4. QED
    BY <1>1, <2>1, <2>2, <2>3 DEF Secure
<1>12. QED
  BY <1>5, <1>6, <1>7, <1>8, <1>9, <1>10, <1>11, NextMoves

StoresInv == CountInv /\ MarkersInv /\ PlaceInv /\ CountingInv /\ SecureInv

LEMMA StoresInitially == Init => StoresInv
<1> SUFFICES ASSUME Init
             PROVE  PlaceInv /\ CountingInv /\ SecureInv
  BY CountInitially, MarkersInitially DEF StoresInv
<1>1. /\ step = "waiting" /\ detached = NoClient
      /\ \A e \in Event : rows[e].state = "none"
  BY DEF Init, FeedbackInit, NoRow
<1>2. QED
  BY <1>1 DEF PlaceInv, CountingInv, SecureInv, Secure

LEMMA StoresStay == BaseInv /\ StoresInv /\ [Next]_vars => StoresInv'
<1> SUFFICES ASSUME BaseInv, StoresInv, [Next]_vars
             PROVE  StoresInv'
  OBVIOUS
<1>1. BaseInv'
  BY NextBase
<1>2. CountInv' /\ MarkersInv' /\ PlaceInv' /\ CountingInv'
  BY CountStays, MarkersStep, PlaceStep, CountingStep DEF StoresInv
<1>3. SecureInv'
  BY <1>1, SecureStep DEF StoresInv
<1>4. QED
  BY <1>2, <1>3 DEF StoresInv

LEMMA SpecStores == Spec => []StoresInv
BY StoresInitially, StoresStay, SpecBase, PTL DEF Spec

(* What every kept copy contains is in the file, once. *)
LEMMA HeldIsContained ==
    ASSUME BaseInv, StoresInv, NEW e \in Event, NEW n \in Admission, HeldAll(<<e, n>>)
    PROVE  disk.counted[<<e, n>>] = 1
<1>1. PICK m \in Marker : m = <<e, n>>
  BY DEF Marker
<1>2. disk.counted[m] # 0
  BY <1>1 DEF HeldAll, Kept
<1>3. disk.counted[m] <= 1
  BY <1>1 DEF StoresInv, CountInv, Copy, Sound
<1>4. disk.counted[m] \in 0..2
  BY DEF BaseInv, TypeOK, RegistryTypeOK, Client
<1>5. QED
  BY <1>1, <1>2, <1>3, <1>4

(* What the deduplication store calls applied is contained in the          *)
(* statistics of the file, once, unless its sample went into an object     *)
(* that was no longer in the registry (acknowledgeApplied).                *)
THEOREM AppliedStaysCounted == Spec => []AppliedIsCounted
<1>1. BaseInv /\ StoresInv => AppliedIsCounted
  <2> SUFFICES ASSUME BaseInv, StoresInv, NEW e \in Event \ orphaned, rows[e].state = "applied"
               PROVE  disk.counted[<<e, admitted[e]>>] = 1
    BY DEF AppliedIsCounted
  <2>1. Secure(e)
    BY DEF Secure
  <2>2. admitted[e] \in Admission /\ HeldAll(<<e, admitted[e]>>)
    BY <2>1 DEF BaseInv, StepInv, StoresInv, SecureInv
  <2>3. QED
    BY <2>2, HeldIsContained
<1>2. QED
  BY <1>1, SpecBase, SpecStores, PTL

-----------------------------------------------------------------------------
(* The answers *)

(* Some admission of the event is in every kept copy, or its sample is in  *)
(* an object that was no longer in the registry.  Either is for good,      *)
(* while the row of the event may reach the end of its retention.          *)
Fine(e) == e \in orphaned \/ \E n \in Admission : HeldAll(<<e, n>>)

LEMMA FineStays ==
    ASSUME BaseInv, [Next]_vars, NEW e \in Event, Fine(e)
    PROVE  Fine(e)'
<1>1. CASE e \in orphaned
  BY <1>1, NextMoves DEF Outside, Saving, Begins, Trims, Leaves, Counts, Dies, Fine
<1>2. ASSUME NEW n \in Admission, HeldAll(<<e, n>>)
      PROVE  Fine(e)'
  <2>1. HeldAll(<<e, n>>)'
    BY <1>2, HeldStays DEF Marker
  <2>2. QED
    BY <2>1 DEF Fine
<1>3. QED
  BY <1>1, <1>2 DEF Fine

LEMMA SecureIsFine ==
    ASSUME BaseInv, SecureInv, NEW e \in Event, Secure(e)
    PROVE  Fine(e)
<1>1. admitted[e] \in Admission
  BY SecureAdmitted DEF Marker
<1>2. QED
  BY <1>1 DEF SecureInv, Fine

(* A request that is about to accept its event. *)
AcceptInv == step \in {"replayed", "clearing", "finished"} => Fine(This)

LEMMA AcceptStep ==
    ASSUME BaseInv, BaseInv', SecureInv, SecureInv', AcceptInv, [Next]_vars
    PROVE  AcceptInv'
<1>1. SUFFICES ASSUME step' \in {"replayed", "clearing", "finished"}
               PROVE  Fine(This)'
  BY DEF AcceptInv
<1>2. ASSUME This' = This, This \in Event, Fine(This)
      PROVE  Fine(This)'
  <2>1. PICK e \in Event : e = This
    BY <1>2
  <2>2. Fine(e)'
    BY <1>2, <2>1, FineStays
  <2>3. QED
    BY <1>2, <2>1, <2>2 DEF Fine
<1>3. step # "waiting" => This \in Event
  BY HeadFacts DEF BaseInv, QueueInv
<1>4. CASE Outside
  BY <1>1, <1>2, <1>3, <1>4 DEF Outside, AcceptInv
<1>5. CASE Saving
  <2>1. step' = "finished" => step \in {"clearing", "finished"}
    BY <1>5, WakesOnlySavers DEF Saving, Woken
  <2>2. step' \in {"replayed", "clearing"} => step' = step
    BY <1>5 DEF Saving, Woken
  <2>3. step \in {"replayed", "clearing", "finished"} /\ This' = This
    BY <1>1, <1>5, <2>1, <2>2 DEF Saving
  <2>4. QED
    BY <1>2, <1>3, <2>3 DEF AcceptInv
<1>6. CASE Begins
  <2>1. This \in Event /\ rows[This].state = "applied" /\ This' = This
    BY <1>1, <1>6 DEF Begins
  <2>2. Fine(This)
    BY <2>1, SecureIsFine DEF Secure
  <2>3. QED
    BY <1>2, <2>1, <2>2
<1>7. ASSUME NEW c, Trims(c)
      PROVE  Fine(This)'
  <2>1. This' = This /\ This \in Event
    BY <1>3, <1>7 DEF Trims
  <2>2. CASE step = "replayed"
    BY <1>2, <2>1, <2>2 DEF AcceptInv
  <2>3. CASE rows'[This].state = "applied"
    <3>1. PICK e \in Event : e = This
      BY <2>1
    <3>2. Secure(e)'
      BY <2>3, <3>1 DEF Secure
    <3>3. admitted'[e] \in Admission
      BY <2>3, <3>1 DEF BaseInv, StepInv
    <3>4. Fine(e)'
      BY <3>2, <3>3 DEF SecureInv, Fine
    <3>5. QED
      BY <2>1, <3>1, <3>4 DEF Fine
  <2>4. QED
    BY <1>7, <2>2, <2>3 DEF Trims
<1>8. QED
  BY <1>1, <1>4, <1>5, <1>6, <1>7, NextMoves DEF Leaves, Counts, Dies

-----------------------------------------------------------------------------
(* The outbox *)

(* Everything that was sent is fine, except for e0, which is not answered. *)
Waiting(e0) ==
    /\ e0 \in batch \ unsent
    /\ \A e \in batch \ unsent : e # e0 => Fine(e)
    /\ awaited \in Op
    /\ answer = "none" => about[awaited] = e0
    /\ answer # "none" => about[awaited] = NoEvent
    /\ answer = "accepted" => Fine(e0)

OutboxInv ==
    /\ \A e \in Event : out[e] = "delivered" => Fine(e)
    /\ dispatch = "send" => \A e \in batch \ unsent : Fine(e)
    /\ dispatch = "await" => \E e0 \in Event : Waiting(e0)

(* The dispatcher does not move. *)
Untold == UNCHANGED <<awaited, batch, unsent, dispatch>>

(* Neither is its request answered. *)
StillUntold ==
    /\ Untold
    /\ answer' = answer
    /\ awaited \in Op => about'[awaited] = about[awaited]

LEMMA StillWaiting ==
    ASSUME BaseInv, [Next]_vars, StillUntold, NEW e0 \in Event, Waiting(e0)
    PROVE  Waiting(e0)'
<1>1. batch \subseteq Event
  BY DEF BaseInv, TypeOK
<1>2. \A e \in batch \ unsent : e # e0 => Fine(e)'
  BY <1>1, FineStays DEF Waiting
<1>3. answer = "accepted" => Fine(e0)'
  BY FineStays DEF Waiting
<1>4. QED
  BY <1>2, <1>3 DEF StillUntold, Untold, Waiting

LEMMA UntoldKeeps ==
    ASSUME BaseInv, OutboxInv, [Next]_vars, Untold,
           \A e \in Event : out'[e] = "delivered" => out[e] = "delivered",
           \A e0 \in Event : Waiting(e0) => Waiting(e0)'
    PROVE  OutboxInv'
<1>1. batch \subseteq Event
  BY DEF BaseInv, TypeOK
<1>2. \A e \in Event : out'[e] = "delivered" => Fine(e)'
  BY FineStays DEF OutboxInv
<1>3. dispatch = "send" => \A e \in batch \ unsent : Fine(e)'
  BY <1>1, FineStays DEF OutboxInv
<1>4. QED
  BY <1>2, <1>3 DEF Untold, OutboxInv

(* The request at the head is answered. *)
LEMMA AnsweredWaiting ==
    ASSUME BaseInv, AcceptInv, [Next]_vars, Untold, queue # <<>>, NEW r \in {"accepted", "error"},
           Leave(r), r = "accepted" => step \in {"replayed", "finished"},
           NEW e0 \in Event, Waiting(e0)
    PROVE  Waiting(e0)'
<1>1. Now \in Op /\ This \in Event /\ about \in [Op -> Event \cup {NoEvent}]
  BY HeadFacts DEF BaseInv, TypeOK, FeedbackTypeOK
<1>2. /\ about' = [about EXCEPT ![Now] = NoEvent]
      /\ answer' = IF awaited = Now THEN r ELSE answer
  BY DEF Leave
<1>3. CASE awaited # Now
  <2>1. StillUntold
    BY <1>1, <1>2, <1>3 DEF StillUntold
  <2>2. QED
    BY <2>1, StillWaiting
<1>4. CASE awaited = Now
  <2>1. answer = "none" /\ e0 = This
    BY <1>1, <1>4, NoEventAssumption DEF Waiting, This
  <2>2. r = "accepted" => Fine(e0)'
    BY <2>1, FineStays DEF AcceptInv
  <2>3. answer' = r /\ about'[awaited] = NoEvent
    BY <1>1, <1>2, <1>4
  <2>4. \A e \in batch \ unsent : e # e0 => Fine(e)'
    BY FineStays DEF Waiting, BaseInv, TypeOK
  <2>5. QED
    BY <2>2, <2>3, <2>4 DEF Waiting, Untold
<1>5. QED
  BY <1>3, <1>4

LEMMA FeedbackAnswers ==
    ASSUME BaseInv, Feedback
    PROVE  /\ awaited' = awaited
           /\ \/ UNCHANGED <<about, answer>>
              \/ /\ queue # <<>>
                 /\ \E r \in {"accepted", "error"} :
                       Leave(r) /\ (r = "accepted" => step \in {"replayed", "finished"})
<1>1. CASE (Save /\ UNCHANGED feedbackVars) \/ SaveSucceeds \/ SaveIsLost
  BY <1>1 DEF feedbackVars, SaveSucceeds, SaveIsLost
<1>2. CASE Refused \/ InProgress
  BY <1>2 DEF Refused, InProgress, Leave, BaseInv, QueueInv
<1>3. CASE Claim \/ Count
  BY <1>3 DEF Claim, Count, Proceed
<1>4. CASE Replayed
  BY <1>4 DEF Replayed, Proceed, Leave, BaseInv, QueueInv
<1>5. CASE Reconcile \/ Counted
  <2>1. queue # <<>>
    BY <1>5 DEF Reconcile, Counted, BaseInv, QueueInv
  <2>2. CASE Acknowledge
    BY <2>2 DEF Acknowledge, Proceed
  <2>3. CASE NotAcknowledged
    <3>1. Leave("error")
      BY <2>3 DEF NotAcknowledged, GiveUp
    <3>2. QED
      BY <2>1, <3>1 DEF Leave
  <2>4. QED
    BY <1>5, <2>2, <2>3 DEF Reconcile, Counted
<1>6. CASE MarkersFull \/ Uncounted
  <2>1. queue # <<>> /\ Leave("error")
    BY <1>6 DEF MarkersFull, Uncounted, GiveUp, BaseInv, QueueInv
  <2>2. QED
    BY <2>1 DEF Leave
<1>7. CASE Finish
  <2>1. PICK r \in {"accepted", "error"} :
           Leave(r) /\ (r = "accepted" => step \in {"replayed", "finished"})
    BY <1>7 DEF Finish
  <2>2. QED
    BY <1>7, <2>1 DEF Finish, Leave, BaseInv, QueueInv
<1>8. QED
  BY <1>1, <1>2, <1>3, <1>4, <1>5, <1>6, <1>7 DEF Feedback

LEMMA FeedbackKeepsOutbox ==
    ASSUME BaseInv, AcceptInv, OutboxInv, [Next]_vars, Feedback, UNCHANGED outboxVars
    PROVE  OutboxInv'
<1>1. Untold /\ out' = out
  BY FeedbackAnswers DEF Untold, outboxVars
<1>2. ASSUME NEW e0 \in Event, Waiting(e0)
      PROVE  Waiting(e0)'
  <2>1. CASE UNCHANGED <<about, answer>>
    BY <1>1, <1>2, <2>1, StillWaiting DEF StillUntold
  <2>2. ASSUME queue # <<>>, NEW r \in {"accepted", "error"}, Leave(r),
               r = "accepted" => step \in {"replayed", "finished"}
        PROVE  Waiting(e0)'
    BY <1>1, <1>2, <2>2, AnsweredWaiting
  <2>3. QED
    BY <2>1, <2>2, FeedbackAnswers
<1>3. QED
  BY <1>1, <1>2, UntoldKeeps

LEMMA OthersKeepOutbox ==
    ASSUME BaseInv, OutboxInv, [Next]_vars,
           \/ Time
           \/ Supersede /\ UNCHANGED outboxVars
           \/ Revoke /\ UNCHANGED <<feedbackVars, outboxVars>>
           \/ \E e \in Event : Stage(e)
           \/ \E o \in Op, e \in Posted : Post(o, e)
           \/ UNCHANGED vars
    PROVE  OutboxInv'
<1>1. CASE \/ Time
           \/ Supersede /\ UNCHANGED outboxVars
           \/ Revoke /\ UNCHANGED <<feedbackVars, outboxVars>>
           \/ \E e \in Event : Stage(e)
           \/ UNCHANGED vars
  <2>1. StillUntold
    BY <1>1 DEF Time, LeaseLapses, Retires, ClaimLapses, Purge, Supersede, Stage, vars,
       feedbackVars, outboxVars, StillUntold, Untold
  <2>2. \A e \in Event : out'[e] = "delivered" => out[e] = "delivered"
    <3>1. \/ out' = out
          \/ \E es, v : v \in {"lapsed", "absent", "pending"} /\ out' = Marked(es, v)
      BY <1>1 DEF Time, ClaimLapses, Purge, Stage, vars, outboxVars
    <3>2. QED
      BY <3>1 DEF Marked
  <2>3. QED
    BY <2>1, <2>2, StillWaiting, UntoldKeeps DEF StillUntold
<1>2. CASE \E o \in Op, e \in Posted : Post(o, e)
  <2>1. PICK o \in Op, e \in Posted : Post(o, e)
    BY <1>2
  <2>2. about' = [about EXCEPT ![o] = e] /\ awaited # o /\ about \in [Op -> Event \cup {NoEvent}]
    BY <2>1 DEF Post, Arrive, BaseInv, TypeOK, FeedbackTypeOK
  <2>3. StillUntold /\ out' = out
    BY <2>1, <2>2 DEF Post, outboxVars, StillUntold, Untold
  <2>4. QED
    BY <2>3, StillWaiting, UntoldKeeps DEF StillUntold
<1>3. QED
  BY <1>1, <1>2

(* The dispatcher, and the start of a new process. *)
LEMMA DispatchKeepsOutbox ==
    ASSUME BaseInv, OutboxInv, [Next]_vars, Dispatch \/ Crash
    PROVE  OutboxInv'
<1>1. batch \subseteq Event /\ unsent \subseteq batch
  BY DEF BaseInv, TypeOK
<1>2. ASSUME NEW e \in Event, out[e] = "delivered"
      PROVE  Fine(e)'
  BY <1>2, FineStays DEF OutboxInv
<1>3. CASE ClaimBatch
  <2>1. /\ batch' = unsent' /\ dispatch' = "send"
        /\ \A e \in Event : out'[e] = "delivered" => out[e] = "delivered"
    BY <1>3 DEF ClaimBatch, Marked
  <2>2. QED
    BY <1>2, <2>1 DEF OutboxInv
<1>4. ASSUME NEW o \in Op, Send(o)
      PROVE  OutboxInv'
  <2>1. PICK e \in unsent : Arrive(o, e) /\ unsent' = unsent \ {e}
    BY <1>4 DEF Send
  <2>2. /\ dispatch = "send" /\ dispatch' = "await" /\ awaited' = o /\ answer' = "none"
        /\ batch' = batch /\ out' = out
    BY <1>4 DEF Send
  <2>3. about'[o] = e
    BY <2>1 DEF Arrive, BaseInv, TypeOK, FeedbackTypeOK
  <2>4. \A x \in batch \ unsent : Fine(x)'
    BY <1>1, <2>2, FineStays DEF OutboxInv
  <2>5. e \in Event /\ Waiting(e)'
    BY <1>1, <2>1, <2>2, <2>3, <2>4 DEF Waiting
  <2>6. QED
    BY <1>2, <2>2, <2>5 DEF OutboxInv
<1>5. CASE Accepted
  <2>1. /\ dispatch = "await" /\ answer = "accepted" /\ dispatch' = "send"
        /\ UNCHANGED <<out, batch, unsent>>
    BY <1>5 DEF Accepted, Confirmed
  <2>2. PICK e0 \in Event : Waiting(e0)
    BY <2>1 DEF OutboxInv
  <2>3. \A e \in batch \ unsent : Fine(e)
    BY <2>1, <2>2 DEF Waiting
  <2>4. \A e \in batch \ unsent : Fine(e)'
    BY <1>1, <2>3, FineStays
  <2>5. QED
    BY <1>2, <2>1, <2>4 DEF OutboxInv
<1>6. CASE AcknowledgeBatch
  <2>1. /\ dispatch = "send" /\ unsent = {} /\ dispatch' = "idle" /\ out' = Marked(batch, "delivered")
    BY <1>6 DEF AcknowledgeBatch
  <2>2. \A e \in batch : Fine(e)'
    BY <1>1, <2>1, FineStays DEF OutboxInv
  <2>3. \A e \in Event : out'[e] = "delivered" => e \in batch \/ out[e] = "delivered"
    BY <2>1 DEF Marked
  <2>4. QED
    BY <1>2, <2>1, <2>2, <2>3 DEF OutboxInv
<1>7. CASE NotAccepted \/ BatchNotAcknowledged \/ ReleaseBatch \/ Crash
  <2>1. dispatch' \in {"release", "idle"}
    BY <1>7 DEF NotAccepted, BatchNotAcknowledged, ReleaseBatch, Crash
  <2>2. \A e \in Event : out'[e] = "delivered" => out[e] = "delivered"
    BY <1>7 DEF NotAccepted, BatchNotAcknowledged, ReleaseBatch, Crash, Marked
  <2>3. QED
    BY <1>2, <2>1, <2>2 DEF OutboxInv
<1>8. QED
  BY <1>3, <1>4, <1>5, <1>6, <1>7 DEF Dispatch

AnswersInv == AcceptInv /\ OutboxInv

LEMMA AnswersInitially == Init => AnswersInv
BY DEF Init, FeedbackInit, AnswersInv, AcceptInv, OutboxInv

LEMMA AnswersStay == BaseInv /\ StoresInv /\ AnswersInv /\ [Next]_vars => AnswersInv'
<1> SUFFICES ASSUME BaseInv, StoresInv, AnswersInv, [Next]_vars
             PROVE  AnswersInv'
  OBVIOUS
<1>1. SecureInv /\ SecureInv' /\ BaseInv'
  BY StoresStay, NextBase DEF StoresInv
<1>2. AcceptInv'
  BY <1>1, AcceptStep DEF AnswersInv
<1>3. OutboxInv'
  <2>1. CASE Feedback /\ UNCHANGED outboxVars
    BY <2>1, FeedbackKeepsOutbox DEF AnswersInv
  <2>2. CASE Dispatch \/ Crash
    BY <2>2, DispatchKeepsOutbox DEF AnswersInv
  <2>3. QED
    BY <2>1, <2>2, OthersKeepOutbox DEF AnswersInv, Next
<1>4. QED
  BY <1>2, <1>3 DEF AnswersInv

LEMMA SpecAnswers == Spec => []AnswersInv
BY AnswersInitially, AnswersStay, SpecBase, SpecStores, PTL DEF Spec

(* What the outbox has let go is contained in the statistics of the file,  *)
(* with the same exception (acknowledgeDelivered of the outbox).           *)
THEOREM DeliveredStaysCounted == Spec => []DeliveredIsCounted
<1>1. BaseInv /\ StoresInv /\ AnswersInv => DeliveredIsCounted
  <2> SUFFICES ASSUME BaseInv, StoresInv, AnswersInv,
                      NEW e \in Event \ orphaned, out[e] = "delivered"
               PROVE  \E a \in Admission : disk.counted[<<e, a>>] = 1
    BY DEF DeliveredIsCounted
  <2>1. PICK a \in Admission : HeldAll(<<e, a>>)
    BY DEF AnswersInv, OutboxInv, Fine
  <2>2. QED
    BY <2>1, HeldIsContained
<1>2. QED
  BY <1>1, SpecBase, SpecStores, SpecAnswers, PTL

(* What is contained is contained for ever: whatever is forgotten of an    *)
(* event that was let go, its sample stays in the file.                    *)
THEOREM DeliveredForEver ==
    ASSUME NEW e \in Event
    PROVE  Spec => [](out[e] = "delivered" =>
                        [](e \in orphaned \/ \E a \in Admission : disk.counted[<<e, a>>] = 1))
<1> DEFINE Contained == e \in orphaned \/ \E a \in Admission : disk.counted[<<e, a>>] = 1
<1>1. BaseInv /\ AnswersInv => (out[e] = "delivered" => Fine(e))
  BY DEF AnswersInv, OutboxInv
<1>2. BaseInv /\ Fine(e) /\ [Next]_vars => Fine(e)'
  BY FineStays
<1>3. BaseInv /\ StoresInv /\ Fine(e) => Contained
  BY HeldIsContained DEF Fine
<1> HIDE DEF Contained
<1>4. QED
  <2>1. Spec => [](out[e] = "delivered" => []Contained)
    BY <1>1, <1>2, <1>3, SpecBase, SpecStores, SpecAnswers, PTL DEF Spec
  <2>2. QED
    BY <2>1 DEF Contained

-----------------------------------------------------------------------------
(* The aggregate *)

LEMMA FinalIsHeld ==
    ASSUME NEW m
    PROVE  m \in Final <=> m \in Marker /\ HeldAll(m)
BY DEF Final, HeldAll

(* The rows that the dispatcher has claimed stay claimed. *)
BatchInv == \A e \in batch : out[e] \in {"leased", "lapsed"}

LEMMA BatchInitially == Init => BatchInv
BY DEF Init, BatchInv

LEMMA BatchStays ==
    ASSUME BaseInv, BatchInv, [Next]_vars
    PROVE  BatchInv'
<1>1. batch \subseteq Event
  BY DEF BaseInv, TypeOK
<1>2. CASE UNCHANGED <<batch, out>>
  BY <1>2 DEF BatchInv
<1>3. ASSUME NEW e \in Event, Stage(e) \/ ClaimLapses(e) \/ Purge(e)
      PROVE  BatchInv'
  <2>1. batch' = batch
    BY <1>3 DEF Stage, ClaimLapses, Purge
  <2>2. CASE Stage(e) \/ Purge(e)
    BY <1>1, <2>1, <2>2 DEF Stage, Purge, Marked, BatchInv
  <2>3. CASE ClaimLapses(e)
    BY <1>1, <2>1, <2>3 DEF ClaimLapses, Marked, BatchInv
  <2>4. QED
    BY <1>3, <2>2, <2>3
<1>4. CASE ClaimBatch
  BY <1>4 DEF ClaimBatch, Marked, BatchInv
<1>5. CASE AcknowledgeBatch \/ ReleaseBatch \/ Crash
  BY <1>5 DEF AcknowledgeBatch, ReleaseBatch, Crash, BatchInv
<1>6. UNCHANGED outboxVars \/ UNCHANGED vars => UNCHANGED <<batch, out>>
  BY DEF outboxVars, vars
<1>7. CASE \/ \E o \in Op : Send(o)
           \/ Accepted \/ NotAccepted \/ BatchNotAcknowledged
           \/ \E o \in Op, e \in Posted : Post(o, e)
  BY <1>2, <1>7 DEF Send, Accepted, NotAccepted, BatchNotAcknowledged, Post, outboxVars
<1>8. QED
  BY <1>2, <1>3, <1>4, <1>5, <1>6, <1>7 DEF Next, Dispatch, Time

(* Only the end of a save, of a request or of the process makes anything   *)
(* final.                                                                  *)
LEMMA FinalGrows ==
    ASSUME BaseInv, [Next]_vars
    PROVE  Final \subseteq Final'
<1>1. SUFFICES ASSUME NEW m \in Marker, HeldAll(m)
               PROVE  HeldAll(m)'
  BY DEF Final, HeldAll
<1>2. QED
  BY <1>1, HeldStays

LEMMA FinalStands ==
    ASSUME BaseInv, [Next]_vars,
           Outside \/ Begins \/ (\E c : Trims(c)) \/ (\E c, d : Counts(c, d))
    PROVE  Final' = Final
<1>1. SUFFICES ASSUME NEW m \in Marker, HeldAll(m)', NEW k \in Kept
               PROVE  k.counted[m] # 0
  BY FinalGrows DEF Final, HeldAll
<1>2. \A c : c \in Kept' => c.counted[m] # 0
  BY <1>1 DEF HeldAll
<1>3. CASE Outside
  <2>1. mem.counted[m] # 0
    BY <1>2, <1>3 DEF Outside, Kept
  <2>2. k = mem \/ k \in Kept'
    BY <1>1, <1>3 DEF Outside, Kept
  <2>3. QED
    BY <1>2, <2>1, <2>2
<1>4. CASE Begins
  <2>1. k \in Kept'
    BY <1>1, <1>4 DEF Begins, Kept
  <2>2. QED
    BY <1>2, <2>1
<1>5. ASSUME NEW c, Trims(c)
      PROVE  k.counted[m] # 0
  <2>1. k = Target \/ k \in Kept'
    BY <1>1, <1>5 DEF Trims, SetTarget, Target, Kept
  <2>2. c.counted = Target.counted
    BY <1>5 DEF Trims, Thins
  <2>3. c = NoClient \/ c \in Kept'
    BY <1>5 DEF Trims, SetTarget, Kept
  <2>4. c # NoClient
    BY <1>5 DEF Trims
  <2>5. QED
    BY <1>2, <2>1, <2>2, <2>3, <2>4
<1>6. ASSUME NEW c, NEW d, Counts(c, d)
      PROVE  k.counted[m] # 0
  <2>1. k = Target \/ k \in Kept'
    BY <1>1, <1>6 DEF Counts, SetTarget, Target, Kept
  <2>2. c.counted = Target.counted /\ c \in Kept'
    BY <1>6 DEF Counts, Thins, Kept
  <2>3. QED
    BY <1>2, <2>1, <2>2
<1>7. QED
  BY <1>3, <1>4, <1>5, <1>6

LEMMA SettledStays ==
    ASSUME \A e \in Event :
              (e \notin orphaned' /\ rows'[e].state = "applied")
                 <=> (e \notin orphaned /\ rows[e].state = "applied"),
           \A e \in Event : rows[e].state = "applied" => admitted'[e] = admitted[e]
    PROVE  Settled' = Settled
BY DEF Settled

LEMMA GoneStays ==
    ASSUME \A e \in Event :
              (e \notin orphaned' /\ out'[e] = "delivered")
                 <=> (e \notin orphaned /\ out[e] = "delivered")
    PROVE  Gone' = Gone
BY DEF Gone

(* What is final is contained in the file, once. *)
OnceInFile ==
    /\ disk.counted \in [Marker -> 0..1]
    /\ Final \subseteq {m \in Marker : disk.counted[m] = 1}

LEMMA FinalIsContained == BaseInv /\ StoresInv => OnceInFile
<1> SUFFICES ASSUME BaseInv, StoresInv
             PROVE  OnceInFile
  OBVIOUS
<1>1. disk.counted \in [Marker -> 0..2]
  BY DEF BaseInv, TypeOK, RegistryTypeOK, Client
<1>2. \A m \in Marker : disk.counted[m] <= 1
  BY DEF StoresInv, CountInv, Copy, Sound, Marker
<1>3. \A m \in Marker : disk.counted[m] \in 0..1
  BY <1>1, <1>2
<1>4. ASSUME NEW m \in Final
      PROVE  m \in Marker /\ disk.counted[m] = 1
  BY <1>4, HeldIsContained, FinalIsHeld DEF Marker
<1>5. QED
  BY <1>1, <1>3, <1>4 DEF OnceInFile

(* The end of a save, of a request and of the process save the statistics. *)
LEMMA SavesAggregate ==
    ASSUME BaseInv, [Next]_vars, BaseInv', StoresInv', Saving \/ Leaves \/ Dies, out' = out
    PROVE  Aggregate!Save
<1>1. UNCHANGED <<admitted, orphaned>> /\ \A e \in Event : rows'[e].state = rows[e].state
  BY DEF Saving, Leaves, Dies
<1>2. Settled' = Settled /\ Gone' = Gone
  BY <1>1, SettledStays, GoneStays
<1>3. /\ disk'.counted \in [Marker -> 0..1]
      /\ Final' \subseteq {m \in Marker : disk'.counted[m] = 1}
  <2>1. OnceInFile'
    BY FinalIsContained, PTL
  <2>2. QED
    BY <2>1 DEF OnceInFile
<1>4. Final \subseteq Final'
  BY FinalGrows
<1>5. QED
  BY <1>2, <1>3, <1>4 DEF Aggregate!Save, Aggregate!Marker, Marker

(* A request that begins, or puts its sample into the client, changes      *)
(* nothing in the aggregate: nobody has called its admission applied yet.  *)
LEMMA BeginsAggregate ==
    ASSUME BaseInv, [Next]_vars, Begins, out' = out
    PROVE  UNCHANGED Aggregate!vars
<1>1. /\ UNCHANGED <<disk, orphaned>>
      /\ \A e \in Event :
            \/ rows'[e].state = rows[e].state /\ admitted'[e] = admitted[e]
            \/ rows[e].state = "none" /\ rows'[e].state = "pending"
  BY DEF Begins
<1>2. Settled' = Settled /\ Gone' = Gone
  BY <1>1, SettledStays, GoneStays
<1>3. Final' = Final
  BY FinalStands
<1>4. QED
  BY <1>1, <1>2, <1>3 DEF Aggregate!vars

(* The sample goes into the client: not yet into the file.  When it goes   *)
(* into a detached client, its event is not applied.                       *)
LEMMA CountsAggregate ==
    ASSUME BaseInv, [Next]_vars, NEW c, NEW d, Counts(c, d), out' = out
    PROVE  [Aggregate!Next]_(Aggregate!vars)
<1>1. /\ UNCHANGED <<disk, rows, admitted>> /\ step = "claimed"
      /\ orphaned' \in {orphaned, orphaned \cup {This}}
  BY DEF Counts
<1>2. PICK e0 \in Event : e0 = This
  BY <1>1, HeadFacts DEF BaseInv, QueueInv
<1>3. rows[e0].state # "applied"
  BY <1>1, <1>2 DEF BaseInv, StepInv
<1>4. Settled' = Settled
  <2>1. \A e \in Event : (e \notin orphaned' /\ rows'[e].state = "applied")
                            <=> (e \notin orphaned /\ rows[e].state = "applied")
    BY <1>1, <1>2, <1>3
  <2>2. \A e \in Event : rows[e].state = "applied" => admitted'[e] = admitted[e]
    BY <1>1
  <2>3. QED
    BY <2>1, <2>2, SettledStays
<1>5. Gone' = Gone \/ Gone' = Gone \ {e0}
  BY <1>1, <1>2 DEF Gone
<1>6. Final' = Final
  BY FinalStands
<1>7. CASE Gone' = Gone
  BY <1>1, <1>4, <1>6, <1>7 DEF Aggregate!vars
<1>8. CASE Gone' = Gone \ {e0}
  <2>1. Aggregate!Purge(e0)
    BY <1>1, <1>4, <1>6, <1>8 DEF Aggregate!Purge
  <2>2. QED
    BY <2>1 DEF Aggregate!Next
<1>9. QED
  BY <1>5, <1>7, <1>8

(* An admission is called applied only when it is final.                   *)
LEMMA TrimsAggregate ==
    ASSUME BaseInv, [Next]_vars, BaseInv', SecureInv', NEW c, Trims(c), out' = out
    PROVE  [Aggregate!Next]_(Aggregate!vars)
<1>1. /\ UNCHANGED <<disk, admitted, orphaned>> /\ step \in {"replayed", "counted", "claimed"}
      /\ \A e \in Event : e # This => rows'[e] = rows[e]
      /\ rows' = rows \/ rows'[This].state = "applied"
  BY DEF Trims
<1>2. PICK e0 \in Event : e0 = This
  BY <1>1, HeadFacts DEF BaseInv, QueueInv
<1>3. Final' = Final /\ Gone' = Gone
  BY <1>1, FinalStands, GoneStays
<1>4. CASE rows' = rows \/ e0 \in orphaned
  <2>1. \A e \in Event : (e \notin orphaned' /\ rows'[e].state = "applied")
                            <=> (e \notin orphaned /\ rows[e].state = "applied")
    BY <1>1, <1>2, <1>4
  <2>2. Settled' = Settled
    BY <1>1, <2>1, SettledStays
  <2>3. QED
    BY <1>1, <1>3, <2>2 DEF Aggregate!vars
<1>5. CASE rows'[e0].state = "applied" /\ e0 \notin orphaned
  <2>1. PICK m : m = <<e0, admitted[e0]>>
    OBVIOUS
  <2>2. e0 \notin orphaned' /\ Secure(e0)' /\ m = <<e0, admitted'[e0]>>
    BY <1>1, <1>5, <2>1 DEF Secure
  <2>3. HeldAll(m)'
    BY <2>2 DEF SecureInv
  <2>4. m \in Marker
    BY <1>5, <2>2 DEF BaseInv, StepInv, Marker
  <2>5. m \in Final
    BY <1>3, <2>3, <2>4 DEF Final, HeldAll
  <2>6. Settled' = Settled \cup {m}
    <3>1. ASSUME NEW e \in Event, e # e0
          PROVE  rows'[e] = rows[e]
      BY <1>1, <1>2, <3>1
    <3>2. QED
      BY <1>1, <1>5, <2>1, <2>2, <3>1 DEF Settled
  <2>7. Aggregate!Apply(m)
    BY <1>1, <1>3, <2>5, <2>6 DEF Aggregate!Apply
  <2>8. QED
    BY <2>4, <2>7 DEF Aggregate!Next, Aggregate!Marker, Marker
<1>6. QED
  BY <1>1, <1>2, <1>4, <1>5

(* Nothing is let go, forgotten or called applied. *)
LEMMA QuietAggregate ==
    ASSUME BaseInv, [Next]_vars, Outside,
           \A e \in Event : rows'[e].state = rows[e].state,
           \A e \in Event : out'[e] = "delivered" <=> out[e] = "delivered"
    PROVE  UNCHANGED Aggregate!vars
<1>1. UNCHANGED <<disk, admitted, orphaned>> /\ Final' = Final
  BY FinalStands DEF Outside
<1>2. Settled' = Settled /\ Gone' = Gone
  BY <1>1, SettledStays, GoneStays
<1>3. QED
  BY <1>1, <1>2 DEF Aggregate!vars

(* The dispatcher lets go only what is final. *)
LEMMA DispatchAggregate ==
    ASSUME BaseInv, OutboxInv, BatchInv, [Next]_vars, Outside, Dispatch
    PROVE  [Aggregate!Next]_(Aggregate!vars)
<1>1. batch \subseteq Event /\ out \in [Event -> {"absent", "pending", "leased", "lapsed", "delivered"}]
  BY DEF BaseInv, TypeOK
<1>2. rows' = rows
  BY DEF Dispatch, ClaimBatch, Send, Arrive, Accepted, NotAccepted, AcknowledgeBatch,
     BatchNotAcknowledged, ReleaseBatch, feedbackVars
<1>3. CASE AcknowledgeBatch
  <2>1. PICK es : es = batch \ orphaned
    OBVIOUS
  <2>2. /\ dispatch = "send" /\ unsent = {} /\ out' = Marked(batch, "delivered")
    BY <1>3 DEF AcknowledgeBatch
  <2>3. \A e \in es : \E n \in Admission : HeldAll(<<e, n>>)
    BY <2>1, <2>2, <1>1 DEF OutboxInv, Fine
  <2>4. \A e \in es : \E n \in Admission : <<e, n>> \in Final
    BY <1>1, <2>1, <2>3 DEF Final, HeldAll, Marker
  <2>5. UNCHANGED <<disk, admitted, orphaned>> /\ Final' = Final
    BY FinalStands DEF Outside
  <2>6. Settled' = Settled
    BY <1>2, <2>5, SettledStays
  <2>7. Gone' = Gone \cup es
    BY <1>1, <2>1, <2>2, <2>5 DEF Gone, Marked
  <2>8. Aggregate!LetGo(es)
    BY <2>4, <2>5, <2>6, <2>7 DEF Aggregate!LetGo
  <2>9. QED
    BY <1>1, <2>1, <2>8 DEF Aggregate!Next
<1>4. CASE ~AcknowledgeBatch
  <2>1. ClaimBatch \/ (\E es : es \in {batch} /\ out' = Marked(es, "pending")) \/ out' = out
    BY <1>4 DEF Dispatch, Send, Accepted, NotAccepted, BatchNotAcknowledged, ReleaseBatch
  <2>2. \A e \in Event : out'[e] = "delivered" <=> out[e] = "delivered"
    BY <1>1, <2>1 DEF ClaimBatch, Claimable, Marked, BatchInv
  <2>3. QED
    BY <1>2, <2>2, QuietAggregate
<1>5. QED
  BY <1>3, <1>4

(* What time takes away, the aggregate may forget. *)
LEMMA TimeAggregate ==
    ASSUME BaseInv, BatchInv, [Next]_vars, Outside, Time
    PROVE  [Aggregate!Next]_(Aggregate!vars)
<1>1. /\ batch \subseteq Event
      /\ out \in [Event -> {"absent", "pending", "leased", "lapsed", "delivered"}]
      /\ rows \in [Event -> Row]
  BY DEF BaseInv, TypeOK, FeedbackTypeOK
<1>2. UNCHANGED <<disk, admitted, orphaned>> /\ Final' = Final
  BY FinalStands DEF Outside
<1>3. ASSUME NEW d \in Event, LeaseLapses(d), UNCHANGED outboxVars
      PROVE  UNCHANGED Aggregate!vars
  <2>1. rows' = [rows EXCEPT ![d].live = FALSE] /\ out' = out
    BY <1>3 DEF LeaseLapses, outboxVars
  <2>2. [rows EXCEPT ![d].live = FALSE] = [rows EXCEPT ![d] = [rows[d] EXCEPT !.live = FALSE]]
        /\ [rows[d] EXCEPT !.live = FALSE].state = rows[d].state
    BY <1>1 DEF Row
  <2>3. \A e \in Event : rows'[e].state = rows[e].state
    BY <1>1, <2>1, <2>2
  <2>4. QED
    BY <2>1, <2>3, QuietAggregate
<1>4. ASSUME NEW d \in Event, Retires(d), UNCHANGED outboxVars
      PROVE  Aggregate!Next \/ UNCHANGED Aggregate!vars
  <2>1. rows' = [rows EXCEPT ![d] = NoRow] /\ out' = out /\ rows[d].state = "applied"
    BY <1>4 DEF Retires, outboxVars
  <2>2. rows'[d].state = "none" /\ \A e \in Event : e # d => rows'[e] = rows[e]
    BY <1>1, <2>1 DEF NoRow
  <2>3. PICK m : m = <<d, admitted[d]>>
    OBVIOUS
  <2>4. Gone' = Gone
    BY <1>2, <2>1, GoneStays
  <2>5. Settled' = Settled \ {m}
    BY <1>2, <2>2, <2>3 DEF Settled
  <2>6. Aggregate!Retire(m)
    BY <1>2, <2>4, <2>5 DEF Aggregate!Retire
  <2>7. m \in Marker
    BY <2>1, <2>3 DEF BaseInv, StepInv, Marker
  <2>8. QED
    BY <2>6, <2>7 DEF Aggregate!Next, Aggregate!Marker, Marker
<1>5. ASSUME NEW d \in Event, ClaimLapses(d)
      PROVE  UNCHANGED Aggregate!vars
  <2>1. rows' = rows /\ (out' = Marked(batch, "lapsed") \/ out' = Marked({d}, "lapsed"))
        /\ out[d] = "leased"
    BY <1>5 DEF ClaimLapses, feedbackVars
  <2>2. \A e \in Event : out'[e] = "delivered" <=> out[e] = "delivered"
    BY <1>1, <2>1 DEF Marked, BatchInv
  <2>3. QED
    BY <2>1, <2>2, QuietAggregate
<1>6. ASSUME NEW d \in Event, Purge(d)
      PROVE  Aggregate!Next
  <2>1. rows' = rows /\ out' = Marked({d}, "absent")
    BY <1>6 DEF Purge, feedbackVars
  <2>2. Settled' = Settled
    BY <1>2, <2>1, SettledStays
  <2>3. Gone' = Gone \ {d}
    BY <1>1, <1>2, <2>1 DEF Gone, Marked
  <2>4. Aggregate!Purge(d)
    BY <1>2, <2>2, <2>3 DEF Aggregate!Purge
  <2>5. QED
    BY <2>4 DEF Aggregate!Next
<1>7. QED
  BY <1>3, <1>4, <1>5, <1>6 DEF Time

LEMMA OthersAggregate ==
    ASSUME BaseInv, [Next]_vars, Outside,
           \/ Supersede /\ UNCHANGED outboxVars
           \/ Revoke /\ UNCHANGED <<feedbackVars, outboxVars>>
           \/ \E e \in Event : Stage(e)
           \/ \E o \in Op, e \in Posted : Post(o, e)
           \/ UNCHANGED vars
    PROVE  UNCHANGED Aggregate!vars
<1>1. rows' = rows
  BY DEF Supersede, Stage, Post, Arrive, vars, feedbackVars
<1>2. out' = out \/ \E d \in Event : out[d] = "absent" /\ out' = Marked({d}, "pending")
  BY DEF Stage, Post, vars, outboxVars
<1>3. \A e \in Event : out'[e] = "delivered" <=> out[e] = "delivered"
  BY <1>2 DEF Marked
<1>4. QED
  BY <1>1, <1>3, QuietAggregate

LEMMA AggregateInitially == Init => Aggregate!Init
<1> SUFFICES ASSUME Init
             PROVE  Aggregate!Init
  OBVIOUS
<1>1. disk = NewClient /\ rows = [e \in Event |-> NoRow] /\ out = [e \in Event |-> "absent"]
  BY DEF Init, RegistryInit, FeedbackInit
<1>2. disk.counted = [m \in Marker |-> 0]
  BY <1>1 DEF NewClient
<1>3. Final = {}
  BY <1>2 DEF Final, Kept
<1>4. Settled = {} /\ Gone = {}
  BY <1>1 DEF Settled, Gone, NoRow
<1>5. QED
  BY <1>2, <1>3, <1>4 DEF Aggregate!Init, Aggregate!Marker, Marker

LEMMA AggregateSteps ==
    BaseInv /\ StoresInv /\ AnswersInv /\ BatchInv /\ [Next]_vars
        => [Aggregate!Next]_(Aggregate!vars)
<1> SUFFICES ASSUME BaseInv, StoresInv, AnswersInv, BatchInv, [Next]_vars
             PROVE  [Aggregate!Next]_(Aggregate!vars)
  OBVIOUS
<1>1. BaseInv' /\ StoresInv' /\ SecureInv'
  BY NextBase, StoresStay DEF StoresInv
<1>2. CASE (Feedback /\ UNCHANGED outboxVars) \/ Crash
  <2>1. out' = out
    BY <1>2 DEF Crash, outboxVars
  <2>2. Saving \/ Begins \/ (\E c : Trims(c)) \/ Leaves \/ (\E c, d : Counts(c, d)) \/ Dies
    BY <1>2, FeedbackMoves, CrashDies
  <2>3. CASE Saving \/ Leaves \/ Dies
    BY <1>1, <2>1, <2>3, SavesAggregate DEF Aggregate!Next
  <2>4. CASE Begins
    BY <2>1, <2>4, BeginsAggregate
  <2>5. CASE (\E c : Trims(c)) \/ (\E c, d : Counts(c, d))
    BY <1>1, <2>1, <2>5, TrimsAggregate, CountsAggregate
  <2>6. QED
    BY <2>2, <2>3, <2>4, <2>5
<1>3. CASE Dispatch
  BY <1>3, DispatchAggregate, OthersStayOutside DEF AnswersInv
<1>4. CASE Time
  BY <1>4, TimeAggregate, TimeStaysOutside
<1>5. CASE \/ Supersede /\ UNCHANGED outboxVars
           \/ Revoke /\ UNCHANGED <<feedbackVars, outboxVars>>
           \/ \E e \in Event : Stage(e)
           \/ \E o \in Op, e \in Posted : Post(o, e)
           \/ UNCHANGED vars
  <2>1. Revoke /\ UNCHANGED <<feedbackVars, outboxVars>> => Revoke /\ UNCHANGED feedbackVars
    OBVIOUS
  <2>2. Outside
    BY <1>5, <2>1, OthersStayOutside
  <2>3. QED
    BY <1>5, <2>2, OthersAggregate
<1>6. QED
  BY <1>2, <1>3, <1>4, <1>5 DEF Next

(* The three stores implement the aggregate: an event is let go by the     *)
(* outbox, or called applied by the deduplication store, when its sample   *)
(* is in the statistics exactly once and for ever (processFeedback and the *)
(* dispatcher).                                                            *)
THEOREM Implementation == Spec => CountedForGood
<1>1. BaseInv /\ BatchInv /\ [Next]_vars => BatchInv'
  BY BatchStays
<1>2. Spec => []BatchInv
  BY <1>1, BatchInitially, SpecBase, PTL DEF Spec
<1>3. Spec => Aggregate!Init /\ [][Aggregate!Next]_(Aggregate!vars)
  BY <1>2, AggregateInitially, AggregateSteps, SpecBase, SpecStores, SpecAnswers, PTL DEF Spec
<1>4. QED
  BY <1>3 DEF CountedForGood, Aggregate!Spec

-----------------------------------------------------------------------------
(* The exception *)

(* Only a registration or discovery takes the object of a request out of   *)
(* the registry.                                                           *)
LEMMA SlotStays ==
    ASSUME BaseInv, [Next]_vars, Outside, ~Supersede, step # "waiting", detached = NoClient
    PROVE  detached' = NoClient
<1>1. CASE Feedback /\ UNCHANGED outboxVars
  <2>1. CASE Saving \/ Begins \/ Leaves
    BY <2>1 DEF Saving, Begins, Leaves
  <2>2. CASE (\E c : Trims(c)) \/ (\E c, d : Counts(c, d))
    BY <2>2 DEF Trims, Counts, SetTarget
  <2>3. QED
    BY <1>1, <2>1, <2>2, FeedbackMoves
<1>2. CASE Dispatch
  BY <1>2 DEF Dispatch, ClaimBatch, Send, Arrive, Accepted, NotAccepted, AcknowledgeBatch,
     BatchNotAcknowledged, ReleaseBatch, feedbackVars
<1>3. CASE Time
  BY <1>3 DEF Time, LeaseLapses, Retires, ClaimLapses, Purge, feedbackVars
<1>4. CASE \/ Revoke /\ UNCHANGED <<feedbackVars, outboxVars>>
           \/ \E e \in Event : Stage(e)
           \/ \E o \in Op, e \in Posted : Post(o, e)
           \/ UNCHANGED vars
  BY <1>4 DEF Stage, Post, Arrive, feedbackVars, vars
<1>5. CASE Crash
  BY <1>5, CrashDies DEF Dies
<1>6. QED
  BY <1>1, <1>2, <1>3, <1>4, <1>5 DEF Next

NoneLost ==
    /\ orphaned = {}
    /\ step = "claimed" => detached = NoClient

LEMMA NoneLostStays ==
    ASSUME BaseInv, PlaceInv, NoneLost, [Next]_vars, step = "claimed" => ~Supersede
    PROVE  NoneLost'
<1>1. CASE Outside
  <2>1. orphaned' = orphaned /\ step' = step
    BY <1>1 DEF Outside
  <2>2. step = "claimed" => detached' = NoClient
    BY <1>1, SlotStays DEF NoneLost
  <2>3. QED
    BY <2>1, <2>2 DEF NoneLost
<1>2. CASE Saving
  <2>1. UNCHANGED <<orphaned, detached>> /\ (step' = "claimed" => step = "claimed")
    BY <1>2 DEF Saving, Woken
  <2>2. QED
    BY <2>1 DEF NoneLost
<1>3. CASE Begins
  BY <1>3 DEF Begins, PlaceInv, NoneLost
<1>4. CASE (\E c : Trims(c)) \/ Leaves \/ Dies
  BY <1>4 DEF Trims, Leaves, Dies, NoneLost
<1>5. CASE \E c, d : Counts(c, d)
  BY <1>5 DEF Counts, NoneLost
<1>6. QED
  BY <1>1, <1>2, <1>3, <1>4, <1>5, NextMoves

(* The documented promise, without an exception, is kept as long as no     *)
(* registration or discovery comes between the moment when a request has   *)
(* claimed its event and the moment when it counts the sample: nothing     *)
(* else, no failure, retry, time-out or crash, loses one (processFeedback).*)
THEOREM LostOnlyByReplacement ==
    Spec /\ [][step = "claimed" => ~Supersede]_vars => []AcknowledgedIsCounted
<1>1. Init => NoneLost
  BY DEF Init, FeedbackInit, NoneLost
<1>2. BaseInv /\ StoresInv /\ NoneLost /\ [Next]_vars /\ [step = "claimed" => ~Supersede]_vars
          => NoneLost'
  <2> SUFFICES ASSUME BaseInv, StoresInv, NoneLost, [Next]_vars,
                      [step = "claimed" => ~Supersede]_vars
               PROVE  NoneLost'
    OBVIOUS
  <2>1. CASE UNCHANGED vars
    BY <2>1 DEF vars, feedbackVars, NoneLost
  <2>2. CASE step = "claimed" => ~Supersede
    BY <2>2, NoneLostStays DEF StoresInv
  <2>3. QED
    BY <2>1, <2>2
<1>3. NoneLost /\ DeliveredIsCounted => AcknowledgedIsCounted
  BY DEF NoneLost, DeliveredIsCounted, AcknowledgedIsCounted
<1>4. QED
  BY <1>1, <1>2, <1>3, SpecBase, SpecStores, DeliveredStaysCounted, PTL DEF Spec
=============================================================================
