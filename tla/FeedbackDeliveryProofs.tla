----------------------- MODULE FeedbackDeliveryProofs -----------------------
(***************************************************************************)
(* Proofs about FeedbackDelivery, for any events, requests and bounds.     *)
(***************************************************************************)
EXTENDS FeedbackDelivery, TLAPS

(* The requests in the tail are different ones, each has its event, and a  *)
(* request that has begun is at the head.                                  *)
QueueInv ==
    /\ \A i \in 1..Len(queue) : about[queue[i]] \in Event
    /\ \A i, j \in 1..Len(queue) : queue[i] = queue[j] => i = j
    /\ step # "waiting" => queue # <<>>

(* At most one save is a feedback's, while the head waits for it. *)
SavesInv ==
    /\ \A i \in 1..Len(saves) : saves[i] # Other => step \in {"counting", "clearing"}
    /\ \A i, j \in 1..Len(saves) : saves[i] # Other /\ saves[j] # Other => i = j

(* The head applies a pending event, and an event in the store has been    *)
(* admitted.                                                               *)
StepInv ==
    /\ step \in {"claimed", "counting", "counted", "uncounted"} => rows[This].state = "pending"
    /\ step = "replayed" => rows[This].state # "pending"
    /\ step \in {"counting", "counted", "uncounted"} => before \in Client
    /\ \A e \in Event : rows[e].state # "none" => admitted[e] \in Admission

(* A snapshot is written for the save at the head of the persistence tail. *)
WriterInv == writing # NoClient => saves # <<>>

BaseInv == TypeOK /\ QueueInv /\ SavesInv /\ StepInv /\ WriterInv

-----------------------------------------------------------------------------
(* Clients and rows *)

LEMMA UnmarkedClient ==
    ASSUME NEW c \in Client, NEW e
    PROVE  /\ Unmarked(c, e) \in Client
           /\ Unmarked(c, e).revoked = c.revoked
           /\ Unmarked(c, e).counted = c.counted
           /\ Unmarked(c, e).markers = {m \in c.markers : m[1] # e}
BY DEF Unmarked, Client

LEMMA AcknowledgedClient ==
    ASSUME NEW c \in Client, NEW m
    PROVE  /\ [c EXCEPT !.markers = @ \ {m}] \in Client
           /\ [c EXCEPT !.markers = @ \ {m}].revoked = c.revoked
           /\ [c EXCEPT !.markers = @ \ {m}].counted = c.counted
           /\ [c EXCEPT !.markers = @ \ {m}].markers = c.markers \ {m}
BY DEF Client

LEMMA SampledClient ==
    ASSUME NEW c \in Client, NEW m \in Marker
    PROVE  /\ Sampled(c, m) \in Client
           /\ Sampled(c, m).revoked = c.revoked
           /\ Sampled(c, m).counted = [c.counted EXCEPT ![m] = IF @ < 2 THEN @ + 1 ELSE @]
           /\ Sampled(c, m).markers = c.markers \cup {m}
<1> DEFINE n == [c.counted EXCEPT ![m] = IF @ < 2 THEN @ + 1 ELSE @]
<1>1. n \in [Marker -> 0..2]
  BY DEF Client
<1>2. Sampled(c, m) = [c EXCEPT !.counted = n, !.markers = c.markers \cup {m}]
  BY DEF Sampled, Client
<1> HIDE DEF n
<1>3. /\ [c EXCEPT !.counted = n, !.markers = c.markers \cup {m}] \in Client
      /\ [c EXCEPT !.counted = n, !.markers = c.markers \cup {m}].revoked = c.revoked
      /\ [c EXCEPT !.counted = n, !.markers = c.markers \cup {m}].counted = n
      /\ [c EXCEPT !.counted = n, !.markers = c.markers \cup {m}].markers = c.markers \cup {m}
  BY <1>1 DEF Client
<1>4. QED
  BY <1>2, <1>3 DEF n

LEMMA NewClientTyped == NewClient \in Client
BY DEF NewClient, Client

LEMMA RowsTyped ==
    ASSUME BaseInv, NEW e \in Event, NEW o \in Op
    PROVE  /\ Held(o) \in Row
           /\ NoRow \in Row
           /\ [rows EXCEPT ![e] = Held(o)] \in [Event -> Row]
           /\ [rows EXCEPT ![e] = NoRow] \in [Event -> Row]
           /\ [rows EXCEPT ![e].live = FALSE] \in [Event -> Row]
           /\ Applied(e) \in [Event -> Row]
           /\ Released(e, o) \in [Event -> Row]
           /\ \A d \in Event : /\ Released(e, o)[d].state = rows[d].state
                               /\ [rows EXCEPT ![e].live = FALSE][d].state = rows[d].state
                               /\ d # e => Applied(e)[d] = rows[d]
           /\ Applied(e)[e].state = "applied"
<1>1. rows \in [Event -> Row] /\ rows[e] \in Row
  BY DEF BaseInv, TypeOK, FeedbackTypeOK
<1>2. Held(o) \in Row /\ NoRow \in Row
  BY DEF Held, NoRow, Row
<1>3. /\ [rows[e] EXCEPT !.live = FALSE] \in Row
      /\ [rows[e] EXCEPT !.state = "applied", !.live = FALSE] \in Row
      /\ [rows[e] EXCEPT !.lease = NoOp, !.live = FALSE] \in Row
      /\ [rows[e] EXCEPT !.live = FALSE].state = rows[e].state
      /\ [rows[e] EXCEPT !.lease = NoOp, !.live = FALSE].state = rows[e].state
      /\ [rows[e] EXCEPT !.state = "applied", !.live = FALSE].state = "applied"
  BY <1>1 DEF Row
<1>4. /\ Applied(e) = [rows EXCEPT ![e] = [rows[e] EXCEPT !.state = "applied", !.live = FALSE]]
      /\ [rows EXCEPT ![e].live = FALSE] = [rows EXCEPT ![e] = [rows[e] EXCEPT !.live = FALSE]]
      /\ Released(e, o) \in
            {rows, [rows EXCEPT ![e] = [rows[e] EXCEPT !.lease = NoOp, !.live = FALSE]]}
  BY <1>1 DEF Applied, Released
<1>5. QED
  BY <1>1, <1>2, <1>3, <1>4

-----------------------------------------------------------------------------
(* The head of the tail *)

LEMMA HeadFacts ==
    ASSUME BaseInv, queue # <<>>
    PROVE  /\ Now \in Op /\ This \in Event
           /\ Target \in Client
           /\ step \in {"claimed", "counting", "counted", "uncounted"} => ThisMarker \in Marker
<1>1. queue \in Seq(Op) /\ Len(queue) \in Nat /\ Len(queue) >= 1 /\ Now = queue[1]
  BY DEF BaseInv, TypeOK, FeedbackTypeOK, Now
<1>2. Now \in Op /\ This \in Event
  BY <1>1 DEF BaseInv, QueueInv, This
<1>3. Target \in Client
  BY DEF BaseInv, TypeOK, FeedbackTypeOK, RegistryTypeOK, Target
<1>4. step \in {"claimed", "counting", "counted", "uncounted"} => ThisMarker \in Marker
  BY <1>2 DEF BaseInv, StepInv, ThisMarker, Marker
<1>5. QED
  BY <1>2, <1>3, <1>4

(* When no save is a feedback's, the head may leave. *)
LEMMA LeaveKeeps ==
    ASSUME BaseInv, queue # <<>>, step \notin {"counting", "clearing"}, NEW r \in {"accepted", "error"},
           Leave(r), saves' = saves, admitted' = admitted,
           \A e \in Event : rows'[e].state # "none" => rows[e].state # "none"
    PROVE  /\ queue' \in Seq(Op)
           /\ about' \in [Op -> Event \cup {NoEvent}]
           /\ step' = "waiting" /\ detached' = NoClient /\ before' = NoClient
           /\ answer' \in {"none", "accepted", "error"} /\ awaited' = awaited
           /\ QueueInv' /\ SavesInv' /\ StepInv'
<1>1. queue \in Seq(Op) /\ queue' = Tail(queue) /\ Now = queue[1]
      /\ Len(queue) \in Nat /\ Len(queue) >= 1
  BY DEF BaseInv, TypeOK, FeedbackTypeOK, Leave, Now
<1>2. /\ queue' \in Seq(Op) /\ Len(queue') = Len(queue) - 1
      /\ \A i \in 1..Len(queue') : queue'[i] = queue[i + 1]
  BY <1>1
<1>3. about' = [about EXCEPT ![Now] = NoEvent] /\ about \in [Op -> Event \cup {NoEvent}]
  BY DEF BaseInv, TypeOK, FeedbackTypeOK, Leave
<1>4. step' = "waiting"
  BY DEF Leave
<1>5. QueueInv'
  <2>1. ASSUME NEW i \in 1..Len(queue')
        PROVE  about'[queue'[i]] \in Event
    <3>1. i + 1 \in 1..Len(queue) /\ 1 \in 1..Len(queue) /\ queue'[i] = queue[i + 1]
      BY <1>1, <1>2
    <3>2. queue[i + 1] # Now /\ about[queue[i + 1]] \in Event /\ queue[i + 1] \in Op
      BY <1>1, <3>1 DEF BaseInv, QueueInv
    <3>3. QED
      BY <1>3, <3>1, <3>2
  <2>2. ASSUME NEW i \in 1..Len(queue'), NEW j \in 1..Len(queue'), queue'[i] = queue'[j]
        PROVE  i = j
    <3>1. i + 1 \in 1..Len(queue) /\ j + 1 \in 1..Len(queue) /\ queue[i + 1] = queue[j + 1]
      BY <1>1, <1>2, <2>2
    <3>2. i + 1 = j + 1
      BY <3>1 DEF BaseInv, QueueInv
    <3>3. QED
      BY <3>2
  <2>3. QED
    BY <1>4, <2>1, <2>2 DEF QueueInv
<1>6. SavesInv'
  BY DEF BaseInv, SavesInv
<1>7. StepInv'
  BY <1>4 DEF BaseInv, StepInv
<1>8. QED
  BY <1>1, <1>2, <1>3, <1>4, <1>5, <1>6, <1>7
  DEF Leave, BaseInv, TypeOK, FeedbackTypeOK

(* The head appends its save to the persistence tail. *)
LEMMA WaitKeeps ==
    ASSUME BaseInv, queue # <<>>, step \notin {"counting", "clearing"},
           NEW s \in {"counting", "clearing"}, Proceed(s), saves' = Append(saves, Now)
    PROVE  /\ saves' \in Seq(Op \cup {Other}) /\ saves' # <<>>
           /\ step' = s /\ QueueInv' /\ SavesInv'
<1>1. Now \in Op /\ saves \in Seq(Op \cup {Other})
  BY HeadFacts DEF BaseInv, TypeOK, RegistryTypeOK
<1>2. /\ saves' \in Seq(Op \cup {Other})
      /\ Len(saves') = Len(saves) + 1 /\ Len(saves) \in Nat
      /\ \A i \in 1..Len(saves) : saves'[i] = saves[i]
  BY <1>1
<1>3. \A i \in 1..Len(saves) : saves[i] = Other
  BY DEF BaseInv, SavesInv
<1>4. step' = s /\ UNCHANGED <<queue, about>>
  BY DEF Proceed
<1>5. SavesInv'
  <2>1. \A i \in 1..Len(saves') : saves'[i] # Other => i = Len(saves')
    BY <1>2, <1>3
  <2>2. QED
    BY <1>4, <2>1 DEF SavesInv
<1>6. QueueInv'
  BY <1>4 DEF BaseInv, QueueInv
<1>7. QED
  BY <1>2, <1>4, <1>5, <1>6

(* The first save of the persistence tail ends. *)
LEMMA SaveEnds ==
    ASSUME BaseInv, saves # <<>>, saves' = Tail(saves), NEW ok \in BOOLEAN, step' = Woken(ok),
           UNCHANGED <<queue, about, rows, admitted, before>>
    PROVE  /\ saves' \in Seq(Op \cup {Other})
           /\ step' \in {"waiting", "claimed", "replayed", "pending", "counting",
                         "counted", "uncounted", "clearing", "finished", "failed"}
           /\ QueueInv' /\ SavesInv' /\ StepInv'
<1>1. saves \in Seq(Op \cup {Other}) /\ Len(saves) \in Nat /\ Len(saves) >= 1
      /\ Head(saves) = saves[1] /\ 1 \in 1..Len(saves)
  BY DEF BaseInv, TypeOK, RegistryTypeOK
<1>2. /\ saves' \in Seq(Op \cup {Other}) /\ Len(saves') = Len(saves) - 1
      /\ \A i \in 1..Len(saves') : i + 1 \in 1..Len(saves) /\ saves'[i] = saves[i + 1]
  BY <1>1
<1>3. CASE Head(saves) = Other
  <2>1. step' = step
    BY <1>3 DEF Woken
  <2>2. SavesInv'
    <3>1. \A i \in 1..Len(saves') : saves'[i] # Other => step \in {"counting", "clearing"}
      BY <1>2 DEF BaseInv, SavesInv
    <3>2. ASSUME NEW i \in 1..Len(saves'), NEW j \in 1..Len(saves'),
                 saves'[i] # Other, saves'[j] # Other
          PROVE  i = j
      <4>1. i + 1 = j + 1
        BY <1>2, <3>2 DEF BaseInv, SavesInv
      <4>2. QED
        BY <4>1
    <3>3. QED
      BY <2>1, <3>1, <3>2 DEF SavesInv
  <2>3. QED
    BY <1>2, <2>1, <2>2 DEF BaseInv, QueueInv, StepInv, This, Now, TypeOK, FeedbackTypeOK
<1>4. CASE Head(saves) # Other
  <2>1. step \in {"counting", "clearing"}
    BY <1>1, <1>4 DEF BaseInv, SavesInv
  <2>2. /\ step = "counting" => step' \in {"counted", "uncounted"}
        /\ step = "clearing" => step' \in {"finished", "failed"}
    BY <1>4 DEF Woken
  <2>3. \A i \in 1..Len(saves') : saves'[i] = Other
    <3>1. ASSUME NEW i \in 1..Len(saves'), saves'[i] # Other
          PROVE  FALSE
      <4>1. i + 1 = 1
        BY <1>1, <1>2, <1>4, <3>1 DEF BaseInv, SavesInv
      <4>2. QED
        BY <4>1
    <3>2. QED
      BY <3>1
  <2>4. QED
    BY <1>2, <2>1, <2>2, <2>3 DEF BaseInv, QueueInv, SavesInv, StepInv, This, Now
<1>5. QED
  BY <1>3, <1>4

(* A new request is appended to the tail. *)
LEMMA ArriveKeeps ==
    ASSUME BaseInv, NEW o \in Op, NEW e \in Event, Arrive(o, e), saves' = saves
    PROVE  /\ queue' \in Seq(Op)
           /\ about' \in [Op -> Event \cup {NoEvent}]
           /\ UNCHANGED <<rows, admitted, step, detached, before, orphaned>>
           /\ QueueInv' /\ SavesInv' /\ StepInv'
<1>1. /\ queue \in Seq(Op) /\ Len(queue) \in Nat
      /\ about \in [Op -> Event \cup {NoEvent}] /\ about[o] = NoEvent
      /\ queue' = Append(queue, o) /\ about' = [about EXCEPT ![o] = e]
      /\ UNCHANGED <<rows, admitted, step, detached, before, orphaned>>
  BY DEF BaseInv, TypeOK, FeedbackTypeOK, Arrive
<1>2. /\ queue' \in Seq(Op) /\ Len(queue') = Len(queue) + 1 /\ queue'[Len(queue) + 1] = o
      /\ \A i \in 1..Len(queue) : queue'[i] = queue[i] /\ queue[i] \in Op /\ queue[i] # o
  <2>1. \A i \in 1..Len(queue) : about[queue[i]] # NoEvent
    BY NoEventAssumption DEF BaseInv, QueueInv
  <2>2. QED
    BY <1>1, <2>1
<1>3. QueueInv'
  <2>1. \A i \in 1..Len(queue') : i \in 1..Len(queue) \/ i = Len(queue) + 1
    BY <1>1, <1>2
  <2>2. \A i \in 1..Len(queue') : about'[queue'[i]] \in Event
    BY <1>1, <1>2, <2>1 DEF BaseInv, QueueInv
  <2>3. \A i, j \in 1..Len(queue') : queue'[i] = queue'[j] => i = j
    BY <1>2, <2>1 DEF BaseInv, QueueInv
  <2>4. queue' # <<>>
    BY <1>1, <1>2
  <2>5. QED
    BY <2>2, <2>3, <2>4 DEF QueueInv
<1>4. SavesInv'
  BY <1>1 DEF BaseInv, SavesInv
<1>5. StepInv'
  <2>1. step # "waiting" => Now' = Now /\ This' = This
    <3>1. step # "waiting" => 1 \in 1..Len(queue) /\ queue # <<>>
      BY <1>1 DEF BaseInv, QueueInv
    <3>2. step # "waiting" => queue'[1] = queue[1] /\ queue[1] # o /\ queue[1] \in Op
      BY <1>2, <3>1
    <3>3. Now = queue[1] /\ Now' = queue'[1]
      BY <1>1, <1>2 DEF Now
    <3>4. QED
      BY <1>1, <3>2, <3>3 DEF This
  <2>2. QED
    BY <1>1, <2>1 DEF BaseInv, StepInv
<1>6. QED
  BY <1>1, <1>2, <1>3, <1>4, <1>5

(* The head goes on without a save. *)
LEMMA ProceedKeeps ==
    ASSUME BaseInv, queue # <<>>, step \notin {"counting", "clearing"},
           NEW s \in {"claimed", "replayed", "pending"}, Proceed(s),
           UNCHANGED <<saves, detached, before>>,
           \A e \in Event : rows'[e].state # "none" => admitted'[e] \in Admission,
           s = "claimed" => rows'[This].state = "pending",
           s = "replayed" => rows'[This].state # "pending"
    PROVE  step' = s /\ QueueInv' /\ SavesInv' /\ StepInv'
<1>1. step' = s /\ UNCHANGED <<queue, about>> /\ This' = This
  BY DEF Proceed, This, Now
<1>2. QED
  BY <1>1 DEF BaseInv, QueueInv, SavesInv, StepInv

(* The head gives up its claim, and leaves. *)
LEMMA GiveUpKeeps ==
    ASSUME BaseInv, queue # <<>>, step \notin {"counting", "clearing"},
           NEW failing \in {0, 1}, faults >= failing, GiveUp(failing),
           saves' = saves, admitted' = admitted
    PROVE  /\ rows' \in [Event -> Row] /\ faults' \in Nat
           /\ \A e \in Event : rows'[e].state = rows[e].state
           /\ queue' \in Seq(Op)
           /\ about' \in [Op -> Event \cup {NoEvent}]
           /\ step' = "waiting" /\ detached' = NoClient /\ before' = NoClient
           /\ answer' \in {"none", "accepted", "error"} /\ awaited' = awaited
           /\ QueueInv' /\ SavesInv' /\ StepInv'
<1>1. Now \in Op /\ This \in Event
  BY HeadFacts
<1>2. rows \in [Event -> Row] /\ faults \in Nat
  BY DEF BaseInv, TypeOK, FeedbackTypeOK, RegistryTypeOK
<1>3. rows' \in [Event -> Row] /\ \A e \in Event : rows'[e].state = rows[e].state
  <2>1. rows' = Released(This, Now) \/ rows' = rows
    BY DEF GiveUp
  <2>2. /\ Released(This, Now) \in [Event -> Row]
        /\ \A e \in Event : Released(This, Now)[e].state = rows[e].state
    BY <1>1, RowsTyped
  <2>3. QED
    BY <1>2, <2>1, <2>2
<1>4. faults' \in Nat
  BY <1>2 DEF GiveUp
<1>5. Leave("error")
  BY DEF GiveUp
<1>6. QED
  BY <1>3, <1>4, <1>5, LeaveKeeps

LEMMA NotAcknowledgedKeeps ==
    ASSUME BaseInv, queue # <<>>, step \notin {"counting", "clearing"}, NotAcknowledged,
           saves' = saves, admitted' = admitted
    PROVE  /\ rows' \in [Event -> Row] /\ faults' \in Nat
           /\ \A e \in Event : rows'[e].state = rows[e].state
           /\ queue' \in Seq(Op)
           /\ about' \in [Op -> Event \cup {NoEvent}]
           /\ step' = "waiting" /\ detached' = NoClient /\ before' = NoClient
           /\ answer' \in {"none", "accepted", "error"} /\ awaited' = awaited
           /\ QueueInv' /\ SavesInv' /\ StepInv'
<1>1. faults \in Nat
  BY DEF BaseInv, TypeOK, RegistryTypeOK
<1>2. CASE ~Acknowledgeable(This, Now) /\ GiveUp(0)
  BY <1>1, <1>2, GiveUpKeeps
<1>3. CASE faults > 0 /\ GiveUp(1)
  BY <1>1, <1>3, GiveUpKeeps
<1>4. QED
  BY <1>2, <1>3 DEF NotAcknowledged

(* The head acknowledges its event, and waits for the second save. *)
LEMMA AcknowledgeKeeps ==
    ASSUME BaseInv, queue # <<>>, step \in {"claimed", "counted"}, Acknowledge,
           admitted' = admitted
    PROVE  /\ rows' \in [Event -> Row]
           /\ rows'[This].state = "applied"
           /\ \A e \in Event : e # This => rows'[e] = rows[e]
           /\ mem' \in Client /\ detached' \in Client \cup {NoClient}
           /\ saves' \in Seq(Op \cup {Other}) /\ saves' # <<>> /\ step' = "clearing"
           /\ UNCHANGED <<faults, before, queue, about, awaited, answer>>
           /\ QueueInv' /\ SavesInv' /\ StepInv'
<1>1. /\ rows' = Applied(This) /\ SetTarget([Target EXCEPT !.markers = @ \ {ThisMarker}])
      /\ Proceed("clearing") /\ saves' = Append(saves, Now) /\ UNCHANGED <<faults, before>>
  BY DEF Acknowledge
<1>2. Now \in Op /\ This \in Event /\ Target \in Client
  BY HeadFacts
<1>3. /\ rows' \in [Event -> Row] /\ rows'[This].state = "applied"
      /\ \A e \in Event : e # This => rows'[e] = rows[e]
  BY <1>1, <1>2, RowsTyped
<1>4. mem' \in Client /\ detached' \in Client \cup {NoClient}
  <2>1. [Target EXCEPT !.markers = @ \ {ThisMarker}] \in Client
    BY <1>2, AcknowledgedClient
  <2>2. QED
    BY <1>1, <2>1 DEF SetTarget, BaseInv, TypeOK, RegistryTypeOK
<1>5. /\ saves' \in Seq(Op \cup {Other}) /\ saves' # <<>> /\ step' = "clearing"
      /\ QueueInv' /\ SavesInv'
  BY <1>1, WaitKeeps
<1>6. UNCHANGED <<queue, about, awaited, answer>>
  BY <1>1 DEF Proceed
<1>7. StepInv'
  BY <1>2, <1>3, <1>5 DEF BaseInv, StepInv
<1>8. QED
  BY <1>1, <1>3, <1>4, <1>5, <1>6, <1>7

-----------------------------------------------------------------------------
(* Each action *)

LEMMA SaveStep ==
    ASSUME BaseInv, UNCHANGED outboxVars,
           (Save /\ UNCHANGED feedbackVars) \/ SaveSucceeds \/ SaveIsLost
    PROVE  BaseInv'
<1> USE DEF outboxVars, feedbackVars
<1>1. CASE Save /\ UNCHANGED feedbackVars
  <2>1. UNCHANGED <<saves, step, queue, about, rows, admitted, before>>
    BY <1>1 DEF Save, SaveStart, SaveWrite
  <2>2. QueueInv' /\ SavesInv' /\ StepInv'
    BY <2>1 DEF BaseInv, QueueInv, SavesInv, StepInv, This, Now
  <2>3. TypeOK'
    BY <1>1 DEF BaseInv, TypeOK, FeedbackTypeOK, RegistryTypeOK, Save, SaveStart, SaveWrite
  <2>4. WriterInv'
    BY <1>1, <2>1 DEF BaseInv, WriterInv, Save, SaveStart, SaveWrite
  <2>5. QED
    BY <2>2, <2>3, <2>4 DEF BaseInv
<1>2. ASSUME NEW ok \in BOOLEAN, saves # <<>>, saves' = Tail(saves), step' = Woken(ok),
             writing' = NoClient, usable' \in BOOLEAN, faults' \in Nat,
             checkpoint' \in {"absent", "clean", "pending"}, UNCHANGED <<disk, changes>>,
             UNCHANGED <<mem, rows, admitted, queue, about, detached, before,
                         awaited, answer, orphaned>>
      PROVE  BaseInv'
  <2>1. /\ saves' \in Seq(Op \cup {Other})
        /\ step' \in {"waiting", "claimed", "replayed", "pending", "counting",
                      "counted", "uncounted", "clearing", "finished", "failed"}
        /\ QueueInv' /\ SavesInv' /\ StepInv'
    BY <1>2, SaveEnds
  <2>2. TypeOK'
    BY <1>2, <2>1 DEF BaseInv, TypeOK, FeedbackTypeOK, RegistryTypeOK
  <2>3. QED
    BY <1>2, <2>1, <2>2 DEF BaseInv, WriterInv
<1>3. /\ saves \in Seq(Op \cup {Other}) /\ usable \in BOOLEAN /\ faults \in Nat
      /\ checkpoint \in {"absent", "clean", "pending"}
  BY DEF BaseInv, TypeOK, RegistryTypeOK
<1>4. CASE SaveSucceeds
  <2>1. saves # <<>>
    BY <1>4 DEF SaveSucceeds, Saved, BaseInv, WriterInv
  <2>2. QED
    BY <1>2, <1>3, <1>4, <2>1 DEF SaveSucceeds, Saved
<1>5. CASE SaveIsLost
  <2>1. usable' \in BOOLEAN
    BY <1>3, <1>5 DEF SaveIsLost, SaveFails, Trusted
  <2>2. faults' \in Nat
    BY <1>3, <1>5 DEF SaveIsLost, SaveFails
  <2>3. QED
    BY <1>2, <1>3, <1>5, <2>1, <2>2 DEF SaveIsLost, SaveFails
<1>6. QED
  BY <1>1, <1>4, <1>5

LEMMA RefusedStep ==
    ASSUME BaseInv, UNCHANGED outboxVars, Refused \/ InProgress \/ Finish
    PROVE  BaseInv'
<1>1. /\ queue # <<>> /\ step \notin {"counting", "clearing"}
      /\ UNCHANGED <<mem, disk, saves, writing, checkpoint, usable, changes,
                     rows, admitted, orphaned>>
  BY DEF Refused, InProgress, Finish, registryVars, BaseInv, QueueInv
<1>2. PICK r \in {"accepted", "error"} : Leave(r)
  BY DEF Refused, InProgress, Finish
<1>3. faults' \in Nat
  BY DEF Refused, InProgress, Finish, registryVars, BaseInv, TypeOK, RegistryTypeOK
<1>4. /\ queue' \in Seq(Op)
      /\ about' \in [Op -> Event \cup {NoEvent}]
      /\ step' = "waiting" /\ detached' = NoClient /\ before' = NoClient
      /\ answer' \in {"none", "accepted", "error"} /\ awaited' = awaited
      /\ QueueInv' /\ SavesInv' /\ StepInv'
  BY <1>1, <1>2, LeaveKeeps
<1>5. TypeOK'
  BY <1>1, <1>3, <1>4 DEF BaseInv, TypeOK, FeedbackTypeOK, RegistryTypeOK, outboxVars
<1>6. WriterInv'
  BY <1>1 DEF BaseInv, WriterInv
<1>7. QED
  BY <1>4, <1>5, <1>6 DEF BaseInv

LEMMA ClaimStep ==
    ASSUME BaseInv, UNCHANGED outboxVars, Claim
    PROVE  BaseInv'
<1>1. /\ queue # <<>> /\ step = "waiting"
      /\ UNCHANGED <<mem, disk, saves, writing, checkpoint, usable, faults, changes>>
      /\ UNCHANGED <<detached, before, orphaned>>
  BY DEF Claim, registryVars
<1>2. Now \in Op /\ This \in Event
  BY <1>1, HeadFacts
<1>3. rows \in [Event -> Row] /\ admitted \in [Event -> 0..MaxAdmission]
      /\ MaxAdmission \in Nat
  BY AdmissionAssumption DEF BaseInv, TypeOK, FeedbackTypeOK
<1>4. [rows EXCEPT ![This] = Held(Now)] \in [Event -> Row] /\ Held(Now).state = "pending"
  BY <1>2, RowsTyped DEF Held
<1>5. \A e \in Event : rows[e].state # "none" => admitted[e] \in Admission
  BY DEF BaseInv, StepInv
<1>6. PICK s \in {"claimed", "replayed", "pending"} :
         /\ Proceed(s)
         /\ rows' \in [Event -> Row] /\ admitted' \in [Event -> 0..MaxAdmission]
         /\ \A e \in Event : rows'[e].state # "none" => admitted'[e] \in Admission
         /\ s = "claimed" => rows'[This].state = "pending"
         /\ s = "replayed" => rows'[This].state # "pending"
  <2>1. CASE rows[This].state = "none" /\ admitted[This] < MaxAdmission
             /\ admitted' = [admitted EXCEPT ![This] = @ + 1]
             /\ rows' = [rows EXCEPT ![This] = Held(Now)] /\ Proceed("claimed")
    <3>1. admitted' \in [Event -> 0..MaxAdmission] /\ admitted'[This] \in Admission
          /\ \A e \in Event : e # This => admitted'[e] = admitted[e] /\ rows'[e] = rows[e]
      BY <1>2, <1>3, <2>1 DEF Admission
    <3>2. rows'[This].state = "pending" /\ rows' \in [Event -> Row]
      BY <1>2, <1>3, <1>4, <2>1
    <3>3. QED
      BY <1>5, <2>1, <3>1, <3>2
  <2>2. CASE Reclaimable(This) /\ rows' = [rows EXCEPT ![This] = Held(Now)]
             /\ Proceed("claimed") /\ UNCHANGED admitted
    <3>1. rows'[This].state = "pending" /\ rows' \in [Event -> Row]
          /\ \A e \in Event : e # This => rows'[e] = rows[e]
      BY <1>2, <1>3, <1>4, <2>2
    <3>2. admitted[This] \in Admission
      BY <1>2, <1>5, <2>2 DEF Reclaimable
    <3>3. QED
      BY <1>3, <1>5, <2>2, <3>1, <3>2
  <2>3. CASE UNCHANGED <<rows, admitted>> /\ Proceed("pending")
    BY <1>3, <1>5, <2>3
  <2>4. CASE rows[This].state = "applied" /\ Proceed("replayed") /\ UNCHANGED <<rows, admitted>>
    BY <1>3, <1>5, <2>4
  <2>5. QED
    BY <2>1, <2>2, <2>3, <2>4 DEF Claim
<1>7. step' = s /\ QueueInv' /\ SavesInv' /\ StepInv'
  BY <1>1, <1>6, ProceedKeeps
<1>8. UNCHANGED <<queue, about, awaited, answer>>
  BY <1>6 DEF Proceed
<1>9. TypeOK'
  BY <1>1, <1>6, <1>7, <1>8 DEF BaseInv, TypeOK, FeedbackTypeOK, RegistryTypeOK, outboxVars
<1>10. WriterInv'
  BY <1>1 DEF BaseInv, WriterInv
<1>11. QED
  BY <1>7, <1>9, <1>10 DEF BaseInv

LEMMA ReplayedStep ==
    ASSUME BaseInv, UNCHANGED outboxVars, Replayed
    PROVE  BaseInv'
<1>1. /\ step = "replayed" /\ queue # <<>>
      /\ UNCHANGED <<disk, writing, checkpoint, usable, faults, changes, rows, admitted, orphaned>>
  BY DEF Replayed, BaseInv, QueueInv
<1>2. CASE /\ SetTarget(Unmarked(Target, This)) /\ saves' = Append(saves, Now)
           /\ Proceed("clearing") /\ UNCHANGED before
  <2>1. /\ saves' \in Seq(Op \cup {Other}) /\ saves' # <<>> /\ step' = "clearing"
        /\ QueueInv' /\ SavesInv'
    BY <1>1, <1>2, WaitKeeps
  <2>2. mem' \in Client /\ detached' \in Client \cup {NoClient}
    <3>1. Unmarked(Target, This) \in Client
      BY <1>1, HeadFacts, UnmarkedClient
    <3>2. QED
      BY <1>2, <3>1 DEF SetTarget, BaseInv, TypeOK, RegistryTypeOK
  <2>3. StepInv'
    BY <1>1, <2>1 DEF BaseInv, StepInv
  <2>4. TypeOK'
    BY <1>1, <1>2, <2>1, <2>2
    DEF Proceed, BaseInv, TypeOK, FeedbackTypeOK, RegistryTypeOK, outboxVars
  <2>5. QED
    BY <2>1, <2>3, <2>4 DEF BaseInv, WriterInv
<1>3. CASE Leave("accepted") /\ UNCHANGED <<mem, saves>>
  <2>1. /\ queue' \in Seq(Op)
        /\ about' \in [Op -> Event \cup {NoEvent}]
        /\ step' = "waiting" /\ detached' = NoClient /\ before' = NoClient
        /\ answer' \in {"none", "accepted", "error"} /\ awaited' = awaited
        /\ QueueInv' /\ SavesInv' /\ StepInv'
    BY <1>1, <1>3, LeaveKeeps
  <2>2. TypeOK'
    BY <1>1, <1>3, <2>1 DEF BaseInv, TypeOK, FeedbackTypeOK, RegistryTypeOK, outboxVars
  <2>3. QED
    BY <1>1, <1>3, <2>1, <2>2 DEF BaseInv, WriterInv
<1>4. QED
  BY <1>2, <1>3 DEF Replayed

LEMMA AcknowledgeStep ==
    ASSUME BaseInv, UNCHANGED outboxVars, Reconcile \/ Counted
    PROVE  BaseInv'
<1>1. /\ step \in {"claimed", "counted"} /\ queue # <<>>
      /\ UNCHANGED <<disk, writing, checkpoint, usable, changes, admitted, orphaned>>
  BY DEF Reconcile, Counted, BaseInv, QueueInv
<1>2. CASE Acknowledge
  <2>1. /\ rows' \in [Event -> Row]
        /\ mem' \in Client /\ detached' \in Client \cup {NoClient}
        /\ saves' \in Seq(Op \cup {Other}) /\ saves' # <<>> /\ step' = "clearing"
        /\ UNCHANGED <<faults, before, queue, about, awaited, answer>>
        /\ QueueInv' /\ SavesInv' /\ StepInv'
    BY <1>1, <1>2, AcknowledgeKeeps
  <2>2. TypeOK'
    BY <1>1, <2>1 DEF BaseInv, TypeOK, FeedbackTypeOK, RegistryTypeOK, outboxVars
  <2>3. QED
    BY <2>1, <2>2 DEF BaseInv, WriterInv
<1>3. CASE NotAcknowledged /\ UNCHANGED <<mem, saves>>
  <2>1. /\ rows' \in [Event -> Row] /\ faults' \in Nat
        /\ queue' \in Seq(Op)
        /\ about' \in [Op -> Event \cup {NoEvent}]
        /\ step' = "waiting" /\ detached' = NoClient /\ before' = NoClient
        /\ answer' \in {"none", "accepted", "error"} /\ awaited' = awaited
        /\ QueueInv' /\ SavesInv' /\ StepInv'
    BY <1>1, <1>3, NotAcknowledgedKeeps
  <2>2. TypeOK'
    BY <1>1, <1>3, <2>1 DEF BaseInv, TypeOK, FeedbackTypeOK, RegistryTypeOK, outboxVars
  <2>3. QED
    BY <1>1, <1>3, <2>1, <2>2 DEF BaseInv, WriterInv
<1>4. QED
  BY <1>2, <1>3 DEF Reconcile, Counted

LEMMA GiveUpStep ==
    ASSUME BaseInv, UNCHANGED outboxVars, MarkersFull \/ Uncounted
    PROVE  BaseInv'
<1>1. /\ step \in {"claimed", "uncounted"} /\ queue # <<>> /\ GiveUp(0)
      /\ UNCHANGED <<disk, saves, writing, checkpoint, usable, changes, admitted, orphaned>>
  BY DEF MarkersFull, Uncounted, BaseInv, QueueInv
<1>2. mem' \in Client
  <2>1. mem \in Client /\ (step = "uncounted" => before \in Client)
    BY DEF BaseInv, TypeOK, RegistryTypeOK, StepInv
  <2>2. Unmarked(mem, This) \in Client
    BY <2>1, UnmarkedClient
  <2>3. QED
    BY <2>1, <2>2 DEF MarkersFull, Uncounted, PutBack
<1>3. faults >= 0
  BY DEF BaseInv, TypeOK, RegistryTypeOK
<1>4. /\ rows' \in [Event -> Row] /\ faults' \in Nat
      /\ queue' \in Seq(Op)
      /\ about' \in [Op -> Event \cup {NoEvent}]
      /\ step' = "waiting" /\ detached' = NoClient /\ before' = NoClient
      /\ answer' \in {"none", "accepted", "error"} /\ awaited' = awaited
      /\ QueueInv' /\ SavesInv' /\ StepInv'
  BY <1>1, <1>3, GiveUpKeeps
<1>5. TypeOK'
  BY <1>1, <1>2, <1>4 DEF BaseInv, TypeOK, FeedbackTypeOK, RegistryTypeOK, outboxVars
<1>6. QED
  BY <1>1, <1>4, <1>5 DEF BaseInv, WriterInv

LEMMA CountStep ==
    ASSUME BaseInv, UNCHANGED outboxVars, Count
    PROVE  BaseInv'
<1> DEFINE clean == Unmarked(Target, This)
<1>1. /\ step = "claimed" /\ queue # <<>> /\ Proceed("counting") /\ saves' = Append(saves, Now)
      /\ before' = clean /\ SetTarget(Sampled(clean, ThisMarker))
      /\ UNCHANGED <<disk, writing, checkpoint, usable, faults, changes, rows, admitted>>
      /\ orphaned' \in {orphaned, orphaned \cup {This}}
  BY DEF Count, BaseInv, QueueInv
<1>2. Now \in Op /\ This \in Event /\ Target \in Client /\ ThisMarker \in Marker
  BY <1>1, HeadFacts
<1>3. clean \in Client
  BY <1>2, UnmarkedClient
<1> HIDE DEF clean
<1>4. Sampled(clean, ThisMarker) \in Client
  BY <1>2, <1>3, SampledClient
<1>5. mem' \in Client /\ detached' \in Client \cup {NoClient}
  BY <1>1, <1>4 DEF SetTarget, BaseInv, TypeOK, RegistryTypeOK
<1>6. /\ saves' \in Seq(Op \cup {Other}) /\ saves' # <<>> /\ step' = "counting"
      /\ QueueInv' /\ SavesInv'
  BY <1>1, WaitKeeps
<1>7. This' = This
  BY <1>1 DEF Proceed, This, Now
<1>8. StepInv'
  BY <1>1, <1>3, <1>6, <1>7 DEF BaseInv, StepInv
<1>9. orphaned' \subseteq Event
  BY <1>1, <1>2 DEF BaseInv, TypeOK, FeedbackTypeOK
<1>10. TypeOK'
  BY <1>1, <1>3, <1>5, <1>6, <1>9
  DEF Proceed, BaseInv, TypeOK, FeedbackTypeOK, RegistryTypeOK, outboxVars
<1>11. QED
  BY <1>6, <1>8, <1>10 DEF BaseInv, WriterInv

(* What leaves the feedback requests and the registry alone. *)
LEMMA UntouchedKeeps ==
    ASSUME BaseInv,
           UNCHANGED <<mem, disk, saves, writing, checkpoint, usable, changes, rows, admitted,
                       queue, about, step, detached, before, orphaned>>
    PROVE  QueueInv' /\ SavesInv' /\ StepInv' /\ WriterInv'
BY DEF BaseInv, QueueInv, SavesInv, StepInv, WriterInv, This, Now

LEMMA MarkedTyped ==
    ASSUME BaseInv, NEW es, NEW v \in {"absent", "pending", "leased", "lapsed", "delivered"}
    PROVE  Marked(es, v) \in [Event -> {"absent", "pending", "leased", "lapsed", "delivered"}]
BY DEF Marked, BaseInv, TypeOK

LEMMA OutboxStep ==
    ASSUME BaseInv,
           \/ \E e \in Event : Stage(e) \/ ClaimLapses(e) \/ Purge(e)
           \/ ClaimBatch \/ AcknowledgeBatch \/ BatchNotAcknowledged \/ ReleaseBatch
    PROVE  BaseInv'
<1>1. /\ UNCHANGED <<mem, disk, saves, writing, checkpoint, usable, changes>>
      /\ UNCHANGED feedbackVars
  BY DEF Stage, ClaimLapses, Purge, ClaimBatch, AcknowledgeBatch, BatchNotAcknowledged,
     ReleaseBatch, registryVars
<1>2. QueueInv' /\ SavesInv' /\ StepInv' /\ WriterInv'
  BY <1>1, UntouchedKeeps DEF feedbackVars
<1>3. faults' \in Nat
  <2>1. faults' = faults \/ (faults > 0 /\ faults' = faults - 1)
    BY DEF Stage, ClaimLapses, Purge, ClaimBatch, AcknowledgeBatch, BatchNotAcknowledged,
       ReleaseBatch, registryVars
  <2>2. QED
    BY <2>1 DEF BaseInv, TypeOK, RegistryTypeOK
<1>4. out' \in [Event -> {"absent", "pending", "leased", "lapsed", "delivered"}]
  <2>1. out' = out \/ \E es, v : /\ v \in {"absent", "pending", "leased", "lapsed", "delivered"}
                                 /\ out' = Marked(es, v)
    BY DEF Stage, ClaimLapses, Purge, ClaimBatch, AcknowledgeBatch, BatchNotAcknowledged,
       ReleaseBatch
  <2>2. QED
    BY <2>1, MarkedTyped DEF BaseInv, TypeOK
<1>5. ahead' \in [Event -> SUBSET Event]
  <2>1. ahead \in [Event -> SUBSET Event] /\ Undelivered \subseteq Event
    BY DEF BaseInv, TypeOK, Undelivered
  <2>2. ASSUME NEW e \in Event, Stage(e)
        PROVE  ahead' \in [Event -> SUBSET Event]
    BY <2>1, <2>2 DEF Stage
  <2>3. CASE AcknowledgeBatch
    BY <2>1, <2>3 DEF AcknowledgeBatch
  <2>4. QED
    BY <2>1, <2>2, <2>3 DEF ClaimLapses, Purge, ClaimBatch, BatchNotAcknowledged, ReleaseBatch
<1>6. /\ batch' \subseteq Event /\ unsent' \subseteq batch'
      /\ dispatch' \in {"idle", "send", "await", "release"}
  <2>1. batch \subseteq Event /\ unsent \subseteq batch
        /\ dispatch \in {"idle", "send", "await", "release"}
    BY DEF BaseInv, TypeOK
  <2>2. CASE ClaimBatch
    BY <2>2 DEF ClaimBatch
  <2>3. CASE AcknowledgeBatch \/ BatchNotAcknowledged \/ ReleaseBatch
    BY <2>1, <2>3 DEF AcknowledgeBatch, BatchNotAcknowledged, ReleaseBatch
  <2>4. QED
    BY <2>1, <2>2, <2>3 DEF Stage, ClaimLapses, Purge
<1>7. TypeOK'
  BY <1>1, <1>3, <1>4, <1>5, <1>6
  DEF feedbackVars, BaseInv, TypeOK, FeedbackTypeOK, RegistryTypeOK
<1>8. QED
  BY <1>2, <1>7 DEF BaseInv

LEMMA AnsweredStep ==
    ASSUME BaseInv, Accepted \/ NotAccepted
    PROVE  BaseInv'
<1>1. UNCHANGED <<mem, disk, saves, writing, checkpoint, usable, changes, rows, admitted,
                  queue, about, step, detached, before, orphaned>>
  BY DEF Accepted, NotAccepted, registryVars
<1>2. QueueInv' /\ SavesInv' /\ StepInv' /\ WriterInv'
  BY <1>1, UntouchedKeeps
<1>3. faults' \in Nat
  BY DEF Accepted, NotAccepted, registryVars, BaseInv, TypeOK, RegistryTypeOK
<1>4. TypeOK'
  BY <1>1, <1>3 DEF Accepted, NotAccepted, BaseInv, TypeOK, FeedbackTypeOK, RegistryTypeOK
<1>5. QED
  BY <1>2, <1>4 DEF BaseInv

LEMMA ArriveStep ==
    ASSUME BaseInv, NEW o \in Op, Send(o) \/ \E e \in Posted : Post(o, e)
    PROVE  BaseInv'
<1>1. PICK e \in Event : Arrive(o, e)
  BY PostedAssumption DEF Send, Post, BaseInv, TypeOK
<1>2. UNCHANGED <<mem, disk, saves, writing, checkpoint, usable, faults, changes>>
  BY DEF Send, Post, registryVars
<1>3. /\ queue' \in Seq(Op)
      /\ about' \in [Op -> Event \cup {NoEvent}]
      /\ UNCHANGED <<rows, admitted, step, detached, before, orphaned>>
      /\ QueueInv' /\ SavesInv' /\ StepInv'
  BY <1>1, <1>2, ArriveKeeps
<1>4. /\ awaited' \in Op \cup {NoOp} /\ answer' \in {"none", "accepted", "error"}
      /\ UNCHANGED <<out, ahead, batch>> /\ unsent' \subseteq unsent
      /\ dispatch' \in {"idle", "send", "await", "release"}
  BY DEF Send, Post, outboxVars, BaseInv, TypeOK, FeedbackTypeOK
<1>5. TypeOK'
  BY <1>2, <1>3, <1>4 DEF BaseInv, TypeOK, FeedbackTypeOK, RegistryTypeOK
<1>6. QED
  BY <1>2, <1>3, <1>5 DEF BaseInv, WriterInv

LEMMA TimeStep ==
    ASSUME BaseInv, UNCHANGED outboxVars, NEW e \in Event, LeaseLapses(e) \/ Retires(e)
    PROVE  BaseInv'
<1>1. UNCHANGED <<mem, disk, saves, writing, checkpoint, usable, changes, admitted, queue, about,
                  step, detached, before, awaited, answer, orphaned>>
  BY DEF LeaseLapses, Retires, registryVars
<1>2. rows \in [Event -> Row] /\ faults' \in Nat
  BY DEF LeaseLapses, Retires, registryVars, BaseInv, TypeOK, FeedbackTypeOK, RegistryTypeOK
<1>3. /\ [rows EXCEPT ![e].live = FALSE] \in [Event -> Row]
      /\ NoRow \in Row /\ NoRow.state = "none"
      /\ \A d \in Event : [rows EXCEPT ![e].live = FALSE][d].state = rows[d].state
  <2>1. CASE Op = {}
    BY <1>2, <2>1 DEF NoRow, Row
  <2>2. CASE Op # {}
    <3>1. PICK o \in Op : TRUE
      BY <2>2
    <3>2. QED
      BY <3>1, RowsTyped DEF NoRow
  <2>3. QED
    BY <2>1, <2>2
<1>4. /\ rows' \in [Event -> Row]
      /\ \A d \in Event : \/ rows'[d].state = rows[d].state
                          \/ rows[d].state = "applied" /\ rows'[d].state = "none"
  <2>1. CASE LeaseLapses(e)
    BY <1>3, <2>1 DEF LeaseLapses
  <2>2. CASE Retires(e)
    BY <1>2, <1>3, <2>2 DEF Retires
  <2>3. QED
    BY <2>1, <2>2
<1>5. StepInv'
  <2>1. This' = This /\ (step # "waiting" => This \in Event)
    BY <1>1, HeadFacts DEF This, Now, BaseInv, QueueInv
  <2>2. QED
    BY <1>1, <1>4, <2>1 DEF BaseInv, StepInv
<1>6. QueueInv' /\ SavesInv' /\ WriterInv'
  BY <1>1 DEF BaseInv, QueueInv, SavesInv, WriterInv
<1>7. TypeOK'
  BY <1>1, <1>2, <1>4 DEF outboxVars, BaseInv, TypeOK, FeedbackTypeOK, RegistryTypeOK
<1>8. QED
  BY <1>5, <1>6, <1>7 DEF BaseInv

LEMMA OtherStep ==
    ASSUME BaseInv, UNCHANGED outboxVars, Supersede \/ (Revoke /\ UNCHANGED feedbackVars)
    PROVE  BaseInv'
<1>1. /\ Ask
      /\ UNCHANGED <<rows, admitted, queue, about, step, before, awaited, answer, orphaned>>
  BY DEF Supersede, Replace, Revoke, feedbackVars
<1>2. saves \in Seq(Op \cup {Other}) /\ saves' = Append(saves, Other) /\ mem \in Client
  BY <1>1 DEF Ask, BaseInv, TypeOK, RegistryTypeOK
<1>3. /\ saves' \in Seq(Op \cup {Other}) /\ saves' # <<>>
      /\ Len(saves') = Len(saves) + 1 /\ saves'[Len(saves) + 1] = Other /\ Len(saves) \in Nat
      /\ \A i \in 1..Len(saves) : saves'[i] = saves[i]
  BY <1>2
<1>4. SavesInv'
  <2>1. \A i \in 1..Len(saves') : saves'[i] # Other => i \in 1..Len(saves) /\ saves[i] # Other
    BY <1>3
  <2>2. QED
    BY <1>1, <1>3, <2>1 DEF BaseInv, SavesInv
<1>5. QueueInv' /\ StepInv'
  BY <1>1 DEF BaseInv, QueueInv, StepInv, This, Now
<1>6. mem' \in Client /\ detached' \in Client \cup {NoClient}
  <2>1. [mem EXCEPT !.revoked = TRUE] \in Client
    BY <1>2 DEF Client
  <2>2. QED
    BY <1>2, <2>1 DEF Supersede, Replace, Revoke, feedbackVars, BaseInv, TypeOK, FeedbackTypeOK
<1>7. TypeOK'
  BY <1>1, <1>3, <1>6 DEF Ask, outboxVars, BaseInv, TypeOK, FeedbackTypeOK, RegistryTypeOK
<1>8. QED
  BY <1>3, <1>4, <1>5, <1>7 DEF BaseInv, WriterInv

LEMMA CrashStep ==
    ASSUME BaseInv, Crash
    PROVE  BaseInv'
<1>1. /\ mem' = disk /\ saves' = <<>> /\ writing' = NoClient /\ usable' \in BOOLEAN
      /\ UNCHANGED <<disk, checkpoint, changes>> /\ faults' \in Nat
  BY DEF Crash, Reborn, Restart, BaseInv, TypeOK, RegistryTypeOK
<1>2. /\ queue' = <<>> /\ step' = "waiting" /\ detached' = NoClient /\ before' = NoClient
      /\ about' \in [Op -> Event \cup {NoEvent}] /\ awaited' = NoOp /\ answer' = "none"
      /\ UNCHANGED <<rows, admitted, orphaned>>
      /\ batch' = {} /\ unsent' = {} /\ dispatch' = "idle" /\ UNCHANGED <<out, ahead>>
  BY DEF Crash, Reborn
<1>3. QueueInv' /\ SavesInv' /\ StepInv' /\ WriterInv'
  BY <1>1, <1>2 DEF BaseInv, QueueInv, SavesInv, StepInv, WriterInv
<1>4. TypeOK'
  BY <1>1, <1>2 DEF BaseInv, TypeOK, FeedbackTypeOK, RegistryTypeOK
<1>5. QED
  BY <1>3, <1>4 DEF BaseInv

LEMMA InitBase == Init => BaseInv
<1> SUFFICES ASSUME Init
             PROVE  BaseInv
  OBVIOUS
<1>1. /\ mem = NewClient /\ disk = NewClient /\ saves = <<>> /\ writing = NoClient
      /\ checkpoint \in {"absent", "clean"} /\ usable = TRUE /\ faults = MaxFaults
      /\ changes = MaxChanges
  BY DEF Init, RegistryInit
<1>2. RegistryTypeOK
  BY <1>1, NewClientTyped, BoundsAssumption DEF RegistryTypeOK
<1>3. FeedbackTypeOK
  BY AdmissionAssumption DEF Init, FeedbackInit, FeedbackTypeOK, NoRow, Row
<1>4. TypeOK
  BY <1>2, <1>3 DEF Init, TypeOK
<1>5. QueueInv /\ SavesInv /\ StepInv /\ WriterInv
  BY <1>1 DEF Init, FeedbackInit, QueueInv, SavesInv, StepInv, WriterInv, NoRow
<1>6. QED
  BY <1>4, <1>5 DEF BaseInv

LEMMA NextBase == BaseInv /\ [Next]_vars => BaseInv'
<1> SUFFICES ASSUME BaseInv, [Next]_vars
             PROVE  BaseInv'
  OBVIOUS
<1>1. CASE UNCHANGED vars
  BY <1>1, UntouchedKeeps
  DEF vars, registryVars, feedbackVars, outboxVars, BaseInv, TypeOK, FeedbackTypeOK, RegistryTypeOK
<1>2. CASE Feedback /\ UNCHANGED outboxVars
  BY <1>2, SaveStep, RefusedStep, ClaimStep, ReplayedStep, AcknowledgeStep, GiveUpStep, CountStep
  DEF Feedback
<1>3. CASE Dispatch
  BY <1>3, OutboxStep, AnsweredStep, ArriveStep DEF Dispatch
<1>4. CASE Time
  BY <1>4, OutboxStep, TimeStep DEF Time
<1>5. CASE \/ Supersede /\ UNCHANGED outboxVars
           \/ Revoke /\ UNCHANGED <<feedbackVars, outboxVars>>
  BY <1>5, OtherStep
<1>6. CASE \/ \E e \in Event : Stage(e)
           \/ \E o \in Op, e \in Posted : Post(o, e)
           \/ Crash
  BY <1>6, OutboxStep, ArriveStep, CrashStep
<1>7. QED
  BY <1>1, <1>2, <1>3, <1>4, <1>5, <1>6 DEF Next

LEMMA SpecBase == Spec => []BaseInv
BY InitBase, NextBase, PTL DEF Spec

(* Every variable stays of its type. *)
THEOREM TypeCorrect == Spec => []TypeOK
<1>1. BaseInv => TypeOK
  BY DEF BaseInv
<1>2. QED
  BY <1>1, SpecBase, PTL

-----------------------------------------------------------------------------
(* Revocations *)

(* With a checkpoint store, what a usable process has in memory or is      *)
(* writing is not behind the file; a process that puts an earlier client   *)
(* back is not usable any more.                                            *)
RevokedInv ==
    checkpoint # "absent" =>
        /\ usable /\ disk.revoked => mem.revoked
        /\ usable /\ writing # NoClient /\ writing.revoked => mem.revoked
        /\ writing # NoClient /\ disk.revoked => writing.revoked
        /\ step = "uncounted" => ~usable

(* The step leaves alone what a revocation depends on. *)
Calm ==
    /\ UNCHANGED <<disk, writing, checkpoint, usable>>
    /\ mem'.revoked = mem.revoked
    /\ step' = "uncounted" => step = "uncounted"

LEMMA TargetKept ==
    ASSUME BaseInv, NEW c \in Client, c.revoked = Target.revoked, SetTarget(c)
    PROVE  mem'.revoked = mem.revoked
BY DEF SetTarget, Target

(* A request that is not the end of a failed save is calm. *)
LEMMA HeadCalm ==
    ASSUME BaseInv,
           \/ Refused \/ Claim \/ InProgress \/ Replayed \/ Reconcile \/ MarkersFull \/ Count
           \/ Counted \/ Finish
    PROVE  Calm
<1>1. queue # <<>>
  BY DEF Refused, Claim, InProgress, Replayed, Reconcile, MarkersFull, Count, Counted, Finish,
     BaseInv, QueueInv
<1>2. Target \in Client /\ mem \in Client
      /\ (step \in {"claimed", "counting", "counted", "uncounted"} => ThisMarker \in Marker)
  BY <1>1, HeadFacts DEF BaseInv, TypeOK, RegistryTypeOK
<1>3. UNCHANGED <<disk, writing, checkpoint, usable>>
  BY DEF Refused, Claim, InProgress, Replayed, Reconcile, MarkersFull, Count, Counted, Finish,
     registryVars
<1>4. step' \in {"waiting", "claimed", "pending", "replayed", "counting", "clearing"}
  BY DEF Refused, Claim, InProgress, Replayed, Reconcile, MarkersFull, Count, Counted, Finish,
     Leave, Proceed, GiveUp, NotAcknowledged, Acknowledge
<1>5. CASE Refused \/ Claim \/ InProgress \/ Finish
  BY <1>3, <1>4, <1>5 DEF Refused, Claim, InProgress, Finish, registryVars, Calm
<1>6. CASE Replayed
  <2>1. /\ Unmarked(Target, This) \in Client
        /\ Unmarked(Target, This).revoked = Target.revoked
    BY <1>2, UnmarkedClient
  <2>2. SetTarget(Unmarked(Target, This)) \/ mem' = mem
    BY <1>6 DEF Replayed
  <2>3. mem'.revoked = mem.revoked
    BY <2>1, <2>2, TargetKept
  <2>4. QED
    BY <1>3, <1>4, <2>3 DEF Calm
<1>7. CASE Reconcile \/ Counted
  <2>1. /\ [Target EXCEPT !.markers = @ \ {ThisMarker}] \in Client
        /\ [Target EXCEPT !.markers = @ \ {ThisMarker}].revoked = Target.revoked
    BY <1>2, AcknowledgedClient
  <2>2. SetTarget([Target EXCEPT !.markers = @ \ {ThisMarker}]) \/ mem' = mem
    BY <1>7 DEF Reconcile, Counted, Acknowledge
  <2>3. mem'.revoked = mem.revoked
    BY <2>1, <2>2, TargetKept
  <2>4. QED
    BY <1>3, <1>4, <2>3 DEF Calm
<1>8. CASE MarkersFull
  <2>1. Unmarked(mem, This).revoked = mem.revoked
    BY <1>2, UnmarkedClient
  <2>2. QED
    BY <1>3, <1>4, <1>8, <2>1 DEF MarkersFull, Calm
<1>9. CASE Count
  <2>1. PICK c : c = Unmarked(Target, This)
    OBVIOUS
  <2>2. c \in Client /\ c.revoked = Target.revoked /\ ThisMarker \in Marker
    BY <1>2, <1>9, <2>1, UnmarkedClient DEF Count
  <2>3. Sampled(c, ThisMarker) \in Client /\ Sampled(c, ThisMarker).revoked = Target.revoked
    BY <2>2, SampledClient
  <2>4. SetTarget(Sampled(c, ThisMarker))
    BY <1>9, <2>1 DEF Count
  <2>5. mem'.revoked = mem.revoked
    BY <2>3, <2>4, TargetKept
  <2>6. QED
    BY <1>3, <1>4, <2>5 DEF Calm
<1>10. QED
  BY <1>5, <1>6, <1>7, <1>8, <1>9

LEMMA OutsideCalm ==
    ASSUME \/ Dispatch \/ Time \/ Supersede \/ \E e \in Event : Stage(e)
           \/ \E o \in Op, e \in Posted : Post(o, e)
           \/ UNCHANGED vars
    PROVE  Calm
<1>1. CASE Dispatch
  BY <1>1 DEF Dispatch, ClaimBatch, Send, Accepted, NotAccepted, AcknowledgeBatch,
     BatchNotAcknowledged, ReleaseBatch, registryVars, feedbackVars, Arrive, Calm
<1>2. CASE Time
  BY <1>2 DEF Time, LeaseLapses, Retires, ClaimLapses, Purge, registryVars, feedbackVars, Calm
<1>3. CASE Supersede
  BY <1>3 DEF Supersede, Replace, Ask, Calm
<1>4. CASE \/ \E e \in Event : Stage(e)
           \/ \E o \in Op, e \in Posted : Post(o, e)
           \/ UNCHANGED vars
  BY <1>4 DEF Stage, Post, Arrive, vars, registryVars, feedbackVars, Calm
<1>5. QED
  BY <1>1, <1>2, <1>3, <1>4

LEMMA RevokedStep ==
    ASSUME BaseInv, RevokedInv, [Next]_vars
    PROVE  RevokedInv' /\ (checkpoint # "absent" /\ disk.revoked => disk'.revoked)
<1>1. CASE Calm
  BY <1>1 DEF Calm, RevokedInv
<1>2. CASE SaveStart /\ UNCHANGED feedbackVars
  BY <1>2 DEF SaveStart, feedbackVars, RevokedInv
<1>3. CASE SaveWrite /\ UNCHANGED feedbackVars
  BY <1>3 DEF SaveWrite, feedbackVars, RevokedInv
<1>4. CASE SaveSucceeds
  <2>1. step' # "uncounted" \/ step' = step
    BY <1>4 DEF SaveSucceeds, Woken
  <2>2. checkpoint' # "absent" => checkpoint # "absent"
    BY <1>4 DEF SaveSucceeds, Saved
  <2>3. UNCHANGED <<mem, disk, usable>> /\ writing' = NoClient
    BY <1>4 DEF SaveSucceeds, Saved
  <2>4. QED
    BY <2>1, <2>2, <2>3 DEF RevokedInv
<1>5. CASE SaveIsLost
  <2>1. UNCHANGED <<mem, disk, checkpoint>> /\ writing' = NoClient /\ usable' = Trusted
    BY <1>5 DEF SaveIsLost, SaveFails
  <2>2. checkpoint # "absent" => ~Trusted
    BY DEF Trusted
  <2>3. QED
    BY <2>1, <2>2 DEF RevokedInv
<1>6. CASE Uncounted
  <2>1. step = "uncounted" /\ UNCHANGED <<disk, writing, checkpoint, usable>>
    BY <1>6 DEF Uncounted
  <2>2. QED
    BY <2>1 DEF RevokedInv
<1>7. CASE Revoke /\ UNCHANGED feedbackVars
  <2>1. mem'.revoked = TRUE
    BY <1>7 DEF Revoke, BaseInv, TypeOK, RegistryTypeOK, Client
  <2>2. UNCHANGED <<disk, writing, checkpoint, usable, step>>
    BY <1>7 DEF Revoke, Ask, feedbackVars
  <2>3. QED
    BY <2>1, <2>2 DEF RevokedInv
<1>8. CASE Crash
  BY <1>8 DEF Crash, Reborn, Restart, RevokedInv
<1>9. QED
  BY <1>1, <1>2, <1>3, <1>4, <1>5, <1>6, <1>7, <1>8, HeadCalm, OutsideCalm
  DEF Next, Feedback, Save

(* With a checkpoint store a saved revocation is never undone. *)
THEOREM RevocationIsForGood == Spec => RevocationStands
<1>1. Init => RevokedInv
  BY DEF Init, RegistryInit, FeedbackInit, NewClient, RevokedInv
<1>2. BaseInv /\ RevokedInv /\ [Next]_vars => RevokedInv'
  BY RevokedStep
<1>3. BaseInv /\ RevokedInv /\ [Next]_vars =>
         [checkpoint # "absent" /\ disk.revoked => disk'.revoked]_vars
  BY RevokedStep
<1>4. QED
  BY <1>1, <1>2, <1>3, SpecBase, PTL DEF Spec, RevocationStands

-----------------------------------------------------------------------------
(* Counting *)

(* A client has each admission at most once, none that is still to come,   *)
(* and of a pending event it has the admission only with its marker.       *)
Sound(c, r, a) ==
    \A e \in Event, n \in Admission :
        /\ c.counted[<<e, n>>] <= 1
        /\ n > a[e] => c.counted[<<e, n>>] = 0
        /\ r[e].state = "pending" /\ n = a[e] /\ c.counted[<<e, n>>] # 0 =>
              <<e, n>> \in c.markers

(* All copies of the client: in memory, in the file, on the way into it,   *)
(* out of the registry, or kept to be put back.                            *)
Copy(c) == c \in {mem, disk} \/ (c \in {writing, detached, before} /\ c # NoClient)

CountInv == \A c : Copy(c) => Sound(c, rows, admitted)

(* An event becomes pending with a new admission only. *)
RowsMove ==
    /\ \A e \in Event : rows'[e].state = "pending" =>
          \/ rows[e].state = "pending" /\ admitted'[e] = admitted[e]
          \/ admitted'[e] = admitted[e] + 1
    /\ \A e \in Event : admitted'[e] >= admitted[e]

(* d is c, but for markers of events that are not pending under them. *)
Follows(c, d) ==
    /\ d.counted = c.counted
    /\ \A e \in Event : rows'[e].state = "pending" /\ <<e, admitted'[e]>> \in c.markers =>
          <<e, admitted'[e]>> \in d.markers

LEMMA SoundFollows ==
    ASSUME BaseInv, BaseInv', RowsMove, NEW c, NEW d, Sound(c, rows, admitted), Follows(c, d)
    PROVE  Sound(d, rows', admitted')
<1>1. admitted \in [Event -> 0..MaxAdmission] /\ admitted' \in [Event -> 0..MaxAdmission]
      /\ MaxAdmission \in Nat
  BY AdmissionAssumption DEF BaseInv, TypeOK, FeedbackTypeOK
<1>2. SUFFICES ASSUME NEW e \in Event, NEW n \in Admission
               PROVE  /\ d.counted[<<e, n>>] <= 1
                      /\ n > admitted'[e] => d.counted[<<e, n>>] = 0
                      /\ rows'[e].state = "pending" /\ n = admitted'[e]
                            /\ d.counted[<<e, n>>] # 0 => <<e, n>> \in d.markers
  BY DEF Sound
<1>3. n \in Nat /\ admitted[e] \in Nat /\ admitted'[e] \in Nat /\ admitted'[e] >= admitted[e]
  BY <1>1 DEF Admission, RowsMove
<1>4. /\ c.counted[<<e, n>>] <= 1
      /\ n > admitted[e] => c.counted[<<e, n>>] = 0
      /\ rows[e].state = "pending" /\ n = admitted[e] /\ c.counted[<<e, n>>] # 0 =>
            <<e, n>> \in c.markers
  BY DEF Sound
<1>5. d.counted[<<e, n>>] = c.counted[<<e, n>>]
  BY DEF Follows
<1>6. ASSUME rows'[e].state = "pending", n = admitted'[e], d.counted[<<e, n>>] # 0
      PROVE  <<e, n>> \in d.markers
  <2>1. admitted'[e] # admitted[e] + 1
    BY <1>3, <1>4, <1>5, <1>6
  <2>2. rows[e].state = "pending" /\ n = admitted[e]
    BY <1>6, <2>1 DEF RowsMove
  <2>3. <<e, n>> \in c.markers
    BY <1>4, <1>5, <1>6, <2>2
  <2>4. QED
    BY <1>6, <2>3 DEF Follows
<1>7. QED
  BY <1>3, <1>4, <1>5, <1>6

(* A step that makes every copy follow an earlier one. *)
LEMMA CopiesFollow ==
    ASSUME BaseInv, BaseInv', CountInv, RowsMove,
           \A d : Copy(d)' => \E c : Copy(c) /\ Follows(c, d)
    PROVE  CountInv'
<1>1. SUFFICES ASSUME NEW d, Copy(d)'
               PROVE  Sound(d, rows', admitted')
  BY DEF CountInv, Sound
<1>2. PICK c : Copy(c) /\ Follows(c, d)
  BY <1>1
<1>3. QED
  BY <1>2, SoundFollows DEF CountInv

(* Every copy is an earlier one. *)
LEMMA OldCopies ==
    ASSUME BaseInv, BaseInv', CountInv, RowsMove,
           mem' \in {mem, disk} \/ (mem' = before /\ before # NoClient),
           disk' = disk \/ (disk' = writing /\ writing # NoClient),
           writing' \in {writing, mem, NoClient},
           detached' \in {detached, mem, NoClient},
           before' \in {before, NoClient}
    PROVE  CountInv'
<1>1. \A d : Follows(d, d)
  BY DEF Follows
<1>2. \A d : Copy(d)' => Copy(d)
  BY DEF Copy
<1>3. QED
  BY <1>1, <1>2, CopiesFollow

(* Only the client of the head changes, and but for markers. *)
LEMMA TargetCopies ==
    ASSUME BaseInv, BaseInv', CountInv, RowsMove, NEW c, SetTarget(c), Follows(Target, c),
           UNCHANGED <<disk, writing>>, before' \in {before, NoClient}
    PROVE  CountInv'
<1>1. \A d : Follows(d, d)
  BY DEF Follows
<1>2. Copy(Target)
  BY DEF Copy, Target
<1>3. \A d : Copy(d)' => Copy(d) \/ d = c
  BY DEF Copy, SetTarget
<1>4. \A d : Copy(d)' => \E k : Copy(k) /\ Follows(k, d)
  BY <1>1, <1>2, <1>3
<1>5. QED
  BY <1>4, CopiesFollow

LEMMA SettledMove ==
    ASSUME BaseInv, admitted' = admitted,
           \A e \in Event : rows'[e].state = "pending" => rows[e].state = "pending"
    PROVE  RowsMove
<1>1. \A e \in Event : admitted[e] \in Nat
  BY AdmissionAssumption DEF BaseInv, TypeOK, FeedbackTypeOK
<1>2. QED
  BY <1>1 DEF RowsMove

LEMMA ClaimMoves ==
    ASSUME BaseInv, Claim
    PROVE  RowsMove
<1>1. queue # <<>> /\ This \in Event
  BY HeadFacts DEF Claim
<1>2. rows \in [Event -> Row] /\ admitted \in [Event -> 0..MaxAdmission]
      /\ MaxAdmission \in Nat
  BY AdmissionAssumption DEF BaseInv, TypeOK, FeedbackTypeOK
<1>3. CASE /\ admitted' = [admitted EXCEPT ![This] = @ + 1]
           /\ rows' = [rows EXCEPT ![This] = Held(Now)]
  <2>1. /\ admitted'[This] = admitted[This] + 1
        /\ \A e \in Event : e # This => admitted'[e] = admitted[e] /\ rows'[e] = rows[e]
        /\ \A e \in Event : admitted[e] \in Nat
    BY <1>1, <1>2, <1>3
  <2>2. QED
    BY <2>1 DEF RowsMove
<1>4. CASE /\ Reclaimable(This) /\ admitted' = admitted
           /\ rows' = [rows EXCEPT ![This] = Held(Now)]
  <2>1. /\ rows[This].state = "pending"
        /\ \A e \in Event : e # This => rows'[e] = rows[e]
    BY <1>1, <1>2, <1>4 DEF Reclaimable
  <2>2. QED
    BY <1>4, <2>1, SettledMove
<1>5. CASE UNCHANGED <<rows, admitted>>
  BY <1>5, SettledMove
<1>6. QED
  BY <1>3, <1>4, <1>5 DEF Claim

(* The head gives up: its event stays as it is. *)
LEMMA GiveUpMoves ==
    ASSUME BaseInv, queue # <<>>, NEW failing \in {0, 1}, GiveUp(failing), admitted' = admitted
    PROVE  RowsMove /\ detached' = NoClient /\ before' = NoClient
<1>1. Now \in Op /\ This \in Event
  BY HeadFacts
<1>2. \A e \in Event : Released(This, Now)[e].state = rows[e].state
  BY <1>1, RowsTyped
<1>3. \A e \in Event : rows'[e].state = rows[e].state
  BY <1>2 DEF GiveUp
<1>4. QED
  BY <1>3, SettledMove DEF GiveUp, Leave

LEMMA LeaveCounts ==
    ASSUME BaseInv, BaseInv', CountInv, Refused \/ InProgress \/ Finish
    PROVE  CountInv'
<1>1. UNCHANGED <<mem, disk, writing, rows, admitted>> /\ detached' = NoClient /\ before' = NoClient
  BY DEF Refused, InProgress, Finish, Leave, registryVars
<1>2. RowsMove
  BY <1>1, SettledMove
<1>3. QED
  BY <1>1, <1>2, OldCopies

LEMMA ClaimCounts ==
    ASSUME BaseInv, BaseInv', CountInv, Claim
    PROVE  CountInv'
<1>1. UNCHANGED <<mem, disk, writing, detached, before>>
  BY DEF Claim, registryVars
<1>2. QED
  BY <1>1, ClaimMoves, OldCopies

LEMMA ReplayedCounts ==
    ASSUME BaseInv, BaseInv', CountInv, Replayed
    PROVE  CountInv'
<1>1. /\ queue # <<>> /\ step = "replayed"
      /\ UNCHANGED <<disk, writing, rows, admitted>>
  BY DEF Replayed, BaseInv, QueueInv
<1>2. RowsMove
  BY <1>1, SettledMove
<1>3. This \in Event /\ Target \in Client /\ rows[This].state # "pending"
  BY <1>1, HeadFacts DEF BaseInv, StepInv
<1>4. CASE Leave("accepted") /\ UNCHANGED <<mem, saves>>
  <2>1. UNCHANGED mem /\ detached' = NoClient /\ before' = NoClient
    BY <1>4 DEF Leave
  <2>2. QED
    BY <1>1, <1>2, <2>1, OldCopies
<1>5. CASE SetTarget(Unmarked(Target, This)) /\ UNCHANGED before
  <2>1. /\ Unmarked(Target, This).counted = Target.counted
        /\ Unmarked(Target, This).markers = {m \in Target.markers : m[1] # This}
    BY <1>3, UnmarkedClient
  <2>2. Follows(Target, Unmarked(Target, This))
    BY <1>1, <1>3, <2>1 DEF Follows
  <2>3. QED
    BY <1>1, <1>2, <1>5, <2>2, TargetCopies
<1>6. QED
  BY <1>4, <1>5 DEF Replayed

LEMMA AcknowledgeCounts ==
    ASSUME BaseInv, BaseInv', CountInv, Reconcile \/ Counted
    PROVE  CountInv'
<1>1. /\ step \in {"claimed", "counted"} /\ queue # <<>>
      /\ UNCHANGED <<disk, writing, admitted>>
  BY DEF Reconcile, Counted, BaseInv, QueueInv
<1>2. This \in Event /\ Now \in Op /\ Target \in Client
  BY <1>1, HeadFacts
<1>3. CASE Acknowledge
  <2> DEFINE c == [Target EXCEPT !.markers = @ \ {ThisMarker}]
  <2>1. /\ rows' = Applied(This) /\ SetTarget(c) /\ UNCHANGED before
    BY <1>3 DEF Acknowledge
  <2>2. /\ rows'[This].state = "applied"
        /\ \A e \in Event : e # This => rows'[e] = rows[e]
    BY <1>2, <2>1, RowsTyped
  <2>3. RowsMove
    BY <1>1, <2>2, SettledMove
  <2>4. c.counted = Target.counted /\ c.markers = Target.markers \ {ThisMarker}
    BY <1>2, AcknowledgedClient
  <2> HIDE DEF c
  <2>5. Follows(Target, c)
    BY <2>2, <2>4 DEF Follows, ThisMarker
  <2>6. QED
    BY <1>1, <2>1, <2>3, <2>5, TargetCopies
<1>4. CASE NotAcknowledged /\ UNCHANGED mem
  <2>1. PICK failing \in {0, 1} : GiveUp(failing)
    BY <1>4 DEF NotAcknowledged
  <2>2. RowsMove /\ detached' = NoClient /\ before' = NoClient
    BY <1>1, <2>1, GiveUpMoves
  <2>3. QED
    BY <1>1, <1>4, <2>2, OldCopies
<1>5. QED
  BY <1>3, <1>4 DEF Reconcile, Counted

LEMMA MarkersFullCounts ==
    ASSUME BaseInv, BaseInv', CountInv, MarkersFull
    PROVE  CountInv'
<1>1. /\ step = "claimed" /\ queue # <<>> /\ GiveUp(0) /\ ThisMarker \notin Target.markers
      /\ UNCHANGED <<disk, writing, admitted>>
      /\ mem' = IF detached = NoClient THEN Unmarked(mem, This) ELSE mem
  BY DEF MarkersFull, BaseInv, QueueInv
<1>2. RowsMove /\ detached' = NoClient /\ before' = NoClient
  BY <1>1, GiveUpMoves
<1>3. CASE detached # NoClient
  BY <1>1, <1>2, <1>3, OldCopies
<1>4. CASE detached = NoClient
  <2>1. Target = mem /\ mem \in Client
    BY <1>4 DEF Target, BaseInv, TypeOK, RegistryTypeOK
  <2>2. /\ Unmarked(mem, This).counted = mem.counted
        /\ Unmarked(mem, This).markers = {m \in mem.markers : m[1] # This}
    BY <2>1, UnmarkedClient
  <2>3. Follows(Target, Unmarked(Target, This))
    BY <1>1, <2>1, <2>2 DEF Follows, ThisMarker
  <2>4. SetTarget(Unmarked(Target, This))
    BY <1>1, <1>2, <1>4, <2>1 DEF SetTarget
  <2>5. QED
    BY <1>1, <1>2, <2>3, <2>4, TargetCopies
<1>5. QED
  BY <1>3, <1>4

LEMMA UncountedCounts ==
    ASSUME BaseInv, BaseInv', CountInv, Uncounted
    PROVE  CountInv'
<1>1. /\ step = "uncounted" /\ queue # <<>> /\ GiveUp(0) /\ mem' = before
      /\ UNCHANGED <<disk, writing, admitted>>
  BY DEF Uncounted, PutBack, BaseInv, QueueInv
<1>2. before # NoClient
  BY <1>1, NoClientAssumption DEF BaseInv, StepInv
<1>3. RowsMove /\ detached' = NoClient /\ before' = NoClient
  BY <1>1, GiveUpMoves
<1>4. QED
  BY <1>1, <1>2, <1>3, OldCopies

(* The admission that is counted was not contained in the client before,   *)
(* because its marker was missing.                                         *)
LEMMA SampledSound ==
    ASSUME BaseInv, NEW c \in Client, NEW e \in Event, NEW n \in Admission, n = admitted[e],
           Sound(c, rows, admitted), rows[e].state = "pending", <<e, n>> \notin c.markers
    PROVE  Sound(Sampled(c, <<e, n>>), rows, admitted)
<1>1. <<e, n>> \in Marker
  BY DEF Marker
<1>2. c.counted[<<e, n>>] = 0
  BY DEF Sound
<1>3. c.counted \in [Marker -> 0..2]
  BY DEF Client
<1>4. PICK d : d = Sampled(c, <<e, n>>)
  OBVIOUS
<1>5. /\ d.counted = [c.counted EXCEPT ![<<e, n>>] = IF @ < 2 THEN @ + 1 ELSE @]
      /\ d.markers = c.markers \cup {<<e, n>>}
  BY <1>1, <1>4, SampledClient
<1>6. d.counted[<<e, n>>] = 1
  BY <1>1, <1>2, <1>3, <1>5
<1>7. \A k \in Marker : k # <<e, n>> => d.counted[k] = c.counted[k]
  BY <1>3, <1>5
<1>8. ASSUME NEW x \in Event, NEW i \in Admission
      PROVE  /\ d.counted[<<x, i>>] <= 1
             /\ i > admitted[x] => d.counted[<<x, i>>] = 0
             /\ rows[x].state = "pending" /\ i = admitted[x] /\ d.counted[<<x, i>>] # 0 =>
                   <<x, i>> \in d.markers
  <2>1. <<x, i>> \in Marker
    BY DEF Marker
  <2>2. CASE <<x, i>> = <<e, n>>
    <3>1. x = e /\ i = n /\ i \in Nat
      BY <2>2, AdmissionAssumption DEF Admission
    <3>2. QED
      BY <1>5, <1>6, <3>1
  <2>3. CASE <<x, i>> # <<e, n>>
    BY <1>5, <1>7, <2>1, <2>3 DEF Sound
  <2>4. QED
    BY <2>2, <2>3
<1>9. Sound(d, rows, admitted)
  BY <1>8 DEF Sound
<1>10. QED
  BY <1>4, <1>9

LEMMA CountCounts ==
    ASSUME BaseInv, BaseInv', CountInv, Count
    PROVE  CountInv'
<1>1. PICK clean : clean = Unmarked(Target, This)
  OBVIOUS
<1>2. PICK d : d = Sampled(clean, ThisMarker)
  OBVIOUS
<1>3. /\ step = "claimed" /\ queue # <<>> /\ ThisMarker \notin Target.markers
      /\ before' = clean /\ SetTarget(d)
      /\ UNCHANGED <<disk, writing, rows, admitted>>
  BY <1>1, <1>2 DEF Count, BaseInv, QueueInv
<1>4. This \in Event /\ Target \in Client /\ rows[This].state = "pending"
  BY <1>3, HeadFacts DEF BaseInv, StepInv
<1>5. /\ clean \in Client /\ clean.counted = Target.counted
      /\ clean.markers = {m \in Target.markers : m[1] # This}
  BY <1>1, <1>4, UnmarkedClient
<1>6. admitted[This] \in Admission
  BY <1>4 DEF BaseInv, StepInv
<1>7. Follows(Target, clean)
  BY <1>3, <1>5 DEF Follows, ThisMarker
<1>8. RowsMove
  BY <1>3, SettledMove
<1>9. Sound(Target, rows, admitted)
  BY DEF CountInv, Copy, Target
<1>10. Sound(clean, rows', admitted')
  BY <1>7, <1>8, <1>9, SoundFollows
<1>11. Sound(clean, rows, admitted)
  BY <1>3, <1>10
<1>12. Sound(d, rows, admitted)
  <2>1. ThisMarker = <<This, admitted[This]>> /\ ThisMarker \notin clean.markers
    BY <1>3, <1>5 DEF ThisMarker
  <2>2. QED
    BY <1>2, <1>4, <1>5, <1>6, <1>11, <2>1, SampledSound
<1>13. SUFFICES ASSUME NEW k, Copy(k)'
                PROVE  Sound(k, rows', admitted')
  BY DEF CountInv, Sound
<1>14. Copy(k) \/ k = d \/ k = clean
  BY <1>3, <1>13 DEF Copy, SetTarget
<1>15. Sound(k, rows, admitted)
  BY <1>11, <1>12, <1>14 DEF CountInv
<1>16. QED
  BY <1>3, <1>15

LEMMA SaveCounts ==
    ASSUME BaseInv, BaseInv', CountInv,
           (Save /\ UNCHANGED feedbackVars) \/ SaveSucceeds \/ SaveIsLost
    PROVE  CountInv'
<1>1. UNCHANGED <<mem, rows, admitted, detached, before>>
  BY DEF Save, SaveStart, SaveWrite, SaveSucceeds, SaveIsLost, feedbackVars
<1>2. /\ disk' = disk \/ (disk' = writing /\ writing # NoClient)
      /\ writing' \in {writing, mem, NoClient}
  BY DEF Save, SaveStart, SaveWrite, SaveSucceeds, Saved, SaveIsLost, SaveFails
<1>3. QED
  BY <1>1, <1>2, SettledMove, OldCopies

LEMMA OutsideCounts ==
    ASSUME BaseInv, BaseInv', CountInv,
           \/ Dispatch \/ \E e \in Event : Stage(e)
           \/ \E o \in Op, e \in Posted : Post(o, e)
           \/ Supersede
           \/ Revoke /\ UNCHANGED feedbackVars
           \/ Crash
           \/ UNCHANGED vars
    PROVE  CountInv'
<1>1. CASE Dispatch
  <2>1. UNCHANGED <<mem, disk, writing, rows, admitted, detached, before>>
    BY <1>1 DEF Dispatch, ClaimBatch, Send, Accepted, NotAccepted, AcknowledgeBatch,
       BatchNotAcknowledged, ReleaseBatch, registryVars, feedbackVars, Arrive
  <2>2. QED
    BY <2>1, SettledMove, OldCopies
<1>2. CASE \/ \E e \in Event : Stage(e)
           \/ \E o \in Op, e \in Posted : Post(o, e)
           \/ UNCHANGED vars
  <2>1. UNCHANGED <<mem, disk, writing, rows, admitted, detached, before>>
    BY <1>2 DEF Stage, Post, Arrive, vars, registryVars, feedbackVars
  <2>2. QED
    BY <2>1, SettledMove, OldCopies
<1>3. CASE Supersede
  <2>1. UNCHANGED <<mem, disk, writing, rows, admitted, before>> /\ detached' \in {detached, mem}
    BY <1>3 DEF Supersede, Replace, Ask
  <2>2. QED
    BY <2>1, SettledMove, OldCopies
<1>4. CASE Revoke /\ UNCHANGED feedbackVars
  <2>1. UNCHANGED <<disk, writing, rows, admitted, detached, before>>
        /\ mem' = [mem EXCEPT !.revoked = TRUE]
    BY <1>4 DEF Revoke, Ask, feedbackVars
  <2>2. mem'.counted = mem.counted /\ mem'.markers = mem.markers
    BY <2>1 DEF BaseInv, TypeOK, RegistryTypeOK, Client
  <2>3. \A d : Follows(d, d)
    BY DEF Follows
  <2>4. PICK d : d = mem'
    OBVIOUS
  <2>5. Follows(mem, d)
    BY <2>2, <2>4 DEF Follows
  <2>6. \A k : Copy(k)' => Copy(k) \/ k = d
    BY <2>1, <2>4 DEF Copy
  <2>7. \A k : Copy(k)' => \E c : Copy(c) /\ Follows(c, k)
    BY <2>3, <2>5, <2>6 DEF Copy
  <2>8. RowsMove
    BY <2>1, SettledMove
  <2>9. QED
    BY <2>7, <2>8, CopiesFollow
<1>5. CASE Crash
  <2>1. /\ mem' = disk /\ disk' = disk /\ writing' = NoClient /\ detached' = NoClient
        /\ before' = NoClient /\ UNCHANGED <<rows, admitted>>
    BY <1>5 DEF Crash, Reborn, Restart
  <2>2. QED
    BY <2>1, SettledMove, OldCopies
<1>6. QED
  BY <1>1, <1>2, <1>3, <1>4, <1>5

LEMMA TimeCounts ==
    ASSUME BaseInv, BaseInv', CountInv, Time
    PROVE  CountInv'
<1>1. UNCHANGED <<mem, disk, writing, admitted, detached, before>>
  BY DEF Time, LeaseLapses, Retires, ClaimLapses, Purge, registryVars, feedbackVars
<1>2. rows \in [Event -> Row]
  BY DEF BaseInv, TypeOK, FeedbackTypeOK
<1>3. \A e \in Event : rows'[e].state = "pending" => rows[e].state = "pending"
  <2>1. CASE UNCHANGED rows
    BY <2>1
  <2>2. ASSUME NEW e \in Event, LeaseLapses(e)
        PROVE  \A d \in Event : rows'[d].state = "pending" => rows[d].state = "pending"
    <3>1. rows' = [rows EXCEPT ![e] = [rows[e] EXCEPT !.live = FALSE]]
      BY <1>2, <2>2 DEF LeaseLapses
    <3>2. [rows[e] EXCEPT !.live = FALSE].state = rows[e].state
      BY <1>2 DEF Row
    <3>3. QED
      BY <1>2, <3>1, <3>2
  <2>3. ASSUME NEW e \in Event, Retires(e)
        PROVE  \A d \in Event : rows'[d].state = "pending" => rows[d].state = "pending"
    BY <1>2, <2>3 DEF Retires, NoRow
  <2>4. QED
    BY <2>1, <2>2, <2>3 DEF Time, ClaimLapses, Purge, feedbackVars
<1>4. QED
  BY <1>1, <1>3, SettledMove, OldCopies

LEMMA CountInitially == Init => CountInv
<1> SUFFICES ASSUME Init
             PROVE  CountInv
  OBVIOUS
<1>1. /\ mem = NewClient /\ disk = NewClient /\ writing = NoClient
      /\ detached = NoClient /\ before = NoClient
  BY DEF Init, RegistryInit, FeedbackInit
<1>2. PICK c : c = NewClient
  OBVIOUS
<1>3. Sound(NewClient, rows, admitted)
  <2>1. c.counted = [m \in Marker |-> 0]
    BY <1>2 DEF NewClient
  <2>2. ASSUME NEW e \in Event, NEW n \in Admission
        PROVE  /\ c.counted[<<e, n>>] <= 1
               /\ n > admitted[e] => c.counted[<<e, n>>] = 0
               /\ rows[e].state = "pending" /\ n = admitted[e] /\ c.counted[<<e, n>>] # 0 =>
                     <<e, n>> \in c.markers
    <3>1. <<e, n>> \in Marker
      BY DEF Marker
    <3>2. PICK k : k = c.counted[<<e, n>>]
      OBVIOUS
    <3>3. k = 0
      BY <2>1, <3>1, <3>2
    <3>4. k <= 1
      BY <3>3
    <3>5. QED
      BY <3>2, <3>3, <3>4
  <2>3. Sound(c, rows, admitted)
    BY <2>2 DEF Sound
  <2>4. QED
    BY <1>2, <2>3
<1>4. \A d : Copy(d) => d = NewClient
  BY <1>1 DEF Copy
<1>5. QED
  BY <1>3, <1>4 DEF CountInv

LEMMA CountStays == BaseInv /\ CountInv /\ [Next]_vars => CountInv'
<1> SUFFICES ASSUME BaseInv, CountInv, [Next]_vars
             PROVE  CountInv'
  OBVIOUS
<1>1. BaseInv'
  BY NextBase
<1>2. CASE Feedback
  BY <1>1, <1>2, SaveCounts, LeaveCounts, ClaimCounts, ReplayedCounts, AcknowledgeCounts,
     MarkersFullCounts, CountCounts, UncountedCounts
  DEF Feedback
<1>3. CASE Time
  BY <1>1, <1>3, TimeCounts
<1>4. CASE \/ Dispatch \/ \E e \in Event : Stage(e)
           \/ \E o \in Op, e \in Posted : Post(o, e)
           \/ Supersede
           \/ Revoke /\ UNCHANGED feedbackVars
           \/ Crash
           \/ UNCHANGED vars
  BY <1>1, <1>4, OutsideCounts
<1>5. ASSUME Next
      PROVE  CountInv'
  <2>1. CASE Feedback /\ UNCHANGED outboxVars
    BY <1>2, <2>1
  <2>2. CASE Dispatch
    BY <1>4, <2>2
  <2>3. CASE Supersede /\ UNCHANGED outboxVars
    BY <1>1, <2>3, OutsideCounts
  <2>4. CASE Revoke /\ UNCHANGED <<feedbackVars, outboxVars>>
    <3>1. Revoke /\ UNCHANGED feedbackVars
      BY <2>4 DEF feedbackVars
    <3>2. QED
      BY <1>1, <3>1, OutsideCounts
  <2>5. CASE (\E e \in Event : Stage(e)) \/ (\E o \in Op, e \in Posted : Post(o, e)) \/ Crash
    BY <1>4, <2>5
  <2>6. QED
    BY <1>3, <1>5, <2>1, <2>2, <2>3, <2>4, <2>5 DEF Next
<1>6. QED
  BY <1>4, <1>5

(* No event is contained twice in the statistics for one admission. *)
THEOREM CountedOnce == Spec => []CountedOncePerAdmission
<1>1. BaseInv /\ CountInv => CountedOncePerAdmission
  <2> SUFFICES ASSUME BaseInv, CountInv, NEW m \in Marker
               PROVE  mem.counted[m] <= 1 /\ disk.counted[m] <= 1
    BY DEF CountedOncePerAdmission
  <2>1. PICK e \in Event, n \in Admission : m = <<e, n>>
    BY DEF Marker
  <2>2. Sound(mem, rows, admitted) /\ Sound(disk, rows, admitted)
    BY DEF CountInv, Copy
  <2>3. QED
    BY <2>1, <2>2 DEF Sound
<1>2. QED
  BY <1>1, CountInitially, CountStays, SpecBase, PTL DEF Spec
=============================================================================
