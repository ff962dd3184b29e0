-------------------------------- MODULE NodeTx --------------------------------
(***************************************************************************)
(* The transmit side of a node: TdmaRadioService with its TdmaTxQueue, in  *)
(* the APP_ACK_SUMMARY mode every profile selects.  Frames the application *)
(* queues are drained in the node's own slot; telemetry stays in a pending *)
(* window until an ACK_SUMMARY covers it, it has been sent MaxAttempts     *)
(* times, or it is too old; one pending frame may be sent again per slot.  *)
(*                                                                         *)
(* Time is counted in frame periods.  Where the code keeps the session     *)
(* time of a send and subtracts it from now, the model keeps the           *)
(* difference: age since the first send, since since the last.  Moving a   *)
(* stamp forward (shiftPendingTimestamps) makes the difference smaller,    *)
(* and a stamp in the future makes it negative, which the code's uint32_t  *)
(* arithmetic reads as a huge age: Exceeds and AtLeast.                    *)
(*                                                                         *)
(* Left out: the link-acknowledged mode, the commands and replies that do  *)
(* not touch this state, counters and logs.                                *)
(***************************************************************************)
EXTENDS AckWindow, Sequences

CONSTANTS QueueDepth,     \* kQueueDepth
          WindowDepth,    \* kReliabilityWindowDepth
          MaxAttempts,    \* reliabilityMaxAttempts: the initial send and retries
          MaxAge,         \* reliabilityMaxAgeMs
          RetryWait,      \* retryWaitMs
          MinRetryGap,    \* kReliabilityMinRetryGapMs
          FreshHoldoff,   \* kReliabilityFreshTrafficHoldoffMs
          HoldFrames,     \* kAckRoundTripFrames
          MaxSends,       \* kMaxSendsPerUpdate
          SlotRoom,       \* what fits in a slot, in units of a short frame
          BundleRoom,     \* what a bundle takes of it
          AppKinds,       \* the kinds of frame the application queues
          MaxId           \* bound: how many of them

ASSUME NodeTxAssumption ==
  /\ QueueDepth \in Nat \ {0} /\ WindowDepth \in Nat \ {0}
  /\ MaxAttempts \in Nat \ {0} /\ MaxSends \in Nat \ {0}
  /\ MaxAge \in Nat /\ RetryWait \in Nat /\ MinRetryGap \in Nat
  /\ FreshHoldoff \in Nat /\ HoldFrames \in Nat
  /\ SlotRoom \in Nat \ {0} /\ BundleRoom \in Nat \ {0}
  /\ MaxId \in Nat
  /\ AppKinds \subseteq
       {"BUNDLE", "STATUS", "WINDOW_BEGIN", "WINDOW_END", "CMD_ACK"}

\* Telemetry (bundles and status reports) carries a sequence number and is kept
\* for retransmission; window markers and command replies are sent once.
TelemetryKinds == {"BUNDLE", "STATUS"}
Kinds == TelemetryKinds \cup {"WINDOW_BEGIN", "WINDOW_END", "CMD_ACK"}

Ids == 1 .. MaxId

\* id tells frames apart that carry the same sequence number.
Frames == [kind : Kinds, seq : Seqs, id : Ids]

Size(f) == IF f.kind = "BUNDLE" THEN BundleRoom ELSE 1

None == [kind |-> "none"]

(***************************************************************************)
(* PendingEntry.  alive is a history variable: the time the entry has been *)
(* pending with the node awake, which no shift changes.                    *)
(***************************************************************************)
Slots == 1 .. WindowDepth

Free == [used |-> FALSE]

IsUsed(e) == e.used

Entry(f, ok) == [used |-> TRUE, frame |-> f, age |-> 0, since |-> 0,
                 attempts |-> 1, sent |-> ok, alive |-> 0]

Entries == [used : {TRUE}, frame : {f \in Frames : f.kind \in TelemetryKinds},
            age : Int, since : Int, attempts : 1 .. MaxAttempts,
            sent : BOOLEAN, alive : Nat]

\* Unsigned comparisons of a time difference that may be negative.
Exceeds(d, limit) == d < 0 \/ d > limit
AtLeast(d, limit) == d < 0 \/ d >= limit
Larger(d, e)      == IF d < 0 <=> e < 0 THEN d > e ELSE d < 0

\* Differences saturate just above the largest limit they are compared with.
Older(d) == IF d > MaxAge THEN d ELSE d + 1

VARIABLES queue,      \* _queue: the frames waiting, oldest first
          pending,    \* _pending
          freshAge,   \* sessionNowMs() - _lastFreshTelemetrySentMs, or -1
          synced,     \* hasSync() && !syncStale()
          room,       \* what is left of this node's slot; 0: not its turn
          retxUsed,   \* _lastRetxAttemptSlotIndex is the current slot
          sends,      \* sendsThisUpdate, or -1 outside drainTxQueue()
          nextSeq,    \* PacketHandler's sequence counter
          nextId,     \* history: the next frame's identity
          air,        \* the frame just sent and whether it was marked RETX
          onAir,      \* history: how often each frame has been on the air
          slotRetx    \* history: retransmissions sent in the current slot

nodeVars == <<queue, pending, freshAge, synced, room, retxUsed, sends,
              nextSeq, nextId, air, onAir, slotRetx>>

Idle == sends = -1

-----------------------------------------------------------------------------
\* Slip: the oldest frame goes one frame too late.
PushedTooLate(q, f) ==
  IF Len(q) > QueueDepth THEN Append(Tail(q), f) ELSE Append(q, f)

\* TdmaTxQueue::enqueue (see TxQueue and DropOldestFifo).
Pushed(q, f) ==
  IF Len(q) >= QueueDepth THEN Append(Tail(q), f) ELSE Append(q, f)

\* Slips: one attempt too many, one too few.
ExpiredLate(e)  == Exceeds(e.age, MaxAge) \/ e.attempts > MaxAttempts
ExpiredEarly(e) == Exceeds(e.age, MaxAge) \/ e.attempts + 1 >= MaxAttempts

Expired(e) == Exceeds(e.age, MaxAge) \/ e.attempts >= MaxAttempts

\* What dropExpiredPending, and the expiry test of pickRetransmitCandidate, leave.
Unexpired(p) ==
  [i \in Slots |-> IF IsUsed(p[i]) /\ Expired(p[i]) THEN Free ELSE p[i]]

\* Nothing pending is unsent and a fresh frame went out a moment ago.
HeldOff ==
  /\ \A i \in Slots : IsUsed(pending[i]) => pending[i].sent
  /\ freshAge # -1 /\ freshAge < FreshHoldoff

\* Slip: the wait for the acknowledgement is forgotten.
ReadyAtOnce(e) == IsUsed(e) /\ ~Expired(e) /\ AtLeast(e.since, MinRetryGap)

Ready(e) ==
  /\ IsUsed(e) /\ ~Expired(e)
  /\ AtLeast(e.since, MinRetryGap)
  /\ e.sent => AtLeast(e.age, RetryWait)

ReadySlots == {i \in Slots : Ready(pending[i])}

\* The entry least recently sent; the first of them.
Candidate ==
  CHOOSE i \in ReadySlots : \A j \in ReadySlots :
    \/ pending[j].since < pending[i].since
    \/ pending[j].since = pending[i].since /\ i <= j

(***************************************************************************)
(* The choice at the top of drainTxQueue's loop.  A retransmission goes    *)
(* first if this slot has not seen one and no WINDOW_BEGIN waits at the    *)
(* head of the queue; if that yields nothing and the queue is empty the    *)
(* code asks for a candidate once more, whatever the slot has seen.        *)
(***************************************************************************)
RetxAllowed ==
  synced /\ ~retxUsed /\ ~(queue # <<>> /\ Head(queue).kind = "WINDOW_BEGIN")

Picking == synced /\ (RetxAllowed \/ queue = <<>>) /\ ~HeldOff

RetxChosen == Picking /\ ReadySlots # {}

FreshChosen == ~RetxChosen /\ queue # <<>>

\* The pending window after that choice: asking for a candidate drops the expired.
PendingAfterPick == IF Picking THEN Unexpired(pending) ELSE pending

\* shiftPendingTimestamps for the frames of the acknowledgement's round trip.
Shifted(p, n) ==
  [i \in Slots |-> IF IsUsed(p[i])
                   THEN [p[i] EXCEPT !.age = @ - n, !.since = @ - n] ELSE p[i]]

\* The slot rememberSentTelemetry writes when every one is in use: the entry
\* with the most attempts, the oldest of those, the first of those.
Replaced(p) ==
  CHOOSE i \in Slots : \A j \in Slots :
    \/ p[j].attempts < p[i].attempts
    \/ /\ p[j].attempts = p[i].attempts
       /\ \/ Larger(p[i].age, p[j].age)
          \/ p[i].age = p[j].age /\ i <= j

\* Slip: the entry of the same number is not looked for.
RememberedTwice(p, f, ok) ==
  LET free == {i \in Slots : ~IsUsed(p[i])}
  IN  IF f.kind \notin TelemetryKinds THEN p
      ELSE IF free # {} THEN [p EXCEPT ![CHOOSE i \in free : TRUE] = Entry(f, ok)]
      ELSE [p EXCEPT ![Replaced(p)] = Entry(f, ok)]

\* rememberSentTelemetry: refresh the entry of the same number, else take the
\* first free slot, else replace one.
Remembered(p, f, ok) ==
  LET same == {i \in Slots : IsUsed(p[i]) /\ p[i].frame.seq = f.seq}
      free == {i \in Slots : ~IsUsed(p[i])}
      first(S) == CHOOSE i \in S : \A j \in S : i <= j
  IN  IF f.kind \notin TelemetryKinds THEN p
      ELSE IF same # {}
      THEN LET i == first(same)
           IN  [p EXCEPT ![i] = IF ok THEN Entry(f, TRUE)
                                ELSE [@ EXCEPT !.frame = f, !.since = 0]]
      ELSE IF free # {} THEN [p EXCEPT ![first(free)] = Entry(f, ok)]
      ELSE [p EXCEPT ![Replaced(p)] = Entry(f, ok)]

\* Slip: the retransmission is not counted.
MarkedUncounted(p, i) ==
  [p EXCEPT ![i] = IF @.sent THEN [@ EXCEPT !.since = 0] ELSE Entry(@.frame, TRUE)]

\* markRetransmitSent
MarkedSent(p, i) ==
  [p EXCEPT ![i] = IF @.sent THEN [@ EXCEPT !.since = 0, !.attempts = p[i].attempts + 1]
                   ELSE Entry(@.frame, TRUE)]

-----------------------------------------------------------------------------
NodeInit ==
  /\ queue = <<>>
  /\ pending = [i \in Slots |-> Free]
  /\ freshAge = -1
  /\ synced = TRUE
  /\ room = 0 /\ retxUsed = FALSE /\ sends = -1
  /\ nextSeq = 0 /\ nextId = 1
  /\ air = None
  /\ onAir = [id \in Ids |-> 0]
  /\ slotRetx = 0

\* enqueueTelemetry.  A bundle or a status report takes the next number when it
\* is encoded, whether or not it stays in the queue.
Enqueue(kind) ==
  /\ Idle /\ nextId \in Ids
  /\ queue' = Pushed(queue, [kind |-> kind, seq |-> nextSeq, id |-> nextId])
  /\ nextId' = nextId + 1
  /\ nextSeq' = IF kind \in TelemetryKinds THEN Advance(nextSeq, 1) ELSE nextSeq
  /\ UNCHANGED <<pending, freshAge, synced, room, retxUsed, sends, air, onAir, slotRetx>>

\* drainTxQueue up to its loop.  Without a fresh TIME_SYNC it is always its turn.
StartUpdate ==
  /\ Idle /\ air = None
  /\ pending' = Unexpired(pending)
  /\ sends' = IF room > 0 \/ ~synced THEN 0 ELSE -1
  /\ UNCHANGED <<queue, freshAge, synced, room, retxUsed, nextSeq, nextId, air, onAir, slotRetx>>

\* The loop has a send left in this update, and the slot has not ended.
MayLoop ==
  /\ ~Idle /\ air = None /\ sends < MaxSends
  /\ IF synced THEN room > 0 ELSE sends = 0

Fits(f) == synced => room >= Size(f)

\* What a frame put on the air leaves behind.
OnAir(f, retx) ==
  /\ air' = [kind |-> f.kind, seq |-> f.seq, id |-> f.id, retx |-> retx]
  /\ onAir' = [onAir EXCEPT ![f.id] = @ + 1]

\* The slot shrinks by the frame's length, and by more if the driver is slow.
Spend(n) == IF synced THEN room' \in {room - n, 0} ELSE UNCHANGED room

\* A pending frame is sent again; the driver reports whether it reached the air.
SendRetx(ok) ==
  /\ MayLoop /\ RetxChosen
  /\ LET f == pending[Candidate].frame
     IN  /\ Fits(f)
         /\ Spend(Size(f))
         /\ IF ok
            THEN /\ pending' = MarkedSent(PendingAfterPick, Candidate)
                 /\ OnAir(f, TRUE)
                 /\ slotRetx' = slotRetx + 1
            ELSE /\ pending' = PendingAfterPick
                 /\ UNCHANGED <<air, onAir, slotRetx>>
  /\ retxUsed' = (retxUsed \/ RetxAllowed)
  /\ sends' = sends + 1
  /\ UNCHANGED <<queue, freshAge, synced, nextSeq, nextId>>

\* It does not fit: the update ends, and the slot's retransmission is used up.
DeferRetx ==
  /\ MayLoop /\ RetxChosen
  /\ ~Fits(pending[Candidate].frame)
  /\ pending' = PendingAfterPick
  /\ retxUsed' = (retxUsed \/ RetxAllowed)
  /\ sends' = -1
  /\ UNCHANGED <<queue, freshAge, synced, room, nextSeq, nextId, air, onAir, slotRetx>>

\* The head of the queue is sent.  A WINDOW_BEGIN that reached the air first
\* holds back what is pending; telemetry is remembered, also when it failed.
SendFresh(ok) ==
  /\ MayLoop /\ FreshChosen
  /\ LET f    == Head(queue)
         held == IF ok /\ f.kind = "WINDOW_BEGIN"
                 THEN Shifted(PendingAfterPick, HoldFrames) ELSE PendingAfterPick
     IN  /\ Fits(f)
         /\ Spend(Size(f))
         /\ pending' = IF synced THEN Remembered(held, f, ok) ELSE held
         /\ freshAge' = IF ok /\ synced THEN 0 ELSE freshAge
         /\ IF ok THEN OnAir(f, FALSE) ELSE UNCHANGED <<air, onAir>>
  /\ queue' = Tail(queue)
  /\ sends' = sends + 1
  /\ UNCHANGED <<synced, retxUsed, nextSeq, nextId, slotRetx>>

\* It does not fit: it goes back to the queue, at the tail, and the update ends.
DeferFresh ==
  /\ MayLoop /\ FreshChosen
  /\ ~Fits(Head(queue))
  /\ queue' = Pushed(Tail(queue), Head(queue))
  /\ pending' = PendingAfterPick
  /\ sends' = -1
  /\ UNCHANGED <<freshAge, synced, room, retxUsed, nextSeq, nextId, air, onAir, slotRetx>>

\* The loop ends: nothing to send, the limit of an update, or the slot's end.
EndUpdate ==
  /\ ~Idle /\ air = None
  /\ ~MayLoop \/ (~RetxChosen /\ ~FreshChosen)
  /\ pending' = IF MayLoop THEN PendingAfterPick ELSE pending
  /\ sends' = -1
  /\ UNCHANGED <<queue, freshAge, synced, room, retxUsed, nextSeq, nextId, air, onAir, slotRetx>>

\* The frame on the air has been heard, or lost.
AirClears ==
  /\ air # None /\ air' = None
  /\ UNCHANGED <<queue, pending, freshAge, synced, room, retxUsed, sends,
                 nextSeq, nextId, onAir, slotRetx>>

\* Time passes within the slot with nothing sent.
SlotShrinks ==
  /\ Idle /\ air = None /\ room > 0
  /\ room' = room - 1
  /\ UNCHANGED <<queue, pending, freshAge, synced, retxUsed, sends, nextSeq, nextId,
                 air, onAir, slotRetx>>

\* A new slot of this node begins, with another slot index.
SlotOpens(r) ==
  /\ Idle /\ air = None /\ room = 0
  /\ room' = r /\ retxUsed' = FALSE /\ slotRetx' = 0
  /\ UNCHANGED <<queue, pending, freshAge, synced, sends, nextSeq, nextId, air, onAir>>

\* A frame period goes by with the node awake, in which drainTxQueue has run out
\* of turn many times and dropped what had expired.
TimePasses ==
  /\ Idle /\ air = None /\ room = 0
  /\ LET kept == Unexpired(pending)
     IN  pending' = [i \in Slots |->
           IF IsUsed(kept[i])
           THEN [kept[i] EXCEPT !.age = Older(@), !.since = Older(@), !.alive = Older(@)]
           ELSE Free]
  /\ freshAge' = IF freshAge \in 0 .. FreshHoldoff - 1 THEN freshAge + 1 ELSE freshAge
  /\ UNCHANGED <<queue, synced, room, retxUsed, sends, nextSeq, nextId, air, onAir, slotRetx>>

\* A standby: the pending stamps are moved by its length (notifyMcuStandby), the
\* stamp of the last fresh frame is not.
StandbyPasses ==
  /\ Idle /\ air = None /\ room = 0
  /\ freshAge' = IF freshAge \in 0 .. FreshHoldoff - 1 THEN freshAge + 1 ELSE freshAge
  /\ UNCHANGED <<queue, pending, synced, room, retxUsed, sends, nextSeq, nextId,
                 air, onAir, slotRetx>>

\* applyAckSummary
Acknowledged(p, base, mask) ==
  [i \in Slots |-> IF IsUsed(p[i]) /\ p[i].sent /\ Covers(base, mask, p[i].frame.seq)
                   THEN Free ELSE p[i]]

ReceiveAck(base, mask) ==
  /\ Idle /\ air = None
  /\ pending' = Acknowledged(pending, base, mask)
  /\ UNCHANGED <<queue, freshAge, synced, room, retxUsed, sends, nextSeq, nextId,
                 air, onAir, slotRetx>>

\* flushTelemetryBuffers, when a soft CMD_RESET runs
Flush ==
  /\ Idle /\ air = None
  /\ queue' = <<>>
  /\ pending' = [i \in Slots |-> Free]
  /\ freshAge' = -1
  /\ UNCHANGED <<synced, room, retxUsed, sends, nextSeq, nextId, air, onAir, slotRetx>>

\* A TIME_SYNC arrives, or the last one has become stale.
SyncChanges ==
  /\ Idle /\ air = None
  /\ synced' = ~synced
  /\ UNCHANGED <<queue, pending, freshAge, room, retxUsed, sends, nextSeq, nextId,
                 air, onAir, slotRetx>>

-----------------------------------------------------------------------------
(***************************************************************************)
(* The node against any base: frames are heard or lost, and an ACK_SUMMARY *)
(* may carry any base and mask.  TelemetryLink closes the loop.            *)
(***************************************************************************)
NodeNext ==
  \/ \E kind \in AppKinds : Enqueue(kind)
  \/ StartUpdate \/ DeferRetx \/ DeferFresh \/ EndUpdate
  \/ \E ok \in BOOLEAN : SendRetx(ok) \/ SendFresh(ok)
  \/ AirClears \/ SlotShrinks \/ TimePasses \/ StandbyPasses
  \/ \E r \in 1 .. SlotRoom : SlotOpens(r)
  \/ \E base \in Seqs, mask \in Masks : ReceiveAck(base, mask)
  \/ Flush \/ SyncChanges

NodeSpec == NodeInit /\ [][NodeNext]_nodeVars

NodeTypeOK ==
  /\ queue \in Seq(Frames) /\ Len(queue) <= QueueDepth
  /\ pending \in [Slots -> Entries \cup {Free}]
  /\ freshAge \in -1 .. FreshHoldoff
  /\ synced \in BOOLEAN
  /\ room \in 0 .. SlotRoom
  /\ retxUsed \in BOOLEAN
  /\ sends \in -1 .. MaxSends
  /\ nextSeq \in Seqs
  /\ nextId \in 1 .. MaxId + 1
  /\ air = None \/ air \in [kind : Kinds, seq : Seqs, id : Ids, retx : BOOLEAN]
  /\ onAir \in [Ids -> Nat]
  /\ slotRetx \in Nat

(***************************************************************************)
(* No frame is put on the air more than MaxAttempts times, however its     *)
(* first send failed, however often it was requeued, held, replaced or     *)
(* refreshed: the duty-cycle and airtime budget of a profile counts on it. *)
(***************************************************************************)
AirBudget == \A id \in Ids : onAir[id] <= MaxAttempts

(***************************************************************************)
(* A sequence number is pending once, although the numbers wrap round      *)
(* while old entries may still be pending: two entries would be cleared by *)
(* one acknowledgement that only one of them earned.                       *)
(***************************************************************************)
OneEntryPerSeq ==
  \A i, j \in Slots :
    IsUsed(pending[i]) /\ IsUsed(pending[j])
      /\ pending[i].frame.seq = pending[j].frame.seq => i = j

(***************************************************************************)
(* What the code is about to drop as expired really has been tried         *)
(* MaxAttempts times, or has been pending that long with the node awake.   *)
(***************************************************************************)
HonestExpiry ==
  \A i \in Slots :
    IsUsed(pending[i]) /\ Expired(pending[i]) =>
      pending[i].attempts >= MaxAttempts \/ pending[i].alive > MaxAge

(***************************************************************************)
(* At most one retransmission per slot (PACKET_RELIABILITY.md, "Retry      *)
(* scheduling").                                                           *)
(***************************************************************************)
OneRetxPerSlot == slotRetx <= 1

(***************************************************************************)
(* WINDOW_END leaves after every bundle queued before it                   *)
(* (SmartFiresNodeApp::updateWindowMarkers).                               *)
(***************************************************************************)
EndAfterBundles ==
  air # None /\ air.kind = "WINDOW_END" =>
    \A i \in DOMAIN queue : queue[i].kind = "BUNDLE" => queue[i].id > air.id

=============================================================================
