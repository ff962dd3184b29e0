------------------------------ MODULE PaceProofs ------------------------------
(***************************************************************************)
(* The pace of the link: when the base misses one slot and nothing else    *)
(* goes wrong, the node sends nothing again.  The argument follows an      *)
(* acknowledgement round its loop:                                         *)
(* - what is pending is on the air, or the base's window covers it: frames *)
(*   leave in the order of their numbers, so each one is heard ahead of    *)
(*   the window (TakenIn);                                                 *)
(* - what the base last told the node covers nothing the node still has    *)
(*   (ToldNothing), so while something is pending the acknowledgement is   *)
(*   due, and a base slot that does not send it has been missed;           *)
(* - so what is pending is no older than the base's slots that have been   *)
(*   missed (Young), unless the base takes the node for asleep, and then   *)
(*   the node has a frame to send in this slot that wakes it up (Waking).  *)
(* The last is why the order matters: a frame that goes back to the tail   *)
(* of the queue is heard behind the window, and then nothing is due        *)
(* (OnlyGapsAreResent is violated).                                        *)
(***************************************************************************)
EXTENDS LinkProofs

\* Nothing at or beyond n, and n is less than half the numbers ahead.
Ahead(w, n) == Below(w, n) /\ 2 * Dist(w.base, n) < SeqSpace

\* A number ahead of the window is not covered, and is when it has been heard.
LEMMA AheadIsNew ==
  ASSUME NEW w \in Windows, NEW n \in Seqs, Ahead(w, n)
  PROVE  ~Covers(w.base, w.mask, n)
  BY NextIsNotCovered DEF Ahead, Below, Windows

LEMMA AheadIsTakenIn ==
  ASSUME NEW w \in Windows, NEW n \in Seqs, w.init => Ahead(w, n)
  PROVE  Covers(Recorded(w, n).base, Recorded(w, n).mask, n)
<1>1. w.init => 2 * Dist(w.base, n) # SeqSpace
  <2>1. w.init => 2 * Dist(w.base, n) < SeqSpace
        BY DEF Ahead
  <2>2. Dist(w.base, n) \in Int
        BY AckWindowAssumption DEF Dist, Seqs, Windows
  <2> QED BY <2>1, <2>2, AckWindowAssumption
<1> QED BY <1>1, HeardIsAcknowledged

\* The next number but one is ahead too.
LEMMA AheadOfNext ==
  ASSUME NEW w \in Windows, NEW n \in Seqs, Ahead(w, n)
  PROVE  Below(w, Advance(n, 1))
<1>1. w.base \in Seqs /\ w.mask \in Masks /\ 2 * Dist(w.base, n) < SeqSpace
      BY DEF Ahead, Windows
<1>2. Dist(w.base, Advance(n, 1)) = Dist(w.base, n) + 1
      BY <1>1, OneMoreBehind
<1>3. Dist(w.base, n) \in Int /\ w.mask \subseteq Int
      BY <1>1, AckWindowAssumption DEF Dist, Seqs, Masks
<1> QED BY <1>2, <1>3 DEF Ahead, Below

-----------------------------------------------------------------------------
Told   == tracker[TheNode].lastSent
Asleep == tracker[TheNode].asleep

\* Nothing goes wrong but that the base misses slots.
Calm == \A kind \in FaultKinds \ {"skip"} : faults[kind] = 0

\* The base's slots missed so far, and the one that may be missed next.
Skipped == faults["skip"]
Missed  == IF phase = "base" THEN Skipped + 1 ELSE Skipped

\* What the node has been told is less than half the numbers behind it.
ToldIsNear == faults["session"] = 0 => (Told.init => 2 * Dist(Told.base, nextSeq) < SeqSpace)

-----------------------------------------------------------------------------
\* Frames leave in the order of their numbers, and WINDOW_END leaves last.
Sorted ==
  /\ \A k, l \in 1 .. Len(queue) : k < l => queue[k].id < queue[l].id
  /\ air # None => \A k \in 1 .. Len(queue) : air.id < queue[k].id

EndsTheQueue ==
  \A k \in 1 .. Len(queue) :
    queue[k].kind = "WINDOW_END" => duty = "draining" /\ k = Len(queue)

EndOnAir == air # None /\ air.kind = "WINDOW_END" => duty = "draining" /\ queue = <<>>

InLine == Sorted /\ EndsTheQueue /\ EndOnAir

\* What is queued or on the air is ahead of the base's window.
NotYetHeard ==
  Window.init =>
    /\ \A k \in 1 .. Len(queue) : queue[k].kind \in TelemetryKinds => Ahead(Window, queue[k].seq)
    /\ air # None /\ air.kind \in TelemetryKinds => Ahead(Window, air.seq)

\* What is pending is on the air, or the base's window covers it.
OnTheAir(f) == air # None /\ air.kind \in TelemetryKinds /\ air.seq = f.seq

TakenIn ==
  \A f \in InWindow(pending) :
    OnTheAir(f) \/ (Window.init /\ Covers(Window.base, Window.mask, f.seq))

\* What the base last told the node covers nothing the node still has.
ToldBelow   == Told.init => Below(Told, nextSeq)
ToldNow     == ackAir # NoAck => Told = Window
ToldNothing == ackAir = NoAck /\ Told.init => \A f \in Live : ~Covers(Told.base, Told.mask, f.seq)

\* Nothing is older than the slots that were missed, the node is not silent
\* while it waits, and no acknowledgement was refused.
Limit     == IF Asleep THEN Skipped ELSE Missed
Young     == \A i \in Slots : IsUsed(pending[i]) => pending[i].age <= Limit
Lately    == Untold(tracker[TheNode]) /\ ~Asleep => tracker[TheNode].quiet <= Missed
NoFailure == tracker[TheNode].fails = 0

\* A node that the base takes for asleep is, or is about to be, or sends a
\* frame in this slot that wakes it up.
Waking ==
  Asleep =>
    \/ duty = "standby"
    \/ duty = "draining" /\ queue = <<>>
    \/ air # None
    \/ /\ queue # <<>>
       /\ phase = "base" \/ (room > 0 /\ (sends = 0 \/ (Idle /\ ~updated)))

Paced ==
  /\ InLine
  /\ NotYetHeard /\ TakenIn
  /\ ToldBelow /\ ToldNow /\ ToldNothing
  /\ Young /\ Lately /\ NoFailure
  /\ Waking
  /\ slotRetx = 0

PaceInv == Calm /\ Skipped <= 1 => Paced

-----------------------------------------------------------------------------
(***************************************************************************)
(* What can happen when the base misses at most one slot.                  *)
(***************************************************************************)
LEMMA CalmBefore ==
  ASSUME LinkTyped, [LinkNext]_vars, Calm'
  PROVE  /\ Calm /\ NothingLost' /\ faults["session"] = 0 /\ faults'["session"] = 0
         /\ Skipped \in Nat /\ Skipped' \in Nat
         /\ Skipped <= Skipped'
         /\ \A kind : Fault(kind) => kind = "skip"
         /\ Fault("skip") => Skipped' = Skipped + 1
<1>1. faults \in [FaultKinds -> 0 .. MaxFaults] /\ MaxFaults \in Nat
      BY TelemetryLinkAssumption DEF LinkTyped, LinkOwnTypes
<1>2. (\E kind : Fault(kind)) \/ faults' = faults
      BY DEF LinkNext, vars, linkVars, NoFault, BasePass, AckHeard, AckLost, NodeSlotComes,
             Sample, NodeUpdates, SendRefused, FrameHeard, FrameLost, SlotPasses, FrameEnds,
             CloseWindow, EnterStandby, Wake, Reboot, SessionChanges
<1>3. ASSUME NEW kind, Fault(kind)
      PROVE  /\ kind \in FaultKinds
             /\ faults' = [faults EXCEPT ![kind] = faults[kind] + 1]
      BY <1>1, <1>3, FaultIsCounted
<1>4. \A kind \in FaultKinds : faults[kind] \in Nat
      BY <1>1
<1>5. ASSUME NEW kind, Fault(kind)
      PROVE  kind = "skip"
  <2>1. faults'[kind] = faults[kind] + 1
        BY <1>1, <1>3, <1>5
  <2>2. kind \in FaultKinds /\ faults[kind] \in Nat
        BY <1>3, <1>4, <1>5
  <2>3. faults'[kind] # 0
        BY <2>1, <2>2
  <2> QED BY <2>2, <2>3 DEF Calm
<1>6. "skip" \in FaultKinds /\ "session" \in FaultKinds
      BY DEF FaultKinds
<1>7. ASSUME Fault("skip")
      PROVE  /\ faults'["skip"] = faults["skip"] + 1
             /\ \A kind \in FaultKinds \ {"skip"} : faults'[kind] = faults[kind]
      BY <1>1, <1>3, <1>6, <1>7
<1>8. CASE Fault("skip")
  <2>1. Calm
        BY <1>7, <1>8 DEF Calm
  <2>2. Skipped' = Skipped + 1 /\ Skipped \in Nat
        BY <1>4, <1>6, <1>7, <1>8 DEF Skipped
  <2>3. Skipped' \in Nat /\ Skipped <= Skipped'
        BY <2>2
  <2>4. NothingLost' /\ faults["session"] = 0 /\ faults'["session"] = 0
        BY <2>1 DEF Calm, NothingLost, FaultKinds
  <2> QED BY <1>5, <2>1, <2>2, <2>3, <2>4
<1>9. CASE ~Fault("skip")
  <2>1. faults' = faults
        BY <1>2, <1>5, <1>9
  <2>2. Calm /\ Skipped' = Skipped /\ Skipped \in Nat
        BY <1>4, <1>6, <2>1 DEF Calm, Skipped
  <2>3. Skipped <= Skipped'
        BY <2>2
  <2>4. NothingLost' /\ faults["session"] = 0 /\ faults'["session"] = 0
        BY <2>1, <2>2 DEF Calm, NothingLost, FaultKinds
  <2> QED BY <1>5, <1>9, <2>2, <2>3, <2>4
<1> QED BY <1>8, <1>9

\* The retry wait outlasts the slots that were missed.
LEMMA NothingIsReady ==
  ASSUME AirInv, AllSent(pending), Young, phase = "node",
         Skipped \in Nat, Skipped <= 1, RetryWait >= 2
  PROVE  ~RetxChosen
<1> SUFFICES ASSUME NEW i \in Slots, Ready(pending[i])  PROVE FALSE
    BY DEF RetxChosen, ReadySlots
<1>1. IsUsed(pending[i]) /\ ~Expired(pending[i]) /\ pending[i].sent
      BY DEF Ready, AllSent
<1>2. pending[i].age <= Limit /\ Limit = Skipped
      BY <1>1 DEF Young, Limit, Missed
<1>3. pending[i].age \in Int
  <2>1. pending[i] \in EntryShape
        BY <1>1, SlotIsTyped DEF AirInv, PendingOK
  <2> QED BY <2>1, EntryIsTyped
<1>4. AtLeast(pending[i].age, RetryWait) /\ ~Exceeds(pending[i].age, MaxAge)
      BY <1>1 DEF Ready, Expired
<1> QED BY <1>2, <1>3, <1>4, NodeTxAssumption DEF AtLeast, Exceeds

Adds == (\E kind \in AppKinds : Sample(kind)) \/ CloseWindow \/ Wake

CalmNext ==
  \/ BasePass \/ AckHeard \/ NodeSlotComes \/ Adds
  \/ NodeUpdates /\ (StartUpdate \/ SendFresh(TRUE) \/ EndUpdate) /\ ~RetxChosen
  \/ FrameHeard \/ SlotPasses \/ FrameEnds
  \/ EnterStandby /\ queue = <<>>
  \/ UNCHANGED vars

LEMMA CalmSteps ==
  ASSUME LinkTyped, Turns, QuietInv, Paced, [LinkNext /\ ~DeferFresh]_vars,
         Calm', Skipped' <= 1, RetryWait >= 2
  PROVE  CalmNext
<1>0. [LinkNext]_vars
      OBVIOUS
<1>1. /\ NothingLost' /\ Skipped \in Nat /\ Skipped <= 1
      /\ \A kind : Fault(kind) => kind = "skip"
  <2>1. Skipped \in Nat /\ Skipped' \in Nat /\ Skipped <= Skipped'
        BY <1>0, CalmBefore
  <2>2. Skipped <= 1
        BY <2>1
  <2> QED BY <1>0, <2>1, <2>2, CalmBefore
<1>2. NothingLost /\ AllSent(pending)
      BY <1>0, <1>1, NothingWasLost DEF QuietInv
<1>3. ~SendRefused /\ ~FrameLost /\ ~Reboot /\ ~SessionChanges
      BY <1>1 DEF SendRefused, FrameLost, Reboot, SessionChanges
<1>4. ~AckLost
      BY <1>1, <1>2 DEF AckLost, QuietInv, InStandby
<1>5. EnterStandby => queue = <<>>
      BY <1>1 DEF EnterStandby
<1>6. NodeUpdates => ~RetxChosen
      BY <1>1, <1>2, NothingIsReady DEF NodeUpdates, LinkTyped, Paced
<1>7. ASSUME NodeUpdates, ~DeferFresh
      PROVE  (StartUpdate \/ SendFresh(TRUE) \/ EndUpdate) /\ ~RetxChosen
      BY <1>6, <1>7 DEF NodeUpdates, SendRetx, DeferRetx
<1> QED BY <1>3, <1>4, <1>5, <1>7 DEF LinkNext, CalmNext, Adds

-----------------------------------------------------------------------------
\* What an enqueue does.
LEMMA AddsOne ==
  ASSUME LinkTyped, Turns, Adds
  PROVE  /\ air = None /\ air' = None
         /\ UNCHANGED <<baseVars, pending, phase, updated, room, sends, faults, slotRetx>>
         /\ duty # "draining" /\ (duty = "active" \/ phase = "base")
         /\ \E kind \in Kinds :
              /\ Enqueue(kind) /\ NewFrame(kind) \in Frames
              /\ queue' = Pushed(queue, NewFrame(kind))
              /\ kind = "WINDOW_END" => duty' = "draining"
<1>1. AirInv /\ AppKinds \subseteq TelemetryKinds
      BY TelemetryLinkAssumption DEF LinkTyped
<1>2. PICK kind \in Kinds : /\ Enqueue(kind)
                            /\ kind = "WINDOW_END" => duty' = "draining"
  <2>1. CASE \E kind \in AppKinds : Sample(kind)
        BY <1>1, <2>1 DEF Sample, TelemetryKinds, Kinds
  <2>2. CASE CloseWindow \/ Wake
        BY <2>2 DEF CloseWindow, Wake, Kinds
  <2> QED BY <2>1, <2>2 DEF Adds
<1>3. NewFrame(kind) \in Frames
      BY <1>1, <1>2, EnqueueAddsOne
<1>4. queue' = Pushed(queue, NewFrame(kind)) /\ Idle
      BY <1>2 DEF Enqueue, NewFrame
<1>5. air = None /\ air' = None
      BY <1>2, <1>4 DEF Turns, Enqueue
<1>6. UNCHANGED <<baseVars, pending, phase, updated, room, sends, faults, slotRetx>>
      BY <1>2 DEF Enqueue, Adds, Sample, CloseWindow, Wake, linkVars
<1>7. duty # "draining" /\ (duty = "active" \/ phase = "base")
      BY DEF Adds, Sample, CloseWindow, Wake
<1> QED BY <1>2, <1>3, <1>4, <1>5, <1>6, <1>7

\* The frames of a queue that was pushed are those of the queue, moved by one
\* at most, and the new one.
LEMMA PushedInOrder ==
  ASSUME NEW q \in Seq(Frames), NEW f \in Frames
  PROVE  LET p == Pushed(q, f)
         IN  /\ Len(p) \in Nat \ {0} /\ p[Len(p)] = f
             /\ \E d \in {0, 1} : \A k \in 1 .. Len(p) :
                  k # Len(p) => k + d \in 1 .. Len(q) /\ p[k] = q[k + d]
<1>1. CASE Len(q) >= QueueDepth
  <2>1. q # <<>> /\ Pushed(q, f) = Append(Tail(q), f)
        BY <1>1, NodeTxAssumption DEF Pushed
  <2>2. /\ Len(q) \in Nat \ {0} /\ Len(Append(Tail(q), f)) = Len(q)
        /\ Append(Tail(q), f)[Len(q)] = f
        /\ \A k \in 1 .. Len(q) : k # Len(q) => Append(Tail(q), f)[k] = q[k + 1]
        BY <2>1
  <2>3. \A n \in Nat : \A k \in 1 .. n : k # n => k + 1 \in 1 .. n
        OBVIOUS
  <2> QED BY <2>1, <2>2, <2>3
<1>2. CASE ~(Len(q) >= QueueDepth)
  <2>1. Pushed(q, f) = Append(q, f)
        BY <1>2 DEF Pushed
  <2>2. /\ Len(q) \in Nat /\ Len(Append(q, f)) = Len(q) + 1
        /\ Append(q, f)[Len(q) + 1] = f
        /\ \A k \in 1 .. Len(q) : Append(q, f)[k] = q[k]
        OBVIOUS
  <2>3. \A k \in 1 .. Len(q) + 1 : k # Len(q) + 1 => k + 0 \in 1 .. Len(q) /\ k + 0 = k
        BY <2>2
  <2> QED BY <2>1, <2>2, <2>3
<1> QED BY <1>1, <1>2

LEMMA TailInOrder ==
  ASSUME NEW q \in Seq(Frames), q # <<>>
  PROVE  /\ Head(q) = q[1] /\ 1 \in 1 .. Len(q)
         /\ Len(Tail(q)) = Len(q) - 1 /\ Len(q) \in Nat \ {0}
         /\ \A k \in 1 .. Len(Tail(q)) : k + 1 \in 1 .. Len(q) /\ Tail(q)[k] = q[k + 1]
<1>1. /\ Len(q) \in Nat \ {0} /\ Len(Tail(q)) = Len(q) - 1 /\ Head(q) = q[1]
      /\ \A k \in 1 .. Len(Tail(q)) : Tail(q)[k] = q[k + 1]
      OBVIOUS
<1>2. 1 \in 1 .. Len(q) /\ \A k \in 1 .. Len(Tail(q)) : k + 1 \in 1 .. Len(q)
      BY <1>1
<1> QED BY <1>1, <1>2

LEMMA LineAdds ==
  ASSUME LinkTyped, Turns, InLine, Adds
  PROVE  InLine'
<1>1. AirInv /\ queue \in Seq(Frames) /\ \A k \in 1 .. Len(queue) : queue[k].id < nextId
      BY DEF LinkTyped, AirInv, QueueOK
<1>2. PICK kind \in Kinds : /\ Enqueue(kind) /\ NewFrame(kind) \in Frames
                            /\ queue' = Pushed(queue, NewFrame(kind))
                            /\ kind = "WINDOW_END" => duty' = "draining"
      BY AddsOne
<1>3. air' = None /\ duty # "draining"
      BY AddsOne
<1>4. NewFrame(kind).id = nextId /\ NewFrame(kind).kind = kind
      BY DEF NewFrame
<1> DEFINE p == Pushed(queue, NewFrame(kind))
<1>5. Len(p) \in Nat \ {0} /\ p[Len(p)] = NewFrame(kind)
      BY <1>1, <1>2, PushedInOrder
<1>6. PICK d \in {0, 1} : \A k \in 1 .. Len(p) :
                  k # Len(p) => k + d \in 1 .. Len(queue) /\ p[k] = queue[k + d]
      BY <1>1, <1>2, PushedInOrder
<1> HIDE DEF p
<1>7. ASSUME NEW k \in 1 .. Len(p), NEW l \in 1 .. Len(p), k < l
      PROVE  p[k].id < p[l].id
  <2>1. k # Len(p) /\ k + d < l + d /\ k + d \in 1 .. Len(queue) /\ p[k] = queue[k + d]
        BY <1>5, <1>6, <1>7
  <2>2. CASE l = Len(p)
        BY <1>1, <1>4, <1>5, <2>1, <2>2
  <2>3. CASE l # Len(p)
    <3>1. l + d \in 1 .. Len(queue) /\ p[l] = queue[l + d]
          BY <1>6, <2>3
    <3> QED BY <2>1, <3>1 DEF InLine, Sorted
  <2> QED BY <2>2, <2>3
<1>8. ASSUME NEW k \in 1 .. Len(p), p[k].kind = "WINDOW_END"
      PROVE  duty' = "draining" /\ k = Len(p)
  <2>1. CASE k # Len(p)
        BY <1>3, <1>6, <1>8, <2>1 DEF InLine, EndsTheQueue
  <2>2. CASE k = Len(p)
        BY <1>2, <1>4, <1>5, <1>8, <2>2
  <2> QED BY <2>1, <2>2
<1>9. queue' = p
      BY <1>2 DEF p
<1> QED BY <1>3, <1>7, <1>8, <1>9 DEF InLine, Sorted, EndsTheQueue, EndOnAir

LEMMA LineSends ==
  ASSUME LinkTyped, InLine, SendFresh(TRUE), duty' = duty
  PROVE  InLine'
<1>1. queue \in Seq(Frames) /\ queue # <<>> /\ queue' = Tail(queue)
      BY DEF LinkTyped, AirInv, QueueOK, SendFresh, FreshChosen
<1>2. /\ Head(queue) = queue[1] /\ 1 \in 1 .. Len(queue)
      /\ Len(queue') = Len(queue) - 1 /\ Len(queue) \in Nat \ {0}
      /\ \A k \in 1 .. Len(queue') : k + 1 \in 1 .. Len(queue) /\ queue'[k] = queue[k + 1]
      BY <1>1, TailInOrder
<1>3. air'.id = queue[1].id /\ air'.kind = queue[1].kind
      BY <1>2 DEF SendFresh, OnAir
<1>4. ASSUME NEW k \in 1 .. Len(queue'), NEW l \in 1 .. Len(queue'), k < l
      PROVE  queue'[k].id < queue'[l].id
  <2>1. k + 1 < l + 1
        BY <1>2, <1>4
  <2> QED BY <1>2, <2>1 DEF InLine, Sorted
<1>5. ASSUME NEW k \in 1 .. Len(queue')
      PROVE  air'.id < queue'[k].id
  <2>1. 1 < k + 1
        BY <1>2
  <2> QED BY <1>2, <1>3, <2>1 DEF InLine, Sorted
<1>6. ASSUME NEW k \in 1 .. Len(queue'), queue'[k].kind = "WINDOW_END"
      PROVE  duty = "draining" /\ k = Len(queue')
  <2>1. duty = "draining" /\ k + 1 = Len(queue)
        BY <1>2, <1>6 DEF InLine, EndsTheQueue
  <2> QED BY <1>2, <2>1
<1>7. ASSUME air'.kind = "WINDOW_END"
      PROVE  duty = "draining" /\ queue' = <<>>
  <2>1. duty = "draining" /\ 1 = Len(queue)
        BY <1>2, <1>3, <1>7 DEF InLine, EndsTheQueue
  <2> QED BY <1>1, <2>1
<1> QED BY <1>4, <1>5, <1>6, <1>7 DEF InLine, Sorted, EndsTheQueue, EndOnAir

\* The steps that leave the line as it is.
LEMMA LineStays ==
  ASSUME CalmNext, ~Adds, ~(NodeUpdates /\ SendFresh(TRUE))
  PROVE  /\ queue' = queue /\ (FrameHeard \/ air' = air)
         /\ air' = air \/ air' = None
         /\ duty' = duty \/ (EnterStandby /\ queue = <<>> /\ air = None)
<1>1. CASE BasePass \/ AckHeard \/ NodeSlotComes
      BY <1>1 DEF BasePass, AckHeard, ReceiveAck, NodeSlotComes, SlotOpens, nodeVars
<1>2. CASE NodeUpdates /\ (StartUpdate \/ EndUpdate)
      BY <1>2 DEF NodeUpdates, StartUpdate, EndUpdate
<1>3. CASE FrameHeard
      BY <1>3 DEF FrameHeard, AirClears
<1>4. CASE SlotPasses \/ FrameEnds
      BY <1>4 DEF SlotPasses, FrameEnds, SlotShrinks, TimePasses, StandbyPasses, linkVars
<1>5. CASE EnterStandby /\ queue = <<>>
      BY <1>5 DEF EnterStandby
<1>6. CASE UNCHANGED vars
      BY <1>6 DEF vars, nodeVars, linkVars
<1> QED BY <1>1, <1>2, <1>3, <1>4, <1>5, <1>6 DEF CalmNext

LEMMA LineNext ==
  ASSUME LinkTyped, Turns, InLine, CalmNext
  PROVE  InLine'
<1>1. CASE Adds
      BY <1>1, LineAdds
<1>2. CASE NodeUpdates /\ SendFresh(TRUE)
      BY <1>2, LineSends DEF NodeUpdates
<1>3. CASE ~Adds /\ ~(NodeUpdates /\ SendFresh(TRUE))
  <2>1. /\ queue' = queue /\ (air' = air \/ air' = None)
        /\ duty' = duty \/ (queue = <<>> /\ air = None)
        BY <1>3, LineStays
  <2> QED BY <2>1 DEF InLine, Sorted, EndsTheQueue, EndOnAir
<1> QED BY <1>1, <1>2, <1>3

-----------------------------------------------------------------------------
\* What the steps leave of the tracker.
Same(u, t) ==
  u.win = t.win /\ u.lastSent = t.lastSent /\ u.asleep = t.asleep /\ u.fails = t.fails

LEMMA SuppressedFields ==
  ASSUME NEW t \in Trackers
  PROVE  Same(Suppressed(t), t) /\ Suppressed(t).quiet = t.quiet
  BY Zenon DEF Suppressed, Same, Trackers

LEMMA LaterFields ==
  ASSUME NEW t \in Trackers
  PROVE  /\ Same(Later(t), t) /\ t.quiet \in Int
         /\ Later(t).quiet \in Int /\ Later(t).quiet <= t.quiet + 1
<1>1. LET u == [t EXCEPT !.quiet = t.quiet + 1]
      IN  Same(u, t) /\ u.quiet = t.quiet + 1
      BY Zenon DEF Same, Trackers
<1>2. t.quiet \in Int /\ Same(t, t)
      BY Zenon DEF Same, Trackers
<1>3. Same(Later(t), t) /\ Later(t).quiet \in {t.quiet, t.quiet + 1}
      BY <1>1, <1>2, Zenon DEF Later
<1>4. Later(t).quiet \in Int /\ Later(t).quiet <= t.quiet + 1
      BY <1>2, <1>3
<1> QED BY <1>2, <1>3, <1>4

LEMMA AckedFields ==
  ASSUME NEW t \in Trackers
  PROVE  /\ Acked(t).win = t.win /\ Acked(t).lastSent = t.win
         /\ Acked(t).asleep = t.asleep /\ Acked(t).fails = 0 /\ Acked(t).quiet = t.quiet
  BY Zenon DEF Acked, Trackers

LEMMA TelemetryFields ==
  ASSUME NEW t \in Trackers, NEW s, NEW retx
  PROVE  /\ HeardTelemetry(t, s, retx).lastSent = t.lastSent
         /\ HeardTelemetry(t, s, retx).quiet = 0
         /\ HeardTelemetry(t, s, retx).fails = 0
         /\ HeardTelemetry(t, s, retx).win = Recorded(t.win, s)
         /\ ~HeardTelemetry(t, s, retx).asleep
  BY Zenon DEF HeardTelemetry, Trackers

LEMMA MarkerFields ==
  ASSUME NEW t \in Trackers, NEW u, u = HeardEnd(t) \/ u = HeardBegin(t)
  PROVE  /\ u.lastSent = t.lastSent /\ u.quiet = 0 /\ u.fails \in {0, t.fails}
         /\ u.win = t.win /\ (u = HeardBegin(t) => ~u.asleep)
<1>1. CASE u = HeardEnd(t)
      BY <1>1, Zenon DEF HeardEnd, HeardBegin, Trackers
<1>2. CASE u = HeardBegin(t)
      BY <1>2, Zenon DEF HeardBegin, Trackers
<1> QED BY <1>1, <1>2

\* A pass that refuses nothing sends the acknowledgement, leaves it for the
\* next one, or has none to send.
PassSends ==
  LET t == tracker[TheNode]
      u == tracker'[TheNode]
  IN  /\ t.win.init /\ u.win = t.win /\ u.lastSent = t.win /\ u.asleep = t.asleep
      /\ u.fails = 0 /\ u.quiet = t.quiet
      /\ ackAir' # NoAck

LEMMA CalmPass ==
  ASSUME LinkTyped, BasePass, ~Fault("refusal")
  PROVE  \/ PassSends
         \/ /\ Same(tracker'[TheNode], tracker[TheNode])
            /\ tracker'[TheNode].quiet = tracker[TheNode].quiet
            /\ ackAir' = ackAir
<1> DEFINE t == tracker[TheNode]
<1>1. t \in Trackers /\ AllGood /\ TheNode \in Nodes /\ TheNode = 0
      BY OneNode DEF LinkTyped, AllGood, TheNode
<1>2. Turn(0) = TheNode /\ 0 \in 0 .. NumNodes - 1
  <2>1. 0 \in 0 .. NumNodes - 1
        BY BaseAckAssumption
  <2> QED BY <1>1, <2>1, TurnIsNode, OneNode
<1>3. CASE AckPassSends(0)
  <2>1. /\ Due(t) /\ tracker' = AfterLoop(0, Acked(t))
        /\ ackAir' = [node |-> TheNode, base |-> t.win.base, mask |-> t.win.mask]
        BY <1>2, <1>3 DEF AckPassSends
  <2>2. tracker'[TheNode] = Acked(t)
    <3>1. AfterLoop(0, Acked(t))[TheNode] = Acked(t)
      <4>1. ~(\E j \in 0 .. 0 - 1 : Turn(j) = TheNode) /\ 0 < NumNodes
            BY BaseAckAssumption
      <4> QED BY <1>1, <1>2, <4>1, Zenon DEF AfterLoop
    <3> QED BY <2>1, <3>1
  <2>3. ackAir' # NoAck
    <3>1. ackAir'.node = TheNode /\ NoAck.node = -1 /\ TheNode = 0
          BY <2>1 DEF NoAck, TheNode
    <3> QED BY <3>1
  <2>4. t.win.init
        BY <2>1 DEF Due, Eligible
  <2>5. PassSends
    <3>1. /\ Acked(t).win = t.win /\ Acked(t).lastSent = t.win
          /\ Acked(t).asleep = t.asleep /\ Acked(t).fails = 0 /\ Acked(t).quiet = t.quiet
          BY <1>1, AckedFields, Zenon
    <3> QED BY <2>2, <2>3, <2>4, <3>1, Zenon DEF PassSends
  <2> QED BY <2>5
<1>4. Same(t, t)
      BY DEF Same
<1>5. CASE AckPassOutOfTime(0)
  <2>1. tracker' = AfterLoop(0, t) /\ ackAir' = ackAir
        BY <1>2, <1>5 DEF AckPassOutOfTime
  <2>2. AfterLoop(0, t)[TheNode] = t
    <3>1. ~(\E j \in 0 .. 0 - 1 : Turn(j) = TheNode)
          OBVIOUS
    <3> QED BY <1>1, <3>1, Zenon DEF AfterLoop
  <2> QED BY <1>4, <2>1, <2>2
<1>6. CASE AckPassEnds /\ ~Due(t)
  <2>1. tracker' = AfterLoop(NumNodes, t) /\ ackAir' = ackAir
        BY <1>1, <1>6 DEF AckPassEnds
  <2>2. AfterLoop(NumNodes, t)[TheNode] \in {PassedOver(t), t}
        BY <1>1, Zenon DEF AfterLoop
  <2>3. PassedOver(t) \in {Suppressed(t), t}
        BY <1>6, Zenon DEF PassedOver
  <2>4. tracker'[TheNode] \in {Suppressed(t), t}
        BY <2>1, <2>2, <2>3
  <2>5. Same(Suppressed(t), t) /\ Suppressed(t).quiet = t.quiet
        BY <1>1, SuppressedFields, Zenon
  <2> QED BY <1>4, <2>1, <2>4, <2>5
<1>7. CASE RateLimitEnds
      BY <1>4, <1>7 DEF RateLimitEnds
<1> QED BY <1>3, <1>5, <1>6, <1>7 DEF BasePass

\* What hearing the frame on the air does to the tracker.
LEMMA CalmHears ==
  ASSUME LinkTyped, FrameHeard
  PROVE  LET t == tracker[TheNode]
             u == tracker'[TheNode]
         IN  /\ u.lastSent = t.lastSent /\ u.quiet = 0 /\ u.fails \in {0, t.fails}
             /\ \/ /\ air.kind \in TelemetryKinds /\ ~u.asleep
                   /\ u.win = Recorded(t.win, air.seq)
                \/ /\ air.kind \notin TelemetryKinds /\ u.win = t.win
                   /\ u.asleep => air.kind = "WINDOW_END"
<1> DEFINE t == tracker[TheNode]
           u == tracker'[TheNode]
<1>1. t \in Trackers /\ tracker \in [Nodes -> Trackers] /\ TheNode \in Nodes
      BY OneNode DEF LinkTyped, AllGood
<1>2. CASE air.kind \in TelemetryKinds /\ HearTelemetry(TheNode, air.seq, air.retx)
  <2>1. u = HeardTelemetry(t, air.seq, air.retx)
        BY <1>1, <1>2 DEF HearTelemetry
  <2> HIDE DEF t, u
  <2>2. /\ u.lastSent = t.lastSent /\ u.quiet = 0 /\ u.fails = 0
        /\ u.win = Recorded(t.win, air.seq) /\ ~u.asleep
        BY <1>1, <2>1, TelemetryFields
  <2> QED BY <1>2, <2>2, Zenon DEF t, u
<1>3. CASE air.kind = "WINDOW_END" /\ HearEnd(TheNode)
  <2>1. u = HeardEnd(t)
        BY <1>1, <1>3 DEF HearEnd
  <2> HIDE DEF t, u
  <2>2. /\ u.lastSent = t.lastSent /\ u.quiet = 0 /\ u.fails \in {0, t.fails}
        /\ u.win = t.win
        BY <1>1, <2>1, MarkerFields, Zenon
  <2>3. air.kind \notin TelemetryKinds
        BY <1>3 DEF TelemetryKinds
  <2> QED BY <1>3, <2>2, <2>3, Zenon DEF t, u
<1>4. CASE air.kind = "WINDOW_BEGIN" /\ HearBegin(TheNode)
  <2>1. u = HeardBegin(t)
        BY <1>1, <1>4 DEF HearBegin
  <2> HIDE DEF t, u
  <2>2. /\ u.lastSent = t.lastSent /\ u.quiet = 0 /\ u.fails \in {0, t.fails}
        /\ u.win = t.win /\ ~u.asleep
        BY <1>1, <2>1, MarkerFields, Zenon
  <2>3. air.kind \notin TelemetryKinds
        BY <1>4 DEF TelemetryKinds
  <2> QED BY <2>2, <2>3, Zenon DEF t, u
<1> QED BY <1>2, <1>3, <1>4 DEF FrameHeard

LEMMA CalmTick ==
  ASSUME LinkTyped, FrameEnds
  PROVE  LET t == tracker[TheNode]
             u == tracker'[TheNode]
         IN  /\ Same(u, t) /\ u.quiet \in Int /\ t.quiet \in Int
             /\ u.quiet <= t.quiet + 1 /\ ackAir' = ackAir
<1>1. tracker[TheNode] \in Trackers /\ TheNode \in Nodes
      BY OneNode DEF LinkTyped, AllGood
<1>2. tracker'[TheNode] = Later(tracker[TheNode]) /\ ackAir' = ackAir
      BY <1>1 DEF FrameEnds, BaseTick
<1> QED BY <1>1, <1>2, LaterFields, Zenon

LEMMA CalmElse ==
  ASSUME CalmNext, ~BasePass, ~FrameHeard, ~FrameEnds
  PROVE  tracker' = tracker /\ (AckHeard \/ ackAir' = ackAir)
  BY DEF CalmNext, AckHeard, AckClears, NodeSlotComes, Adds, Sample, CloseWindow, Wake,
         NodeUpdates, SlotPasses, EnterStandby, vars, baseVars

-----------------------------------------------------------------------------
\* A fresh frame is remembered, in a window that holds no other news.
LEMMA FreshRemembers ==
  ASSUME AirInv, synced, SendFresh(TRUE)
  PROVE  /\ Similar(Held(Head(queue)), pending)
         /\ \/ pending' = Held(Head(queue))
            \/ /\ Head(queue) \in Telemetry
               /\ \E i \in Slots : pending' = NewAt(Held(Head(queue)), i, Head(queue), TRUE)
<1> DEFINE f == Head(queue)
           p == Held(f)
<1>1. f \in Frames
      BY DEF AirInv, QueueOK, SendFresh, FreshChosen
<1>2. Similar(p, pending)
      BY HeldIsSimilar
<1>3. p \in [Slots -> EntryShape \cup {Free}]
      BY <1>2 DEF Similar
<1>4. OneEach(p)
      BY <1>2, SimilarIsOK DEF AirInv, PendingOK
<1>5. pending' = Remembered(p, f, TRUE)
      BY DEF SendFresh, Held
<1> HIDE DEF p, f
<1>6. \/ pending' = p
      \/ f \in Telemetry /\ \E i \in Slots : pending' = NewAt(p, i, f, TRUE)
      BY <1>1, <1>3, <1>4, <1>5, RememberedWrites
<1> QED BY <1>2, <1>6 DEF p, f

LEMMA FreshIsPending ==
  ASSUME AirInv, synced, SendFresh(TRUE), NEW g \in InWindow(pending')
  PROVE  g \in InWindow(pending) \/ (g = Head(queue) /\ g.kind \in TelemetryKinds)
<1> DEFINE f == Head(queue)
           p == Held(f)
<1>1. /\ Similar(p, pending)
      /\ \/ pending' = p
         \/ f \in Telemetry /\ \E i \in Slots : pending' = NewAt(p, i, f, TRUE)
      BY FreshRemembers
<1> HIDE DEF p, f
<1>2. InWindow(p) \subseteq InWindow(pending) /\ p \in [Slots -> EntryShape \cup {Free}]
      BY <1>1, SimilarHasNoMore DEF Similar
<1>3. ASSUME NEW i \in Slots, f \in Telemetry, pending' = NewAt(p, i, f, TRUE)
      PROVE  g \in InWindow(p) \/ (g = f /\ g.kind \in TelemetryKinds)
  <2>1. Entry(f, TRUE) \in EntryShape /\ Entry(f, TRUE).frame = f
        BY <1>3, NewEntry
  <2>2. g \in InWindow(p) \cup {f}
        BY <1>2, <1>3, <2>1, PutHasOneMore DEF NewAt
  <2> QED BY <1>3, <2>2 DEF Telemetry
<1> QED BY <1>1, <1>2, <1>3 DEF f

\* The frame on the air is behind the next number, and before what is queued.
LEMMA AirIsBehind ==
  ASSUME LinkTyped, AirIsPending, Near(nextSeq), InOrder(Live, nextSeq),
         air # None, air.kind \in TelemetryKinds
  PROVE  /\ air.seq \in Seqs /\ nextSeq \in Seqs
         /\ 2 * Dist(air.seq, nextSeq) < SeqSpace /\ Dist(air.seq, nextSeq) >= 1
         /\ InLine => \A k \in 1 .. Len(queue) : queue[k].kind \in TelemetryKinds =>
              /\ queue[k].seq \in Seqs
              /\ 2 * Dist(air.seq, queue[k].seq) < SeqSpace
              /\ Dist(air.seq, queue[k].seq) >= 1
<1>1. AirInv /\ nextSeq \in Seqs
      BY DEF LinkTyped, AirInv
<1>2. PICK x \in Live : x.seq = air.seq /\ x.id = air.id
      BY <1>1, WindowIsLive DEF AirIsPending
<1>3. /\ air.seq \in Seqs /\ 2 * Dist(air.seq, nextSeq) < SeqSpace
      /\ Dist(air.seq, nextSeq) >= 1
      BY <1>1, <1>2, LiveIsTyped DEF Near, InOrder
<1>4. ASSUME InLine, NEW k \in 1 .. Len(queue), queue[k].kind \in TelemetryKinds
      PROVE  /\ queue[k].seq \in Seqs
             /\ 2 * Dist(air.seq, queue[k].seq) < SeqSpace
             /\ Dist(air.seq, queue[k].seq) >= 1
  <2> DEFINE f == queue[k]
  <2>1. f \in Live
        BY <1>4 DEF Live, LiveOf, InQueue
  <2>2. x.id < f.id
        BY <1>2, <1>4 DEF InLine, Sorted
  <2> HIDE DEF f
  <2>3. f.seq \in Seqs /\ 2 * Dist(f.seq, nextSeq) < SeqSpace /\ Dist(f.seq, nextSeq) >= 1
        BY <1>1, <2>1, LiveIsTyped DEF Near, InOrder
  <2>4. Dist(air.seq, nextSeq) > Dist(f.seq, nextSeq)
        BY <1>2, <2>1, <2>2 DEF InOrder
  <2>5. /\ Dist(air.seq, nextSeq) \in Nat /\ Dist(f.seq, nextSeq) \in Nat
        BY <1>1, <1>3, <2>3, BehindIsOrdered
  <2>6. Dist(air.seq, f.seq) = Dist(air.seq, nextSeq) - Dist(f.seq, nextSeq)
    <3>1. Dist(air.seq, nextSeq) >= Dist(f.seq, nextSeq)
          BY <2>4, <2>5
    <3> QED BY <1>1, <1>3, <2>3, <3>1, BehindIsOrdered
  <2>7. 2 * Dist(air.seq, f.seq) < SeqSpace /\ Dist(air.seq, f.seq) >= 1
        BY <1>3, <2>4, <2>5, <2>6, AckWindowAssumption
  <2> QED BY <2>3, <2>7 DEF f
<1> QED BY <1>1, <1>3, <1>4

LEMMA WindowIsTyped ==
  ASSUME LinkTyped
  PROVE  Window \in Windows /\ Told \in Windows /\ tracker[TheNode] \in Trackers
<1>1. tracker[TheNode] \in Trackers
      BY OneNode DEF LinkTyped, AllGood
<1> QED BY <1>1, Zenon DEF Trackers, Window, Told

\* What is queued stays ahead of the window that hears the frame on the air.
LEMMA QueuedStaysAhead ==
  ASSUME LinkTyped, AirIsPending, Near(nextSeq), InOrder(Live, nextSeq), InLine, NotYetHeard,
         air # None, air.kind \in TelemetryKinds,
         NEW k \in 1 .. Len(queue), queue[k].kind \in TelemetryKinds
  PROVE  Ahead(Recorded(Window, air.seq), queue[k].seq)
<1> DEFINE n == queue[k].seq
           s == air.seq
<1>1. /\ s \in Seqs /\ n \in Seqs /\ 2 * Dist(s, n) < SeqSpace /\ Dist(s, n) >= 1
      BY AirIsBehind
<1>2. Window \in Windows /\ (Window.init => Below(Window, n) /\ 2 * Dist(Window.base, n) < SeqSpace)
      BY WindowIsTyped DEF NotYetHeard, Ahead
<1> HIDE DEF n, s
<1>3. Below(Recorded(Window, s), n) /\ 2 * Dist(Recorded(Window, s).base, n) < SeqSpace
      BY <1>1, <1>2, RecordedIsSound
<1> QED BY <1>3 DEF Ahead, n, s

LEMMA NotYetHeardNext ==
  ASSUME LinkTyped, Turns, AirIsPending, Near(nextSeq), Sound, InLine, NotYetHeard,
         [LinkNext]_vars, CalmNext, ~Reboot
  PROVE  NotYetHeard'
<1>0. queue \in Seq(Frames) /\ nextSeq \in Seqs
      BY DEF LinkTyped, AirInv, QueueOK
<1>1. CASE FrameHeard
  <2>1. air # None /\ air' = None /\ queue' = queue
        BY <1>1 DEF FrameHeard, AirClears
  <2>2. \/ air.kind \in TelemetryKinds /\ Window' = Recorded(Window, air.seq)
        \/ Window' = Window
        BY <1>1, TelemetryIsRecorded
  <2>3. CASE Window' = Window
        BY <2>1, <2>3 DEF NotYetHeard
  <2>4. CASE air.kind \in TelemetryKinds /\ Window' = Recorded(Window, air.seq)
    <3>1. \A k \in 1 .. Len(queue) : queue[k].kind \in TelemetryKinds =>
            Ahead(Recorded(Window, air.seq), queue[k].seq)
          BY <2>1, <2>4, QueuedStaysAhead DEF Sound
    <3> QED BY <2>1, <2>4, <3>1 DEF NotYetHeard
  <2> QED BY <2>2, <2>3, <2>4
<1>2. CASE ~FrameHeard /\ Adds
  <2>1. Window' = Window /\ air' = None
        BY <1>2, AddsOne, WindowSteps
  <2>2. PICK kind \in Kinds : /\ NewFrame(kind) \in Frames
                              /\ queue' = Pushed(queue, NewFrame(kind))
        BY <1>2, AddsOne
  <2>3. NewFrame(kind).seq = nextSeq
        BY DEF NewFrame
  <2>4. Window.init => Ahead(Window, nextSeq)
        BY DEF Sound, Near, Ahead
  <2> DEFINE p == Pushed(queue, NewFrame(kind))
  <2>5. /\ Len(p) \in Nat \ {0} /\ p[Len(p)] = NewFrame(kind)
        /\ \E d \in {0, 1} : \A k \in 1 .. Len(p) :
             k # Len(p) => k + d \in 1 .. Len(queue) /\ p[k] = queue[k + d]
        BY <1>0, <2>2, PushedInOrder
  <2> HIDE DEF p
  <2>6. ASSUME Window.init, NEW k \in 1 .. Len(p), p[k].kind \in TelemetryKinds
        PROVE  Ahead(Window, p[k].seq)
        BY <2>3, <2>4, <2>5, <2>6 DEF NotYetHeard
  <2>7. queue' = p
        BY <2>2 DEF p
  <2> QED BY <2>1, <2>6, <2>7 DEF NotYetHeard
<1>3. CASE ~FrameHeard /\ NodeUpdates /\ SendFresh(TRUE)
  <2>1. Window' = Window /\ queue # <<>> /\ queue' = Tail(queue)
        BY <1>3, WindowSteps DEF SendFresh, FreshChosen
  <2>2. /\ Head(queue) = queue[1] /\ 1 \in 1 .. Len(queue)
        /\ \A k \in 1 .. Len(queue') : k + 1 \in 1 .. Len(queue) /\ queue'[k] = queue[k + 1]
        BY <1>0, <2>1, TailInOrder
  <2>3. air'.kind = queue[1].kind /\ air'.seq = queue[1].seq
        BY <1>3, <2>2 DEF SendFresh, OnAir
  <2> QED BY <2>1, <2>2, <2>3 DEF NotYetHeard
<1>4. CASE ~FrameHeard /\ ~Adds /\ ~(NodeUpdates /\ SendFresh(TRUE))
  <2>1. queue' = queue /\ air' = air
        BY <1>4, LineStays
  <2>2. Window' = Window
        BY <1>4, WindowSteps
  <2> QED BY <2>1, <2>2 DEF NotYetHeard
<1> QED BY <1>1, <1>2, <1>3, <1>4

\* Nothing but the frame that is sent becomes pending.
LEMMA NothingNewIsPending ==
  ASSUME LinkTyped, Turns, [LinkNext]_vars, CalmNext, ~Reboot, ~(NodeUpdates /\ SendFresh(TRUE))
  PROVE  Similar(pending', pending)
<1>1. pending \in [Slots -> EntryShape \cup {Free}]
      BY DEF LinkTyped, AirInv, PendingOK
<1>2. CASE Quiet
      BY <1>2 DEF Quiet
<1>3. CASE ~Quiet /\ pending' = pending
      BY <1>1, <1>3, SimilarToItself
<1>4. CASE Adds
      BY <1>3, <1>4, <1>1, SimilarToItself, AddsOne
<1>5. CASE ~Adds
  <2>1. CASE BasePass \/ NodeSlotComes \/ SlotPasses \/ EnterStandby \/ UNCHANGED vars
    <3>1. pending' = pending
          BY <2>1 DEF BasePass, NodeSlotComes, SlotOpens, SlotPasses, SlotShrinks, EnterStandby,
                      vars, nodeVars
    <3> QED BY <1>1, <3>1, SimilarToItself
  <2>2. CASE AckHeard
    <3>1. ackAir.base \in Seqs /\ ackAir.mask \in Masks
          BY <2>2 DEF AckHeard, LinkTyped, AckIsTyped, Acks
    <3> QED BY <2>2, <3>1, QuietIsSimilar DEF AckHeard, LinkTyped
  <2>3. CASE StartUpdate \/ EndUpdate \/ FrameHeard
        BY <2>3, QuietIsSimilar DEF FrameHeard, LinkTyped
  <2>4. CASE FrameEnds
        BY <2>4, QuietIsSimilar DEF FrameEnds, LinkTyped
  <2> QED BY <1>5, <2>1, <2>2, <2>3, <2>4 DEF CalmNext
<1> QED BY <1>4, <1>5

LEMMA TakenInNext ==
  ASSUME LinkTyped, Turns, AirIsPending, Near(nextSeq), Sound, NotYetHeard, TakenIn,
         [LinkNext]_vars, CalmNext, ~Reboot
  PROVE  TakenIn'
<1>0. AirInv /\ nextSeq \in Seqs /\ synced
      BY DEF LinkTyped, AirInv, Turns
<1>1. CASE NodeUpdates /\ SendFresh(TRUE)
  <2>1. air = None
        BY <1>1 DEF SendFresh, MayLoop
  <2>2. Window' = Window
    <3>1. ~FrameHeard
          BY <2>1 DEF FrameHeard, AirClears
    <3> QED BY <3>1, WindowSteps
  <2>3. ASSUME NEW g \in InWindow(pending')
        PROVE  OnTheAir(g)' \/ (Window.init /\ Covers(Window.base, Window.mask, g.seq))
    <3>1. CASE g \in InWindow(pending)
          BY <2>1, <3>1 DEF TakenIn, OnTheAir
    <3>2. CASE g = Head(queue) /\ g.kind \in TelemetryKinds
      <4>1. air' = [kind |-> g.kind, seq |-> g.seq, id |-> g.id, retx |-> FALSE]
            BY <1>1, <3>2 DEF SendFresh, OnAir
      <4>2. air' # None /\ air'.kind = g.kind /\ air'.seq = g.seq
            BY <3>2, <4>1 DEF None, TelemetryKinds
      <4> QED BY <3>2, <4>2 DEF OnTheAir
    <3> QED BY <1>0, <1>1, <2>3, <3>1, <3>2, FreshIsPending
  <2> QED BY <2>2, <2>3 DEF TakenIn
<1>2. CASE ~(NodeUpdates /\ SendFresh(TRUE)) /\ ~FrameHeard
  <2>1. InWindow(pending') \subseteq InWindow(pending)
        BY <1>2, NothingNewIsPending, SimilarHasNoMore
  <2>2. Window' = Window
        BY <1>2, WindowSteps
  <2>3. air' = air
        BY <1>2, LineStays, AddsOne
  <2> QED BY <2>1, <2>2, <2>3 DEF TakenIn, OnTheAir
<1>3. CASE FrameHeard
  <2>1. air # None /\ air' = None /\ pending' = pending
        BY <1>3 DEF FrameHeard, AirClears
  <2>2. LET t == tracker[TheNode]
            u == tracker'[TheNode]
        IN  \/ air.kind \in TelemetryKinds /\ u.win = Recorded(t.win, air.seq)
            \/ air.kind \notin TelemetryKinds /\ u.win = t.win
        BY <1>3, CalmHears
  <2>3. CASE air.kind \notin TelemetryKinds /\ Window' = Window
        BY <2>1, <2>3 DEF TakenIn, OnTheAir
  <2>4. CASE air.kind \in TelemetryKinds /\ Window' = Recorded(Window, air.seq)
    <3>1. /\ air.seq \in Seqs /\ 2 * Dist(air.seq, nextSeq) < SeqSpace
          /\ Dist(air.seq, nextSeq) >= 1
          BY <2>1, <2>4, AirIsBehind DEF Sound
    <3>2. Window \in Windows
          BY WindowIsTyped
    <3>3. ASSUME NEW f \in InWindow(pending)
          PROVE  Covers(Recorded(Window, air.seq).base, Recorded(Window, air.seq).mask, f.seq)
      <4>1. f.seq \in Seqs /\ 2 * Dist(f.seq, nextSeq) < SeqSpace
            BY <1>0, <3>3, WindowIsLive, LiveIsTyped DEF Near
      <4>2. CASE f.seq = air.seq
        <5>1. Window.init => Ahead(Window, air.seq)
              BY <2>1, <2>4 DEF NotYetHeard
        <5> QED BY <3>1, <3>2, <4>2, <5>1, AheadIsTakenIn
      <4>3. CASE Window.init /\ Covers(Window.base, Window.mask, f.seq)
        <5>1. Below(Window, nextSeq) /\ 2 * Dist(Window.base, nextSeq) < SeqSpace
              BY <4>3 DEF Sound, Near
        <5> QED BY <1>0, <3>1, <3>2, <4>1, <4>3, <5>1, WhatIsCoveredStays
      <4> QED BY <3>3, <4>2, <4>3 DEF TakenIn, OnTheAir
    <3>4. Recorded(Window, air.seq).init
          BY <3>1, <3>2, RecordedType
    <3> QED BY <2>1, <2>4, <3>3, <3>4 DEF TakenIn
  <2> QED BY <2>2, <2>3, <2>4 DEF Window
<1> QED BY <1>1, <1>2, <1>3

-----------------------------------------------------------------------------
\* What the base told the node last changes when it sends an acknowledgement.
LEMMA ToldSteps ==
  ASSUME LinkTyped, CalmNext, ~Fault("refusal")
  PROVE  \/ BasePass /\ PassSends
         \/ Told' = Told /\ (AckHeard \/ ackAir' = ackAir)
<1>1. CASE BasePass
      BY <1>1, CalmPass DEF Same, Told
<1>2. CASE FrameHeard
  <2>1. tracker'[TheNode].lastSent = tracker[TheNode].lastSent
        BY <1>2, CalmHears
  <2>2. ackAir' = ackAir
        BY <1>2 DEF FrameHeard, HearTelemetry, HearEnd, HearBegin
  <2> QED BY <2>1, <2>2 DEF Told
<1>3. CASE FrameEnds
      BY <1>3, CalmTick DEF Same, Told
<1>4. CASE ~BasePass /\ ~FrameHeard /\ ~FrameEnds
      BY <1>4, CalmElse DEF Told
<1> QED BY <1>1, <1>2, <1>3, <1>4

LEMMA ToldNowNext ==
  ASSUME LinkTyped, Turns, ToldNow, [LinkNext]_vars, CalmNext, ~Fault("refusal"), ~Reboot
  PROVE  ToldNow'
<1>1. CASE BasePass /\ PassSends
      BY <1>1 DEF PassSends, ToldNow, Told, Window
<1>2. CASE Told' = Told /\ (AckHeard \/ ackAir' = ackAir)
  <2> SUFFICES ASSUME ackAir' # NoAck  PROVE Told' = Window'
      BY DEF ToldNow
  <2>1. ackAir # NoAck /\ Told = Window
        BY <1>2 DEF AckHeard, AckClears, ToldNow
  <2>2. ~FrameHeard
        BY <2>1 DEF FrameHeard, AirClears, Turns
  <2> QED BY <1>2, <2>1, <2>2, WindowSteps
<1> QED BY <1>1, <1>2, ToldSteps

LEMMA ToldBelowNext ==
  ASSUME LinkTyped, Turns, Sound, ToldBelow, Told.init => 2 * Dist(Told.base, nextSeq) < SeqSpace,
         [LinkNext]_vars, CalmNext, ~Fault("refusal"), ~Reboot, ~SessionChanges
  PROVE  ToldBelow'
<1>1. CASE BasePass /\ PassSends
  <2>1. Told' = Window /\ Window.init /\ nextSeq' = nextSeq
        BY <1>1 DEF PassSends, Told, Window, BasePass, nodeVars
  <2> QED BY <2>1 DEF Sound, ToldBelow
<1>2. CASE Told' = Told
  <2>1. CASE nextSeq' = nextSeq
        BY <1>2, <2>1 DEF ToldBelow
  <2>2. ASSUME NEW kind \in TelemetryKinds, Sample(kind)
        PROVE  ToldBelow'
    <3>1. nextSeq' = Advance(nextSeq, 1) /\ nextSeq \in Seqs
          BY <2>2 DEF Sample, Enqueue, LinkTyped, AirInv
    <3>2. Told \in Windows /\ (Told.init => Ahead(Told, nextSeq))
          BY WindowIsTyped DEF ToldBelow, Ahead
    <3> QED BY <1>2, <3>1, <3>2, AheadOfNext DEF ToldBelow
  <2> QED BY <2>1, <2>2, LiveSteps
<1> QED BY <1>1, <1>2, ToldSteps

\* An acknowledgement leaves nothing at the node that it covers.
LEMMA NothingIsLeft ==
  ASSUME LinkTyped, NotYetHeard, AllSent(pending), AckIsWindow, AckHeard, NEW f \in Live'
  PROVE  ~Covers(Window.base, Window.mask, f.seq)
<1>1. /\ pending' = Acknowledged(pending, Window.base, Window.mask)
      /\ queue' = queue
      BY DEF AckHeard, ReceiveAck, AckIsWindow
<1>2. f.kind \in TelemetryKinds /\ (f \in InQueue(queue) \/ f \in InWindow(pending'))
      BY <1>1 DEF Live, LiveOf
<1>3. CASE f \in InQueue(queue)
  <2>1. PICK k \in 1 .. Len(queue) : f = queue[k]
        BY <1>3 DEF InQueue
  <2>2. f \in Frames
        BY <2>1 DEF LinkTyped, AirInv, QueueOK
  <2>3. Ahead(Window, f.seq) /\ f.seq \in Seqs /\ Window \in Windows
        BY <1>2, <2>1, <2>2, WindowIsTyped DEF NotYetHeard, AckIsWindow, Frames
  <2> QED BY <2>3, AheadIsNew
<1>4. CASE f \in InWindow(pending')
  <2>1. PICK i \in Slots : IsUsed(pending'[i]) /\ f = pending'[i].frame
        BY <1>4 DEF InWindow
  <2>2. pending'[i] = IF IsUsed(pending[i]) /\ pending[i].sent
                           /\ Covers(Window.base, Window.mask, pending[i].frame.seq)
                      THEN Free ELSE pending[i]
        BY <1>1 DEF Acknowledged
  <2> QED BY <2>1, <2>2, FreeIsUnused DEF AllSent
<1> QED BY <1>2, <1>3, <1>4

LEMMA ToldNothingNext ==
  ASSUME LinkTyped, Turns, Sound, NotYetHeard, AllSent(pending),
         ToldBelow, ToldNow, ToldNothing,
         Told.init => 2 * Dist(Told.base, nextSeq) < SeqSpace,
         [LinkNext]_vars, CalmNext, ~Fault("refusal"), ~Reboot, ~SessionChanges
  PROVE  ToldNothing'
<1> SUFFICES ASSUME ackAir' = NoAck, Told'.init, NEW f \in Live'
             PROVE  ~Covers(Told'.base, Told'.mask, f.seq)
    BY DEF ToldNothing
<1>1. Told' = Told /\ (AckHeard \/ ackAir' = ackAir)
      BY ToldSteps DEF PassSends
<1>2. CASE AckHeard
  <2>1. Told = Window /\ AckIsWindow
        BY <1>2 DEF AckHeard, ToldNow, Sound
  <2> QED BY <1>1, <1>2, <2>1, NothingIsLeft
<1>3. CASE ~AckHeard
  <2>1. ackAir = NoAck
        BY <1>1, <1>3
  <2>2. CASE f \in Live
        BY <1>1, <2>1, <2>2 DEF ToldNothing
  <2>3. ASSUME NEW kind \in TelemetryKinds, f = NewFrame(kind)
        PROVE  ~Covers(Told.base, Told.mask, f.seq)
    <3>1. f.seq = nextSeq /\ nextSeq \in Seqs
          BY <2>3 DEF NewFrame, LinkTyped, AirInv
    <3>2. Told \in Windows /\ Ahead(Told, nextSeq)
          BY <1>1, WindowIsTyped DEF ToldBelow, Ahead
    <3> QED BY <3>1, <3>2, AheadIsNew
  <2> QED BY <1>1, <2>2, <2>3, LiveSteps
<1> QED BY <1>2, <1>3

-----------------------------------------------------------------------------
\* The slots that may have been missed: one fewer only when the node's slot comes.
LEMMA MissedSteps ==
  ASSUME LinkTyped, [LinkNext]_vars, CalmNext, Calm'
  PROVE  /\ Skipped \in Nat /\ Skipped' \in Nat /\ Skipped <= Skipped'
         /\ Missed \in Nat /\ Missed' \in Nat
         /\ NodeSlotComes => Missed = Skipped + 1 /\ Missed' = Skipped'
         /\ FrameEnds => Missed = Skipped /\ Missed' = Skipped' + 1
         /\ ~NodeSlotComes /\ ~FrameEnds => phase' = phase /\ Missed <= Missed'
<1>1. Skipped \in Nat /\ Skipped' \in Nat /\ Skipped <= Skipped'
      BY CalmBefore
<1>2. NodeSlotComes => phase = "base" /\ phase' = "node"
      BY DEF NodeSlotComes
<1>3. FrameEnds => phase = "node" /\ phase' = "base"
      BY DEF FrameEnds
<1>4. ~NodeSlotComes /\ ~FrameEnds => phase' = phase
      BY DEF CalmNext, BasePass, AckHeard, Adds, Sample, CloseWindow, Wake, NodeUpdates,
             FrameHeard, SlotPasses, EnterStandby, vars, linkVars
<1>5. (Missed = Skipped + 1 /\ phase = "base") \/ (Missed = Skipped /\ phase # "base")
      BY <1>1 DEF Missed
<1>6. (Missed' = Skipped' + 1 /\ phase' = "base") \/ (Missed' = Skipped' /\ phase' # "base")
      BY <1>1 DEF Missed
<1>7. Missed \in Nat /\ Missed' \in Nat
      BY <1>1, <1>5, <1>6
<1>8. phase' = phase => Missed <= Missed'
      BY <1>1, <1>5, <1>6
<1> QED BY <1>1, <1>2, <1>3, <1>4, <1>5, <1>6, <1>7, <1>8

\* What the base has not told a node that it takes for awake is due.
LEMMA UntoldIsDue ==
  ASSUME LinkTyped, Untold(tracker[TheNode]), ~Asleep, Lately, NoFailure,
         Missed \in Nat, Missed <= SilenceFrames
  PROVE  Due(tracker[TheNode])
<1> DEFINE t == tracker[TheNode]
<1>1. Good(t) /\ t.quiet \in Int
  <2>1. Good(t)
        BY OneNode DEF LinkTyped, AllGood
  <2>2. t \in Trackers
        BY <2>1 DEF Good
  <2> QED BY <2>1, <2>2, LaterFields
<1>2. t.dirty /\ t.win.init /\ ~Unchanged(t)
      BY <1>1 DEF Good, Untold, Unchanged
<1>3. ~t.held
      BY <1>1, BaseAckAssumption DEF Good, NoFailure
<1>4. ~Silent(t)
  <2>1. t.quiet <= Missed
        BY DEF Lately
  <2> QED BY <1>1, <2>1, BaseAckAssumption DEF Silent
<1> QED BY <1>2, <1>3, <1>4 DEF Due, Eligible, Asleep

\* So a base's slot that ends without telling it has been missed.
LEMMA UntoldIsMissed ==
  ASSUME LinkTyped, [LinkNext]_vars, CalmNext, Calm', NodeSlotComes, Skipped <= 1,
         Untold(tracker[TheNode]), ~Asleep, Lately, NoFailure, SilenceFrames >= 2
  PROVE  Skipped' = Skipped + 1
<1>1. Skipped \in Nat /\ Missed \in Nat /\ Missed = Skipped + 1
      BY MissedSteps
<1>2. Missed <= SilenceFrames
      BY <1>1, BaseAckAssumption
<1>3. Due(tracker[TheNode])
      BY <1>1, <1>2, UntoldIsDue
<1> QED BY <1>3, CalmBefore DEF NodeSlotComes

LEMMA NoFailureNext ==
  ASSUME LinkTyped, NoFailure, CalmNext, ~Fault("refusal")
  PROVE  NoFailure'
<1>1. CASE BasePass
      BY <1>1, CalmPass DEF PassSends, Same, NoFailure
<1>2. CASE FrameHeard
  <2>1. tracker'[TheNode].fails \in {0, tracker[TheNode].fails}
        BY <1>2, CalmHears
  <2> QED BY <2>1 DEF NoFailure
<1>3. CASE FrameEnds
      BY <1>3, CalmTick DEF Same, NoFailure
<1>4. CASE ~BasePass /\ ~FrameHeard /\ ~FrameEnds
      BY <1>4, CalmElse DEF NoFailure
<1> QED BY <1>1, <1>2, <1>3, <1>4

LEMMA LatelyNext ==
  ASSUME LinkTyped, Lately, NoFailure, [LinkNext]_vars, CalmNext, Calm', Skipped <= 1,
         SilenceFrames >= 2
  PROVE  Lately'
<1> SUFFICES ASSUME Untold(tracker'[TheNode]), ~Asleep'
             PROVE  tracker'[TheNode].quiet <= Missed'
    BY DEF Lately
<1> DEFINE t == tracker[TheNode]
           u == tracker'[TheNode]
<1>1. /\ Skipped \in Nat /\ Skipped' \in Nat /\ Skipped <= Skipped'
      /\ Missed \in Nat /\ Missed' \in Nat
      /\ NodeSlotComes => Missed = Skipped + 1 /\ Missed' = Skipped'
      /\ FrameEnds => Missed = Skipped /\ Missed' = Skipped' + 1
      /\ ~NodeSlotComes /\ ~FrameEnds => phase' = phase /\ Missed <= Missed'
      BY MissedSteps
<1>2. t.quiet \in Int
  <2>1. t \in Trackers
        BY WindowIsTyped
  <2> QED BY <2>1, LaterFields
<1>3. Same(u, t) => Untold(t) /\ ~Asleep /\ t.quiet <= Missed
      BY DEF Same, Untold, Asleep, Lately
<1>4. CASE BasePass
  <2>1. ~Fault("refusal")
        BY CalmBefore
  <2>2. ~PassSends
        BY DEF PassSends, Untold
  <2>3. Same(u, t) /\ u.quiet = t.quiet
        BY <1>4, <2>1, <2>2, CalmPass
  <2>4. ~NodeSlotComes /\ ~FrameEnds
        BY <1>4 DEF BasePass, NodeSlotComes, FrameEnds
  <2>5. t.quiet <= Missed /\ Missed <= Missed'
        BY <1>1, <1>3, <2>3, <2>4
  <2> HIDE DEF t, u
  <2> QED BY <1>1, <1>2, <2>3, <2>5 DEF u
<1>5. CASE FrameHeard
  <2>1. u.quiet = 0
        BY <1>5, CalmHears
  <2> QED BY <1>1, <2>1
<1>6. CASE FrameEnds
  <2>1. Same(u, t) /\ u.quiet \in Int /\ u.quiet <= t.quiet + 1
        BY <1>6, CalmTick
  <2>2. t.quiet <= Missed /\ Missed = Skipped /\ Missed' = Skipped' + 1
        BY <1>1, <1>3, <1>6, <2>1
  <2> HIDE DEF t, u
  <2> QED BY <1>1, <1>2, <2>1, <2>2 DEF u
<1>7. CASE NodeSlotComes
  <2>1. u = t
        BY <1>7 DEF NodeSlotComes, baseVars
  <2>2. Untold(t) /\ ~Asleep /\ t.quiet <= Missed
        BY <1>3, <2>1 DEF Same
  <2>3. Skipped' = Skipped + 1
        BY <1>7, <2>2, UntoldIsMissed
  <2>4. Missed' = Missed
        BY <1>1, <1>7, <2>3
  <2> QED BY <2>1, <2>2, <2>4
<1>8. CASE ~BasePass /\ ~FrameHeard /\ ~FrameEnds /\ ~NodeSlotComes
  <2>1. u = t
        BY <1>8, CalmElse
  <2>2. t.quiet <= Missed /\ Missed <= Missed'
        BY <1>1, <1>3, <1>8, <2>1 DEF Same
  <2> QED BY <1>1, <1>2, <2>1, <2>2
<1> QED BY <1>4, <1>5, <1>6, <1>7, <1>8

-----------------------------------------------------------------------------
\* Only WINDOW_END has the base take the node for asleep.
LEMMA AsleepSteps ==
  ASSUME LinkTyped, CalmNext, ~Fault("refusal"), Asleep'
  PROVE  Asleep \/ (FrameHeard /\ air.kind = "WINDOW_END")
<1>1. CASE BasePass
      BY <1>1, CalmPass DEF PassSends, Same, Asleep
<1>2. CASE FrameHeard
  <2>1. tracker'[TheNode].asleep => air.kind = "WINDOW_END"
        BY <1>2, CalmHears
  <2> QED BY <1>2, <2>1 DEF Asleep
<1>3. CASE FrameEnds
      BY <1>3, CalmTick DEF Same, Asleep
<1>4. CASE ~BasePass /\ ~FrameHeard /\ ~FrameEnds
      BY <1>4, CalmElse DEF Asleep
<1> QED BY <1>1, <1>2, <1>3, <1>4

\* A node with something to send in its slot does not let the slot end before.
ToSend == queue # <<>> /\ (phase = "base" \/ (room > 0 /\ (sends = 0 \/ (Idle /\ ~updated))))

LEMMA ToSendNext ==
  ASSUME LinkTyped, Turns, CalmNext, ToSend, duty # "standby", air = None
  PROVE  ToSend' \/ air' # None \/ duty' = "standby"
<1>0. synced /\ MaxSends > 0 /\ SlotRoom > 0 /\ queue \in Seq(Frames)
      BY NodeTxAssumption DEF Turns, LinkTyped, AirInv, QueueOK
<1>1. CASE Adds
  <2>1. UNCHANGED <<phase, updated, room, sends>>
        BY <1>1, AddsOne
  <2>2. queue' # <<>>
        BY <1>0, <1>1, AddsOne, PushedIsLast
  <2> QED BY <2>1, <2>2 DEF ToSend, Idle
<1>2. CASE NodeUpdates /\ SendFresh(TRUE)
  <2>1. air'.kind = Head(queue).kind /\ Head(queue) \in Frames
        BY <1>0, <1>2 DEF SendFresh, OnAir, FreshChosen
  <2>2. air' # None
        BY <2>1 DEF None, Frames, Kinds, TelemetryKinds
  <2> QED BY <2>2
<1>3. CASE NodeSlotComes
      BY <1>0, <1>3 DEF NodeSlotComes, SlotOpens, ToSend, Idle
<1>4. CASE BasePass \/ AckHeard \/ UNCHANGED vars
      BY <1>4 DEF BasePass, AckHeard, ReceiveAck, vars, nodeVars, linkVars, ToSend, Idle
<1>5. CASE NodeUpdates /\ StartUpdate
      BY <1>5 DEF NodeUpdates, StartUpdate, ToSend
<1>6. CASE NodeUpdates /\ EndUpdate /\ ~RetxChosen
  <2>1. sends = 0 /\ room > 0 /\ queue # <<>>
        BY <1>6 DEF NodeUpdates, EndUpdate, ToSend
  <2>2. MayLoop /\ FreshChosen
        BY <1>0, <1>6, <2>1 DEF MayLoop, EndUpdate, FreshChosen
  <2> QED BY <1>6, <2>2 DEF EndUpdate
<1>7. CASE SlotPasses
      BY <1>7 DEF SlotPasses, SlotShrinks, ToSend, Idle
<1>8. CASE FrameEnds
      BY <1>8 DEF FrameEnds, TimePasses, StandbyPasses, ToSend
<1>9. CASE EnterStandby
      BY <1>9 DEF EnterStandby
<1>10. ~FrameHeard
      BY DEF FrameHeard, AirClears
<1> QED BY <1>1, <1>2, <1>3, <1>4, <1>5, <1>6, <1>7, <1>8, <1>9, <1>10 DEF CalmNext

LEMMA WakingNext ==
  ASSUME LinkTyped, Turns, InLine, Waking, CalmNext, ~Fault("refusal")
  PROVE  Waking'
<1> SUFFICES ASSUME Asleep'
             PROVE  \/ duty' = "standby" \/ (duty' = "draining" /\ queue' = <<>>)
                    \/ air' # None \/ ToSend'
    BY DEF Waking, ToSend
<1>1. CASE FrameHeard /\ air.kind = "WINDOW_END"
  <2>1. duty = "draining" /\ queue = <<>>
        BY <1>1 DEF FrameHeard, AirClears, InLine, EndOnAir
  <2> QED BY <1>1, <2>1 DEF FrameHeard, AirClears
<1>2. CASE Asleep /\ ~FrameHeard
  <2>0. \/ duty = "standby" \/ (duty = "draining" /\ queue = <<>>)
        \/ air # None \/ ToSend
        BY <1>2 DEF Waking, ToSend
  <2>1. CASE duty = "standby"
    <3>1. CASE Wake
      <4>1. queue' # <<>> /\ phase' = "base"
        <5>1. phase' = "base"
              BY <3>1 DEF Wake
        <5>2. Adds /\ queue \in Seq(Frames)
              BY <3>1 DEF Adds, LinkTyped, AirInv, QueueOK
        <5> QED BY <5>1, <5>2, AddsOne, PushedIsLast
      <4> QED BY <4>1 DEF ToSend
    <3>2. CASE ~Wake
      <4>1. ~Adds /\ ~NodeUpdates
            BY <2>1, <3>2 DEF Adds, Sample, CloseWindow, NodeUpdates
      <4> QED BY <2>1, <4>1, LineStays DEF EnterStandby
    <3> QED BY <3>1, <3>2
  <2>2. CASE duty = "draining" /\ queue = <<>>
    <3>1. ~Adds /\ ~SendFresh(TRUE)
          BY <2>2, AddsOne DEF SendFresh, FreshChosen
    <3> QED BY <2>2, <3>1, LineStays DEF EnterStandby
  <2>3. CASE air # None
    <3>1. ~Adds /\ ~SendFresh(TRUE)
          BY <2>3, AddsOne DEF SendFresh, MayLoop
    <3> QED BY <1>2, <2>3, <3>1, LineStays
  <2>4. CASE ToSend /\ duty # "standby" /\ air = None
        BY <2>4, ToSendNext
  <2> QED BY <2>0, <2>1, <2>2, <2>3, <2>4
<1>3. Asleep \/ (FrameHeard /\ air.kind = "WINDOW_END")
      BY AsleepSteps
<1>4. CASE FrameHeard /\ air.kind # "WINDOW_END"
  <2>1. tracker'[TheNode].asleep => air.kind = "WINDOW_END"
        BY <1>4, CalmHears
  <2> QED BY <1>4, <2>1 DEF Asleep
<1> QED BY <1>1, <1>2, <1>3, <1>4

-----------------------------------------------------------------------------
\* Nothing in a pending window is older than n.
NoOlderThan(n, p) == \A i \in Slots : IsUsed(p[i]) => p[i].age <= n

LEMMA DroppingAgesNothing ==
  ASSUME NEW p \in [Slots -> EntryShape \cup {Free}], NEW n \in Int, NoOlderThan(n, p)
  PROVE  /\ NoOlderThan(n, Unexpired(p))
         /\ \A base, mask : NoOlderThan(n, Acknowledged(p, base, mask))
<1>1. ASSUME NEW i \in Slots, IsUsed(Unexpired(p)[i])
      PROVE  Unexpired(p)[i].age <= n
  <2>1. Unexpired(p)[i] = p[i]
        BY <1>1, FreeIsUnused DEF Unexpired
  <2> QED BY <1>1, <2>1 DEF NoOlderThan
<1>2. ASSUME NEW base, NEW mask, NEW i \in Slots, IsUsed(Acknowledged(p, base, mask)[i])
      PROVE  Acknowledged(p, base, mask)[i].age <= n
  <2>1. Acknowledged(p, base, mask)[i] = p[i]
        BY <1>2, FreeIsUnused DEF Acknowledged
  <2> QED BY <1>2, <2>1 DEF NoOlderThan
<1> QED BY <1>1, <1>2 DEF NoOlderThan

LEMMA ShiftingAgesNothing ==
  ASSUME NEW p \in [Slots -> EntryShape \cup {Free}], NEW n \in Int, NEW k \in Nat,
         NoOlderThan(n, p)
  PROVE  NoOlderThan(n, Shifted(p, k))
<1> SUFFICES ASSUME NEW i \in Slots, IsUsed(Shifted(p, k)[i])
             PROVE  Shifted(p, k)[i].age <= n
    BY DEF NoOlderThan
<1>1. CASE IsUsed(p[i])
  <2>1. p[i] \in EntryShape
        BY <1>1, SlotIsTyped
  <2> DEFINE e == p[i]
             e2 == [e EXCEPT !.age = @ - k, !.since = @ - k]
  <2>2. Shifted(p, k)[i] = e2
        BY <1>1 DEF Shifted
  <2>3. e.age <= n
        BY <1>1 DEF NoOlderThan
  <2>4. e2.age = e.age - k
        BY <2>1, Zenon DEF EntryShape
  <2>5. e.age \in Int
        BY <2>1, EntryIsTyped
  <2> HIDE DEF e, e2
  <2>6. e2.age <= n
        BY <2>3, <2>4, <2>5
  <2> QED BY <2>2, <2>6
<1>2. CASE ~IsUsed(p[i])
  <2>1. Shifted(p, k)[i] = p[i]
        BY <1>2 DEF Shifted
  <2> QED BY <1>2, <2>1
<1> QED BY <1>1, <1>2

LEMMA AgedByOne ==
  ASSUME NEW e \in EntryShape, NEW n \in Int, e.age <= n
  PROVE  [e EXCEPT !.age = Older(e.age), !.since = Older(e.since),
                   !.alive = Older(e.alive)].age <= n + 1
<1>1. [e EXCEPT !.age = Older(e.age), !.since = Older(e.since),
                !.alive = Older(e.alive)].age = Older(e.age)
      BY Zenon DEF EntryShape
<1>2. e.age \in Int
      BY EntryIsTyped
<1>3. Older(e.age) <= n + 1
      BY <1>2, NodeTxAssumption DEF Older
<1> QED BY <1>1, <1>3

LEMMA PickingAgesNothing ==
  ASSUME AirInv, NEW n \in Int, NoOlderThan(n, pending)
  PROVE  NoOlderThan(n, PendingAfterPick)
  BY DroppingAgesNothing DEF AirInv, PendingOK, PendingAfterPick

LEMMA SendingAgesNothing ==
  ASSUME AirInv, synced, SendFresh(TRUE), NEW n \in Nat, NoOlderThan(n, pending)
  PROVE  NoOlderThan(n, pending')
<1> DEFINE f == Head(queue)
           p == Held(f)
<1>1. /\ Similar(p, pending)
      /\ \/ pending' = p
         \/ f \in Telemetry /\ \E i \in Slots : pending' = NewAt(p, i, f, TRUE)
      BY FreshRemembers
<1>2. NoOlderThan(n, p)
  <2>1. NoOlderThan(n, PendingAfterPick)
        BY PickingAgesNothing
  <2>2. PendingAfterPick \in [Slots -> EntryShape \cup {Free}] /\ HoldFrames \in Nat
        BY AfterPickIsSimilar, NodeTxAssumption DEF Similar
  <2>3. NoOlderThan(n, Shifted(PendingAfterPick, HoldFrames))
        BY <2>1, <2>2, ShiftingAgesNothing
  <2> QED BY <2>1, <2>3 DEF Held
<1>3. p \in [Slots -> EntryShape \cup {Free}]
      BY <1>1 DEF Similar
<1> HIDE DEF p, f
<1>4. ASSUME NEW i \in Slots, pending' = NewAt(p, i, f, TRUE)
      PROVE  NoOlderThan(n, pending')
  <2>1. pending' = [p EXCEPT ![i] = Entry(f, TRUE)] /\ Entry(f, TRUE).age = 0
        BY <1>4 DEF NewAt, Entry
  <2>2. ASSUME NEW j \in Slots, IsUsed(pending'[j])
        PROVE  pending'[j].age <= n
    <3>1. CASE j = i
      <4>1. pending'[j] = Entry(f, TRUE)
            BY <1>3, <2>1, <3>1
      <4>2. pending'[j].age = 0
            BY <2>1, <4>1
      <4> QED BY <4>2
    <3>2. CASE j # i
      <4>1. pending'[j] = p[j]
            BY <1>3, <2>1, <3>2
      <4> QED BY <1>2, <2>2, <4>1 DEF NoOlderThan
    <3> QED BY <3>1, <3>2
  <2> QED BY <2>2 DEF NoOlderThan
<1> QED BY <1>1, <1>2, <1>4

\* The frames' ages keep below the limit when a frame period ends, ...
LEMMA AgingByOne ==
  ASSUME AirInv, TimePasses, NEW n \in Int, NoOlderThan(n, pending)
  PROVE  NoOlderThan(n + 1, pending')
<1> DEFINE p == Unexpired(pending)
<1>1. NoOlderThan(n, p) /\ p \in [Slots -> EntryShape \cup {Free}]
      BY DroppingAgesNothing, UnexpiredIsSimilar DEF AirInv, PendingOK, Similar
<1>2. pending' = [i \in Slots |->
           IF IsUsed(p[i])
           THEN [p[i] EXCEPT !.age = Older(p[i].age), !.since = Older(p[i].since),
                             !.alive = Older(p[i].alive)]
           ELSE Free]
      BY DEF TimePasses
<1> HIDE DEF p
<1>3. ASSUME NEW i \in Slots, IsUsed(pending'[i])
      PROVE  pending'[i].age <= n + 1
  <2>1. IsUsed(p[i])
        BY <1>2, <1>3, FreeIsUnused
  <2>2. p[i] \in EntryShape /\ p[i].age <= n
        BY <1>1, <2>1, SlotIsTyped DEF NoOlderThan
  <2>3. pending'[i] = [p[i] EXCEPT !.age = Older(p[i].age), !.since = Older(p[i].since),
                                   !.alive = Older(p[i].alive)]
        BY <1>2, <2>1
  <2> QED BY <2>2, <2>3, AgedByOne
<1> QED BY <1>3 DEF NoOlderThan

\* ... when the slots that were missed are counted: nothing pending is covered by
\* what the base told, and it is told in the base's slot or the slot is missed.
LEMMA LimitStays ==
  ASSUME LinkTyped, Turns, [LinkNext]_vars, CalmNext, Calm'
  PROVE  /\ Limit \in Nat /\ Limit' \in Nat
         /\ ~NodeSlotComes => Limit <= Limit'
<1>1. /\ Skipped \in Nat /\ Skipped' \in Nat /\ Skipped <= Skipped'
      /\ Missed \in Nat /\ Missed' \in Nat
      /\ FrameEnds => Missed = Skipped /\ Missed' = Skipped' + 1
      /\ ~NodeSlotComes /\ ~FrameEnds => phase' = phase /\ Missed <= Missed'
      BY MissedSteps
<1>2. ~Fault("refusal")
      BY CalmBefore
<1>3. Limit \in {Skipped, Missed} /\ Limit' \in {Skipped', Missed'}
      BY DEF Limit
<1>4. CASE FrameHeard
  <2>1. phase = "node" /\ phase' = phase
        BY <1>4 DEF FrameHeard, AirClears, Turns
  <2>2. Missed = Skipped /\ Missed' = Skipped'
        BY <1>1, <2>1 DEF Missed
  <2> QED BY <1>1, <1>3, <2>2
<1>5. CASE FrameEnds
  <2>1. Limit = Skipped /\ (Limit' = Skipped' \/ Limit' = Skipped' + 1)
        BY <1>1, <1>3, <1>5
  <2>2. Skipped \in Nat /\ Skipped' \in Nat /\ Skipped <= Skipped'
        BY <1>1
  <2>3. CASE Limit' = Skipped'
        BY <2>1, <2>2, <2>3
  <2>4. CASE Limit' = Skipped' + 1
    <3>0. \A a, b \in Nat : a <= b => b + 1 \in Nat /\ a <= b + 1
          OBVIOUS
    <3>1. Skipped' + 1 \in Nat /\ Skipped <= Skipped' + 1
          BY <2>2, <3>0, Zenon
    <3>2. Limit' \in Nat /\ Skipped <= Limit'
          BY <2>4, <3>1, Zenon
    <3> QED BY <2>1, <2>2, <3>2
  <2> QED BY <2>1, <2>3, <2>4
<1>6. CASE ~FrameHeard /\ ~FrameEnds
  <2>1. Asleep' = Asleep
    <3>1. CASE BasePass
          BY <1>2, <3>1, CalmPass DEF PassSends, Same, Asleep
    <3> QED BY <1>6, <3>1, CalmElse DEF Asleep
  <2>2. \/ Limit = Skipped /\ Limit' = Skipped'
        \/ Limit = Missed /\ Limit' = Missed'
        BY <2>1 DEF Limit
  <2> QED BY <1>1, <1>6, <2>2
<1> QED BY <1>1, <1>3, <1>4, <1>5, <1>6

LEMMA MissedIsCounted ==
  ASSUME LinkTyped, Turns, TakenIn, ToldNothing, Lately, NoFailure, [LinkNext]_vars, CalmNext,
         Calm', NodeSlotComes, Skipped <= 1, SilenceFrames >= 2,
         NEW i \in Slots, IsUsed(pending[i])
  PROVE  Limit <= Limit'
<1>1. /\ Skipped \in Nat /\ Skipped' \in Nat /\ Skipped <= Skipped'
      /\ Missed = Skipped + 1 /\ Missed' = Skipped'
      BY MissedSteps
<1>2. Asleep' = Asleep
      BY DEF NodeSlotComes, baseVars, Asleep
<1>3. CASE Asleep
      BY <1>1, <1>2, <1>3 DEF Limit
<1>4. CASE ~Asleep
  <2>1. air = None /\ ackAir = NoAck
        BY DEF NodeSlotComes, Turns
  <2> DEFINE f == pending[i].frame
  <2>2. f \in InWindow(pending)
        BY DEF InWindow
  <2>3. Window.init /\ Covers(Window.base, Window.mask, f.seq)
        BY <2>1, <2>2 DEF TakenIn, OnTheAir
  <2>4. Told.init => ~Covers(Told.base, Told.mask, f.seq)
        BY <2>1, <2>2, WindowIsLive DEF ToldNothing, LinkTyped
  <2>5. Untold(tracker[TheNode])
        BY <2>3, <2>4 DEF Untold, Window, Told
  <2>6. Skipped' = Skipped + 1
        BY <1>4, <2>5, UntoldIsMissed
  <2>7. Limit = Missed /\ Limit' = Missed'
        BY <1>2, <1>4 DEF Limit
  <2> QED BY <1>1, <2>6, <2>7
<1> QED BY <1>3, <1>4

\* A node that the base takes for asleep does not get to the end of a frame awake.
LEMMA AwakeIsAwake ==
  ASSUME LinkTyped, Turns, Waking, FrameEnds, duty # "standby"
  PROVE  ~Asleep
<1>1. phase = "node" /\ Idle /\ air = None /\ room = 0 /\ ~MustStandBy
      BY DEF FrameEnds, TimePasses
<1>2. ~(duty = "draining" /\ queue = <<>>)
      BY <1>1 DEF MustStandBy
<1> QED BY <1>1, <1>2 DEF Waking

LEMMA YoungNext ==
  ASSUME LinkTyped, Turns, TakenIn, ToldNothing, Young, Lately, NoFailure, Waking,
         [LinkNext]_vars, CalmNext, Calm', Skipped <= 1, SilenceFrames >= 2
  PROVE  Young'
<1>0. AirInv /\ synced /\ pending \in [Slots -> EntryShape \cup {Free}]
      BY DEF LinkTyped, AirInv, PendingOK, Turns
<1>1. Limit \in Nat /\ Limit' \in Nat /\ (~NodeSlotComes => Limit <= Limit')
      BY LimitStays
<1>2. NoOlderThan(Limit, pending)
      BY DEF Young, NoOlderThan
<1>3. ASSUME NoOlderThan(Limit, pending'), ~NodeSlotComes
      PROVE  Young'
  <2> SUFFICES ASSUME NEW i \in Slots, IsUsed(pending'[i])
               PROVE  pending'[i].age <= Limit'
      BY DEF Young
  <2>1. pending' \in [Slots -> EntryShape \cup {Free}]
        BY LinkTypedNext DEF LinkTyped, AirInv, PendingOK
  <2>2. pending'[i].age \in Int
    <3>1. pending'[i] \in EntryShape
          BY <2>1, SlotIsTyped
    <3> QED BY <3>1, EntryIsTyped
  <2>3. pending'[i].age <= Limit /\ Limit <= Limit'
        BY <1>1, <1>3 DEF NoOlderThan
  <2> QED BY <1>1, <2>2, <2>3
<1>4. CASE BasePass \/ Adds \/ FrameHeard \/ SlotPasses \/ EnterStandby \/ UNCHANGED vars
  <2>1. pending' = pending
        BY <1>4, AddsOne DEF BasePass, FrameHeard, AirClears, SlotPasses, SlotShrinks,
           EnterStandby, vars, nodeVars
  <2>2. CASE ~NodeSlotComes
        BY <1>2, <1>3, <2>1, <2>2
  <2>3. CASE NodeSlotComes
    <3>1. phase = "base" /\ phase' = "node"
          BY <2>3 DEF NodeSlotComes
    <3>2. phase' = phase
          BY <1>4, AddsOne DEF BasePass, FrameHeard, SlotPasses, EnterStandby, vars, linkVars
    <3> QED BY <3>1, <3>2
  <2> QED BY <2>2, <2>3
<1>5. CASE AckHeard
  <2>1. NoOlderThan(Limit, pending')
        BY <1>0, <1>1, <1>2, <1>5, DroppingAgesNothing DEF AckHeard, ReceiveAck
  <2>2. ~NodeSlotComes
        BY <1>5 DEF AckHeard, NodeSlotComes
  <2> QED BY <1>3, <2>1, <2>2
<1>6. CASE NodeUpdates /\ (StartUpdate \/ SendFresh(TRUE) \/ EndUpdate)
  <2>1. StartUpdate => NoOlderThan(Limit, pending')
        BY <1>0, <1>1, <1>2, DroppingAgesNothing DEF StartUpdate
  <2>2. SendFresh(TRUE) => NoOlderThan(Limit, pending')
        BY <1>0, <1>1, <1>2, SendingAgesNothing
  <2>3. EndUpdate => NoOlderThan(Limit, pending')
        BY <1>0, <1>1, <1>2, PickingAgesNothing DEF EndUpdate
  <2>4. ~NodeSlotComes
        BY <1>6 DEF NodeUpdates, NodeSlotComes
  <2>5. NoOlderThan(Limit, pending')
        BY <1>6, <2>1, <2>2, <2>3
  <2> QED BY <1>3, <2>4, <2>5
<1>7. CASE NodeSlotComes
  <2>1. pending' = pending
        BY <1>7 DEF NodeSlotComes, SlotOpens, nodeVars
  <2>2. ASSUME NEW i \in Slots, IsUsed(pending[i])
        PROVE  pending[i].age <= Limit'
    <3>1. pending[i].age \in Int
      <4>1. pending[i] \in EntryShape
            BY <1>0, <2>2, SlotIsTyped
      <4> QED BY <4>1, EntryIsTyped
    <3>2. pending[i].age <= Limit /\ Limit <= Limit'
          BY <1>7, <2>2, MissedIsCounted DEF Young
    <3> QED BY <1>1, <3>1, <3>2
  <2> QED BY <2>1, <2>2 DEF Young
<1>8. CASE FrameEnds
  <2>0. ~NodeSlotComes
        BY <1>8 DEF FrameEnds, NodeSlotComes
  <2>1. CASE duty = "standby"
        BY <1>2, <1>3, <1>8, <2>0, <2>1 DEF FrameEnds, StandbyPasses
  <2>2. CASE duty # "standby"
    <3>1. ~Asleep /\ ~Asleep'
      <4>1. Asleep' = Asleep
            BY <1>8, CalmTick DEF Same, Asleep
      <4> QED BY <1>8, <2>2, <4>1, AwakeIsAwake
    <3>2. Limit' = Skipped' + 1 /\ Limit = Skipped /\ Skipped \in Nat /\ Skipped <= Skipped'
          BY <1>8, <3>1, MissedSteps DEF Limit
    <3>3. NoOlderThan(Limit + 1, pending')
          BY <1>0, <1>1, <1>2, <1>8, <2>2, AgingByOne DEF FrameEnds
    <3>4. Limit + 1 <= Limit'
          BY <1>1, <3>2, MissedSteps
    <3>5. ASSUME NEW i \in Slots, IsUsed(pending'[i])
          PROVE  pending'[i].age <= Limit'
      <4>1. pending' \in [Slots -> EntryShape \cup {Free}]
            BY LinkTypedNext DEF LinkTyped, AirInv, PendingOK
      <4>2. pending'[i].age \in Int
        <5>1. pending'[i] \in EntryShape
              BY <3>5, <4>1, SlotIsTyped
        <5> QED BY <5>1, EntryIsTyped
      <4>3. pending'[i].age <= Limit + 1
            BY <3>3, <3>5 DEF NoOlderThan
      <4> QED BY <1>1, <3>4, <4>2, <4>3
    <3> QED BY <3>5 DEF Young
  <2> QED BY <2>1, <2>2
<1> QED BY <1>4, <1>5, <1>6, <1>7, <1>8 DEF CalmNext

-----------------------------------------------------------------------------
LEMMA NothingIsResent ==
  ASSUME LinkTyped, Turns, slotRetx = 0, CalmNext
  PROVE  slotRetx' = 0
<1>1. CASE Adds
      BY <1>1, AddsOne
<1>2. CASE ~Adds
      BY <1>2 DEF CalmNext, BasePass, AckHeard, ReceiveAck, NodeSlotComes, SlotOpens, NodeUpdates,
         StartUpdate, SendFresh, EndUpdate, FrameHeard, AirClears, SlotPasses, SlotShrinks,
         FrameEnds, TimePasses, StandbyPasses, EnterStandby, vars, nodeVars
<1> QED BY <1>1, <1>2

LEMMA PaceInvInit == LinkInit => PaceInv
<1> SUFFICES ASSUME LinkInit  PROVE Paced
    BY DEF PaceInv
<1>1. queue = <<>> /\ air = None /\ ackAir = NoAck /\ slotRetx = 0
      /\ \A i \in Slots : ~IsUsed(pending[i])
      BY FreeIsUnused DEF LinkInit, NodeInit, BaseInit
<1>2. tracker[TheNode] = FreshTracker
      BY OneNode DEF LinkInit, BaseInit
<1>3. ~Window.init /\ ~Told.init /\ ~Asleep /\ NoFailure /\ ~Untold(tracker[TheNode])
      BY <1>2 DEF Window, Told, Asleep, NoFailure, Untold, FreshTracker, FreshWindow
<1>4. InLine
      BY <1>1 DEF InLine, Sorted, EndsTheQueue, EndOnAir
<1>5. NotYetHeard /\ ToldBelow /\ ToldNow /\ ToldNothing /\ Lately /\ Waking
      BY <1>1, <1>3 DEF NotYetHeard, ToldBelow, ToldNow, ToldNothing, Lately, Waking
<1>6. TakenIn /\ Young
      BY <1>1 DEF TakenIn, Young, InWindow
<1> QED BY <1>1, <1>3, <1>4, <1>5, <1>6 DEF Paced

LEMMA PaceInvNext ==
  ASSUME RetryWait >= 2, SilenceFrames >= 2,
         LinkTyped, Turns, QuietInv, SoundInv, NumbersAreNear, ToldIsNear, PaceInv,
         [LinkNext /\ ~DeferFresh]_vars
  PROVE  PaceInv'
<1> SUFFICES ASSUME Calm', Skipped' <= 1  PROVE Paced'
    BY DEF PaceInv
<1>0. [LinkNext]_vars
      OBVIOUS
<1>1. /\ Calm /\ NothingLost' /\ faults["session"] = 0 /\ faults'["session"] = 0
      /\ Skipped \in Nat /\ Skipped' \in Nat /\ Skipped <= Skipped'
      /\ \A kind : Fault(kind) => kind = "skip"
      BY <1>0, CalmBefore
<1>2. Skipped <= 1
      BY <1>1
<1>3. Paced
      BY <1>1, <1>2 DEF PaceInv
<1>4. CalmNext
      BY <1>3, CalmSteps
<1>5. ~Reboot /\ ~SessionChanges /\ ~Fault("refusal")
      BY <1>1 DEF Reboot, SessionChanges
<1>6. /\ Near(nextSeq) /\ Sound /\ AirIsPending
      /\ Told.init => 2 * Dist(Told.base, nextSeq) < SeqSpace
      BY <1>1 DEF NumbersAreNear, SoundInv, ToldIsNear
<1>7. AllSent(pending)
      BY <1>0, <1>1, NothingWasLost DEF QuietInv
<1>8. /\ InLine /\ NotYetHeard /\ TakenIn /\ ToldBelow /\ ToldNow /\ ToldNothing
      /\ Young /\ Lately /\ NoFailure /\ Waking /\ slotRetx = 0
      BY <1>3 DEF Paced
<1>9. InLine'
      BY <1>4, <1>8, LineNext
<1>10. NotYetHeard'
      BY <1>0, <1>4, <1>5, <1>6, <1>8, NotYetHeardNext
<1>11. TakenIn'
      BY <1>0, <1>4, <1>5, <1>6, <1>8, TakenInNext
<1>12. ToldBelow'
      BY <1>0, <1>4, <1>5, <1>6, <1>8, ToldBelowNext
<1>13. ToldNow'
      BY <1>0, <1>4, <1>5, <1>8, ToldNowNext
<1>14. ToldNothing'
      BY <1>0, <1>4, <1>5, <1>6, <1>7, <1>8, ToldNothingNext
<1>15. Young'
      BY <1>0, <1>2, <1>4, <1>8, YoungNext
<1>16. Lately'
      BY <1>0, <1>2, <1>4, <1>8, LatelyNext
<1>17. NoFailure'
      BY <1>4, <1>5, <1>8, NoFailureNext
<1>18. Waking'
      BY <1>4, <1>5, <1>8, WakingNext
<1>19. slotRetx' = 0
      BY <1>4, <1>8, NothingIsResent
<1> QED BY <1>9, <1>10, <1>11, <1>12, <1>13, <1>14, <1>15, <1>16, <1>17, <1>18, <1>19 DEF Paced

LEMMA PaceIsTolerance ==
  ASSUME LinkTyped, PaceInv
  PROVE  OneSkipIsTolerated
<1> SUFFICES ASSUME Calm, slotRetx > 0  PROVE Skipped > 1
    BY DEF OneSkipIsTolerated, Calm, Skipped
<1>1. Skipped \in Nat
  <2>1. faults \in [FaultKinds -> 0 .. MaxFaults] /\ "skip" \in FaultKinds /\ MaxFaults \in Nat
        BY TelemetryLinkAssumption DEF LinkTyped, LinkOwnTypes, FaultKinds
  <2> QED BY <2>1 DEF Skipped
<1>2. ~(Skipped <= 1)
      BY DEF PaceInv, Paced
<1> QED BY <1>1, <1>2

(***************************************************************************)
(* One missed base slot costs nothing: when other traffic has taken one of *)
(* the base's slots and nothing else went wrong, the node has sent nothing *)
(* again.  What is asked of the configuration is that the retry wait and   *)
(* the base's silence limit are two frames or more and that a fresh frame  *)
(* holds retransmissions off; what is asked of the run is that no frame    *)
(* goes back to the queue's tail (see OnlyGapsAreResent) and that less     *)
(* than half of the numbers lie between the node and what the base has     *)
(* heard and told (drainTxQueue, pickRetransmitCandidate,                  *)
(* sendPendingAckSummary).                                                 *)
(***************************************************************************)
THEOREM OneSkippedSlotIsTolerated ==
  ASSUME FreshHoldoff > 0, RetryWait >= 2, SilenceFrames >= 2
  PROVE  LinkSpec /\ [][~DeferFresh]_vars /\ []NumbersAreNear /\ []ToldIsNear
           => []OneSkipIsTolerated
<1>1. [LinkNext]_vars /\ [~DeferFresh]_vars => [LinkNext /\ ~DeferFresh]_vars
      OBVIOUS
<1>2. LinkTyped /\ Turns /\ QuietInv /\ [LinkNext /\ ~DeferFresh]_vars => QuietInv'
      BY QuietInvNext
<1>3. LinkTyped /\ Turns /\ QuietInv /\ SoundInv /\ NumbersAreNear /\ ToldIsNear /\ PaceInv
        /\ [LinkNext /\ ~DeferFresh]_vars => PaceInv'
      BY PaceInvNext
<1>4. LinkTyped /\ PaceInv => OneSkipIsTolerated
      BY PaceIsTolerance
<1> QED BY <1>1, <1>2, <1>3, <1>4, LinkTypedInit, TurnsInit, SoundInvInit, QuietInvInit,
           PaceInvInit, LinkTypedNext, TurnsNext, SoundInvNext, PTL DEF LinkSpec

-----------------------------------------------------------------------------
\* What the base told the node last, whatever goes wrong.
LEMMA FailedFields ==
  ASSUME NEW t \in Trackers
  PROVE  PassedOver(t).lastSent = t.lastSent
<1>1. Suppressed(t).lastSent = t.lastSent /\ Failed(t).lastSent = t.lastSent
      BY Zenon DEF Suppressed, Failed, Trackers
<1> QED BY <1>1, Zenon DEF PassedOver

LEMMA PassTells ==
  ASSUME LinkTyped, BasePass
  PROVE  Told' = Told \/ (Window.init /\ Told' = Window)
<1> DEFINE t == tracker[TheNode]
<1>1. t \in Trackers /\ TheNode \in Nodes /\ TheNode = 0 /\ AllGood
      BY OneNode DEF LinkTyped, AllGood, TheNode
<1>2. Turn(0) = TheNode
  <2>1. 0 \in 0 .. NumNodes - 1
        BY BaseAckAssumption
  <2> QED BY <1>1, <2>1, TurnIsNode, OneNode
<1>3. ASSUME NEW k, NEW last, tracker' = AfterLoop(k, last),
             last.lastSent = t.lastSent \/ (t.win.init /\ last.lastSent = t.win)
      PROVE  Told' = Told \/ (Window.init /\ Told' = Window)
  <2>1. AfterLoop(k, last)[TheNode] \in {PassedOver(t), last, t}
        BY <1>1, Zenon DEF AfterLoop
  <2>2. tracker'[TheNode] \in {PassedOver(t), last, t}
        BY <1>3, <2>1
  <2>3. PassedOver(t).lastSent = t.lastSent
        BY <1>1, FailedFields, Zenon
  <2> QED BY <1>3, <2>2, <2>3 DEF Told, Window
<1>4. CASE AckPassSends(0)
  <2>1. Due(t) /\ tracker' = AfterLoop(0, Acked(t))
        BY <1>2, <1>4 DEF AckPassSends
  <2>2. t.win.init
        BY <2>1 DEF Due, Eligible
  <2>3. Acked(t).lastSent = t.win
        BY <1>1, AckedFields, Zenon
  <2> QED BY <1>3, <2>1, <2>2, <2>3
<1>5. CASE AckPassOutOfTime(0)
      BY <1>2, <1>3, <1>5 DEF AckPassOutOfTime
<1>6. CASE AckPassEnds
      BY <1>1, <1>3, <1>6 DEF AckPassEnds
<1>7. CASE RateLimitEnds
      BY <1>7 DEF RateLimitEnds, Told
<1> QED BY <1>4, <1>5, <1>6, <1>7 DEF BasePass

LEMMA TellingSteps ==
  ASSUME LinkTyped, [LinkNext]_vars
  PROVE  Told' = Told \/ (Window.init /\ Told' = Window) \/ ~Told'.init
<1>1. CASE BasePass
      BY <1>1, PassTells
<1>2. CASE FrameHeard
      BY <1>2, CalmHears DEF Told
<1>3. CASE FrameEnds
      BY <1>3, CalmTick DEF Same, Told
<1>4. CASE Reboot
  <2>1. tracker'[TheNode] = FreshTracker
        BY <1>4, OneNode DEF Reboot, ResetAckTracker, LinkTyped, AllGood
  <2> QED BY <2>1 DEF Told, FreshTracker, FreshWindow
<1>5. CASE ~BasePass /\ ~FrameHeard /\ ~FrameEnds /\ ~Reboot
  <2>1. tracker' = tracker
        BY <1>5 DEF LinkNext, vars, baseVars, AckHeard, AckLost, AckClears, NodeSlotComes, Sample,
           NodeUpdates, SendRefused, FrameLost, SlotPasses, CloseWindow, EnterStandby, Wake,
           SessionChanges
  <2> QED BY <2>1 DEF Told
<1> QED BY <1>1, <1>2, <1>3, <1>4, <1>5

\* Until half the numbers are used, it is behind the next one too.
ToldIsUnwrapped == faults["session"] = 0 => (Told.init => Told.base < nextSeq)

LEMMA ToldUnwrappedNext ==
  ASSUME LinkTyped, Turns, UnwrappedInv, ToldIsUnwrapped, [LinkNext]_vars, 2 * MaxId < SeqSpace
  PROVE  ToldIsUnwrapped'
<1> SUFFICES ASSUME faults'["session"] = 0, Told'.init  PROVE Told'.base < nextSeq'
    BY DEF ToldIsUnwrapped
<1>1. faults["session"] = 0 /\ ~SessionChanges
      BY SessionsOnlyGrow
<1>2. Unwrapped /\ (Told.init => Told.base < nextSeq)
      BY <1>1 DEF UnwrappedInv, ToldIsUnwrapped
<1>3. nextSeq \in Seqs /\ nextId \in 1 .. MaxId + 1
      BY DEF LinkTyped, AirInv
<1>4. CASE Reboot
  <2>1. tracker'[TheNode] = FreshTracker
        BY <1>4, OneNode DEF Reboot, ResetAckTracker, LinkTyped, AllGood
  <2> QED BY <2>1 DEF Told, FreshTracker, FreshWindow
<1>5. CASE ~Reboot
  <2>1. Told'.base \in Seqs /\ Told'.base < nextSeq
    <3>1. Told' \in {Told, Window} /\ Told \in Windows /\ Window \in Windows
          BY TellingSteps, WindowIsTyped
    <3>2. Told'.base < nextSeq
          BY <1>2, TellingSteps DEF Unwrapped
    <3> QED BY <3>1, <3>2 DEF Windows
  <2>2. CASE nextSeq' = nextSeq
        BY <2>1, <2>2
  <2>3. ASSUME NEW kind \in TelemetryKinds, Sample(kind)
        PROVE  Told'.base < nextSeq'
    <3>1. nextSeq' = Advance(nextSeq, 1) /\ nextId \in Ids
          BY <2>3 DEF Sample, Enqueue
    <3>2. nextSeq' = nextSeq + 1
          BY <1>2, <1>3, <3>1, NodeTxAssumption, AckWindowAssumption
          DEF Unwrapped, Advance, Seqs, Ids
    <3> QED BY <1>3, <2>1, <3>2 DEF Seqs
  <2> QED BY <1>1, <1>5, <2>2, <2>3, LiveSteps
<1> QED BY <1>4, <1>5

LEMMA ToldUnwrappedIsNear ==
  ASSUME LinkTyped, UnwrappedInv, ToldIsUnwrapped, 2 * MaxId < SeqSpace
  PROVE  ToldIsNear
<1> SUFFICES ASSUME faults["session"] = 0, Told.init
             PROVE  2 * Dist(Told.base, nextSeq) < SeqSpace
    BY DEF ToldIsNear
<1>1. nextSeq \in Seqs /\ nextId \in 1 .. MaxId + 1 /\ nextSeq < nextId /\ Told.base < nextSeq
      BY DEF LinkTyped, AirInv, UnwrappedInv, Unwrapped, ToldIsUnwrapped
<1>2. Told.base \in Seqs
      BY WindowIsTyped DEF Windows
<1> QED BY <1>1, <1>2, NodeTxAssumption, AckWindowAssumption DEF Dist, Seqs

(***************************************************************************)
(* Of the numbers nothing is asked until the node has used half of them:   *)
(* till then they are near.                                                *)
(***************************************************************************)
COROLLARY OneSkippedSlotIsToleratedUnwrapped ==
  ASSUME FreshHoldoff > 0, RetryWait >= 2, SilenceFrames >= 2, 2 * MaxId < SeqSpace
  PROVE  LinkSpec /\ [][~DeferFresh]_vars => []OneSkipIsTolerated
<1>1. LinkInit => UnwrappedInv /\ ToldIsUnwrapped
  <2>1. LinkInit => ~Told.init
        BY OneNode DEF LinkInit, BaseInit, Told, FreshTracker, FreshWindow
  <2> QED BY <2>1, UnwrappedInit DEF ToldIsUnwrapped
<1>2. LinkTyped /\ UnwrappedInv /\ ToldIsUnwrapped => NumbersAreNear /\ ToldIsNear
      BY UnwrappedIsNear, ToldUnwrappedIsNear
<1>3. LinkTyped /\ Turns /\ SoundInv /\ UnwrappedInv /\ ToldIsUnwrapped /\ [LinkNext]_vars
        => UnwrappedInv' /\ ToldIsUnwrapped'
      BY UnwrappedNext, ToldUnwrappedNext
<1>4. [LinkNext]_vars /\ [~DeferFresh]_vars => [LinkNext /\ ~DeferFresh]_vars
      OBVIOUS
<1>5. LinkTyped /\ Turns /\ QuietInv /\ [LinkNext /\ ~DeferFresh]_vars => QuietInv'
      BY QuietInvNext
<1>6. LinkTyped /\ Turns /\ QuietInv /\ SoundInv /\ NumbersAreNear /\ ToldIsNear /\ PaceInv
        /\ [LinkNext /\ ~DeferFresh]_vars => PaceInv'
      BY PaceInvNext
<1>7. LinkTyped /\ PaceInv => OneSkipIsTolerated
      BY PaceIsTolerance
<1> QED BY <1>1, <1>2, <1>3, <1>4, <1>5, <1>6, <1>7, LinkTypedInit, TurnsInit, SoundInvInit,
           QuietInvInit, PaceInvInit, LinkTypedNext, TurnsNext, SoundInvNext, PTL DEF LinkSpec

=============================================================================
