---------------------------- MODULE NodeDataProofs ---------------------------
(***************************************************************************)
(* What a node holds between its sensors and the air: the ring of frames   *)
(* that wait, and the bundle of readings under way.                        *)
(*                                                                         *)
(* The ring, for every depth, set of frames and counter width: its indices *)
(* stay consistent, which is the inductive invariant; under it an enqueue  *)
(* is a put, a dequeue a get and a clear a discard of the drop-oldest FIFO *)
(* that the ring implements.                                               *)
(*                                                                         *)
(* The bundle, for any fields, units, clamps, length and readings: what    *)
(* the edge shows of it is within half a unit of what the node took, or    *)
(* marked as clamped, and a time is off by no more than half a tick for    *)
(* each reading before it.  Rounding is near by arithmetic; a difference   *)
(* is near by that; and a bundle under way agrees with the readings it was *)
(* made of, one by one, which is the invariant.                            *)
(***************************************************************************)
EXTENDS TxQueue, BundleCodec, SequenceTheorems, TLAPS


IInv == TypeOK /\ RingConsistent

(***************************************************************************)
(* The constructor's clamp leaves at least one entry and asks for no more  *)
(* than were allocated.                                                    *)
(***************************************************************************)
LEMMA CapacityBounds == Capacity \in 1 .. MaxDepth
  BY TxQueueAssumption DEF Capacity

(***************************************************************************)
(* An index stays inside the ring.                                         *)
(***************************************************************************)
LEMMA BumpType == ASSUME NEW i \in 0 .. Capacity - 1
                  PROVE  Bump(i) \in 0 .. Capacity - 1
  BY CapacityBounds DEF Bump

(***************************************************************************)
(* A function on 1 .. n with values in S is a sequence of length n.        *)
(***************************************************************************)
LEMMA FunctionIsSeq ==
  ASSUME NEW S, NEW n \in Nat, NEW q,
         q = [i \in 1 .. n |-> q[i]],
         \A i \in 1 .. n : q[i] \in S
  PROVE  q \in Seq(S) /\ Len(q) = n
<1>1. [i \in 1 .. n |-> q[i]] \in Seq(S)
  BY IsASeq
<1>2. q \in Seq(S)
  BY <1>1, Zenon
<1>3. DOMAIN q = 1 .. n
  OBVIOUS
<1>4. Len(q) \in Nat /\ DOMAIN q = 1 .. Len(q)
  BY <1>2, LenProperties
<1>. QED  BY <1>2, <1>3, <1>4

(***************************************************************************)
(* The queued frames form a sequence of length count, before and after a   *)
(* step.                                                                   *)
(***************************************************************************)
LEMMA QueuedIsSeq ==
  ASSUME IInv
  PROVE  Queued \in Seq(Frames) /\ Len(Queued) = count
<1>1. count \in Nat
  BY CapacityBounds, TxQueueAssumption DEF IInv, TypeOK
<1>2. \A i \in 1 .. count : Queued[i] \in Frames
  BY DEF IInv, RingConsistent
<1>3. Queued = [i \in 1 .. count |-> Queued[i]]
  BY DEF Queued
<1>. QED  BY <1>1, <1>2, <1>3, FunctionIsSeq

LEMMA QueuedIsSeqNext ==
  ASSUME IInv'
  PROVE  Queued' \in Seq(Frames) /\ Len(Queued') = count'
<1>1. count' \in Nat
  BY CapacityBounds, TxQueueAssumption DEF IInv, TypeOK
<1>2. \A i \in 1 .. count' : Queued'[i] \in Frames
  BY DEF IInv, RingConsistent
<1>3. Queued' = [i \in 1 .. count' |-> Queued'[i]]
  BY DEF Queued
<1>. QED  BY <1>1, <1>2, <1>3, FunctionIsSeq

LEMMA InitIInv == Init => IInv
  BY CapacityBounds, TxQueueAssumption
  DEF Init, IInv, TypeOK, RingConsistent, Place, Queued

(***************************************************************************)
(* enqueue() keeps the ring consistent, whether it evicts or not.          *)
(***************************************************************************)
LEMMA EnqueueIInv ==
  ASSUME IInv, NEW f \in Frames, Enqueue(f)
  PROVE  IInv'
<1>. USE CapacityBounds, TxQueueAssumption
<1>1. TypeOK'
  <2>1. entries' \in [0 .. MaxDepth - 1 -> Frames \cup {NoFrame}]
    BY DEF IInv, TypeOK, Enqueue
  <2>2. head' \in 0 .. Capacity - 1 /\ tail' \in 0 .. Capacity - 1
    BY BumpType DEF IInv, TypeOK, Enqueue
  <2>3. count' \in 0 .. Capacity
    BY DEF IInv, TypeOK, Enqueue
  <2>4. droppedOldest' \in 0 .. CounterSize - 1
    BY DEF IInv, TypeOK, Enqueue
  <2>. QED  BY <2>1, <2>2, <2>3, <2>4 DEF Enqueue, TypeOK
<1>2. tail' = Place(count)'
  BY DEF IInv, TypeOK, RingConsistent, Enqueue, Place, Bump
<1>3. ASSUME NEW i \in 1 .. count'  PROVE Queued'[i] \in Frames
  <2>1. Queued'[i] = entries'[Place(i - 1)']
    BY <1>3 DEF Queued
  <2>2. CASE Place(i - 1)' = tail
    BY <2>1, <2>2 DEF IInv, TypeOK, Enqueue
  <2>3. CASE Place(i - 1)' # tail
    <3>1. \E j \in 1 .. count : Place(i - 1)' = Place(j - 1)
      <4>1. CASE count >= Capacity
        <5>1. i + 1 \in 1 .. count /\ Place(i - 1)' = Place((i + 1) - 1)
          BY <1>3, <2>3, <4>1
          DEF IInv, TypeOK, RingConsistent, Enqueue, Place, Bump
        <5>. QED  BY <5>1
      <4>2. CASE ~(count >= Capacity)
        <5>1. i \in 1 .. count /\ Place(i - 1)' = Place(i - 1)
          BY <1>3, <2>3, <4>2
          DEF IInv, TypeOK, RingConsistent, Enqueue, Place
        <5>. QED  BY <5>1
      <4>. QED  BY <4>1, <4>2
    <3>2. PICK j \in 1 .. count : Place(i - 1)' = Place(j - 1)
      BY <3>1
    <3>3. entries[Place(j - 1)] \in Frames
      BY DEF IInv, RingConsistent, Queued
    <3>. QED  BY <2>1, <2>3, <3>2, <3>3 DEF IInv, TypeOK, Enqueue
  <2>. QED  BY <2>2, <2>3
<1>. QED  BY <1>1, <1>2, <1>3 DEF IInv, RingConsistent

(***************************************************************************)
(* dequeue() keeps the ring consistent.                                    *)
(***************************************************************************)
LEMMA DequeueIInv ==
  ASSUME IInv, Dequeue
  PROVE  IInv'
<1>. USE CapacityBounds, TxQueueAssumption
<1>1. TypeOK'
  <2>1. head' \in 0 .. Capacity - 1
    BY BumpType DEF IInv, TypeOK, Dequeue
  <2>2. entries[head] \in Frames \cup {NoFrame}
    BY DEF IInv, TypeOK
  <2>. QED  BY <2>1, <2>2 DEF IInv, TypeOK, Dequeue
<1>2. tail' = Place(count)'
  BY DEF IInv, TypeOK, RingConsistent, Dequeue, Place, Bump
<1>3. ASSUME NEW i \in 1 .. count'  PROVE Queued'[i] \in Frames
  <2>1. i + 1 \in 1 .. count /\ Place(i - 1)' = Place((i + 1) - 1)
    BY <1>3 DEF IInv, TypeOK, Dequeue, Place, Bump
  <2>2. Queued'[i] = entries[Place((i + 1) - 1)]
    BY <1>3, <2>1 DEF Queued, Dequeue
  <2>3. Queued[i + 1] = entries[Place((i + 1) - 1)]
    BY <2>1 DEF Queued
  <2>. QED  BY <2>1, <2>2, <2>3 DEF IInv, RingConsistent
<1>. QED  BY <1>1, <1>2, <1>3 DEF IInv, RingConsistent

LEMMA NextIInv == IInv /\ [Next]_vars => IInv'
<1>. SUFFICES ASSUME IInv, [Next]_vars  PROVE IInv'
  OBVIOUS
<1>1. CASE \E f \in Frames : Enqueue(f)
  BY <1>1, EnqueueIInv
<1>2. CASE Dequeue
  BY <1>2, DequeueIInv
<1>3. CASE Clear
  BY <1>3, CapacityBounds DEF IInv, TypeOK, RingConsistent, Clear, Place, Queued
<1>4. CASE UNCHANGED vars
  BY <1>4 DEF IInv, TypeOK, RingConsistent, vars, Place, Queued
<1>. QED  BY <1>1, <1>2, <1>3, <1>4 DEF Next

LEMMA IInvHolds == Spec => []IInv
<1>. QED  BY InitIInv, NextIInv, PTL DEF Spec

(***************************************************************************)
(* The indices and the count stay inside the ring, which is never larger   *)
(* than the entries allocated, and the eviction counter inside its width.  *)
(***************************************************************************)
THEOREM RingIsTyped == Spec => []TypeOK
<1>1. IInv => TypeOK
  BY DEF IInv
<1>. QED  BY <1>1, IInvHolds, PTL

(***************************************************************************)
(* The indices of the ring agree in every reachable state, and every entry *)
(* between head and tail holds a frame.                                    *)
(***************************************************************************)
THEOREM RingStaysConsistent == Spec => []RingConsistent
<1>1. IInv => RingConsistent
  BY DEF IInv
<1>. QED  BY <1>1, IInvHolds, PTL

-----------------------------------------------------------------------------
(***************************************************************************)
(* When the head moves, the frame i places from the new head was i + 1     *)
(* places from the old one, or is the one just written.                    *)
(***************************************************************************)
LEMMA EvictionShifts ==
  ASSUME IInv, NEW f \in Frames, Enqueue(f), count >= Capacity,
         NEW i \in 1 .. count
  PROVE  IF i = count THEN Place(i - 1)' = tail
         ELSE Place(i - 1)' = Place((i + 1) - 1) /\ Place(i - 1)' # tail
  BY CapacityBounds, TxQueueAssumption
  DEF IInv, TypeOK, RingConsistent, Enqueue, Place, Bump

LEMMA DequeueShifts ==
  ASSUME IInv, Dequeue, NEW i \in 1 .. count - 1
  PROVE  i + 1 \in 1 .. count /\ Place(i - 1)' = Place((i + 1) - 1)
  BY CapacityBounds, TxQueueAssumption DEF IInv, TypeOK, Dequeue, Place, Bump

(***************************************************************************)
(* enqueue() is the abstract Put.                                          *)
(***************************************************************************)
LEMMA EnqueueIsPut ==
  ASSUME IInv, IInv', NEW f \in Frames, Enqueue(f)
  PROVE  Fifo!Put(f)
<1>. USE CapacityBounds, TxQueueAssumption
<1>1. Queued \in Seq(Frames) /\ Len(Queued) = count
  BY QueuedIsSeq
<1>2. CASE count >= Capacity
  <2>. DEFINE q == Append(Tail(Queued), f)
  <2>1. count = Capacity /\ count' = count
    BY <1>2 DEF IInv, TypeOK, Enqueue
  <2>2. Queued # <<>>
    BY <1>1, <2>1
  <2>3. /\ q \in Seq(Frames) /\ Len(q) = count
        /\ \A i \in 1 .. count : q[i] = IF i = count THEN f ELSE Queued[i + 1]
    BY <1>1, <2>1, <2>2
  <2>4. Queued' \in Seq(Frames) /\ Len(Queued') = count
    BY QueuedIsSeqNext, <2>1
  <2>5. ASSUME NEW i \in 1 .. count  PROVE Queued'[i] = q[i]
    <3>1. Queued'[i] = entries'[Place(i - 1)']
      BY <2>1 DEF Queued
    <3>. HIDE DEF q
    <3>2. CASE i = count
      <4>1. Place(i - 1)' = tail
        BY <1>2, <3>2, EvictionShifts
      <4>. QED  BY <2>3, <3>1, <3>2, <4>1 DEF IInv, TypeOK, Enqueue
    <3>3. CASE i # count
      <4>1. Place(i - 1)' = Place((i + 1) - 1) /\ Place(i - 1)' # tail
        BY <1>2, <3>3, EvictionShifts
      <4>2. i + 1 \in 1 .. count
        BY <3>3, <2>1
      <4>3. Queued[i + 1] = entries[Place((i + 1) - 1)]
        BY <4>2 DEF Queued
      <4>4. q[i] = Queued[i + 1]
        BY <2>3, <3>3
      <4>. QED  BY <3>1, <4>1, <4>3, <4>4 DEF IInv, TypeOK, Enqueue
    <3>. QED  BY <3>2, <3>3
  <2>. HIDE DEF q
  <2>6. Queued' = q
    BY <2>3, <2>4, <2>5, SeqEqual
  <2>. QED  BY <1>1, <1>2, <2>1, <2>6 DEF Fifo!Put, Enqueue, q
<1>3. CASE ~(count >= Capacity)
  <2>. DEFINE q == Append(Queued, f)
  <2>1. count' = count + 1 /\ count \in Nat
    BY <1>3 DEF IInv, TypeOK, Enqueue
  <2>2. /\ q \in Seq(Frames) /\ Len(q) = count + 1
        /\ \A i \in 1 .. count + 1 :
             q[i] = IF i = count + 1 THEN f ELSE Queued[i]
    BY <1>1, <2>1
  <2>3. Queued' \in Seq(Frames) /\ Len(Queued') = count + 1
    BY QueuedIsSeqNext, <2>1
  <2>4. ASSUME NEW i \in 1 .. count + 1  PROVE Queued'[i] = q[i]
    <3>1. Queued'[i] = entries'[Place(i - 1)]
      BY <1>3, <2>1 DEF Queued, Place, Enqueue
    <3>2. CASE i = count + 1
      <4>1. Place(i - 1) = tail
        BY <2>1, <3>2 DEF IInv, RingConsistent
      <4>. QED  BY <2>2, <3>1, <3>2, <4>1 DEF IInv, TypeOK, Enqueue
    <3>3. CASE i # count + 1
      <4>1. Place(i - 1) # tail
        BY <1>3, <2>1, <3>3 DEF IInv, TypeOK, RingConsistent, Place
      <4>2. i \in 1 .. count
        BY <3>3, <2>1
      <4>3. Queued[i] = entries[Place(i - 1)]
        BY <4>2 DEF Queued
      <4>4. q[i] = Queued[i]
        BY <2>2, <3>3
      <4>. HIDE DEF q
      <4>. QED  BY <3>1, <4>1, <4>3, <4>4 DEF IInv, TypeOK, Enqueue
    <3>. QED  BY <3>2, <3>3
  <2>. HIDE DEF q
  <2>5. Queued' = q
    BY <2>2, <2>3, <2>4, SeqEqual
  <2>. QED  BY <1>1, <1>3, <2>5 DEF Fifo!Put, Enqueue, q, IInv, TypeOK
<1>. QED  BY <1>2, <1>3

(***************************************************************************)
(* dequeue() is the abstract Get.                                          *)
(***************************************************************************)
LEMMA DequeueIsGet ==
  ASSUME IInv, IInv', Dequeue
  PROVE  Fifo!Get
<1>. USE CapacityBounds, TxQueueAssumption
<1>1. Queued \in Seq(Frames) /\ Len(Queued) = count
  BY QueuedIsSeq
<1>2. count > 0 /\ count' = count - 1 /\ count \in Nat
  BY DEF Dequeue, IInv, TypeOK
<1>3. Queued # <<>>
  BY <1>1, <1>2
<1>4. Head(Queued) = entries[head]
  BY <1>1, <1>2, <1>3 DEF Queued, Place, IInv, TypeOK
<1>. DEFINE q == Tail(Queued)
<1>5. /\ q \in Seq(Frames) /\ Len(q) = count - 1
      /\ \A i \in 1 .. count - 1 : q[i] = Queued[i + 1]
  BY <1>1, <1>2, <1>3
<1>6. Queued' \in Seq(Frames) /\ Len(Queued') = count - 1
  BY QueuedIsSeqNext, <1>2
<1>7. ASSUME NEW i \in 1 .. count - 1  PROVE Queued'[i] = q[i]
  <2>. HIDE DEF q
  <2>1. i + 1 \in 1 .. count /\ Place(i - 1)' = Place((i + 1) - 1)
    BY DequeueShifts
  <2>2. Queued'[i] = entries[Place((i + 1) - 1)]
    BY <1>2, <2>1 DEF Queued, Dequeue
  <2>3. Queued[i + 1] = entries[Place((i + 1) - 1)]
    BY <2>1 DEF Queued
  <2>4. q[i] = Queued[i + 1]
    BY <1>5
  <2>. HIDE DEF q
  <2>. QED  BY <2>2, <2>3, <2>4
<1>. HIDE DEF q
<1>8. Queued' = q
  BY <1>5, <1>6, <1>7, SeqEqual
<1>. QED  BY <1>3, <1>4, <1>8 DEF Fifo!Get, Dequeue, q

(***************************************************************************)
(* clear() is the abstract Discard.                                        *)
(***************************************************************************)
LEMMA ClearIsDiscard ==
  ASSUME IInv, IInv', Clear
  PROVE  Fifo!Discard
<1>1. Queued' \in Seq(Frames) /\ Len(Queued') = 0
  BY QueuedIsSeqNext DEF Clear
<1>2. Queued' = <<>>
  BY <1>1
<1>. QED  BY <1>2 DEF Fifo!Discard, Clear

(***************************************************************************)
(* The ring buffer implements the drop-oldest FIFO: what a caller of       *)
(* TdmaTxQueue gets back, and what an enqueue into a full queue loses, is  *)
(* what the sequence of queued frames says.                                *)
(***************************************************************************)
THEOREM RingImplementsFifo == Spec => ImplementsFifo
<1>1. Init => Fifo!Init
  <2>. SUFFICES ASSUME Init  PROVE Fifo!Init
    OBVIOUS
  <2>1. Queued \in Seq(Frames) /\ Len(Queued) = 0
    BY InitIInv, QueuedIsSeq DEF Init
  <2>2. Queued = <<>>
    BY <2>1
  <2>. QED  BY <2>2 DEF Init, Fifo!Init
<1>2. IInv /\ IInv' /\ [Next]_vars => [Fifo!Next]_Fifo!vars
  <2>. SUFFICES ASSUME IInv, IInv', [Next]_vars  PROVE [Fifo!Next]_Fifo!vars
    OBVIOUS
  <2>1. CASE \E f \in Frames : Enqueue(f)
    BY <2>1, EnqueueIsPut DEF Fifo!Next
  <2>2. CASE Dequeue
    BY <2>2, DequeueIsGet DEF Fifo!Next
  <2>3. CASE Clear
    BY <2>3, ClearIsDiscard DEF Fifo!Next
  <2>4. CASE UNCHANGED vars
    BY <2>4 DEF vars, Fifo!vars, Queued, Place
  <2>. QED  BY <2>1, <2>2, <2>3, <2>4 DEF Next
<1>. QED  BY <1>1, <1>2, InitIInv, NextIInv, PTL DEF Spec, ImplementsFifo, Fifo!Spec

-----------------------------------------------------------------------------
\* Division of natural numbers by a unit.
LEMMA Division ==
  ASSUME NEW x \in Nat, NEW u \in Nat \ {0}
  PROVE  /\ x \div u \in Nat
         /\ (x \div u) * u <= x
         /\ x < (x \div u) * u + u
  OBVIOUS

\* The rounded quotient is off by at most half a unit, for negative numbers too.
LEMMA RoundingIsNear ==
  ASSUME NEW v \in Int, NEW u \in Nat \ {0}
  PROVE  /\ RoundDivide(v, u) \in Int
         /\ 2 * Distance(RoundDivide(v, u) * u, v) <= u
<1>1. /\ u \div 2 \in Nat
      /\ 2 * (u \div 2) <= u
      /\ u <= 2 * (u \div 2) + 1
      OBVIOUS
<1>2. CASE v >= 0
  <2> DEFINE q == (v + (u \div 2)) \div u
  <2>1. v + (u \div 2) \in Nat
        BY <1>1, <1>2
  <2>2. q \in Nat /\ q * u <= v + (u \div 2) /\ v + (u \div 2) < q * u + u
        BY <2>1, Division
  <2>3. q * u \in Int
        BY <2>2
  <2>4. RoundDivide(v, u) = q
        BY <1>2 DEF RoundDivide
  <2> HIDE DEF q
  <2>5. ASSUME NEW p \in Int, p <= v + (u \div 2), v + (u \div 2) < p + u
        PROVE  2 * Distance(p, v) <= u
        BY <1>1, <2>5 DEF Distance
  <2> QED BY <2>2, <2>3, <2>4, <2>5
<1>3. CASE v < 0
  <2> DEFINE q == (-v + (u \div 2)) \div u
  <2>1. -v + (u \div 2) \in Nat
        BY <1>1, <1>3
  <2>2. q \in Nat /\ q * u <= -v + (u \div 2) /\ -v + (u \div 2) < q * u + u
        BY <2>1, Division
  <2>3. q * u \in Int /\ (-q) * u = -(q * u)
        BY <2>2
  <2>4. RoundDivide(v, u) = -q
        BY <1>3 DEF RoundDivide
  <2> HIDE DEF q
  <2>5. ASSUME NEW p \in Int, p <= -v + (u \div 2), -v + (u \div 2) < p + u
        PROVE  2 * Distance(-p, v) <= u
        BY <1>1, <2>5 DEF Distance
  <2> QED BY <2>2, <2>3, <2>4, <2>5
<1> QED BY <1>2, <1>3

(***************************************************************************)
(* What the edge makes of a delta d to the reading r is near the reading s *)
(* it stands for.                                                          *)
(***************************************************************************)
Near(r, d, s, f) ==
  IF f \in Absolute THEN d.val[f] = s.val[f]
  ELSE \/ f \in d.clamped
       \/ 2 * Distance(r.val[f] + d.val[f] * Unit[f], s.val[f]) <= Unit[f]

Matches(r, ds, ss) ==
  /\ Len(ss) = Len(ds) + 1
  /\ ss[1] = r
  /\ \A i \in 1 .. Len(ds), f \in Fields : Near(r, ds[i], ss[i + 1], f)

CodecInv ==
  /\ CodecTypeOK
  /\ ready => ~hasRef
  /\ hasRef => Matches(ref, deltas, samples)
  /\ ready => Matches(bundle.ref, bundle.deltas, samples)

\* A difference in units is a whole number.
LEMMA UnitsType ==
  ASSUME NEW r \in Readings, NEW s \in Readings, NEW f \in Fields
  PROVE  /\ r.val[f] \in Int /\ s.val[f] \in Int /\ Unit[f] \in Nat \ {0}
         /\ InUnits(r, s, f) \in Int
         /\ 2 * Distance(InUnits(r, s, f) * Unit[f], s.val[f] - r.val[f]) <= Unit[f]
<1>1. r.val[f] \in Int /\ s.val[f] \in Int /\ Unit[f] \in Nat \ {0}
      BY CodecAssumption DEF Readings
<1>2. s.val[f] - r.val[f] \in Int
      BY <1>1
<1> QED BY <1>1, <1>2, RoundingIsNear DEF InUnits

\* makeDelta makes deltas.
LEMMA DeltaType ==
  ASSUME NEW r \in Readings, NEW p \in Readings, NEW s \in Readings
  PROVE  DeltaOf(r, p, s) \in Deltas
<1> DEFINE d == DeltaOf(r, p, s)
<1>1. ASSUME NEW n \in Int, NEW l \in Int, NEW m \in Int, l <= m
      PROVE  Clamped(n, l, m) \in l .. m
      BY <1>1 DEF Clamped
<1>2. Ticks(p, s) \in Int
  <2>1. p.time \in Nat /\ s.time \in Nat /\ Tick \in Nat \ {0}
        BY CodecAssumption DEF Readings
  <2> QED BY <2>1 DEF Ticks
<1>3. d.dt \in 0 .. MaxTicks /\ d.dtClamped \in BOOLEAN
  <2>1. 0 \in Int /\ MaxTicks \in Int /\ 0 <= MaxTicks
        BY CodecAssumption
  <2>2. Clamped(Ticks(p, s), 0, MaxTicks) \in 0 .. MaxTicks
        BY <1>1, <1>2, <2>1
  <2>3. d.dt = Clamped(Ticks(p, s), 0, MaxTicks) /\ d.dtClamped = (Ticks(p, s) > MaxTicks)
        BY DEF DeltaOf
  <2>4. (Ticks(p, s) > MaxTicks) \in BOOLEAN
        OBVIOUS
  <2>5. d.dtClamped \in BOOLEAN
        BY <2>3, <2>4, Zenon
  <2> QED BY <2>2, <2>3, <2>5
<1>4. ASSUME NEW f \in Fields
      PROVE  /\ d.val[f] \in Int
             /\ f \notin Absolute => d.val[f] \in Least[f] .. Most[f]
  <2>1. Least[f] \in Int /\ Most[f] \in Int /\ Least[f] <= Most[f]
        BY CodecAssumption
  <2>2. Clamped(InUnits(r, s, f), Least[f], Most[f]) \in Least[f] .. Most[f]
        BY <1>1, <2>1, UnitsType
  <2>3. d.val[f] = IF f \in Absolute THEN s.val[f]
                   ELSE Clamped(InUnits(r, s, f), Least[f], Most[f])
        BY DEF DeltaOf
  <2> QED BY <2>1, <2>2, <2>3, UnitsType
<1>5. d.val \in [Fields -> Int]
      BY <1>4 DEF DeltaOf
<1>6. d.clamped \subseteq Fields
      BY DEF DeltaOf
<1>7. d = [dt |-> d.dt, dtClamped |-> d.dtClamped, val |-> d.val, clamped |-> d.clamped]
      BY DEF DeltaOf
<1> HIDE DEF d
<1>8. d \in [dt : 0 .. MaxTicks, dtClamped : BOOLEAN, val : [Fields -> Int],
            clamped : SUBSET Fields]
      BY <1>3, <1>5, <1>6, <1>7, Zenon
<1>9. \A f \in Fields \ Absolute : d.val[f] \in Least[f] .. Most[f]
      BY <1>4
<1>10. d \in Deltas
      BY <1>8, <1>9, Zenon DEF Deltas
<1> QED BY <1>10 DEF d

\* What a delta does not mark as clamped it gives to half a unit.
LEMMA DeltaIsNear ==
  ASSUME NEW r \in Readings, NEW p \in Readings, NEW s \in Readings, NEW f \in Fields
  PROVE  Near(r, DeltaOf(r, p, s), s, f)
<1> DEFINE d == DeltaOf(r, p, s)
           n == InUnits(r, s, f)
<1>1. d.val[f] = IF f \in Absolute THEN s.val[f] ELSE Clamped(n, Least[f], Most[f])
      BY DEF DeltaOf
<1>2. f \notin Absolute => (f \in d.clamped <=> n \notin Least[f] .. Most[f])
      BY DEF DeltaOf
<1>3. CASE f \in Absolute
      BY <1>1, <1>3 DEF Near
<1>4. CASE f \notin Absolute /\ n \in Least[f] .. Most[f]
  <2>1. Least[f] \in Int /\ Most[f] \in Int /\ n \in Int
        BY CodecAssumption, UnitsType
  <2>2. d.val[f] = n
        BY <1>1, <1>4, <2>1 DEF Clamped
  <2>3. ASSUME NEW a \in Int, NEW b \in Int, NEW w \in Int, NEW u \in Int,
               2 * Distance(w, b - a) <= u
        PROVE  2 * Distance(a + w, b) <= u
        BY <2>3 DEF Distance
  <2>4. n * Unit[f] \in Int
        BY <2>1, UnitsType
  <2>5. 2 * Distance(r.val[f] + n * Unit[f], s.val[f]) <= Unit[f]
        BY <2>3, <2>4, UnitsType
  <2> QED BY <1>4, <2>2, <2>5 DEF Near
<1>5. CASE f \notin Absolute /\ n \notin Least[f] .. Most[f]
      BY <1>2, <1>5 DEF Near
<1> QED BY <1>3, <1>4, <1>5

\* gateInvalidSensors leaves a reading a reading.
LEMMA GatedType ==
  ASSUME NEW s \in Readings, lastGood \in [Fields -> Int]
  PROVE  Gated(s) \in Readings /\ GoodValues(s) \in [Fields -> Int]
<1>1. GoodValues(s) \in [Fields -> Int]
      BY DEF GoodValues, Readings
<1> QED BY <1>1 DEF Gated, Readings

\* The readings that may come are readings.
LEMMA SnapshotType ==
  ASSUME NEW s \in Snapshots, prev \in Readings
  PROVE  s \in Readings
<1>1. s.time \in Nat
      BY CodecAssumption DEF Snapshots, Readings
<1>2. s.val \in [Fields -> Int]
      BY CodecAssumption DEF Snapshots
<1>3. s.valid \in SUBSET FieldSensors
      BY DEF Snapshots
<1>4. s = [time |-> s.time, valid |-> s.valid, val |-> s.val]
      BY DEF Snapshots
<1> QED BY <1>1, <1>2, <1>3, <1>4 DEF Readings

\* The blank reading and the empty bundle.
LEMMA BlankType ==
  /\ Blank \in Readings /\ Zeros \in [Fields -> Int]
  /\ NoBundle \in [ref : Readings, deltas : Seq(Deltas)] /\ NoBundle.deltas = <<>>
  /\ <<>> \in Seq(Deltas) /\ <<>> \in Seq(Readings)
  /\ Len(<<>>) = 0 /\ 0 < MaxDeltas /\ 0 <= MaxDeltas
<1>1. Blank \in Readings /\ Zeros \in [Fields -> Int]
      BY DEF Blank, Zeros, Readings
<1>2. <<>> \in Seq(Deltas) /\ <<>> \in Seq(Readings) /\ Len(<<>>) = 0
      OBVIOUS
<1>3. 0 < MaxDeltas /\ 0 <= MaxDeltas
      BY CodecAssumption
<1> QED BY <1>1, <1>2, <1>3 DEF NoBundle

\* A reading more, and the delta that goes with it, match.
LEMMA MatchesMore ==
  ASSUME NEW r \in Readings, NEW ds \in Seq(Deltas), NEW ss \in Seq(Readings),
         NEW d \in Deltas, NEW s \in Readings,
         Matches(r, ds, ss),
         \A f \in Fields : Near(r, d, s, f)
  PROVE  Matches(r, Append(ds, d), Append(ss, s))
<1> DEFINE es == Append(ds, d)
           ts == Append(ss, s)
<1>1. Len(es) = Len(ds) + 1 /\ Len(ts) = Len(ss) + 1 /\ Len(ss) = Len(ds) + 1
      BY DEF Matches
<1>2. ts[1] = r
      BY <1>1 DEF Matches
<1>3. ASSUME NEW i \in 1 .. Len(es), NEW f \in Fields
      PROVE  Near(r, es[i], ts[i + 1], f)
  <2>1. CASE i <= Len(ds)
    <3>1. es[i] = ds[i] /\ ts[i + 1] = ss[i + 1]
          BY <1>1, <2>1
    <3> QED BY <2>1, <3>1 DEF Matches
  <2>2. CASE i = Len(ds) + 1
    <3>1. es[i] = d /\ ts[i + 1] = s
          BY <1>1, <2>2
    <3> QED BY <3>1
  <2> QED BY <1>1, <2>1, <2>2
<1> QED BY <1>1, <1>2, <1>3 DEF Matches

\* A bundle that is full, or flushed, matches what was being collected.
LEMMA EncodingMatches ==
  ASSUME NEW ds \in Seq(Deltas), Len(ds) <= MaxDeltas, ref \in Readings,
         Matches(ref, ds, samples'), samples' \in Seq(Readings),
         prev' \in Readings, lastGood' \in [Fields -> Int], encoding' \in BOOLEAN,
         UNCHANGED ref,
         EncodeAccumulatedBundle(ds)
  PROVE  CodecInv'
<1>1. bundle' \in [ref : Readings, deltas : Seq(Deltas)] /\ bundle'.ref = ref /\ bundle'.deltas = ds
      BY DEF EncodeAccumulatedBundle
<1>2. ready' \in BOOLEAN /\ hasRef' \in BOOLEAN /\ ~hasRef' /\ deltas' = <<>>
      BY DEF EncodeAccumulatedBundle
<1>3. ref' = ref
      OBVIOUS
<1>4. CodecTypeOK'
      BY <1>1, <1>2, <1>3, BlankType, Zenon DEF CodecTypeOK
<1>5. Matches(bundle'.ref, bundle'.deltas, samples')
      BY <1>1
<1> QED BY <1>2, <1>4, <1>5, Zenon DEF CodecInv

\* The invariant holds of an empty handler.
LEMMA CodecInvInit == CodecInit => CodecInv
<1> SUFFICES ASSUME CodecInit PROVE CodecInv
    OBVIOUS
<1>1. hasRef = FALSE /\ ready = FALSE /\ encoding = TRUE
      BY DEF CodecInit
<1>2. hasRef \in BOOLEAN /\ ready \in BOOLEAN /\ encoding \in BOOLEAN
      BY <1>1
<1>3. CodecTypeOK
      BY <1>1, <1>2, BlankType, Zenon DEF CodecInit, CodecTypeOK
<1> QED BY <1>1, <1>3, Zenon DEF CodecInv

\* A reset leaves nothing that could disagree.
LEMMA ResetKeeps ==
  ASSUME ResetBundleState, lastGood' \in [Fields -> Int], encoding' \in BOOLEAN
  PROVE  CodecInv'
<1>1. hasRef' = FALSE /\ ready' = FALSE
      BY DEF ResetBundleState
<1>2. hasRef' \in BOOLEAN /\ ready' \in BOOLEAN
      BY <1>1
<1>3. CodecTypeOK'
      BY <1>1, <1>2, BlankType, Zenon DEF ResetBundleState, CodecTypeOK
<1> QED BY <1>1, <1>3, Zenon DEF CodecInv

\* The first reading matches itself.
LEMMA PushFirstKeeps ==
  ASSUME CodecInv, NEW s \in Snapshots, PushFirst(s)
  PROVE  CodecInv'
<1>1. ref \in Readings /\ prev \in Readings /\ lastGood \in [Fields -> Int] /\ encoding \in BOOLEAN
      BY DEF CodecInv, CodecTypeOK
<1>2. Gated(s) \in Readings /\ GoodValues(s) \in [Fields -> Int]
      BY <1>1, SnapshotType, GatedType
<1>3. ref' \in Readings
      BY <1>2 DEF PushFirst, Readings
<1>4. samples' \in Seq(Readings) /\ Len(samples') = 1 /\ samples'[1] = ref'
      BY <1>3 DEF PushFirst
<1>5. Matches(ref', deltas', samples')
      BY <1>4 DEF PushFirst, Matches
<1>6. CodecTypeOK'
  <2>1. hasRef' \in BOOLEAN /\ ready' \in BOOLEAN /\ encoding' \in BOOLEAN
        BY <1>1 DEF PushFirst
  <2>2. prev' = ref' /\ deltas' = <<>> /\ lastGood' = GoodValues(s) /\ bundle' = NoBundle
        BY DEF PushFirst
  <2> QED BY <1>2, <1>3, <1>4, <2>1, <2>2, BlankType, Zenon DEF CodecTypeOK
<1> QED BY <1>5, <1>6 DEF PushFirst, CodecInv

\* A further one adds a delta that is near it.
LEMMA PushNextKeeps ==
  ASSUME CodecInv, NEW s \in Snapshots, PushNext(s)
  PROVE  CodecInv'
<1> DEFINE g  == Gated(s)
           d  == DeltaOf(ref, prev, g)
           ds == Append(deltas, d)
<1>1. /\ ref \in Readings /\ prev \in Readings /\ lastGood \in [Fields -> Int]
      /\ encoding \in BOOLEAN /\ ready \in BOOLEAN /\ hasRef \in BOOLEAN
      /\ deltas \in Seq(Deltas) /\ samples \in Seq(Readings)
      /\ bundle \in [ref : Readings, deltas : Seq(Deltas)]
      /\ Len(bundle.deltas) <= MaxDeltas
      BY DEF CodecInv, CodecTypeOK
<1>2. g \in Readings /\ GoodValues(s) \in [Fields -> Int]
      BY <1>1, SnapshotType, GatedType
<1>3. d \in Deltas /\ \A f \in Fields : Near(ref, d, g, f)
      BY <1>1, <1>2, DeltaType, DeltaIsNear
<1>4. Len(deltas) < MaxDeltas /\ Matches(ref, deltas, samples)
      BY DEF PushNext, CodecInv, CodecTypeOK
<1>5. samples' = Append(samples, g) /\ prev' = g /\ UNCHANGED <<ref, encoding>>
      /\ lastGood' = GoodValues(s)
      BY DEF PushNext
<1> HIDE DEF g, d
<1>6. ds \in Seq(Deltas) /\ Len(ds) = Len(deltas) + 1 /\ samples' \in Seq(Readings)
      BY <1>1, <1>2, <1>3, <1>5
<1>7. Matches(ref, ds, samples')
      BY <1>1, <1>2, <1>3, <1>4, <1>5, MatchesMore
<1>8. Len(ds) <= MaxDeltas
      BY <1>1, <1>4, <1>6, CodecAssumption
<1> HIDE DEF ds
<1>9. CASE Len(ds) < MaxDeltas
  <2>1. deltas' = ds /\ ready' = FALSE /\ UNCHANGED <<hasRef, bundle>>
        BY <1>9 DEF PushNext, ds, d, g
  <2>2. CodecTypeOK'
        BY <1>1, <1>2, <1>5, <1>6, <1>9, <2>1 DEF CodecTypeOK
  <2> QED BY <1>5, <1>7, <2>1, <2>2 DEF CodecInv
<1>10. CASE ~(Len(ds) < MaxDeltas)
  <2>1. EncodeAccumulatedBundle(ds)
        BY <1>10 DEF PushNext, ds, d, g
  <2> QED BY <1>1, <1>2, <1>5, <1>6, <1>7, <1>8, <2>1, EncodingMatches
<1> QED BY <1>9, <1>10

\* Every call of the handler keeps it.
LEMMA CodecInvStep == CodecInv /\ [CodecNext]_codecVars => CodecInv'
<1> SUFFICES ASSUME CodecInv, [CodecNext]_codecVars
             PROVE  CodecInv'
    OBVIOUS
<1>1. CASE \E s \in Snapshots : PushFirst(s) \/ PushNext(s)
      BY <1>1, PushFirstKeeps, PushNextKeeps
<1>2. CASE FlushWindow
  <2>1. /\ deltas \in Seq(Deltas) /\ Len(deltas) <= MaxDeltas /\ Matches(ref, deltas, samples)
        /\ samples \in Seq(Readings) /\ ref \in Readings /\ prev \in Readings
        /\ lastGood \in [Fields -> Int] /\ encoding \in BOOLEAN
        BY <1>2, CodecAssumption DEF FlushWindow, CodecInv, CodecTypeOK
  <2>2. EncodeAccumulatedBundle(deltas) /\ UNCHANGED <<ref, prev, lastGood, encoding, samples>>
        BY <1>2 DEF FlushWindow
  <2> QED BY <2>1, <2>2, EncodingMatches
<1>3. CASE TakeBundle
  <2>1. /\ ready' = FALSE /\ ready' \in BOOLEAN /\ bundle' = NoBundle /\ samples' = <<>>
        /\ UNCHANGED <<ref, prev, hasRef, deltas, lastGood, encoding>>
        BY <1>3 DEF TakeBundle
  <2>2. CodecTypeOK'
        BY <2>1, BlankType DEF CodecInv, CodecTypeOK
  <2>3. ~hasRef
        BY <1>3 DEF TakeBundle, CodecInv
  <2> QED BY <2>1, <2>2, <2>3 DEF CodecInv
<1>4. CASE ResetHandler
      BY <1>4, ResetKeeps, BlankType DEF ResetHandler, CodecInv, CodecTypeOK
<1>5. ASSUME NEW on \in BOOLEAN, SetBundleEncodingEnabled(on)
      PROVE  CodecInv'
  <2>1. CASE on
        BY <1>5, <2>1 DEF SetBundleEncodingEnabled, CodecInv, CodecTypeOK
  <2>2. CASE ~on
        BY <1>5, <2>2, ResetKeeps DEF SetBundleEncodingEnabled, CodecInv, CodecTypeOK
  <2> QED BY <2>1, <2>2
<1>6. CASE UNCHANGED codecVars
      BY <1>6 DEF codecVars, CodecInv, CodecTypeOK
<1> QED BY <1>1, <1>2, <1>3, <1>4, <1>5, <1>6 DEF CodecNext

\* CodecInv holds throughout.
THEOREM BundlesMatch == CodecSpec => []CodecInv
  BY CodecInvInit, CodecInvStep, PTL DEF CodecSpec

(***************************************************************************)
(* A bundle never holds more than maxDeltas differences, and a difference  *)
(* fits the bits it is sent in.                                            *)
(***************************************************************************)
THEOREM BundlesAreTyped == CodecSpec => []CodecTypeOK
<1>1. CodecInv => CodecTypeOK
      BY DEF CodecInv
<1> QED BY <1>1, BundlesMatch, PTL

(***************************************************************************)
(* Every value the edge shows of a bundle is within half a unit of the     *)
(* node's, or marked as clamped.                                           *)
(***************************************************************************)
THEOREM ShownReadingsAreClose == CodecSpec => []ReadingsAreClose
<1>1. CodecInv => ReadingsAreClose
  <2> SUFFICES ASSUME CodecInv, ready, NEW i \in 1 .. Len(samples), NEW f \in Fields
               PROVE  \/ 2 * Distance(ShownValue(bundle, i, f), samples[i].val[f]) <= Unit[f]
                      \/ i > 1 /\ f \in bundle.deltas[i - 1].clamped
      BY DEF ReadingsAreClose
  <2>1. /\ Matches(bundle.ref, bundle.deltas, samples) /\ samples \in Seq(Readings)
        /\ bundle.deltas \in Seq(Deltas)
        BY DEF CodecInv, CodecTypeOK
  <2>2. Unit[f] \in Nat /\ samples[i].val[f] \in Int
    <3>1. samples[i] \in Readings
          BY <2>1
    <3>2. samples[i].val[f] \in Int
          BY <3>1 DEF Readings
    <3> QED BY <3>2, CodecAssumption
  <2>3. ASSUME NEW a \in Int, NEW u \in Nat
        PROVE  2 * Distance(a, a) <= u
        BY DEF Distance
  <2>4. CASE i = 1
    <3>1. ShownValue(bundle, i, f) = samples[i].val[f]
          BY <2>1, <2>4 DEF ShownValue, Matches
    <3> QED BY <2>2, <2>3, <3>1
  <2>5. CASE i # 1
    <3>1. i - 1 \in 1 .. Len(bundle.deltas) /\ (i - 1) + 1 = i /\ i > 1
          BY <2>1, <2>5 DEF Matches
    <3>2. Near(bundle.ref, bundle.deltas[i - 1], samples[i], f)
          BY <2>1, <3>1 DEF Matches
    <3>3. CASE f \in Absolute
      <4>1. ShownValue(bundle, i, f) = samples[i].val[f]
            BY <2>5, <3>2, <3>3 DEF ShownValue, Near
      <4> QED BY <2>2, <2>3, <4>1
    <3>4. CASE f \notin Absolute
          BY <2>5, <3>1, <3>2, <3>4 DEF ShownValue, Near
    <3> QED BY <3>3, <3>4
  <2> QED BY <2>4, <2>5
<1> QED BY <1>1, BundlesMatch, PTL

-----------------------------------------------------------------------------
(***************************************************************************)
(* The times.  The edge counts them with a recursive function, so that     *)
(* what is said of ShownTime is said of every function that satisfies its  *)
(* equation, and that there is one: both are kept as the bundle grows.     *)
(***************************************************************************)
Counts(at, r, ds) ==
  at = [k \in 0 .. Len(ds) |-> IF k = 0 THEN r.time ELSE at[k - 1] + ds[k].dt * Tick]

CloseAt(at, ds, ss, i) ==
  /\ at[i - 1] \in Int
  /\ \/ 2 * Distance(at[i - 1], ss[i].time) <= (i - 1) * Tick
     \/ \E k \in 1 .. i - 1 : ds[k].dtClamped

Timed(r, ds, ss) ==
  /\ \E at : Counts(at, r, ds)
  /\ \A at : Counts(at, r, ds) => \A i \in 1 .. Len(ss) : CloseAt(at, ds, ss, i)

TimesInv ==
  /\ hasRef => Timed(ref, deltas, samples) /\ prev = samples[Len(samples)]
  /\ ready => Timed(bundle.ref, bundle.deltas, samples)

\* A gap that is not clamped is given to half a tick.
LEMMA TickIsNear ==
  ASSUME NEW r \in Readings, NEW p \in Readings, NEW s \in Readings, p.time <= s.time
  PROVE  LET d == DeltaOf(r, p, s)
         IN  /\ d.dt * Tick \in Int
             /\ d.dtClamped \/ 2 * Distance(d.dt * Tick, s.time - p.time) <= Tick
<1> DEFINE v == s.time - p.time
           n == Ticks(p, s)
           d == DeltaOf(r, p, s)
<1>1. v \in Nat /\ Tick \in Nat \ {0} /\ MaxTicks \in Nat
      BY CodecAssumption DEF Readings
<1>2. n = RoundDivide(v, Tick)
      BY <1>1 DEF Ticks, RoundDivide
<1>3. n \in Int /\ 2 * Distance(n * Tick, v) <= Tick
      BY <1>1, <1>2, RoundingIsNear
<1>4. n >= 0
  <2>1. v + (Tick \div 2) \in Nat
        BY <1>1
  <2>2. (v + (Tick \div 2)) \div Tick \in Nat
        BY <1>1, <2>1, Division
  <2> QED BY <2>2 DEF Ticks
<1>5. d.dt = Clamped(n, 0, MaxTicks) /\ d.dtClamped = (n > MaxTicks)
      BY DEF DeltaOf
<1> HIDE DEF n, v, d
<1>6. n > MaxTicks \/ d.dt = n
      BY <1>1, <1>3, <1>4, <1>5 DEF Clamped
<1>7. d.dt \in Int
      BY <1>1, <1>3, <1>5 DEF Clamped
<1>8. d.dt * Tick \in Int
      BY <1>1, <1>7
<1> QED BY <1>3, <1>5, <1>6, <1>8 DEF d, v

\* Two errors add up.
LEMMA DistancesAdd ==
  ASSUME NEW a \in Int, NEW w \in Int, NEW p \in Int, NEW t \in Int,
         NEW x \in Int, NEW y \in Int,
         2 * Distance(a, p) <= x, 2 * Distance(w, t - p) <= y
  PROVE  2 * Distance(a + w, t) <= x + y
  BY DEF Distance

\* A function that counts a longer bundle counts the shorter one it extends.
LEMMA CountsLess ==
  ASSUME NEW r, NEW ds \in Seq(Deltas), NEW d \in Deltas, NEW at,
         Counts(at, r, Append(ds, d))
  PROVE  LET less == [k \in 0 .. Len(ds) |-> at[k]]
         IN  /\ Counts(less, r, ds)
             /\ at[Len(ds) + 1] = at[Len(ds)] + d.dt * Tick
<1> DEFINE n == Len(ds)
           es == Append(ds, d)
           less == [k \in 0 .. n |-> at[k]]
<1>1. n \in Nat /\ Len(es) = n + 1 /\ es[n + 1] = d /\ \A k \in 1 .. n : es[k] = ds[k]
      OBVIOUS
<1>2. ASSUME NEW k \in 0 .. n + 1
      PROVE  at[k] = IF k = 0 THEN r.time ELSE at[k - 1] + es[k].dt * Tick
      BY <1>1 DEF Counts
<1> HIDE DEF n, es
<1>3. ASSUME NEW k \in 0 .. n
      PROVE  less[k] = IF k = 0 THEN r.time ELSE less[k - 1] + ds[k].dt * Tick
  <2>1. CASE k = 0
        BY <1>1, <1>2, <2>1
  <2>2. CASE k # 0
    <3>1. k \in 0 .. n + 1 /\ k \in 1 .. n /\ k - 1 \in 0 .. n
          BY <1>1, <2>2
    <3>2. at[k] = at[k - 1] + ds[k].dt * Tick
          BY <1>1, <1>2, <2>2, <3>1
    <3>3. less[k] = at[k] /\ less[k - 1] = at[k - 1]
          BY <3>1
    <3> QED BY <2>2, <3>2, <3>3
  <2> QED BY <2>1, <2>2
<1>4. less = [k \in 0 .. n |-> IF k = 0 THEN r.time ELSE less[k - 1] + ds[k].dt * Tick]
  <2> DEFINE right == [k \in 0 .. n |-> IF k = 0 THEN r.time ELSE less[k - 1] + ds[k].dt * Tick]
  <2>1. \A k \in 0 .. n : less[k] = right[k]
        BY <1>3
  <2>2. less = [k \in 0 .. n |-> less[k]]
        OBVIOUS
  <2>3. right = [k \in 0 .. n |-> right[k]]
        OBVIOUS
  <2> HIDE DEF less, right
  <2>4. less = right
        BY <2>1, <2>2, <2>3
  <2> QED BY <2>4 DEF right
<1>5. at[n + 1] = at[n] + d.dt * Tick
  <2>1. n + 1 \in 0 .. n + 1 /\ n + 1 # 0 /\ (n + 1) - 1 = n
        BY <1>1
  <2> QED BY <1>1, <1>2, <2>1
<1> QED BY <1>4, <1>5 DEF Counts, n

\* One that counts a bundle extends to one that counts a longer one.
LEMMA CountsMore ==
  ASSUME NEW r, NEW ds \in Seq(Deltas), NEW d \in Deltas, NEW at,
         Counts(at, r, ds)
  PROVE  \E more : Counts(more, r, Append(ds, d))
<1> DEFINE n == Len(ds)
           es == Append(ds, d)
           more == [k \in 0 .. n + 1 |-> IF k = n + 1 THEN at[n] + d.dt * Tick ELSE at[k]]
           right == [k \in 0 .. n + 1 |-> IF k = 0 THEN r.time ELSE more[k - 1] + es[k].dt * Tick]
<1>1. n \in Nat /\ Len(es) = n + 1 /\ es[n + 1] = d /\ \A k \in 1 .. n : es[k] = ds[k]
      OBVIOUS
<1>2. ASSUME NEW k \in 0 .. n
      PROVE  at[k] = IF k = 0 THEN r.time ELSE at[k - 1] + ds[k].dt * Tick
      BY <1>1 DEF Counts
<1> HIDE DEF n, es
<1>3. ASSUME NEW k \in 0 .. n + 1  PROVE more[k] = right[k]
  <2>1. CASE k = 0
        BY <1>1, <1>2, <2>1
  <2>2. CASE k = n + 1
        BY <1>1, <2>2
  <2>3. CASE k # 0 /\ k # n + 1
    <3>1. k \in 0 .. n /\ k \in 1 .. n /\ k - 1 \in 0 .. n + 1 /\ k - 1 # n + 1
          BY <1>1, <2>3
    <3>2. more[k] = at[k] /\ more[k - 1] = at[k - 1]
          BY <2>3, <3>1
    <3> QED BY <1>1, <1>2, <2>3, <3>1, <3>2
  <2> QED BY <2>1, <2>2, <2>3
<1>4. more = [k \in 0 .. n + 1 |-> more[k]] /\ right = [k \in 0 .. n + 1 |-> right[k]]
      OBVIOUS
<1> HIDE DEF more
<1>5. more = right
  <2> HIDE DEF right
  <2> QED BY <1>3, <1>4
<1> QED BY <1>1, <1>5 DEF Counts, es

\* The first reading, on its own.
LEMMA TimedFirst ==
  ASSUME NEW r \in Readings, NEW ss \in Seq(Readings), Len(ss) = 1, ss[1] = r
  PROVE  Timed(r, <<>>, ss)
<1>1. Len(<<>>) = 0 /\ 0 .. 0 = {0}
      OBVIOUS
<1>2. Counts([k \in 0 .. 0 |-> r.time], r, <<>>)
      BY <1>1 DEF Counts
<1>3. ASSUME NEW at, Counts(at, r, <<>>), NEW i \in 1 .. Len(ss)
      PROVE  CloseAt(at, <<>>, ss, i)
  <2>1. i = 1 /\ i - 1 = 0
        BY <1>3
  <2>2. at[0] = r.time
        BY <1>1, <1>3 DEF Counts
  <2>3. r.time \in Nat /\ Tick \in Nat
        BY CodecAssumption DEF Readings
  <2>4. 2 * Distance(r.time, r.time) <= 0 * Tick
        BY <2>3 DEF Distance
  <2> QED BY <2>1, <2>2, <2>3, <2>4 DEF CloseAt
<1> QED BY <1>2, <1>3 DEF Timed

\* A reading more adds the error of its own tick.
LEMMA TimedMore ==
  ASSUME NEW r \in Readings, NEW ds \in Seq(Deltas), NEW ss \in Seq(Readings),
         NEW s \in Readings, Len(ss) = Len(ds) + 1,
         Timed(r, ds, ss), ss[Len(ss)].time <= s.time
  PROVE  Timed(r, Append(ds, DeltaOf(r, ss[Len(ss)], s)), Append(ss, s))
<1> DEFINE p  == ss[Len(ss)]
           d  == DeltaOf(r, p, s)
           es == Append(ds, d)
           ts == Append(ss, s)
           n  == Len(ds)
<1>1. p \in Readings /\ n \in Nat /\ Len(ss) = n + 1
      OBVIOUS
<1>2. d \in Deltas
      BY <1>1, DeltaType
<1>3. d.dt * Tick \in Int /\ (d.dtClamped \/ 2 * Distance(d.dt * Tick, s.time - p.time) <= Tick)
      BY <1>1, TickIsNear
<1> HIDE DEF d
<1>4. /\ Len(es) = n + 1 /\ es[n + 1] = d /\ \A k \in 1 .. n : es[k] = ds[k]
      /\ Len(ts) = n + 2 /\ ts[n + 2] = s /\ \A k \in 1 .. n + 1 : ts[k] = ss[k]
      BY <1>1, <1>2
<1>5. ASSUME NEW at, Counts(at, r, es), NEW i \in 1 .. Len(ts)
      PROVE  CloseAt(at, es, ts, i)
  <2> DEFINE less == [k \in 0 .. n |-> at[k]]
  <2>1. Counts(less, r, ds) /\ at[n + 1] = at[n] + d.dt * Tick
        BY <1>2, <1>5, CountsLess
  <2>2. \A j \in 1 .. n + 1 : CloseAt(less, ds, ss, j)
        BY <1>1, <2>1 DEF Timed
  <2>3. \A j \in 1 .. n + 1 : less[j - 1] = at[j - 1]
        BY <1>1
  <2> HIDE DEF es, ts, n, less
  <2>4. CASE i \in 1 .. n + 1
    <3>1. \A k \in 1 .. i - 1 : k \in 1 .. n
          BY <1>1, <2>4
    <3> QED BY <1>4, <2>2, <2>3, <2>4, <3>1 DEF CloseAt
  <2>5. CASE i = n + 2
    <3>1. n + 1 \in 1 .. n + 1 /\ (n + 1) - 1 = n /\ i - 1 = n + 1 /\ n + 1 \in 1 .. i - 1
          BY <1>1, <2>5
    <3>2. /\ at[n] \in Int
          /\ \/ 2 * Distance(at[n], p.time) <= n * Tick
             \/ \E k \in 1 .. n : ds[k].dtClamped
          BY <1>1, <2>2, <2>3, <3>1 DEF CloseAt
    <3>3. /\ p.time \in Int /\ s.time \in Int /\ Tick \in Int /\ n * Tick \in Int
          /\ n * Tick + Tick = (n + 1) * Tick
      <4>1. p.time \in Int /\ s.time \in Int
            BY <1>1 DEF Readings
      <4>2. Tick \in Int /\ n \in Int
            BY <1>1, CodecAssumption
      <4>3. n * Tick \in Int /\ n * Tick + Tick = (n + 1) * Tick
            BY <4>2
      <4> QED BY <4>1, <4>2, <4>3
    <3>4. at[n + 1] \in Int
          BY <1>3, <2>1, <3>2
    <3>5. CASE d.dtClamped
          BY <1>4, <2>5, <3>1, <3>4, <3>5 DEF CloseAt
    <3>6. CASE \E k \in 1 .. n : ds[k].dtClamped
      <4>1. PICK k \in 1 .. n : ds[k].dtClamped
            BY <3>6
      <4>2. k \in 1 .. i - 1 /\ es[k].dtClamped
            BY <1>1, <1>4, <2>5, <4>1
      <4> QED BY <3>1, <3>4, <4>2 DEF CloseAt
    <3>7. CASE /\ 2 * Distance(at[n], p.time) <= n * Tick
               /\ 2 * Distance(d.dt * Tick, s.time - p.time) <= Tick
      <4>1. 2 * Distance(at[n] + d.dt * Tick, s.time) <= n * Tick + Tick
            BY <1>3, <3>2, <3>3, <3>7, DistancesAdd
      <4> QED BY <1>4, <2>1, <2>5, <3>1, <3>3, <3>4, <4>1 DEF CloseAt
    <3> QED BY <1>3, <3>2, <3>5, <3>6, <3>7
  <2> QED BY <1>1, <1>4, <2>4, <2>5
<1>6. \E at : Counts(at, r, es)
      BY <1>2, CountsMore DEF Timed
<1> QED BY <1>5, <1>6 DEF Timed, d

\* The last reading is the one whose time the next gap is counted from.
LEMMA FirstIsTimed ==
  ASSUME CodecInv, NEW s \in Snapshots, PushFirst(s)
  PROVE  TimesInv'
<1>1. ref \in Readings /\ prev \in Readings /\ lastGood \in [Fields -> Int]
      BY DEF CodecInv, CodecTypeOK
<1>2. Gated(s) \in Readings
      BY <1>1, SnapshotType, GatedType
<1>3. ref' \in Readings
      BY <1>2 DEF PushFirst, Readings
<1>4. /\ samples' \in Seq(Readings) /\ Len(samples') = 1 /\ samples'[1] = ref'
      /\ deltas' = <<>> /\ prev' = ref' /\ ready' = FALSE
      BY <1>3 DEF PushFirst
<1>5. Timed(ref', deltas', samples')
      BY <1>3, <1>4, TimedFirst
<1> QED BY <1>4, <1>5 DEF TimesInv

LEMMA NextIsTimed ==
  ASSUME CodecInv, TimesInv, NEW s \in Snapshots, PushNext(s)
  PROVE  TimesInv'
<1> DEFINE g  == Gated(s)
           d  == DeltaOf(ref, prev, g)
           ds == Append(deltas, d)
<1>1. /\ ref \in Readings /\ prev \in Readings /\ lastGood \in [Fields -> Int]
      /\ deltas \in Seq(Deltas) /\ samples \in Seq(Readings)
      BY DEF CodecInv, CodecTypeOK
<1>2. g \in Readings /\ g.time = s.time /\ s.time >= prev.time
  <2>1. s \in Readings
        BY <1>1, SnapshotType
  <2>2. g \in Readings
        BY <1>1, <2>1, GatedType
  <2>3. g.time = s.time
        BY <2>1 DEF Gated, Readings
  <2>4. s.time >= prev.time
        BY <1>1, CodecAssumption DEF Snapshots, Readings
  <2> QED BY <2>2, <2>3, <2>4
<1>3. /\ Len(samples) = Len(deltas) + 1
      /\ Timed(ref, deltas, samples) /\ prev = samples[Len(samples)]
      BY DEF PushNext, CodecInv, Matches, TimesInv
<1>4. samples' = Append(samples, g) /\ prev' = g /\ ref' = ref
      BY DEF PushNext
<1> HIDE DEF g
<1>5. Timed(ref, ds, samples')
      BY <1>1, <1>2, <1>3, <1>4, TimedMore, Zenon
<1>6. prev' = samples'[Len(samples')]
      BY <1>1, <1>2, <1>4
<1> HIDE DEF d
<1>7. CASE Len(ds) < MaxDeltas
  <2>1. deltas' = ds /\ ready' = FALSE
        BY <1>7 DEF PushNext, ds, d, g
  <2> QED BY <1>4, <1>5, <1>6, <2>1 DEF TimesInv
<1>8. CASE ~(Len(ds) < MaxDeltas)
  <2>1. EncodeAccumulatedBundle(ds)
        BY <1>8 DEF PushNext, ds, d, g
  <2>2. bundle'.ref = ref /\ bundle'.deltas = ds /\ hasRef' = FALSE
        BY <2>1 DEF EncodeAccumulatedBundle
  <2> QED BY <1>5, <2>2 DEF TimesInv
<1> QED BY <1>7, <1>8

\* Every call keeps the times counted.
LEMMA TimesInvStep == CodecInv /\ TimesInv /\ [CodecNext]_codecVars => TimesInv'
<1> SUFFICES ASSUME CodecInv, TimesInv, [CodecNext]_codecVars
             PROVE  TimesInv'
    OBVIOUS
<1>1. CASE \E s \in Snapshots : PushFirst(s) \/ PushNext(s)
      BY <1>1, FirstIsTimed, NextIsTimed
<1>2. CASE FlushWindow
      BY <1>2 DEF FlushWindow, EncodeAccumulatedBundle, TimesInv
<1>3. CASE TakeBundle
      BY <1>3 DEF TakeBundle, CodecInv, TimesInv
<1>4. CASE ResetHandler
      BY <1>4 DEF ResetHandler, ResetBundleState, TimesInv
<1>5. ASSUME NEW on \in BOOLEAN, SetBundleEncodingEnabled(on)
      PROVE  TimesInv'
      BY <1>5 DEF SetBundleEncodingEnabled, ResetBundleState, TimesInv
<1>6. CASE UNCHANGED codecVars
      BY <1>6 DEF codecVars, TimesInv
<1> QED BY <1>1, <1>2, <1>3, <1>4, <1>5, <1>6 DEF CodecNext

(***************************************************************************)
(* The time the edge gives to a bundle's i-th reading is off by at most    *)
(* half a tick for each reading before it, unless a gap was too long for   *)
(* its byte and is marked as clamped.                                      *)
(***************************************************************************)
THEOREM ShownTimesAreClose == CodecSpec => []TimesAreClose
<1>1. CodecInit => TimesInv
      BY DEF CodecInit, TimesInv
<1>2. CodecInv /\ TimesInv => TimesAreClose
  <2> SUFFICES ASSUME CodecInv, TimesInv, ready, NEW i \in 1 .. Len(samples)
               PROVE  \/ 2 * Distance(ShownTime(bundle, i), samples[i].time) <= (i - 1) * Tick
                      \/ \E k \in 1 .. i - 1 : bundle.deltas[k].dtClamped
      BY DEF TimesAreClose
  <2> DEFINE at == CHOOSE f : f = [k \in 0 .. Len(bundle.deltas) |->
                                     IF k = 0 THEN bundle.ref.time
                                     ELSE f[k - 1] + bundle.deltas[k].dt * Tick]
  <2>1. Timed(bundle.ref, bundle.deltas, samples)
        BY DEF TimesInv
  <2>2. Counts(at, bundle.ref, bundle.deltas)
        BY <2>1 DEF Timed, Counts
  <2>3. ShownTime(bundle, i) = at[i - 1]
        BY DEF ShownTime
  <2> HIDE DEF at
  <2>4. CloseAt(at, bundle.deltas, samples, i)
        BY <2>1, <2>2 DEF Timed
  <2> QED BY <2>3, <2>4 DEF CloseAt
<1> QED BY <1>1, <1>2, BundlesMatch, TimesInvStep, PTL DEF CodecSpec

=============================================================================
