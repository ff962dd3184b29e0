------------------------------- MODULE TxQueue -------------------------------
(***************************************************************************)
(* TdmaTxQueue: the ring buffer a node keeps its outgoing frames in.       *)
(* The code's (x + 1) % _capacity, for an x below the capacity, is Bump.   *)
(* An enqueue the code refuses (no payload, length zero or above the       *)
(* limit) and a dequeue from an empty queue change nothing and are not     *)
(* actions.                                                                *)
(***************************************************************************)
EXTENDS Naturals, Sequences

CONSTANTS Frames,       \* payloads
          NoFrame,      \* what an unwritten entry holds
          Depth,        \* the depth asked of the constructor
          MaxDepth,     \* the number of entries allocated
          CounterSize   \* 2^32: _droppedOldest is a uint32_t

ASSUME TxQueueAssumption ==
  /\ NoFrame \notin Frames
  /\ Depth \in Nat
  /\ MaxDepth \in Nat \ {0}
  /\ CounterSize \in Nat \ {0}

\* The constructor clamps the depth to what can work.
Capacity == IF Depth = 0 THEN 1
            ELSE IF Depth > MaxDepth THEN MaxDepth ELSE Depth

VARIABLES entries,        \* _entries
          head,           \* _head
          tail,           \* _tail
          count,          \* _count
          droppedOldest,  \* _droppedOldest
          out             \* the payload the last call returned, or NoFrame

vars == <<entries, head, tail, count, droppedOldest, out>>

\* Slip: the index wraps one step too late.
BumpTooLate(i) == IF i = Capacity THEN 0 ELSE i + 1

Bump(i) == IF i + 1 = Capacity THEN 0 ELSE i + 1

Init ==
  /\ entries = [i \in 0 .. MaxDepth - 1 |-> NoFrame]
  /\ head = 0 /\ tail = 0 /\ count = 0
  /\ droppedOldest = 0
  /\ out = NoFrame

\* Slip: a full queue turns the newest frame away instead of the oldest.
EnqueueDropsNewest(f) ==
  /\ IF count >= Capacity
     THEN /\ droppedOldest' = (droppedOldest + 1) % CounterSize
          /\ UNCHANGED <<entries, tail, count>>
     ELSE /\ entries' = [entries EXCEPT ![tail] = f]
          /\ tail' = Bump(tail) /\ count' = count + 1
          /\ UNCHANGED droppedOldest
  /\ out' = NoFrame
  /\ UNCHANGED head

Enqueue(f) ==
  /\ IF count >= Capacity
     THEN /\ head' = Bump(head)
          /\ count' = count
          /\ droppedOldest' = (droppedOldest + 1) % CounterSize
     ELSE /\ count' = count + 1
          /\ UNCHANGED <<head, droppedOldest>>
  /\ entries' = [entries EXCEPT ![tail] = f]
  /\ tail' = Bump(tail)
  /\ out' = NoFrame

Dequeue ==
  /\ count # 0
  /\ out' = entries[head]
  /\ head' = Bump(head)
  /\ count' = count - 1
  /\ UNCHANGED <<entries, tail, droppedOldest>>

\* Slip: the tail is not reset.
ClearKeepsTail ==
  /\ head' = 0 /\ count' = 0
  /\ out' = NoFrame
  /\ UNCHANGED <<entries, tail, droppedOldest>>

\* clear() leaves the entries and the counter alone.
Clear ==
  /\ head' = 0 /\ tail' = 0 /\ count' = 0
  /\ out' = NoFrame
  /\ UNCHANGED <<entries, droppedOldest>>

Next == (\E f \in Frames : Enqueue(f)) \/ Dequeue \/ Clear

Spec == Init /\ [][Next]_vars

-----------------------------------------------------------------------------
\* The entry that holds the frame k places behind the oldest.
Place(k) == IF head + k < Capacity THEN head + k ELSE head + k - Capacity

\* The frames the ring holds, oldest first.
Queued == [i \in 1 .. count |-> entries[Place(i - 1)]]

TypeOK ==
  /\ entries \in [0 .. MaxDepth - 1 -> Frames \cup {NoFrame}]
  /\ head \in 0 .. Capacity - 1
  /\ tail \in 0 .. Capacity - 1
  /\ count \in 0 .. Capacity
  /\ droppedOldest \in 0 .. CounterSize - 1
  /\ out \in Frames \cup {NoFrame}

(***************************************************************************)
(* The three indices agree - the tail is the entry count places past the   *)
(* head - and every entry between them has been written.  A wrong wrap, or *)
(* an eviction that moves one index only, breaks it several calls later.   *)
(***************************************************************************)
RingConsistent ==
  /\ tail = Place(count)
  /\ \A i \in 1 .. count : Queued[i] \in Frames

Fifo == INSTANCE DropOldestFifo WITH
          Bound <- Capacity, None <- NoFrame,
          contents <- Queued, result <- out, evicted <- droppedOldest

(***************************************************************************)
(* The ring buffer is a drop-oldest FIFO: every call returns and keeps     *)
(* what the abstract queue would.                                          *)
(***************************************************************************)
ImplementsFifo == Fifo!Spec

=============================================================================
