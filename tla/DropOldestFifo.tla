---------------------------- MODULE DropOldestFifo ----------------------------
(***************************************************************************)
(* What a transmit queue promises its caller: a bounded first-in first-out *)
(* sequence in which a frame offered to a full queue displaces the oldest  *)
(* one and nothing else.  TxQueue is shown to implement it.                *)
(***************************************************************************)
EXTENDS Naturals, Sequences

CONSTANTS Frames,       \* what can be queued
          Bound,        \* how many frames fit
          None,         \* the result of an operation that returns no frame
          CounterSize   \* the eviction counter wraps at this value

VARIABLES contents,  \* the queued frames, oldest first
          result,    \* the frame handed out by the last operation, or None
          evicted    \* how many frames a full queue has displaced

vars == <<contents, result, evicted>>

Init == contents = <<>> /\ result = None /\ evicted = 0

\* A frame is accepted; a full queue gives up its oldest frame first.
Put(f) ==
  /\ IF Len(contents) = Bound
     THEN /\ contents' = Append(Tail(contents), f)
          /\ evicted' = (evicted + 1) % CounterSize
     ELSE /\ contents' = Append(contents, f)
          /\ UNCHANGED evicted
  /\ result' = None

\* The oldest frame is handed out.
Get ==
  /\ contents # <<>>
  /\ contents' = Tail(contents)
  /\ result' = Head(contents)
  /\ UNCHANGED evicted

\* Every frame is discarded at once; no eviction is counted.
Discard ==
  /\ contents' = <<>>
  /\ result' = None
  /\ UNCHANGED evicted

Next == (\E f \in Frames : Put(f)) \/ Get \/ Discard

Spec == Init /\ [][Next]_vars

=============================================================================
