------------------------------ MODULE AckWindow ------------------------------
(***************************************************************************)
(* The arithmetic of ACK_SUMMARY: the receive window a base keeps for one  *)
(* node (SmartFiresBaseApp::recordTelemetrySequence) and the test a node   *)
(* applies to it (TdmaRadioService::applyAckSummary).                      *)
(*                                                                         *)
(* Sequence numbers are eight bits wide in the code (SeqSpace = 256) and   *)
(* the mask has sixteen bits (MaskBits = 16); both are parameters here so  *)
(* that TLC can enumerate a small space completely.  Bit i - 1 of the      *)
(* code's mask is the number i of the set below.                           *)
(***************************************************************************)
EXTENDS Integers, FiniteSets

CONSTANTS SeqSpace,   \* how many sequence numbers there are before they wrap
          MaskBits    \* how many numbers above the base the mask describes

ASSUME AckWindowAssumption ==
  /\ SeqSpace \in Nat \ {0}
  /\ MaskBits \in Nat \ {0}
  /\ 2 * MaskBits < SeqSpace

Seqs  == 0 .. (SeqSpace - 1)
Masks == SUBSET (1 .. MaskBits)

\* The unsigned eight bit difference to - from.
Dist(from, to) == IF to >= from THEN to - from ELSE to - from + SeqSpace

\* seq + k, k at most SeqSpace.
Advance(seq, k) == IF seq + k < SeqSpace THEN seq + k ELSE seq + k - SeqSpace

\* deltaFromBase < 128u
LessThanHalf(d) == 2 * d < SeqSpace

\* What a tracker knows about the sequence numbers it has heard.
Windows == [init : BOOLEAN, base : Seqs, mask : Masks]

FreshWindow == [init |-> FALSE, base |-> 0, mask |-> {}]

\* How far the trailing while loop of recordTelemetrySequence moves the base.
Run(mask) == CHOOSE k \in 0 .. MaskBits : 1 .. k \subseteq mask /\ k + 1 \notin mask

Slid(base, mask) ==
  LET k == Run(mask)
  IN  [init |-> TRUE,
       base |-> Advance(base, k),
       mask |-> {i \in 1 .. MaskBits : i + k \in mask}]

\* Slip: the frame's bit replaces the mask.
RecordedAlone(w, seq) ==
  LET d == Dist(w.base, seq)
  IN  IF ~w.init THEN [init |-> TRUE, base |-> seq, mask |-> {}]
      ELSE IF d = 0 \/ ~LessThanHalf(d) THEN w
      ELSE IF d > MaskBits THEN [init |-> TRUE, base |-> seq, mask |-> {}]
      ELSE Slid(w.base, {d})

\* The window after one telemetry frame numbered seq.
Recorded(w, seq) ==
  LET d == Dist(w.base, seq)
  IN  IF ~w.init THEN [init |-> TRUE, base |-> seq, mask |-> {}]
      ELSE IF d = 0 \/ ~LessThanHalf(d) THEN w
      ELSE IF d > MaskBits THEN [init |-> TRUE, base |-> seq, mask |-> {}]
      ELSE Slid(w.base, w.mask \cup {d})

\* Slip: the difference is taken the other way round.
CoversAhead(base, mask, seq) ==
  \/ LessThanHalf(Dist(base, seq))
  \/ Dist(base, seq) \in mask

\* Does an ACK_SUMMARY with this base and mask acknowledge seq?
Covers(base, mask, seq) ==
  \/ LessThanHalf(Dist(seq, base))
  \/ Dist(base, seq) \in mask

\* The sequence numbers a window acknowledges.
Covered(w) == {s \in Seqs : Covers(w.base, w.mask, s)}

=============================================================================
