----------------------------- MODULE UartFrames -----------------------------
(***************************************************************************)
(* The serial line between the base and the edge computer, in one          *)
(* direction: frames of two marks, a length, data and a checksum are       *)
(* written one after the other, bytes are lost or changed on the way, and  *)
(* the receiver's parser takes them one by one.  The base's parser and the *)
(* edge's FrameReceiver differ in the lengths they accept.                 *)
(*                                                                         *)
(* Data and checksum are any bytes, the marks among them.  A parser in     *)
(* step with the frame passes over those; one that is looking for a frame  *)
(* takes both marks in a row for its start, and a frame that ends with the *)
(* first mark costs it the next frame, whose own first mark comes where    *)
(* the second is expected.                                                 *)
(***************************************************************************)
EXTENDS Integers, Sequences, SequencesExt

CONSTANTS M0, M1,     \* the marks, 16#AA and 16#55
          Bytes,      \* bound: what a byte may be changed into
          Data,       \* bound: the data of frames to send
          Checks,     \* how many checksums there are
          MinLength,  \* of the data the parser accepts
          MaxLength,
          MaxByte,    \* 255, the longest data encodeBaseFrame accepts
          MaxNoise    \* bound: bytes lost or changed

\* crc8, which is the same at both ends, as some function of the bytes.
Check(bytes) == FoldLeft(LAMBDA a, b : (2 * a + b) % Checks, 1, bytes)

FrameOf(data) == <<M0, M1, Len(data)>> \o data \o <<Check(<<Len(data)>> \o data)>>

ASSUME UartAssumption ==
  /\ M0 # M1 /\ {M0, M1} \subseteq Bytes /\ Bytes \subseteq Nat
  /\ Data \subseteq Seq(Bytes)
  /\ MinLength \in Nat \ {0} /\ {MaxLength, MaxByte, MaxNoise} \subseteq Nat

VARIABLES wire,      \* bytes of the frame under way that are still to be sent
          stage,     \* the parser: state, or stage
          wanted,    \* expected_len
          buf,       \* the length and the data so far
          event,     \* the data push_byte has just returned, or <<>>
          frame,     \* history: the data of the frame under way
          clean,     \* history: the parser ought to be in step with that frame (Settled)
          quiet,     \* history: bytes since it was last misled, up to LongEnough
          noise      \* history: how many bytes were lost or changed

parser == <<stage, wanted, buf>>
uartVars == <<wire, parser, event, frame, clean, quiet, noise>>

Stages == {"WaitM0", "WaitM1", "WaitLen", "ReadData", "CheckCrc"}

\* The longest that a false M0 can keep the parser: M1 and a length follow, then that many
\* bytes and the checksum.
LongEnough == MaxLength + 3

\* A byte inside a frame that may be taken for the start of one.
Misleads ==
  /\ Head(wire) = M0 /\ wire # FrameOf(frame)
  /\ Tail(wire) = <<>> \/ Head(Tail(wire)) = M1

-----------------------------------------------------------------------------
\* Slip: the length is not looked at.
AnyLength(b) == b > 0

LengthOK(b) == b \in MinLength .. MaxLength

PushByte(b) ==
  CASE stage = "WaitM0" ->
         /\ stage' = IF b = M0 THEN "WaitM1" ELSE "WaitM0"
         /\ event' = <<>> /\ UNCHANGED <<wanted, buf>>
    [] stage = "WaitM1" ->
         /\ stage' = IF b = M1 THEN "WaitLen" ELSE "WaitM0"
         /\ event' = <<>> /\ UNCHANGED <<wanted, buf>>
    [] stage = "WaitLen" ->
         /\ event' = <<>> /\ wanted' = b
         /\ IF LengthOK(b) THEN stage' = "ReadData" /\ buf' = <<b>>
            ELSE stage' = "WaitM0" /\ UNCHANGED buf
    [] stage = "ReadData" ->
         /\ buf' = Append(buf, b)
         /\ stage' = IF Len(buf') = 1 + wanted THEN "CheckCrc" ELSE "ReadData"
         /\ event' = <<>> /\ UNCHANGED wanted
    [] stage = "CheckCrc" ->
         /\ stage' = "WaitM0"
         /\ event' = IF b = Check(buf) THEN Tail(buf) ELSE <<>>
         /\ buf' = <<>> /\ UNCHANGED wanted

-----------------------------------------------------------------------------
\* encodeBaseFrame gives nothing for data that is too long.
Written(d)  == Len(d) <= MaxByte
Accepted(d) == Written(d) /\ LengthOK(Len(d))

\* Nothing misleads the parser still, or the frame before left it in step.
Settled ==
  \/ quiet = LongEnough
  \/ clean /\ (Written(frame) => Accepted(frame))

WriteFrame(d) ==
  /\ wire = <<>>
  /\ wire' = IF Written(d) THEN FrameOf(d) ELSE <<>>
  /\ frame' = d /\ clean' = Settled /\ event' = <<>>
  /\ UNCHANGED <<parser, quiet, noise>>

Transfer ==
  /\ wire # <<>> /\ wire' = Tail(wire)
  /\ PushByte(Head(wire))
  /\ quiet' = IF Misleads THEN 0 ELSE IF quiet < LongEnough THEN quiet + 1 ELSE quiet
  /\ UNCHANGED <<frame, clean, noise>>

Disturbed ==
  /\ noise < MaxNoise /\ noise' = noise + 1
  /\ quiet' = 0 /\ clean' = FALSE
  /\ UNCHANGED frame

LoseByte ==
  /\ wire # <<>> /\ wire' = Tail(wire)
  /\ event' = <<>> /\ UNCHANGED parser
  /\ Disturbed

ChangeByte(b) ==
  /\ wire # <<>> /\ wire' = Tail(wire)
  /\ PushByte(b)
  /\ Disturbed

UartInit ==
  /\ wire = <<>> /\ stage = "WaitM0" /\ wanted = 0 /\ buf = <<>> /\ event = <<>>
  /\ frame = <<>> /\ clean = FALSE /\ quiet = LongEnough /\ noise = 0

UartNext ==
  \/ \E d \in Data : WriteFrame(d)
  \/ Transfer \/ LoseByte \/ \E b \in Bytes : ChangeByte(b)

UartSpec == UartInit /\ [][UartNext]_uartVars

-----------------------------------------------------------------------------
(***************************************************************************)
(* After noise the parser finds its way back, and then keeps it: a frame   *)
(* of a length it accepts that arrives whole is the one handed on when its *)
(* last byte comes, if LongEnough bytes before it were free of noise and   *)
(* of anything that reads as the start of a frame, or if the frame before  *)
(* it was such a one, whatever bytes it holds.  A false length swallows no *)
(* more than it says, and a frame too long for the parser does not put it  *)
(* out for good.                                                           *)
(***************************************************************************)
CleanFramesArrive == clean /\ wire = <<>> /\ Accepted(frame) => event = frame

(***************************************************************************)
(* Every frame the base makes fits the parser at the edge                  *)
(* (FramedDebugLogSink.h:22 takes its lines to be no longer than that).    *)
(***************************************************************************)
EveryLengthArrives == clean /\ wire = <<>> => event = frame

=============================================================================
