------------------------------- MODULE BaseAck -------------------------------
(***************************************************************************)
(* How the base acknowledges telemetry: the ACK trackers of                *)
(* SmartFiresBaseApp and the pass over them in the base's own slot         *)
(* (sendPendingAckSummary).  An acknowledgement is coalesced: a tracker is *)
(* marked dirty by each telemetry frame, and a pass sends one ACK_SUMMARY  *)
(* for the first dirty tracker it may send for, starting behind the one    *)
(* served last.  A node in standby, a silent node and one whose sends keep *)
(* failing are passed over and stay dirty.                                 *)
(*                                                                         *)
(* Time is counted in slot-0 openings: quiet is how many there were since  *)
(* the node was heard, and a node is silent after more than SilenceFrames. *)
(*                                                                         *)
(* Left out: the other traffic of the slot, which goes first; trackers are *)
(* not allocated but there is one per node (kMaxAckTrackedNodes is more    *)
(* than the node ids a frame has slots for).                               *)
(***************************************************************************)
EXTENDS AckWindow

CONSTANTS NumNodes,       \* the nodes of the frame
          MaxAckFailures, \* kMaxAckSummarySendAttempts
          SilenceFrames   \* kAckSummaryNodeSilenceMs, in frames

ASSUME BaseAckAssumption ==
  /\ NumNodes \in Nat \ {0}
  /\ MaxAckFailures \in Nat \ {0}
  /\ SilenceFrames \in Nat

Nodes == 0 .. NumNodes - 1

VARIABLES tracker,         \* _ackTrackers
          flushRequested,  \* _ackSummaryFlushRequested
          nextFlush,       \* _nextAckTrackerFlushIndex
          rateLimited,     \* now - _lastAckSummaryFlushMs < ackSummaryMinIntervalMs
          ackAir           \* the ACK_SUMMARY on the air, or NoAck

baseVars == <<tracker, flushRequested, nextFlush, rateLimited, ackAir>>

NeverHeard == -1

\* AckTracker: win is initialized, ackBaseSeq and ackMask; lastSent is their
\* lastSent* counterpart.
Trackers == [win : Windows, dirty : BOOLEAN, fails : 0 .. MaxAckFailures,
             held : BOOLEAN, asleep : BOOLEAN, quiet : Int,
             force : BOOLEAN, lastSent : Windows]

FreshTracker == [win |-> FreshWindow, dirty |-> FALSE, fails |-> 0, held |-> FALSE,
                 asleep |-> FALSE, quiet |-> NeverHeard, force |-> FALSE,
                 lastSent |-> FreshWindow]

NoAck == [node |-> -1]

Acks == [node : Nodes, base : Seqs, mask : Masks]

BaseInit ==
  /\ tracker = [n \in Nodes |-> FreshTracker]
  /\ flushRequested = FALSE /\ nextFlush = 0 /\ rateLimited = FALSE
  /\ ackAir = NoAck

\* Slip: a node that is heard again stays held.
HeardStillHeld(t, seq, retx) ==
  [t EXCEPT !.win = Recorded(@, seq), !.dirty = TRUE, !.fails = 0,
            !.asleep = FALSE, !.quiet = 0, !.force = @ \/ retx]

\* handleTelemetryAckSummary
HeardTelemetry(t, seq, retx) ==
  [t EXCEPT !.win = Recorded(@, seq), !.dirty = TRUE, !.fails = 0, !.held = FALSE,
            !.asleep = FALSE, !.quiet = 0, !.force = @ \/ retx]

HearTelemetry(n, seq, retx) ==
  /\ tracker' = [tracker EXCEPT ![n] = HeardTelemetry(@, seq, retx)]
  /\ UNCHANGED <<flushRequested, nextFlush, rateLimited, ackAir>>

\* Slip: WINDOW_END counts as any other frame.
HeardEndAwake(t) == [t EXCEPT !.quiet = 0]

\* handleWindowMarker
HeardEnd(t) == [t EXCEPT !.asleep = TRUE, !.quiet = 0]

HeardBegin(t) == [t EXCEPT !.asleep = FALSE, !.quiet = 0, !.force = TRUE,
                           !.fails = 0, !.held = FALSE]

HearEnd(n) ==
  /\ tracker' = [tracker EXCEPT ![n] = HeardEnd(@)]
  /\ UNCHANGED <<flushRequested, nextFlush, rateLimited, ackAir>>

HearBegin(n) ==
  /\ tracker' = [tracker EXCEPT ![n] = HeardBegin(@)]
  /\ flushRequested' = TRUE
  /\ UNCHANGED <<nextFlush, rateLimited, ackAir>>

\* resetAckTracker: on the node's AWAKEN, and when a CMD_RESET for it is queued.
ResetAckTracker(n) ==
  /\ tracker' = [tracker EXCEPT ![n] = FreshTracker]
  /\ UNCHANGED <<flushRequested, nextFlush, rateLimited, ackAir>>

\* The base's own soft reset (handleJetsonCommandPayload).
ResetAllTrackers ==
  /\ tracker' = [n \in Nodes |-> FreshTracker]
  /\ UNCHANGED <<flushRequested, nextFlush, rateLimited, ackAir>>

-----------------------------------------------------------------------------
\* The node a pass comes to after passing k others.
Turn(k) == (nextFlush + k) % NumNodes

Silent(t) == t.quiet > SilenceFrames

\* A pass does not skip t.
Eligible(t) ==
  t.win.init /\ t.dirty /\ ~t.held /\ ~t.asleep /\ ~Silent(t)

Unchanged(t) == ~t.force /\ t.lastSent = t.win

\* A pass would put an acknowledgement for t on the air.
Due(t) == Eligible(t) /\ ~Unchanged(t)

\* What a pass leaves of a tracker it did not send an acknowledgement for.
Suppressed(t) == [t EXCEPT !.dirty = FALSE]

\* Slips: the breaker opens one failure too late; a failed send is not repeated.
FailedTooLate(t) == [t EXCEPT !.fails = @ + 1, !.held = t.fails + 1 > MaxAckFailures]

FailedForgets(t) == [t EXCEPT !.fails = @ + 1, !.held = t.fails + 1 >= MaxAckFailures,
                              !.dirty = FALSE]

Failed(t) == [t EXCEPT !.fails = @ + 1, !.held = t.fails + 1 >= MaxAckFailures]

PassedOver(t) ==
  IF Due(t) THEN Failed(t) ELSE IF Eligible(t) THEN Suppressed(t) ELSE t

Acked(t) == [t EXCEPT !.fails = 0, !.force = FALSE, !.dirty = FALSE, !.lastSent = t.win]

\* The trackers when the loop stops at the k-th: those before it were passed
\* over, and the k-th becomes last.
AfterLoop(k, last) ==
  [n \in Nodes |->
     IF \E j \in 0 .. k - 1 : Turn(j) = n THEN PassedOver(tracker[n])
     ELSE IF k < NumNodes /\ n = Turn(k) THEN last ELSE tracker[n]]

\* A pass may run: the rate limit is over, or a WINDOW_BEGIN overrides it.
MayPass == ackAir = NoAck /\ (flushRequested \/ ~rateLimited)

\* Slip: the next pass starts with the node just served.
AckPassSendsAgain(k) ==
  /\ MayPass
  /\ LET t == tracker[Turn(k)]
     IN  /\ Due(t)
         /\ tracker' = AfterLoop(k, Acked(t))
         /\ ackAir' = [node |-> Turn(k), base |-> t.win.base, mask |-> t.win.mask]
  /\ nextFlush' = Turn(k)
  /\ flushRequested' = FALSE /\ rateLimited' = TRUE

\* sendPendingAckSummary, when the radio takes the acknowledgement of the k-th
\* tracker and takes none of those before it.
AckPassSends(k) ==
  /\ MayPass
  /\ LET t == tracker[Turn(k)]
     IN  /\ Due(t)
         /\ tracker' = AfterLoop(k, Acked(t))
         /\ ackAir' = [node |-> Turn(k), base |-> t.win.base, mask |-> t.win.mask]
  /\ nextFlush' = (Turn(k) + 1) % NumNodes
  /\ flushRequested' = FALSE /\ rateLimited' = TRUE

\* When the slot is too far gone for the k-th tracker's acknowledgement.
AckPassOutOfTime(k) ==
  /\ MayPass
  /\ Due(tracker[Turn(k)])
  /\ tracker' = AfterLoop(k, tracker[Turn(k)])
  /\ flushRequested' = FALSE
  /\ UNCHANGED <<nextFlush, rateLimited, ackAir>>

\* When no tracker's acknowledgement is sent.
AckPassEnds ==
  /\ MayPass
  /\ tracker' = AfterLoop(NumNodes, tracker[0])
  /\ flushRequested' = FALSE
  /\ UNCHANGED <<nextFlush, rateLimited, ackAir>>

\* ackSummaryMinIntervalMs is over.
RateLimitEnds ==
  /\ rateLimited /\ rateLimited' = FALSE
  /\ UNCHANGED <<tracker, flushRequested, nextFlush, ackAir>>

\* The acknowledgement has been heard or lost.
AckClears ==
  /\ ackAir # NoAck /\ ackAir' = NoAck
  /\ UNCHANGED <<tracker, flushRequested, nextFlush, rateLimited>>

\* Another opening of slot 0.  Silence is not counted beyond what matters.
Later(t) == IF t.quiet \in 0 .. SilenceFrames THEN [t EXCEPT !.quiet = @ + 1] ELSE t

BaseTick ==
  /\ tracker' = [n \in Nodes |-> Later(tracker[n])]
  /\ UNCHANGED <<flushRequested, nextFlush, rateLimited, ackAir>>

-----------------------------------------------------------------------------
(***************************************************************************)
(* The base against any nodes.                                             *)
(***************************************************************************)
Hear(n) ==
  \/ \E seq \in Seqs, retx \in BOOLEAN : HearTelemetry(n, seq, retx)
  \/ HearEnd(n) \/ HearBegin(n)

BaseNext ==
  \/ \E n \in Nodes : Hear(n) \/ ResetAckTracker(n)
  \/ ResetAllTrackers
  \/ \E k \in 0 .. NumNodes - 1 : AckPassSends(k) \/ AckPassOutOfTime(k)
  \/ AckPassEnds \/ RateLimitEnds \/ AckClears \/ BaseTick

BaseSpec == BaseInit /\ [][BaseNext]_baseVars

(***************************************************************************)
(* The radio does not fail on one node for ever while a pass keeps coming  *)
(* to it, and a pass comes to it early enough in the slot again and again. *)
(***************************************************************************)
SendsTo(n) ==
  \E k \in 0 .. NumNodes - 1 :
    Turn(k) = n /\ (\A j \in 0 .. k - 1 : ~Due(tracker[Turn(j)])) /\ AckPassSends(k)

BaseFairness ==
  /\ \A n \in Nodes : SF_baseVars(SendsTo(n))
  /\ WF_baseVars(RateLimitEnds) /\ WF_baseVars(AckClears)

-----------------------------------------------------------------------------
BaseTypeOK ==
  /\ tracker \in [Nodes -> Trackers]
  /\ flushRequested \in BOOLEAN
  /\ nextFlush \in Nodes
  /\ rateLimited \in BOOLEAN
  /\ ackAir \in Acks \cup {NoAck}

(***************************************************************************)
(* What the base has received and the node has not been told stays due: a  *)
(* tracker whose window differs from the last one sent is dirty, through   *)
(* failed sends, deferrals, suppressions, the circuit breaker and resets.  *)
(***************************************************************************)
Untold(t) == t.win.init /\ t.lastSent # t.win

NothingForgotten == \A n \in Nodes : Untold(tracker[n]) => tracker[n].dirty

(***************************************************************************)
(* The circuit breaker is open exactly while MaxAckFailures sends in a row *)
(* have failed, and never for a tracker that has nothing to say: a node    *)
(* that is heard again is never left without acknowledgements.             *)
(***************************************************************************)
BreakerConsistent ==
  \A n \in Nodes :
    /\ tracker[n].held <=> tracker[n].fails = MaxAckFailures
    /\ tracker[n].fails > 0 => tracker[n].dirty

(***************************************************************************)
(* No tracker starves: one whose acknowledgement is due is served, however *)
(* busy the other nodes keep the base's slot.                              *)
(***************************************************************************)
DueIsServed ==
  \A n \in Nodes :
    [](Due(tracker[n]) => <>~Due(tracker[n]))

(***************************************************************************)
(* A pending forced resend is released: WINDOW_BEGIN means that the node   *)
(* must be assumed to have missed the last acknowledgement                 *)
(* (SmartFiresBaseApp::handleWindowMarker), as a RETX frame does.          *)
(***************************************************************************)
ForcedAckIsDue ==
  \A n \in Nodes : tracker[n].force /\ tracker[n].win.init => tracker[n].dirty

=============================================================================
