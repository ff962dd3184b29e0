---------------------------- MODULE TelemetryLink ----------------------------
(***************************************************************************)
(* One node and the base, frame by frame: NodeTx and BaseAck over the air. *)
(*                                                                         *)
(* A frame begins with the base's slot, in which the base passes over its  *)
(* trackers, and goes on with the node's slot.  The node's application     *)
(* gets to update its radio at the start of its slot.  In Timed mode the   *)
(* node closes its sampling window with WINDOW_END, drains its queue, is   *)
(* in standby for whole frames and comes back with WINDOW_BEGIN.           *)
(*                                                                         *)
(* Everything that goes wrong is a fault, of a kind the configuration      *)
(* allows, and there are at most MaxFaults: a frame or an acknowledgement  *)
(* is lost, a radio refuses a frame, the base's slot is too short for the  *)
(* acknowledgement, the drain of the queue times out, the node reboots,    *)
(* the edge computer starts another session.                               *)
(***************************************************************************)
EXTENDS NodeTx, BaseAck

CONSTANTS Faults,     \* the kinds of fault that happen
          MaxFaults,  \* bound: how many happen
          Timed       \* the node's duty-cycle mode is Timed, not Continuous

FaultKinds == {"loss", "refusal", "skip", "timeout", "reboot", "session"}

ASSUME TelemetryLinkAssumption ==
  /\ Faults \subseteq FaultKinds
  /\ MaxFaults \in Nat
  /\ Timed \in BOOLEAN
  /\ AppKinds \subseteq TelemetryKinds
  /\ NumNodes = 1

VARIABLES phase,      \* whose slot it is: "base" or "node"
          updated,    \* the node's loop has run in this slot
          duty,       \* "booting", "active", "draining" or "standby"
          faults,     \* how many faults of each kind there were
          delivered,  \* history: the ids the base has heard
          assumed,    \* history: the ids its windows took as heard, see Assumes
          acked       \* history: the ids an ACK_SUMMARY has cleared

linkVars == <<phase, updated, duty, faults, delivered, assumed, acked>>
history  == <<delivered, assumed, acked>>
vars     == <<nodeVars, baseVars, linkVars>>

TheNode == 0

\* A node comes up warming its sensors; in Timed mode that is marked like a wake.
Booted == IF Timed THEN "booting" ELSE "active"

LinkInit ==
  /\ NodeInit /\ BaseInit
  /\ phase = "base" /\ updated = FALSE /\ duty = Booted
  /\ faults = [kind \in FaultKinds |-> 0]
  /\ delivered = {} /\ assumed = {} /\ acked = {}

Fault(kind) ==
  /\ kind \in Faults
  /\ faults["loss"] + faults["refusal"] + faults["skip"]
       + faults["timeout"] + faults["reboot"] + faults["session"] < MaxFaults
  /\ faults' = [faults EXCEPT ![kind] = @ + 1]

NoFault == UNCHANGED faults

-----------------------------------------------------------------------------
\* The base's slot.

\* A pass that nothing disturbs: an acknowledgement that is due is sent.
BasePass ==
  /\ phase = "base"
  /\ \/ AckPassSends(0) /\ NoFault
     \/ AckPassOutOfTime(0) /\ Fault("skip")
     \/ AckPassEnds /\ IF Due(tracker[TheNode]) THEN Fault("refusal") ELSE NoFault
     \/ RateLimitEnds /\ NoFault
  /\ UNCHANGED <<nodeVars, phase, updated, duty, history>>

\* What an acknowledgement clears at the node.
Cleared(base, mask) ==
  {pending[i].frame.id : i \in {j \in Slots :
     IsUsed(pending[j]) /\ ~IsUsed(Acknowledged(pending, base, mask)[j])}}

AckHeard ==
  /\ ackAir # NoAck /\ duty # "standby"
  /\ AckClears
  /\ ReceiveAck(ackAir.base, ackAir.mask)
  /\ acked' = acked \cup Cleared(ackAir.base, ackAir.mask)
  /\ UNCHANGED <<phase, updated, duty, faults, delivered, assumed>>

\* In standby the node's radio is off, and it hears nothing.
AckLost ==
  /\ ackAir # NoAck
  /\ AckClears
  /\ IF duty = "standby" THEN NoFault ELSE Fault("loss")
  /\ UNCHANGED <<nodeVars, phase, updated, duty, history>>

\* The node's slot comes; an acknowledgement that is due has gone out unless
\* more urgent traffic took the base's slot.
NodeSlotComes ==
  /\ phase = "base" /\ phase' = "node"
  /\ ackAir = NoAck /\ ~rateLimited
  /\ IF Due(tracker[TheNode]) THEN Fault("skip") ELSE NoFault
  /\ IF duty = "standby" THEN UNCHANGED nodeVars ELSE SlotOpens(SlotRoom)
  /\ updated' = FALSE
  /\ UNCHANGED <<baseVars, duty, history>>

-----------------------------------------------------------------------------
\* The node's slot.

\* The queue is drained: before its radio is updated again, the node is in standby.
MustStandBy == duty = "draining" /\ queue = <<>> /\ Idle /\ air = None

Sample(kind) ==
  /\ phase = "base" /\ duty = "active" /\ kind \in TelemetryKinds
  /\ Enqueue(kind)
  /\ UNCHANGED <<baseVars, linkVars>>

NodeUpdates ==
  /\ phase = "node" /\ duty # "standby" /\ ~MustStandBy
  /\ \/ room > 0 /\ StartUpdate
     \/ SendRetx(TRUE) \/ SendFresh(TRUE)
     \/ DeferRetx \/ DeferFresh \/ EndUpdate
  /\ updated' = TRUE
  /\ UNCHANGED <<baseVars, phase, duty, faults, history>>

SendRefused ==
  /\ phase = "node"
  /\ SendRetx(FALSE) \/ SendFresh(FALSE)
  /\ Fault("refusal")
  /\ UNCHANGED <<baseVars, phase, updated, duty, history>>

\* What recordTelemetrySequence takes as heard without having heard it: when
\* it starts a window at seq, or moves it there in one jump, everything before.
Assumes(w, f) ==
  IF ~w.init \/ (LessThanHalf(Dist(w.base, f.seq)) /\ Dist(w.base, f.seq) > MaskBits)
  THEN 1 .. f.id - 1 ELSE {}

FrameHeard ==
  /\ AirClears
  /\ \/ /\ air.kind \in TelemetryKinds
        /\ HearTelemetry(TheNode, air.seq, air.retx)
        /\ assumed' = assumed \cup Assumes(tracker[TheNode].win, air)
     \/ air.kind = "WINDOW_END" /\ HearEnd(TheNode) /\ UNCHANGED assumed
     \/ air.kind = "WINDOW_BEGIN" /\ HearBegin(TheNode) /\ UNCHANGED assumed
  /\ delivered' = delivered \cup {air.id}
  /\ UNCHANGED <<phase, updated, duty, faults, acked>>

FrameLost ==
  /\ AirClears
  /\ Fault("loss")
  /\ UNCHANGED <<baseVars, phase, updated, duty, history>>

\* The slot runs out; in standby there is none.
SlotPasses ==
  /\ phase = "node" /\ updated /\ ~MustStandBy
  /\ SlotShrinks
  /\ UNCHANGED <<baseVars, linkVars>>

FrameEnds ==
  /\ phase = "node" /\ phase' = "base" /\ ~MustStandBy
  /\ IF duty = "standby" THEN StandbyPasses ELSE TimePasses
  /\ BaseTick
  /\ UNCHANGED <<updated, duty, faults, history>>

-----------------------------------------------------------------------------
\* Timed mode (updateWindowMarkers, maybeEnterTimedMcuSleep).

CloseWindow ==
  /\ Timed /\ duty = "active" /\ duty' = "draining"
  /\ Enqueue("WINDOW_END")
  /\ UNCHANGED <<baseVars, phase, updated, faults, history>>

EnterStandby ==
  /\ duty = "draining" /\ duty' = "standby"
  /\ Idle /\ air = None
  /\ IF queue = <<>> THEN NoFault ELSE Fault("timeout")
  /\ room' = 0
  /\ UNCHANGED <<queue, pending, freshAge, synced, retxUsed, sends, nextSeq, nextId,
                 air, onAir, slotRetx>>
  /\ UNCHANGED <<baseVars, phase, updated, history>>

Wake ==
  /\ phase = "base"
  /\ duty \in {"booting", "standby"} /\ duty' = "active"
  /\ Enqueue("WINDOW_BEGIN")
  /\ UNCHANGED <<baseVars, phase, updated, faults, history>>

-----------------------------------------------------------------------------
\* The node reboots, and its AWAKEN has the base reset its tracker before it
\* samples again.
Reboot ==
  /\ Idle /\ air = None /\ ackAir = NoAck
  /\ Fault("reboot")
  /\ queue' = <<>> /\ pending' = [i \in Slots |-> Free] /\ freshAge' = -1
  /\ room' = 0 /\ retxUsed' = FALSE /\ nextSeq' = 0 /\ slotRetx' = 0
  /\ UNCHANGED <<synced, sends, nextId, air, onAir>>
  /\ ResetAckTracker(TheNode)
  /\ duty' = Booted /\ updated' = TRUE
  /\ UNCHANGED <<phase, history>>

\* A TIME_SYNC of another session arrives: the node numbers its frames from 0
\* (PacketHandler::reset) and its pending stamps lie in the new clock's future.
\* The base's trackers do not change.
SessionChanges ==
  /\ phase = "base" /\ Idle /\ duty # "standby"
  /\ Fault("session")
  /\ nextSeq' = 0 /\ freshAge' = -1
  /\ pending' = [i \in Slots |-> IF IsUsed(pending[i])
                                 THEN [pending[i] EXCEPT !.age = -1, !.since = -1]
                                 ELSE Free]
  /\ UNCHANGED <<queue, synced, room, retxUsed, sends, nextId, air, onAir, slotRetx>>
  /\ UNCHANGED <<baseVars, phase, updated, duty, history>>

LinkNext ==
  \/ BasePass \/ AckHeard \/ AckLost \/ NodeSlotComes
  \/ \E kind \in AppKinds : Sample(kind)
  \/ NodeUpdates \/ SendRefused \/ FrameHeard \/ FrameLost
  \/ SlotPasses \/ FrameEnds
  \/ CloseWindow \/ EnterStandby \/ Wake
  \/ Reboot \/ SessionChanges

LinkSpec == LinkInit /\ [][LinkNext]_vars

(***************************************************************************)
(* Both loops run: the base's and the node's slots come and are used.  Of  *)
(* the application nothing is assumed.                                     *)
(***************************************************************************)
LinkFairness ==
  /\ WF_vars(BasePass) /\ WF_vars(AckHeard) /\ WF_vars(NodeSlotComes)
  /\ WF_vars(NodeUpdates) /\ WF_vars(FrameHeard)
  /\ SF_vars(SlotPasses) /\ WF_vars(FrameEnds) /\ WF_vars(EnterStandby)

FairLinkSpec == LinkSpec /\ LinkFairness

-----------------------------------------------------------------------------
LinkTypeOK ==
  /\ NodeTypeOK /\ BaseTypeOK
  /\ phase \in {"base", "node"} /\ updated \in BOOLEAN
  /\ duty \in {"booting", "active", "draining", "standby"}
  /\ faults \in [FaultKinds -> 0 .. MaxFaults]
  /\ delivered \subseteq Ids /\ assumed \subseteq Ids /\ acked \subseteq Ids

(***************************************************************************)
(* An acknowledgement means that the base has the frame: what an           *)
(* ACK_SUMMARY clears at the node the base has heard, or took as heard     *)
(* when it started its window or moved it in one jump                      *)
(* (SmartFiresBaseApp::resetAckTracker: a node that starts its numbers     *)
(* again must not meet an old window).                                     *)
(***************************************************************************)
AckMeansReceived == acked \subseteq delivered \cup assumed

(***************************************************************************)
(* It does so whatever is lost, refused, late or rebooted, as long as the  *)
(* session does not change.                                                *)
(***************************************************************************)
AckSound == faults["session"] = 0 => AckMeansReceived

(***************************************************************************)
(* The base takes nothing back: what its window acknowledges of the frames *)
(* the node still has pending it goes on acknowledging, whether the frame  *)
(* it hears fills a gap, moves the window or restarts it                   *)
(* (SmartFiresBaseApp::recordTelemetrySequence); an acknowledgement that   *)
(* is lost can be given again later.                                       *)
(***************************************************************************)
Acknowledges(w, seq) == w.init /\ Covers(w.base, w.mask, seq)

KeepsAcknowledging ==
  faults["session"] = 0 /\ tracker'[TheNode].win.init =>
    \A i \in Slots :
      IsUsed(pending[i]) /\ Acknowledges(tracker[TheNode].win, pending[i].frame.seq) =>
        Acknowledges(tracker'[TheNode].win, pending[i].frame.seq)

NothingTakenBack == [][KeepsAcknowledging]_vars

(***************************************************************************)
(* The base does not transmit at a radio it could know to be off: when     *)
(* WINDOW_END has reached it, no acknowledgement is on the air while the   *)
(* node is in standby (the frames of the window fit in the node's slots).  *)
(***************************************************************************)
NoAckIntoStandby ==
  (\A kind \in {"loss", "refusal", "timeout"} : faults[kind] = 0) =>
    (ackAir # NoAck => duty # "standby")

(***************************************************************************)
(* The retry wait outlasts one base slot that other traffic has taken:     *)
(* when nothing else goes wrong, nothing is sent again before two have     *)
(* been missed.                                                            *)
(***************************************************************************)
OneSkipIsTolerated ==
  (\A kind \in FaultKinds \ {"skip"} : faults[kind] = 0) =>
    (slotRetx > 0 => faults["skip"] > 1)

(***************************************************************************)
(* What is sent again is a gap: when nothing goes wrong, nothing is sent   *)
(* again (PACKET_RELIABILITY.md, "Current app-layer path").                *)
(***************************************************************************)
OnlyGapsAreResent ==
  (\A kind \in FaultKinds : faults[kind] = 0) => slotRetx = 0

(***************************************************************************)
(* Every telemetry frame the node has tried to send reaches the base, when *)
(* fewer things go wrong than a frame has attempts.                        *)
(***************************************************************************)
PendingIds == {pending[i].frame.id : i \in {j \in Slots : IsUsed(pending[j])}}

EveryFrameArrives ==
  \A id \in Ids : [](id \in PendingIds => <>(id \in delivered \cup assumed))

=============================================================================
