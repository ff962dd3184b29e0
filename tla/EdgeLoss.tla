------------------------------ MODULE EdgeLoss ------------------------------
(***************************************************************************)
(* How the edge computer counts the frames of one node that were lost:     *)
(* NodeStats, fed by the receive loop with the eight-bit number of every   *)
(* frame the base passes on.  The node and the air are modelled as far as  *)
(* they decide what the edge hears: a frame is heard or not, and may leave *)
(* once more, or late, as long as it lies no further back than Reach       *)
(* (NodeTx).  A frame is its number counted without the wrap; on the wire  *)
(* it is taken modulo Modulus.                                             *)
(***************************************************************************)
EXTENDS Integers, FiniteSets, FiniteSetsExt

CONSTANTS Modulus,     \* 256, the numbers on the wire
          Reach,       \* how far back a frame that leaves again may lie
          MaxMade,     \* bound: frames of a numbering
          MaxHeard,    \* bound: frames the edge hears
          MaxAwakens,  \* bound: calls of AWAKEN in a boot
          MaxUpsets    \* bound: reboots, stale syncs, commands, new sessions, edge restarts

Half == Modulus \div 2

ASSUME EdgeAssumption ==
  /\ Modulus \in Nat \ {0} /\ Modulus = 2 * Half
  /\ Reach \in 1 .. Half + 1
  /\ {MaxMade, MaxHeard, MaxAwakens, MaxUpsets} \subseteq Nat

VARIABLES made,      \* the node: frames numbered so far, _seq without the wrap
          inSync,    \* it has fresh sync; without, it makes no frames and calls AWAKEN
          awakens,   \* _awakenSeq
          cmdAcks,   \* _cmdSeq
          left,      \* frames of an earlier numbering that may still leave
          stats,     \* the edge: NodeStats
          honest,    \* history: all that the stats saw was of this numbering
          heard,     \* history: the numbers it was, as long as honest
          base,      \* history: the first of them
          upsets     \* history: how often anything but a frame was lost

nodeSide == <<made, inSync, awakens, cmdAcks, left>>
known    == <<heard, base, honest>>
lossVars == <<nodeSide, stats, known, upsets>>

-----------------------------------------------------------------------------
\* NodeStats.  first and last are the unwrapped numbers; the wrapped ones the code keeps
\* beside them are theirs modulo 256.

Unseen == [first |-> 0, last |-> 0, seen |-> {}, valid |-> 0]

\* Slip: a number at the half is taken as ahead.
StepLong(last, seq) ==
  LET d == (seq - last) % Modulus IN IF d > Half THEN d - Modulus ELSE d

\* How far a number on the wire lies ahead of the last one, or, from the half on, behind.
Step(last, seq) ==
  LET d == (seq - last) % Modulus IN IF d > Half - 1 THEN d - Modulus ELSE d

\* Slip: numbers are remembered as they were on the wire.
ObservedWrapped(s, seq) ==
  IF s.seen = {} THEN [first |-> seq, last |-> seq, seen |-> {seq}, valid |-> 1]
  ELSE LET abs == s.last + Step(s.last, seq)
       IN  [s EXCEPT !.seen = @ \cup {seq}, !.valid = @ + 1,
                     !.last = IF abs > @ THEN abs ELSE @]

Observed(s, seq) ==
  IF s.seen = {} THEN [first |-> seq, last |-> seq, seen |-> {seq}, valid |-> 1]
  ELSE LET abs == s.last + Step(s.last, seq)
       IN  [s EXCEPT !.seen = @ \cup {abs}, !.valid = @ + 1,
                     !.last = IF abs > @ THEN abs ELSE @]

AtLeastZero(n) == IF n < 0 THEN 0 ELSE n

SpanOf(s)     == IF s.seen = {} THEN 0 ELSE s.last - s.first + 1
Received(s)   == Cardinality(s.seen)
Missing(s)    == AtLeastZero(SpanOf(s) - Received(s))
Duplicates(s) == AtLeastZero(s.valid - Received(s))

-----------------------------------------------------------------------------
\* What the receive loop does with a frame from the base.

Dishonest == honest' = FALSE /\ heard' = {} /\ base' = 0

HearFrame(n) ==
  /\ stats.valid < MaxHeard
  /\ stats' = Observed(stats, n % Modulus)
  /\ IF honest /\ (heard = {} \/ n - Max(heard) < Half)
     THEN /\ heard' = heard \cup {n} /\ base' = IF heard = {} THEN n ELSE base
          /\ UNCHANGED honest
     ELSE Dishonest

\* A frame numbered before the node's numbers began again.
HearLeft(n) == stats.valid < MaxHeard /\ stats' = Observed(stats, n % Modulus) /\ Dishonest

\* The reset for a node that rebooted; AWAKEN's own number counts as the first one.
HearAwaken(seq) == stats' = Observed(Unseen, seq % Modulus) /\ Dishonest

\* CMD_ACK carries a number of its own counter, and is observed like the rest.
HearCmdAck(seq) == stats' = Observed(stats, seq % Modulus) /\ Dishonest

HearNothing == UNCHANGED <<stats, known>>

-----------------------------------------------------------------------------
\* The node and the air.

Upset == upsets < MaxUpsets /\ upsets' = upsets + 1

SendNew ==
  /\ inSync /\ made < MaxMade
  /\ HearFrame(made) \/ HearNothing
  /\ made' = made + 1
  /\ UNCHANGED <<inSync, awakens, cmdAcks, left, upsets>>

\* One that is not heard changes nothing here.
SendAgain ==
  /\ \/ \E n \in 0 .. made - 1 : n >= made - Reach /\ HearFrame(n)
     \/ \E n \in left : HearLeft(n)
  /\ UNCHANGED <<nodeSide, upsets>>

SendCmdAckFrame ==
  /\ Upset
  /\ cmdAcks' = cmdAcks + 1
  /\ HearCmdAck(cmdAcks)
  /\ UNCHANGED <<made, inSync, awakens, left>>

SyncLost ==
  /\ Upset
  /\ inSync /\ inSync' = FALSE
  /\ UNCHANGED <<made, awakens, cmdAcks, left, stats, known>>

CallAwaken ==
  /\ ~inSync /\ awakens < MaxAwakens
  /\ awakens' = awakens + 1
  /\ HearAwaken(awakens) \/ HearNothing
  /\ UNCHANGED <<made, inSync, cmdAcks, left, upsets>>

SyncHeard ==
  /\ ~inSync /\ inSync' = TRUE
  /\ UNCHANGED <<made, awakens, cmdAcks, left, stats, known, upsets>>

\* A TIME_SYNC of another session: the node's update() resets its numbers, and what is
\* pending or queued keeps its own.
SessionHeard ==
  /\ Upset
  /\ inSync' = TRUE
  /\ made' = 0 /\ left' = {n \in 0 .. made - 1 : n >= made - Reach}
  /\ IF heard = {} THEN UNCHANGED known ELSE Dishonest
  /\ UNCHANGED <<awakens, cmdAcks, stats>>

NodeReboots ==
  /\ Upset
  /\ made' = 0 /\ inSync' = FALSE /\ awakens' = 0 /\ cmdAcks' = 0 /\ left' = {}
  /\ IF heard = {} THEN UNCHANGED known ELSE Dishonest
  /\ UNCHANGED stats

EdgeRestarts ==
  /\ Upset
  /\ stats' = Unseen
  /\ heard' = {} /\ base' = 0 /\ honest' = TRUE
  /\ UNCHANGED nodeSide

LossInit ==
  /\ made = 0 /\ inSync = FALSE /\ awakens = 0 /\ cmdAcks = 0 /\ left = {}
  /\ stats = Unseen
  /\ heard = {} /\ base = 0 /\ honest = TRUE
  /\ upsets = 0

LossNext ==
  \/ SendNew \/ SendAgain \/ SendCmdAckFrame
  \/ CallAwaken \/ SyncLost \/ SyncHeard
  \/ SessionHeard \/ NodeReboots \/ EdgeRestarts

LossSpec == LossInit /\ [][LossNext]_lossVars

-----------------------------------------------------------------------------
Lost  == Cardinality((base .. Max(heard)) \ heard)
Early == Cardinality({n \in heard : n < base})

(***************************************************************************)
(* As long as the edge has seen only frames of one numbering and no gap of *)
(* half the numbers, unwrapping is right, also across wraps, duplicates    *)
(* and frames that come late: the span is the true one and what is missing *)
(* is what was lost, less the frames older than the first that came.       *)
(***************************************************************************)
LossAccounted ==
  honest /\ heard # {} =>
    /\ stats.seen = {n - base + stats.first : n \in heard}
    /\ stats.last - stats.first = Max(heard) - base
    /\ Missing(stats) = AtLeastZero(Lost - Early)
    /\ Duplicates(stats) = stats.valid - Cardinality(heard)

LossTypeOK ==
  /\ made \in 0 .. MaxMade /\ inSync \in BOOLEAN
  /\ awakens \in 0 .. MaxAwakens /\ cmdAcks \in 0 .. MaxUpsets
  /\ left \subseteq 0 .. MaxMade
  /\ stats.first \in 0 .. Modulus - 1 /\ stats.last \in Nat /\ stats.valid \in Nat
  /\ stats.seen \subseteq Int /\ (stats.seen # {} => {stats.first, stats.last} \subseteq stats.seen)
  /\ heard \subseteq 0 .. MaxMade /\ base \in 0 .. MaxMade /\ honest \in BOOLEAN
  /\ upsets \in 0 .. MaxUpsets

(***************************************************************************)
(* The docstring of received: the numbers "within the [first_seq, last_seq]*)
(* window".  Then missing is exact.                                        *)
(***************************************************************************)
MissingIsExact == honest /\ heard # {} => Missing(stats) = Lost

=============================================================================
