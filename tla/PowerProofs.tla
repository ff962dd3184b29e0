----------------------------- MODULE PowerProofs ----------------------------
(***************************************************************************)
(* Never more than one change of power is on its way to a node, but for    *)
(* AWAKENs and an operator's commands: for every range of powers, length   *)
(* of the queues and waits, whatever is lost or refused, and however often *)
(* the node reboots.                                                       *)
(***************************************************************************)
EXTENDS PowerLoop, FiniteSetTheorems, SequenceTheorems, WellFoundedInduction, TLAPS

Frames == [type : {"status", "ack"}, of : {"none", "power", "calibrate"}, dbm : Powers,
           mode : Modes, total : 0 .. MaxTotal]

Queues == [1 .. QueueSize -> [command : Commands \cup {Empty}, attempts : 0 .. MaxAttempts - 1]]

(***************************************************************************)
(* Whatever can still end the base's wait: a power command in the queue or *)
(* the mailbox, and the CMD_ACK of one.  All of them are the one that is   *)
(* awaited, an operator's, or older than an AWAKEN; and once the wait has  *)
(* lasted a tick, the awaited one has arrived or is lost.  That is what    *)
(* makes it safe to forget a command that was not answered in time.        *)
(***************************************************************************)
CommandsIn(q) == {i \in 1 .. QueueSize : q[i].command.type = "power"}
AcksIn(u)     == {j \in 1 .. Len(u) : u[j].type = "ack" /\ u[j].of = "power"}
MailIn(m)     == IF m.type = "power" THEN 1 ELSE 0

InFlight(q, m, u) == Cardinality(CommandsIn(q)) + MailIn(m) + Cardinality(AcksIn(u))

Flight(n, x, o, a) ==
  /\ x <= (IF n.pending = NoPower THEN 0 ELSE 1) + o + a
  /\ n.waiting > 0 => x <= o + a

PowerInv ==
  /\ PowerTypeOK
  /\ uplink \in Seq(Frames)
  /\ awakens <= faults
  /\ Flight(believed, InFlight(queue, mailbox, uplink), orders, awakens)

-----------------------------------------------------------------------------
\* The constants.

LEMMA Bounds ==
  /\ MinDbm \in Int /\ MaxDbm \in Int /\ MinDbm <= MaxDbm /\ MaxDbm \in Powers
  /\ Step \in Nat \ {0}
  /\ DecisionInterval \in Nat \ {0} /\ AckTimeout \in Nat \ {0}
  /\ SilenceTimeout \in Nat /\ MaxProbes \in Nat /\ MaxTotal \in Nat
  /\ NoPower \notin Int /\ NoPower \notin Powers
  /\ QueueSize \in Nat \ {0} /\ MaxAttempts \in Nat \ {0} /\ UplinkDepth \in Nat \ {0}
  /\ MaxOrders \in Nat /\ MaxFaults \in Nat /\ Asks \subseteq Int
<1>1. /\ MinDbm \in Int /\ MaxDbm \in Int /\ MinDbm <= MaxDbm
      /\ Step \in Nat \ {0}
      /\ DecisionInterval \in Nat \ {0} /\ AckTimeout \in Nat \ {0}
      /\ SilenceTimeout \in Nat /\ MaxProbes \in Nat /\ MaxTotal \in Nat /\ NoPower \notin Int
      BY TxPowerAssumption
<1>2. MaxDbm \in Powers
      BY <1>1 DEF Powers
<1>3. NoPower \notin Powers
      BY <1>1 DEF Powers
<1> QED BY <1>1, <1>2, <1>3, PowerLoopAssumption

LEMMA ModeTypes == "static" \in Modes /\ "dynamic" \in Modes
  BY DEF Modes

OrderedCommands == {SetPower(dbm, m, FALSE) : dbm \in Asks, m \in Modes}
OwnCommands     == {SetPower(dbm, "dynamic", TRUE) : dbm \in Powers}

LEMMA CommandKinds == Commands = OrderedCommands \cup OwnCommands \cup {Calibrate}
  BY DEF Commands, OrderedCommands, OwnCommands

\* A command and what it asks for.
LEMMA CommandFields ==
  /\ Empty.type = "none" /\ Empty.own = FALSE
  /\ \A c \in Commands :
       /\ c.type \in {"power", "calibrate"} /\ c.mode \in Modes /\ c.dbm \in Int
       /\ c.own \in BOOLEAN /\ (c.own => c.type = "power")
<1>1. Empty.type = "none" /\ Empty.own = FALSE
      BY DEF Empty
<1>2. ASSUME NEW c \in Commands
      PROVE  /\ c.type \in {"power", "calibrate"} /\ c.mode \in Modes /\ c.dbm \in Int
             /\ c.own \in BOOLEAN /\ (c.own => c.type = "power")
  <2>1. CASE c \in OrderedCommands
    <3>1. \E dbm \in Asks : \E m \in Modes : c = SetPower(dbm, m, FALSE)
          BY <2>1 DEF OrderedCommands, SetPower
    <3> PICK dbm \in Asks, m \in Modes : c = SetPower(dbm, m, FALSE)
        BY <3>1
    <3>2. c.type = "power" /\ c.mode = m /\ c.dbm = dbm /\ c.own = FALSE
          BY DEF SetPower
    <3> QED BY <3>2, Bounds
  <2>2. CASE c \in OwnCommands
    <3>1. PICK dbm \in Powers : c = SetPower(dbm, "dynamic", TRUE)
          BY <2>2 DEF OwnCommands
    <3>2. c.type = "power" /\ c.mode = "dynamic" /\ c.dbm = dbm /\ c.own = TRUE
          BY <3>1 DEF SetPower
    <3>3. dbm \in Int
          BY Bounds DEF Powers
    <3> QED BY <3>2, <3>3, ModeTypes
  <2>3. CASE c = Calibrate
    <3>1. c.type = "calibrate" /\ c.mode = "dynamic" /\ c.dbm = 0 /\ c.own = FALSE
          BY <2>3 DEF Calibrate
    <3>2. c.dbm \in Int
          BY <3>1
    <3> QED BY <3>1, <3>2, ModeTypes, Zenon
  <2> QED BY <2>1, <2>2, <2>3, CommandKinds
<1> QED BY <1>1, <1>2

LEMMA OwnCommand ==
  ASSUME NEW dbm \in Powers
  PROVE  SetPower(dbm, "dynamic", TRUE) \in Commands
<1>1. SetPower(dbm, "dynamic", TRUE) \in OwnCommands
      BY DEF OwnCommands
<1> QED BY <1>1, CommandKinds

LEMMA ClampType == ASSUME NEW dbm \in Int PROVE Clamp(dbm) \in Powers
  BY Bounds DEF Clamp, Powers

-----------------------------------------------------------------------------
\* What the controller's handlers make of a node's record.

LEMMA NodeFields ==
  ASSUME NEW n \in Node
  PROVE  /\ n.mode \in Modes /\ n.dbm \in Powers /\ n.pending \in Powers \cup {NoPower}
         /\ n.waiting \in 0 .. AckTimeout /\ n.sampled \in BOOLEAN
         /\ n.total \in Unknown .. MaxTotal /\ n.rested \in 0 .. DecisionInterval
         /\ n.heard \in BOOLEAN /\ n.silent \in 0 .. SilenceTimeout /\ n.probes \in 0 .. MaxProbes
  BY DEF Node

LEMMA LaterType ==
  ASSUME NEW limit \in Nat, NEW age \in 0 .. limit
  PROVE  Later(age, limit) \in 0 .. limit
  BY DEF Later

LEMMA AgedType == ASSUME NEW n \in Node PROVE Aged(n) \in Node /\ Aged(n).pending = n.pending
<1> DEFINE w == IF n.pending = NoPower THEN 0 ELSE Later(n.waiting, AckTimeout)
           r == Later(n.rested, DecisionInterval)
           s == IF n.heard THEN Later(n.silent, SilenceTimeout) ELSE 0
<1>1. w \in 0 .. AckTimeout
  <2>1. Later(n.waiting, AckTimeout) \in 0 .. AckTimeout /\ 0 \in 0 .. AckTimeout
        BY NodeFields, Bounds, LaterType
  <2> QED BY <2>1
<1>2. r \in 0 .. DecisionInterval
      BY NodeFields, Bounds, LaterType
<1>3. s \in 0 .. SilenceTimeout
  <2>1. Later(n.silent, SilenceTimeout) \in 0 .. SilenceTimeout /\ 0 \in 0 .. SilenceTimeout
        BY NodeFields, Bounds, LaterType
  <2> QED BY <2>1
<1>4. Aged(n) = [n EXCEPT !.waiting = w, !.rested = r, !.silent = s]
      BY DEF Aged
<1> HIDE DEF w, r, s
<1>5. Aged(n) \in Node
      BY <1>1, <1>2, <1>3, <1>4 DEF Node
<1>6. Aged(n).pending = n.pending
      BY <1>4 DEF Node
<1> QED BY <1>5, <1>6

LEMMA PacketReceivedType ==
  ASSUME NEW n \in Node
  PROVE  /\ PacketReceived(n) \in Node
         /\ PacketReceived(n).pending = n.pending /\ PacketReceived(n).waiting = n.waiting
<1>1. 0 \in 0 .. SilenceTimeout /\ 0 \in 0 .. MaxProbes
      BY Bounds
<1> QED BY <1>1 DEF PacketReceived, Node

LEMMA StatusReceivedType ==
  ASSUME NEW n \in Node, NEW dbm \in Powers, NEW m \in Modes, NEW t \in 0 .. MaxTotal
  PROVE  /\ StatusReceived(n, dbm, m, t) \in Node
         /\ StatusReceived(n, dbm, m, t).pending = n.pending
         /\ StatusReceived(n, dbm, m, t).waiting = n.waiting
<1> DEFINE tt == IF n.total = Unknown THEN t ELSE n.total
<1>1. tt \in Unknown .. MaxTotal
  <2>1. t \in Unknown .. MaxTotal
        BY Bounds DEF Unknown
  <2> QED BY <2>1, NodeFields
<1>2. StatusReceived(n, dbm, m, t) = [n EXCEPT !.dbm = dbm, !.mode = m, !.total = tt]
      BY DEF StatusReceived
<1> HIDE DEF tt
<1> QED BY <1>1, <1>2 DEF Node

LEMMA WindowClosedType ==
  ASSUME NEW n \in Node, NEW t \in 0 .. MaxTotal
  PROVE  /\ WindowClosed(n, t) \in Node /\ WindowClosed(n, t).dbm = n.dbm
         /\ WindowClosed(n, t).pending = n.pending /\ WindowClosed(n, t).waiting = n.waiting
<1>1. t \in Unknown .. MaxTotal /\ 0 \in 0 .. DecisionInterval
      BY Bounds DEF Unknown
<1> QED BY <1>1 DEF WindowClosed, Node

LEMMA TargetType ==
  ASSUME NEW n \in Node, NEW margin \in Margins, NEW t
  PROVE  /\ Target(n, margin, t) \in Powers
         /\ Asked(n, Target(n, margin, t)) \in Powers \cup {NoPower}
<1>1. n.dbm \in Powers /\ n.dbm - Step \in Int
      BY NodeFields, Bounds DEF Powers
<1>2. Clamp(n.dbm - Step) \in Powers /\ MaxDbm \in Powers
      BY <1>1, ClampType, Bounds
<1>3. Target(n, margin, t) \in Powers
      BY <1>1, <1>2 DEF Target
<1> QED BY <1>3 DEF Asked

LEMMA ExpiredIs ==
  ASSUME NEW n \in Node
  PROVE  /\ Expired(n) \in Node
         /\ \/ Expired(n) = n
            \/ n.waiting > 0 /\ Expired(n).pending = NoPower /\ Expired(n).waiting = 0
<1>1. CASE n.pending # NoPower /\ n.waiting = AckTimeout
  <2>1. Expired(n) = [n EXCEPT !.pending = NoPower, !.waiting = 0]
        BY <1>1 DEF Expired
  <2>2. 0 \in 0 .. AckTimeout /\ AckTimeout > 0
        BY Bounds
  <2>3. Expired(n) \in Node /\ Expired(n).pending = NoPower /\ Expired(n).waiting = 0
        BY <2>1, <2>2 DEF Node
  <2> QED BY <1>1, <2>2, <2>3
<1>2. CASE ~(n.pending # NoPower /\ n.waiting = AckTimeout)
      BY <1>2 DEF Expired
<1> QED BY <1>1, <1>2

LEMMA ProbedType ==
  ASSUME NEW n \in Node, ProbeDue(n)
  PROVE  /\ Probed(n) \in Node /\ n.pending = NoPower
         /\ Probed(n).pending = n.pending /\ Probed(n).waiting = n.waiting
<1>1. n.probes + 1 \in 0 .. MaxProbes
      BY NodeFields, Bounds DEF ProbeDue
<1>2. Probed(n) = [n EXCEPT !.probes = n.probes + 1]
      BY DEF Probed
<1> QED BY <1>1, <1>2 DEF Node, ProbeDue

LEMMA CommandSentType ==
  ASSUME NEW n \in Node, NEW dbm \in Powers
  PROVE  /\ CommandSent(n, dbm) \in Node
         /\ CommandSent(n, dbm).pending = dbm /\ CommandSent(n, dbm).waiting = 0
<1>1. 0 \in 0 .. AckTimeout
      BY Bounds
<1> QED BY <1>1 DEF CommandSent, Node

LEMMA CommandFailedType ==
  ASSUME NEW n \in Node
  PROVE  /\ CommandFailed(n) \in Node
         /\ CommandFailed(n).pending = NoPower /\ CommandFailed(n).waiting = 0
<1>1. 0 \in 0 .. AckTimeout
      BY Bounds
<1> QED BY <1>1 DEF CommandFailed, Node

LEMMA CmdAckReceivedType ==
  ASSUME NEW n \in Node
  PROVE  /\ CmdAckReceived(n) \in Node
         /\ \/ n.pending = NoPower /\ CmdAckReceived(n) = n
            \/ n.pending # NoPower /\ CmdAckReceived(n).pending = NoPower
               /\ CmdAckReceived(n).waiting = 0
<1>1. CASE n.pending = NoPower
      BY <1>1 DEF CmdAckReceived
<1>2. CASE n.pending # NoPower
  <2>1. n.pending \in Powers /\ 0 \in 0 .. AckTimeout /\ 0 \in 0 .. SilenceTimeout
        BY <1>2, NodeFields, Bounds
  <2>2. CmdAckReceived(n) = [n EXCEPT !.dbm = n.pending, !.pending = NoPower, !.waiting = 0,
                                      !.heard = TRUE, !.silent = 0]
        BY <1>2 DEF CmdAckReceived
  <2> QED BY <1>2, <2>1, <2>2 DEF Node
<1> QED BY <1>1, <1>2

LEMMA AwakenReceivedType ==
  AwakenReceived \in Node /\ AwakenReceived.pending = NoPower /\ AwakenReceived.waiting = 0
<1>1. /\ 0 \in 0 .. AckTimeout /\ 0 \in 0 .. SilenceTimeout /\ 0 \in 0 .. MaxProbes
      /\ Unknown \in Unknown .. MaxTotal /\ DecisionInterval \in 0 .. DecisionInterval
      BY Bounds DEF Unknown
<1>2. Untracked \in Node /\ Untracked.pending = NoPower /\ Untracked.waiting = 0
      BY <1>1, Bounds, ModeTypes DEF Untracked, Node
<1> QED BY <1>2 DEF AwakenReceived, Node

LEMMA ModeSetType ==
  ASSUME NEW n \in Node, NEW m \in Modes
  PROVE  /\ ModeSet(n, m) \in Node
         /\ ModeSet(n, m).pending = n.pending /\ ModeSet(n, m).waiting = n.waiting
  BY DEF ModeSet, Node

-----------------------------------------------------------------------------
\* Counting what is in flight.

LEMMA SmallestFree == ASSUME Free # {} PROVE Min(Free) \in Free
<1>1. Free \subseteq Nat
      BY Bounds DEF Free
<1>2. PICK x \in Free : \A y \in Free : ~(<<y, x>> \in OpToRel(<, Nat))
      BY <1>1, NatLessThanWellFounded, WFMin
<1>3. \A y \in Free : x <= y
  <2> SUFFICES ASSUME NEW y \in Free PROVE x <= y
      OBVIOUS
  <2>1. x \in Nat /\ y \in Nat
        BY <1>1
  <2>2. ~ y < x
        BY <1>2, <2>1 DEF OpToRel
  <2> QED BY <2>1, <2>2
<1> QED BY <1>3 DEF Min

LEMMA CommandsFinite ==
  ASSUME NEW q
  PROVE  IsFiniteSet(CommandsIn(q)) /\ Cardinality(CommandsIn(q)) \in Nat
<1>1. IsFiniteSet(1 .. QueueSize)
      BY Bounds, FS_Interval
<1>2. CommandsIn(q) \in SUBSET (1 .. QueueSize)
      BY DEF CommandsIn
<1> QED BY <1>1, <1>2, FS_Subset, FS_CardinalityType

LEMMA AcksFinite ==
  ASSUME NEW u \in Seq(Frames)
  PROVE  IsFiniteSet(AcksIn(u)) /\ Cardinality(AcksIn(u)) \in Nat
<1>1. IsFiniteSet(1 .. Len(u))
      BY LenProperties, FS_Interval
<1>2. AcksIn(u) \in SUBSET (1 .. Len(u))
      BY DEF AcksIn
<1> QED BY <1>1, <1>2, FS_Subset, FS_CardinalityType

\* A queue with a place filled, and one with places emptied.
LEMMA QueuedCount ==
  ASSUME queue \in Queues, Free # {}, NEW c \in Commands
  PROVE  /\ Queued(c) \in Queues
         /\ Cardinality(CommandsIn(Queued(c)))
              <= Cardinality(CommandsIn(queue)) + MailIn(c)
<1> DEFINE i == Min(Free)
           q == Queued(c)
<1>1. i \in 1 .. QueueSize
      BY SmallestFree DEF Free
<1>2. q = [queue EXCEPT ![i] = Entry(c)]
      BY DEF Queued
<1>3. Entry(c) \in [command : Commands \cup {Empty}, attempts : 0 .. MaxAttempts - 1]
      /\ Entry(c).command = c
  <2>1. 0 \in 0 .. MaxAttempts - 1
        BY Bounds
  <2> QED BY <2>1 DEF Entry
<1> HIDE DEF i, q
<1>4. q \in Queues
      BY <1>1, <1>2, <1>3 DEF Queues
<1>5. \A j \in 1 .. QueueSize : q[j] = IF j = i THEN Entry(c) ELSE queue[j]
      BY <1>2 DEF Queues
<1>6. CASE c.type = "power"
  <2>1. CommandsIn(q) \in SUBSET (CommandsIn(queue) \cup {i})
        BY <1>5 DEF CommandsIn
  <2>2. /\ IsFiniteSet(CommandsIn(queue) \cup {i})
        /\ Cardinality(CommandsIn(queue) \cup {i}) <= Cardinality(CommandsIn(queue)) + 1
        BY CommandsFinite, FS_AddElement
  <2>3. Cardinality(CommandsIn(q)) <= Cardinality(CommandsIn(queue) \cup {i})
        BY <2>1, <2>2, FS_Subset
  <2>4. Cardinality(CommandsIn(q)) \in Nat /\ Cardinality(CommandsIn(queue) \cup {i}) \in Nat
        BY <2>2, CommandsFinite, FS_CardinalityType
  <2>5. Cardinality(CommandsIn(queue)) \in Nat /\ MailIn(c) = 1
        BY <1>6, CommandsFinite DEF MailIn
  <2>6. Cardinality(CommandsIn(q)) <= Cardinality(CommandsIn(queue)) + MailIn(c)
        BY <2>2, <2>3, <2>4, <2>5
  <2> QED BY <1>4, <2>6 DEF q
<1>7. CASE c.type # "power"
  <2>1. CommandsIn(q) \in SUBSET CommandsIn(queue)
        BY <1>3, <1>5, <1>7 DEF CommandsIn
  <2>2. Cardinality(CommandsIn(q)) <= Cardinality(CommandsIn(queue))
        BY <2>1, CommandsFinite, FS_Subset
  <2>3. Cardinality(CommandsIn(queue)) \in Nat /\ MailIn(c) = 0
        BY <1>7, CommandsFinite DEF MailIn
  <2> QED BY <1>4, <2>2, <2>3 DEF q
<1> QED BY <1>6, <1>7

LEMMA EmptyEntry ==
  /\ Entry(Empty) \in [command : Commands \cup {Empty}, attempts : 0 .. MaxAttempts - 1]
  /\ Entry(Empty).command.type = "none"
<1>1. 0 \in 0 .. MaxAttempts - 1
      BY Bounds
<1> QED BY <1>1, CommandFields DEF Entry

LEMMA RefusedCount ==
  ASSUME queue \in Queues, NEW R
  PROVE  /\ Refused(R) \in Queues
         /\ CommandsIn(Refused(R)) \in SUBSET CommandsIn(queue)
<1> DEFINE E == [command : Commands \cup {Empty}, attempts : 0 .. MaxAttempts - 1]
<1>1. ASSUME NEW i \in 1 .. QueueSize
      PROVE  /\ Refused(R)[i] \in E
             /\ Refused(R)[i].command.type = "power" => queue[i].command.type = "power"
  <2>1. queue[i] \in E
        BY DEF Queues
  <2>2. CASE i \notin R
    <3>1. Refused(R)[i] = queue[i]
          BY <2>2 DEF Refused
    <3> QED BY <2>1, <3>1
  <2>3. CASE i \in R /\ queue[i].attempts + 1 >= MaxAttempts
    <3>1. Refused(R)[i] = Entry(Empty)
          BY <2>3 DEF Refused
    <3> QED BY <3>1, EmptyEntry
  <2>4. CASE i \in R /\ ~(queue[i].attempts + 1 >= MaxAttempts)
    <3>1. Refused(R)[i] = [queue[i] EXCEPT !.attempts = @ + 1]
          BY <2>4 DEF Refused
    <3>2. queue[i].attempts + 1 \in 0 .. MaxAttempts - 1
          BY <2>1, <2>4, Bounds
    <3> QED BY <2>1, <3>1, <3>2
  <2> QED BY <2>2, <2>3, <2>4
<1> HIDE DEF E
<1>2. Refused(R) = [i \in 1 .. QueueSize |-> Refused(R)[i]]
      BY DEF Refused
<1>3. Refused(R) \in [1 .. QueueSize -> E]
      BY <1>1, <1>2
<1>4. CommandsIn(Refused(R)) \in SUBSET CommandsIn(queue)
      BY <1>1 DEF CommandsIn
<1> QED BY <1>3, <1>4 DEF Queues, E

\* What the entry i held is in the queue no longer, and refusals take away no less.
LEMMA SentCount ==
  ASSUME queue \in Queues, NEW R, NEW i \in 1 .. QueueSize
  PROVE  LET q == [Refused(R) EXCEPT ![i] = Entry(Empty)]
         IN  /\ q \in Queues
             /\ Cardinality(CommandsIn(q)) + MailIn(queue[i].command)
                  <= Cardinality(CommandsIn(queue))
<1> DEFINE q == [Refused(R) EXCEPT ![i] = Entry(Empty)]
<1>1. Refused(R) \in Queues /\ CommandsIn(Refused(R)) \in SUBSET CommandsIn(queue)
      BY RefusedCount
<1>2. q \in Queues
      BY <1>1, EmptyEntry DEF Queues
<1>3. \A j \in 1 .. QueueSize : q[j] = IF j = i THEN Entry(Empty) ELSE Refused(R)[j]
      BY <1>1 DEF Queues
<1> HIDE DEF q
<1>4. CommandsIn(q) \in SUBSET (CommandsIn(queue) \ {i})
  <2>1. \A j \in CommandsIn(q) : j # i /\ j \in CommandsIn(Refused(R))
        BY <1>3, EmptyEntry DEF CommandsIn
  <2> QED BY <1>1, <2>1
<1>5. /\ IsFiniteSet(CommandsIn(queue) \ {i})
      /\ Cardinality(CommandsIn(queue) \ {i}) = IF i \in CommandsIn(queue)
                                                THEN Cardinality(CommandsIn(queue)) - 1
                                                ELSE Cardinality(CommandsIn(queue))
      BY CommandsFinite, FS_RemoveElement
<1>6. Cardinality(CommandsIn(q)) <= Cardinality(CommandsIn(queue) \ {i})
      BY <1>4, <1>5, FS_Subset
<1>7. Cardinality(CommandsIn(queue)) \in Nat /\ Cardinality(CommandsIn(q)) \in Nat
      BY CommandsFinite
<1>8. Cardinality(CommandsIn(q)) + MailIn(queue[i].command) <= Cardinality(CommandsIn(queue))
  <2>1. CASE queue[i].command.type = "power"
    <3>1. i \in CommandsIn(queue) /\ MailIn(queue[i].command) = 1
          BY <2>1 DEF CommandsIn, MailIn
    <3> QED BY <1>5, <1>6, <1>7, <3>1
  <2>2. CASE queue[i].command.type # "power"
    <3>1. i \notin CommandsIn(queue) /\ MailIn(queue[i].command) = 0
          BY <2>2 DEF CommandsIn, MailIn
    <3> QED BY <1>5, <1>6, <1>7, <3>1
  <2> QED BY <2>1, <2>2
<1> QED BY <1>2, <1>8 DEF q

\* A frame put last, and the first one taken.
LEMMA AppendCount ==
  ASSUME NEW u \in Seq(Frames), NEW f \in Frames
  PROVE  /\ Append(u, f) \in Seq(Frames) /\ Len(Append(u, f)) = Len(u) + 1
         /\ Cardinality(AcksIn(Append(u, f)))
              <= Cardinality(AcksIn(u)) + (IF f.type = "ack" /\ f.of = "power" THEN 1 ELSE 0)
<1> DEFINE v == Append(u, f)
           n == Len(u)
           k == IF f.type = "ack" /\ f.of = "power" THEN 1 ELSE 0
<1>1. /\ v \in Seq(Frames) /\ Len(v) = n + 1 /\ n \in Nat
      /\ \A i \in 1 .. n : v[i] = u[i]
      /\ v[n + 1] = f
      BY AppendProperties, LenProperties
<1>2. Cardinality(AcksIn(u)) \in Nat /\ IsFiniteSet(AcksIn(u))
      BY AcksFinite
<1>3. \A j \in AcksIn(v) : j \in AcksIn(u) \/ j = n + 1
  <2> SUFFICES ASSUME NEW j \in AcksIn(v), j # n + 1 PROVE j \in AcksIn(u)
      OBVIOUS
  <2>1. j \in 1 .. n + 1 /\ v[j].type = "ack" /\ v[j].of = "power"
        BY <1>1 DEF AcksIn
  <2>2. j \in 1 .. n
        BY <1>1, <2>1
  <2> QED BY <1>1, <2>1, <2>2 DEF AcksIn
<1> HIDE DEF v, n, k
<1>4. CASE f.type = "ack" /\ f.of = "power"
  <2>1. AcksIn(v) \in SUBSET (AcksIn(u) \cup {n + 1})
        BY <1>3
  <2>2. /\ IsFiniteSet(AcksIn(u) \cup {n + 1})
        /\ Cardinality(AcksIn(u) \cup {n + 1}) <= Cardinality(AcksIn(u)) + 1
    <3>1. /\ IsFiniteSet(AcksIn(u) \cup {n + 1})
          /\ Cardinality(AcksIn(u) \cup {n + 1}) = IF n + 1 \in AcksIn(u) THEN Cardinality(AcksIn(u))
                                                   ELSE Cardinality(AcksIn(u)) + 1
          BY <1>2, FS_AddElement
    <3> QED BY <1>2, <3>1
  <2>3. /\ Cardinality(AcksIn(v)) <= Cardinality(AcksIn(u) \cup {n + 1})
        /\ Cardinality(AcksIn(v)) \in Nat
        /\ Cardinality(AcksIn(u) \cup {n + 1}) \in Nat
        BY <1>1, <2>1, <2>2, AcksFinite, FS_Subset, FS_CardinalityType
  <2>4. k = 1
        BY <1>4 DEF k
  <2> QED BY <1>1, <1>2, <2>2, <2>3, <2>4 DEF v, n, k
<1>5. CASE ~(f.type = "ack" /\ f.of = "power")
  <2>1. n + 1 \notin AcksIn(v)
        BY <1>1, <1>5 DEF AcksIn
  <2>2. AcksIn(v) \in SUBSET AcksIn(u)
        BY <1>3, <2>1
  <2>3. Cardinality(AcksIn(v)) <= Cardinality(AcksIn(u))
        BY <1>2, <2>2, FS_Subset
  <2>4. k = 0
        BY <1>5 DEF k
  <2> QED BY <1>1, <1>2, <2>3, <2>4 DEF v, n, k
<1> QED BY <1>4, <1>5

LEMMA TailCount ==
  ASSUME NEW u \in Seq(Frames), u # <<>>
  PROVE  /\ Head(u) \in Frames /\ Tail(u) \in Seq(Frames) /\ Len(Tail(u)) = Len(u) - 1
         /\ Cardinality(AcksIn(Tail(u)))
              + (IF Head(u).type = "ack" /\ Head(u).of = "power" THEN 1 ELSE 0)
              <= Cardinality(AcksIn(u))
<1> DEFINE v == Tail(u)
           n == Len(u)
           k == IF Head(u).type = "ack" /\ Head(u).of = "power" THEN 1 ELSE 0
           S == AcksIn(v)
           T == AcksIn(u)
           next == [j \in S |-> j + 1]
<1>1. /\ Head(u) \in Frames /\ v \in Seq(Frames) /\ Len(v) = n - 1 /\ n \in Nat
      /\ \A i \in 1 .. n - 1 : v[i] = u[i + 1]
      /\ n >= 1 /\ Head(u) = u[1]
  <2>1. n \in Nat \ {0}
        BY EmptySeq
  <2>2. /\ Head(u) \in Frames /\ v \in Seq(Frames) /\ Len(v) = n - 1
        /\ \A i \in 1 .. Len(v) : v[i] = u[i + 1]
        BY HeadTailProperties
  <2>3. Head(u) = u[1]
        OBVIOUS
  <2> QED BY <2>1, <2>2, <2>3
<1>2. /\ IsFiniteSet(S) /\ Cardinality(S) \in Nat
      /\ IsFiniteSet(T) /\ Cardinality(T) \in Nat
      BY <1>1, AcksFinite
<1>3. \A j \in S : j \in Nat /\ j + 1 \in T /\ j + 1 # 1
  <2> SUFFICES ASSUME NEW j \in S PROVE j \in Nat /\ j + 1 \in T /\ j + 1 # 1
      OBVIOUS
  <2>1. j \in 1 .. n - 1 /\ v[j].type = "ack" /\ v[j].of = "power"
        BY <1>1 DEF AcksIn
  <2>2. j + 1 \in 1 .. n /\ v[j] = u[j + 1] /\ j \in Nat /\ j + 1 # 1
        BY <1>1, <2>1
  <2> QED BY <2>1, <2>2 DEF AcksIn
<1> HIDE DEF S, T, k, v, n
<1>4. IsFiniteSet(T \ {1}) /\ Cardinality(T \ {1}) = IF 1 \in T THEN Cardinality(T) - 1 ELSE Cardinality(T)
      BY <1>2, FS_RemoveElement
<1>5. next \in Injection(S, T \ {1})
  <2>1. next \in [S -> T \ {1}]
        BY <1>3
  <2>2. \A a, b \in S : next[a] = next[b] => a = b
        BY <1>3
  <2> QED BY <2>1, <2>2 DEF Injection, IsInjective
<1>6. Cardinality(S) <= Cardinality(T \ {1})
      BY <1>4, <1>5, FS_Injection
<1>7. Cardinality(S) + k <= Cardinality(T)
  <2>1. CASE Head(u).type = "ack" /\ Head(u).of = "power"
    <3>1. 1 \in T
      <4>1. 1 \in 1 .. n
            BY <1>1
      <4> QED BY <1>1, <2>1, <4>1 DEF T, AcksIn, n
    <3>2. k = 1
          BY <2>1 DEF k
    <3> QED BY <1>2, <1>4, <1>6, <3>1, <3>2
  <2>2. CASE ~(Head(u).type = "ack" /\ Head(u).of = "power")
    <3>1. 1 \notin T
          BY <1>1, <2>2 DEF T, AcksIn
    <3>2. k = 0
          BY <2>2 DEF k
    <3> QED BY <1>2, <1>4, <1>6, <3>1, <3>2
  <2> QED BY <2>1, <2>2
<1> QED BY <1>1, <1>7 DEF S, T, k, v, n

\* A full queue loses its oldest frame: one acknowledgement more at most.
LEMMA AppendedCount ==
  ASSUME uplink \in Seq(Frames), Len(uplink) <= UplinkDepth, NEW f \in Frames
  PROVE  /\ Appended(f) \in Seq(Frames) /\ Len(Appended(f)) <= UplinkDepth
         /\ Cardinality(AcksIn(Appended(f)))
              <= Cardinality(AcksIn(uplink)) + (IF f.type = "ack" /\ f.of = "power" THEN 1 ELSE 0)
<1> DEFINE k == IF f.type = "ack" /\ f.of = "power" THEN 1 ELSE 0
<1>1. Len(uplink) \in Nat /\ UplinkDepth \in Nat \ {0}
      BY LenProperties, Bounds
<1>2. CASE Len(uplink) < UplinkDepth
  <2>1. Appended(f) = Append(uplink, f)
        BY <1>2 DEF Appended
  <2>2. Len(Append(uplink, f)) = Len(uplink) + 1
        BY AppendCount
  <2> QED BY <1>1, <1>2, <2>1, <2>2, AppendCount
<1>3. CASE ~(Len(uplink) < UplinkDepth)
  <2>1. Appended(f) = Append(Tail(uplink), f)
        BY <1>3 DEF Appended
  <2>2. uplink # <<>>
    <3>1. Len(uplink) # 0
          BY <1>1, <1>3
    <3> QED BY <3>1, EmptySeq
  <2>3. /\ Tail(uplink) \in Seq(Frames) /\ Len(Tail(uplink)) = Len(uplink) - 1
        /\ Cardinality(AcksIn(Tail(uplink))) <= Cardinality(AcksIn(uplink))
    <3> DEFINE h == IF Head(uplink).type = "ack" /\ Head(uplink).of = "power" THEN 1 ELSE 0
    <3>1. /\ Tail(uplink) \in Seq(Frames) /\ Len(Tail(uplink)) = Len(uplink) - 1
          /\ Cardinality(AcksIn(Tail(uplink))) + h <= Cardinality(AcksIn(uplink))
          BY <2>2, TailCount
    <3>2. h \in {0, 1} /\ Cardinality(AcksIn(Tail(uplink))) \in Nat /\ Cardinality(AcksIn(uplink)) \in Nat
          BY <3>1, AcksFinite
    <3> HIDE DEF h
    <3> QED BY <3>1, <3>2
  <2>4. /\ Append(Tail(uplink), f) \in Seq(Frames)
        /\ Len(Append(Tail(uplink), f)) = Len(Tail(uplink)) + 1
        /\ Cardinality(AcksIn(Append(Tail(uplink), f))) <= Cardinality(AcksIn(Tail(uplink))) + k
        BY <2>3, AppendCount
  <2>5. /\ k \in {0, 1} /\ Cardinality(AcksIn(Tail(uplink))) \in Nat
        /\ Cardinality(AcksIn(uplink)) \in Nat
        /\ Cardinality(AcksIn(Append(Tail(uplink), f))) \in Nat
        BY <2>3, <2>4, AcksFinite
  <2> HIDE DEF k
  <2>6. Cardinality(AcksIn(Append(Tail(uplink), f))) <= Cardinality(AcksIn(uplink)) + k
        BY <2>3, <2>4, <2>5
  <2>7. Len(Append(Tail(uplink), f)) <= UplinkDepth
        BY <1>1, <2>3, <2>4
  <2> QED BY <2>1, <2>4, <2>6, <2>7 DEF k
<1> QED BY <1>2, <1>3

-----------------------------------------------------------------------------
\* The bound, as the record of the node and what is in flight change.

\* Nothing more in flight than an order or an AWAKEN accounts for.
LEMMA FlightShrinks ==
  ASSUME NEW n, NEW m, NEW x \in Int, NEW y \in Int, NEW o \in Int, NEW p \in Int,
         NEW a \in Int, NEW b \in Int,
         Flight(n, x, o, a), y - p - b <= x - o - a,
         m.pending = NoPower => n.pending = NoPower, m.waiting > 0 => n.waiting > 0
  PROVE  Flight(m, y, p, b)
<1> DEFINE i == IF n.pending = NoPower THEN 0 ELSE 1
           j == IF m.pending = NoPower THEN 0 ELSE 1
<1>1. i \in Int /\ j \in Int /\ i <= j
      OBVIOUS
<1>2. x <= i + o + a /\ (n.waiting > 0 => x <= o + a)
      BY DEF Flight
<1> HIDE DEF i, j
<1>3. y <= j + p + b
      BY <1>1, <1>2
<1>4. m.waiting > 0 => y <= p + b
  <2>1. x <= o + a => y <= p + b
        OBVIOUS
  <2> QED BY <1>2, <2>1
<1> QED BY <1>3, <1>4 DEF Flight, j

\* A command of the loop's is sent when none is awaited.
LEMMA FlightStarts ==
  ASSUME NEW n, NEW m, NEW x \in Int, NEW y \in Int, NEW o \in Int, NEW a \in Int,
         Flight(n, x, o, a), n.pending = NoPower, y <= x + 1,
         m.pending # NoPower, m.waiting = 0
  PROVE  Flight(m, y, o, a)
<1>1. x <= 0 + o + a
      BY DEF Flight
<1>2. y <= 1 + o + a
      BY <1>1
<1>3. ~ m.waiting > 0
      OBVIOUS
<1> QED BY <1>2, <1>3 DEF Flight

\* The wait ends: with what is in flight one less, one AWAKEN more, or long after the command.
LEMMA FlightEnds ==
  ASSUME NEW n, NEW m, NEW x \in Int, NEW y \in Int, NEW o \in Int, NEW a \in Int, NEW b \in Int,
         Flight(n, x, o, a), m.waiting = 0,
         \/ y <= x - 1 /\ b = a
         \/ y <= x /\ b = a + 1
         \/ y <= x /\ b = a /\ n.waiting > 0
  PROVE  Flight(m, y, o, b)
<1> DEFINE i == IF n.pending = NoPower THEN 0 ELSE 1
           j == IF m.pending = NoPower THEN 0 ELSE 1
<1>1. i \in {0, 1} /\ j \in {0, 1}
      OBVIOUS
<1>2. x <= i + o + a /\ (n.waiting > 0 => x <= o + a)
      BY DEF Flight
<1> HIDE DEF i, j
<1>3. y <= j + o + b
  <2>1. CASE y <= x - 1 /\ b = a
        BY <1>1, <1>2, <2>1
  <2>2. CASE y <= x /\ b = a + 1
        BY <1>1, <1>2, <2>2
  <2>3. CASE y <= x /\ b = a /\ n.waiting > 0
    <3>1. x <= o + a
          BY <1>2, <2>3
    <3> QED BY <1>1, <2>3, <3>1
  <2> QED BY <2>1, <2>2, <2>3
<1>4. ~ m.waiting > 0
      OBVIOUS
<1> QED BY <1>3, <1>4 DEF Flight, j

\* What comes of a decision for the node n.
LEMMA IssuedIs ==
  ASSUME queue \in Queues, NEW n \in Node, NEW dbm \in Powers \cup {NoPower},
         dbm # NoPower => n.pending = NoPower, Issued(n, dbm)
  PROVE  /\ believed' \in Node /\ queue' \in Queues
         /\ \/ /\ queue' = queue /\ believed'.pending = n.pending
               /\ believed'.waiting = n.waiting \/ believed'.waiting = 0
            \/ /\ n.pending = NoPower
               /\ believed'.pending # NoPower /\ believed'.waiting = 0
               /\ Cardinality(CommandsIn(queue')) <= Cardinality(CommandsIn(queue)) + 1
<1>1. CASE dbm = NoPower
      BY <1>1 DEF Issued
<1>2. CASE dbm # NoPower /\ Free = {}
  <2>1. believed' = CommandFailed(n) /\ queue' = queue
        BY <1>2 DEF Issued
  <2> QED BY <1>2, <2>1, CommandFailedType
<1>3. CASE dbm # NoPower /\ Free # {}
  <2> DEFINE c == SetPower(dbm, "dynamic", TRUE)
  <2>1. believed' = CommandSent(n, dbm) /\ queue' = Queued(c)
        BY <1>3 DEF Issued
  <2>2. dbm \in Powers /\ c \in Commands /\ MailIn(c) = 1
        BY <1>3, OwnCommand DEF MailIn, SetPower
  <2>3. /\ believed' \in Node
        /\ believed'.pending # NoPower /\ believed'.waiting = 0
        BY <2>1, <2>2, CommandSentType, Bounds
  <2> HIDE DEF c
  <2>4. Queued(c) \in Queues
        /\ Cardinality(CommandsIn(Queued(c))) <= Cardinality(CommandsIn(queue)) + MailIn(c)
        BY <1>3, <2>2, QueuedCount
  <2>5. Cardinality(CommandsIn(queue')) <= Cardinality(CommandsIn(queue)) + 1
        BY <2>1, <2>2, <2>4
  <2> QED BY <1>3, <2>1, <2>3, <2>4, <2>5
<1> QED BY <1>1, <1>2, <1>3

LEMMA InFlightType ==
  ASSUME NEW q, NEW m, NEW u \in Seq(Frames)
  PROVE  /\ Cardinality(CommandsIn(q)) \in Nat /\ MailIn(m) \in {0, 1}
         /\ Cardinality(AcksIn(u)) \in Nat /\ InFlight(q, m, u) \in Nat
<1>1. Cardinality(CommandsIn(q)) \in Nat /\ Cardinality(AcksIn(u)) \in Nat
      BY CommandsFinite, AcksFinite
<1>2. MailIn(m) \in {0, 1}
      BY DEF MailIn
<1> QED BY <1>1, <1>2 DEF InFlight

LEMMA FrameTypes ==
  /\ \A of \in {"none", "power", "calibrate"} :
       /\ CmdAck(of) \in Frames /\ CmdAck(of).type = "ack" /\ CmdAck(of).of = of
  /\ \A dbm \in Powers, m \in Modes, t \in 0 .. MaxTotal :
       Status(dbm, m, t) \in Frames /\ Status(dbm, m, t).type = "status"
<1>1. 0 \in 0 .. MaxTotal /\ MaxDbm \in Powers /\ "dynamic" \in Modes
      BY Bounds, ModeTypes
<1>2. ASSUME NEW of \in {"none", "power", "calibrate"}
      PROVE  CmdAck(of) \in Frames /\ CmdAck(of).type = "ack" /\ CmdAck(of).of = of
      BY <1>1 DEF CmdAck, Frames
<1>3. ASSUME NEW dbm \in Powers, NEW m \in Modes, NEW t \in 0 .. MaxTotal
      PROVE  Status(dbm, m, t) \in Frames /\ Status(dbm, m, t).type = "status"
      BY DEF Status, Frames
<1> QED BY <1>2, <1>3

LEMMA PowerInvInit == PowerInit => PowerInv
<1> SUFFICES ASSUME PowerInit PROVE PowerInv
    OBVIOUS
<1>1. /\ believed = AwakenReceived /\ queue = [i \in 1 .. QueueSize |-> Entry(Empty)]
      /\ mailbox = Empty /\ power = MaxDbm /\ mode = "dynamic" /\ total = 0 /\ uplink = <<>>
      /\ need = MinDbm /\ orders = 0 /\ faults = 0 /\ awakens = 0
      BY DEF PowerInit
<1>2. queue \in Queues /\ \A i \in 1 .. QueueSize : queue[i].command.type = "none"
      BY <1>1, EmptyEntry DEF Queues
<1>3. uplink \in Seq(Frames) /\ Len(uplink) = 0
      BY <1>1, EmptySeq
<1>4. /\ 0 \in 0 .. MaxTotal /\ 0 \in 0 .. MaxOrders /\ 0 \in 0 .. MaxFaults
      /\ 0 <= UplinkDepth /\ MinDbm \in Powers
      BY Bounds DEF Powers
<1>5. PowerTypeOK
      BY <1>1, <1>2, <1>3, <1>4, AwakenReceivedType, Bounds, ModeTypes DEF PowerTypeOK, Queues
<1>6. InFlight(queue, mailbox, uplink) = 0
  <2>1. CommandsIn(queue) = {}
        BY <1>2 DEF CommandsIn
  <2>2. AcksIn(uplink) = {}
        BY <1>3 DEF AcksIn
  <2>3. MailIn(mailbox) = 0
        BY <1>1, CommandFields DEF MailIn
  <2> QED BY <2>1, <2>2, <2>3, FS_EmptySet DEF InFlight
<1>7. Flight(believed, 0, orders, awakens)
  <2>1. believed.pending = NoPower /\ believed.waiting = 0
        BY <1>1, AwakenReceivedType
  <2> QED BY <1>1, <2>1 DEF Flight
<1>8. awakens <= faults
      BY <1>1
<1> QED BY <1>3, <1>5, <1>6, <1>7, <1>8 DEF PowerInv

\* The types, as the steps use them.
LEMMA PowerTypes ==
  ASSUME PowerInv
  PROVE  /\ believed \in Node /\ queue \in Queues /\ mailbox \in Commands \cup {Empty}
         /\ power \in Powers /\ mode \in Modes /\ total \in 0 .. MaxTotal
         /\ uplink \in Seq(Frames) /\ Len(uplink) <= UplinkDepth /\ need \in Powers
         /\ orders \in 0 .. MaxOrders /\ faults \in 0 .. MaxFaults /\ awakens \in 0 .. MaxFaults
         /\ orders \in Nat /\ faults \in Nat /\ awakens \in Nat /\ awakens <= faults
<1>1. /\ believed \in Node /\ queue \in Queues /\ mailbox \in Commands \cup {Empty}
      /\ power \in Powers /\ mode \in Modes /\ total \in 0 .. MaxTotal
      /\ uplink \in Seq(Frames) /\ Len(uplink) <= UplinkDepth /\ need \in Powers
      /\ orders \in 0 .. MaxOrders /\ faults \in 0 .. MaxFaults /\ awakens \in 0 .. MaxFaults
      /\ awakens <= faults
      BY DEF PowerInv, PowerTypeOK, Queues
<1> QED BY <1>1, Bounds

\* The steps of the base.
LEMMA BaseSteps ==
  ASSUME PowerInv, BaseActs
  PROVE  PowerInv'
<1>1. /\ believed \in Node /\ queue \in Queues /\ mailbox \in Commands \cup {Empty}
      /\ power \in Powers /\ mode \in Modes /\ total \in 0 .. MaxTotal
      /\ uplink \in Seq(Frames) /\ Len(uplink) <= UplinkDepth /\ need \in Powers
      /\ orders \in 0 .. MaxOrders /\ faults \in 0 .. MaxFaults /\ awakens \in 0 .. MaxFaults
      /\ orders \in Nat /\ faults \in Nat /\ awakens \in Nat /\ awakens <= faults
      BY PowerTypes
<1> DEFINE x == InFlight(queue, mailbox, uplink)
           A == Cardinality(AcksIn(uplink))
           C == Cardinality(CommandsIn(queue))
<1>2. /\ Flight(believed, x, orders, awakens)
      /\ x \in Nat /\ A \in Nat /\ C \in Nat /\ MailIn(mailbox) \in {0, 1}
      /\ x = C + MailIn(mailbox) + A
      BY <1>1, InFlightType DEF PowerInv, InFlight
<1> DEFINE y == InFlight(queue', mailbox', uplink')
           D == Cardinality(CommandsIn(queue'))
<1>3. uplink' \in Seq(Frames) =>
        /\ y \in Nat /\ D \in Nat /\ MailIn(mailbox') \in {0, 1}
        /\ y = D + MailIn(mailbox') + Cardinality(AcksIn(uplink'))
      BY InFlightType DEF InFlight
<1>4. InFlight(queue, mailbox, uplink)' = y
      BY DEF InFlight, CommandsIn, MailIn, AcksIn
<1> HIDE DEF x, A, C, y, D
<1>5. CASE BaseUpdates
  <2> DEFINE n == Expired(believed)
             m == IF ProbeDue(n) THEN Probed(n) ELSE n
             dbm == IF ProbeDue(n) THEN MaxDbm ELSE NoPower
  <2>1. /\ Issued(m, dbm)
        /\ mailbox' = mailbox /\ power' = power /\ mode' = mode /\ total' = total
        /\ uplink' = uplink /\ need' = need /\ orders' = orders /\ faults' = faults
        /\ awakens' = awakens
        BY <1>5 DEF BaseUpdates
  <2>2. /\ n \in Node
        /\ \/ n = believed
           \/ believed.waiting > 0 /\ n.pending = NoPower /\ n.waiting = 0
        BY <1>1, ExpiredIs
  <2>3. Flight(n, x, orders, awakens)
    <3>1. CASE n = believed
          BY <1>2, <3>1
    <3>2. CASE believed.waiting > 0 /\ n.pending = NoPower /\ n.waiting = 0
          BY <1>1, <1>2, <3>2, FlightEnds
    <3> QED BY <2>2, <3>1, <3>2
  <2> HIDE DEF n
  <2>4. /\ m \in Node /\ m.pending = n.pending /\ m.waiting = n.waiting
        /\ dbm \in Powers \cup {NoPower} /\ (dbm # NoPower => m.pending = NoPower)
        BY <2>2, ProbedType, Bounds
  <2> HIDE DEF m, dbm
  <2>5. Flight(m, x, orders, awakens)
        BY <1>1, <1>2, <2>3, <2>4, FlightShrinks
  <2>6. /\ believed' \in Node /\ queue' \in Queues
        /\ \/ /\ queue' = queue /\ believed'.pending = m.pending
              /\ believed'.waiting = m.waiting \/ believed'.waiting = 0
           \/ /\ m.pending = NoPower
              /\ believed'.pending # NoPower /\ believed'.waiting = 0
              /\ D <= C + 1
        BY <1>1, <2>1, <2>4, IssuedIs DEF C, D
  <2>7. y \in Nat /\ y = D + MailIn(mailbox) + A /\ D \in Nat
        BY <1>1, <1>3, <2>1 DEF A
  <2>8. Flight(believed', y, orders, awakens)
    <3>1. CASE /\ queue' = queue /\ believed'.pending = m.pending
               /\ believed'.waiting = m.waiting \/ believed'.waiting = 0
      <4>1. D = C
            BY <3>1 DEF C, D
      <4>2. y = x
            BY <1>2, <2>7, <4>1
      <4>3. believed'.waiting > 0 => m.waiting > 0
            BY <3>1
      <4>4. y - orders - awakens <= x - orders - awakens
            BY <1>1, <1>2, <4>2
      <4> QED BY <1>1, <1>2, <2>5, <2>7, <3>1, <4>3, <4>4, FlightShrinks
    <3>2. CASE /\ m.pending = NoPower
               /\ believed'.pending # NoPower /\ believed'.waiting = 0
               /\ D <= C + 1
      <4>1. y <= x + 1
            BY <1>2, <2>7, <3>2
      <4> QED BY <1>1, <1>2, <2>5, <2>7, <3>2, <4>1, FlightStarts
    <3> QED BY <2>6, <3>1, <3>2
  <2>9. PowerTypeOK'
        BY <1>1, <2>1, <2>6 DEF PowerTypeOK, Queues
  <2> QED BY <1>1, <1>4, <2>1, <2>8, <2>9 DEF PowerInv
<1>6. CASE SendCommand
  <2>1. PICK i \in InUse :
          LET R == {j \in InUse : j < i}
          IN /\ queue' = [Refused(R) EXCEPT ![i] = Entry(Empty)]
             /\ \/ Remember(queue[i].command) /\ IF R = {} THEN NoFault ELSE Fault("refusal")
                \/ R = {} /\ Fault("loss") /\ UNCHANGED mailbox
        BY <1>6 DEF SendCommand
  <2>2. /\ believed' = believed /\ power' = power /\ mode' = mode /\ total' = total
        /\ uplink' = uplink /\ need' = need /\ orders' = orders /\ awakens' = awakens
        BY <1>6 DEF SendCommand
  <2> DEFINE R == {j \in InUse : j < i}
             c == queue[i].command
  <2>3. i \in 1 .. QueueSize /\ c \in Commands \cup {Empty}
        BY <1>1 DEF InUse, Queues
  <2>4. queue' \in Queues /\ D + MailIn(c) <= C
        BY <1>1, <2>1, <2>3, SentCount DEF C, D
  <2>5. mailbox' = c \/ mailbox' = mailbox
        BY <2>1 DEF Remember
  <2>6. faults' = faults \/ (faults < MaxFaults /\ faults' = faults + 1)
        BY <2>1 DEF Fault, NoFault
  <2>7. faults' \in 0 .. MaxFaults /\ awakens' <= faults'
        BY <1>1, <2>2, <2>6, Bounds
  <2> HIDE DEF c
  <2>8. y \in Nat /\ y = D + MailIn(mailbox') + A /\ D \in Nat /\ MailIn(mailbox') \in {0, 1}
        BY <1>1, <1>3, <2>2 DEF A
  <2>9. y <= x
    <3>1. MailIn(c) \in {0, 1}
          BY DEF MailIn
    <3>2. CASE mailbox' = c
          BY <1>2, <2>4, <2>8, <3>1, <3>2
    <3>3. CASE mailbox' = mailbox
          BY <1>2, <2>4, <2>8, <3>1, <3>3
    <3> QED BY <2>5, <3>2, <3>3
  <2>10. Flight(believed, y, orders, awakens)
    <3>1. y - orders - awakens <= x - orders - awakens
          BY <1>1, <1>2, <2>8, <2>9
    <3> QED BY <1>1, <1>2, <2>8, <3>1, FlightShrinks
  <2>11. PowerTypeOK'
        BY <1>1, <2>2, <2>3, <2>4, <2>5, <2>7 DEF PowerTypeOK, Queues
  <2> QED BY <1>1, <1>4, <2>2, <2>7, <2>10, <2>11 DEF PowerInv
<1>7. CASE RefuseCommands
  <2>1. /\ queue' = Refused(InUse) /\ faults < MaxFaults /\ faults' = faults + 1
        /\ believed' = believed /\ mailbox' = mailbox /\ power' = power /\ mode' = mode
        /\ total' = total /\ uplink' = uplink /\ need' = need /\ orders' = orders
        /\ awakens' = awakens
        BY <1>7 DEF RefuseCommands, Fault
  <2>2. queue' \in Queues /\ CommandsIn(queue') \in SUBSET CommandsIn(queue)
        BY <1>1, <2>1, RefusedCount
  <2>3. D <= C
        BY <2>2, CommandsFinite, FS_Subset DEF C, D
  <2>4. faults' \in 0 .. MaxFaults /\ awakens' <= faults'
        BY <1>1, <2>1, Bounds
  <2>5. y \in Nat /\ y = D + MailIn(mailbox) + A /\ D \in Nat
        BY <1>1, <1>3, <2>1 DEF A
  <2>6. y - orders - awakens <= x - orders - awakens
    <3>1. y <= x
          BY <1>2, <2>3, <2>5
    <3>2. x \in Int /\ y \in Int /\ orders \in Int /\ awakens \in Int
          BY <1>1, <1>2, <2>5
    <3> QED BY <3>1, <3>2
  <2>7. Flight(believed, y, orders, awakens)
        BY <1>1, <1>2, <2>5, <2>6, FlightShrinks
  <2>8. PowerTypeOK'
        BY <1>1, <2>1, <2>2, <2>4 DEF PowerTypeOK, Queues
  <2> QED BY <1>1, <1>4, <2>1, <2>4, <2>7, <2>8 DEF PowerInv
<1>8. ASSUME NEW c \in {d \in Commands : ~d.own}, OperatorOrders(c) PROVE PowerInv'
  <2>1. /\ orders < MaxOrders /\ orders' = orders + 1
        /\ believed' = IF c.type = "power" THEN ModeSet(believed, c.mode) ELSE believed
        /\ queue' = IF Free = {} THEN queue ELSE Queued(c)
        /\ mailbox' = mailbox /\ power' = power /\ mode' = mode /\ total' = total
        /\ uplink' = uplink /\ need' = need /\ faults' = faults /\ awakens' = awakens
        BY <1>8 DEF OperatorOrders
  <2>2. c \in Commands /\ c.mode \in Modes
        BY CommandFields
  <2>3. queue' \in Queues /\ D <= C + 1
    <3>1. MailIn(c) \in {0, 1} /\ C \in Nat
          BY <1>2 DEF MailIn
    <3>2. CASE Free = {}
      <4>1. queue' = queue
            BY <2>1, <3>2
      <4>2. D = C
            BY <4>1 DEF C, D
      <4> QED BY <1>1, <3>1, <4>1, <4>2
    <3>3. CASE Free # {}
      <4>1. queue' = Queued(c)
            BY <2>1, <3>3
      <4>2. queue' \in Queues /\ D <= C + MailIn(c)
            BY <1>1, <2>2, <3>3, <4>1, QueuedCount DEF C, D
      <4>3. D \in Nat
            BY CommandsFinite DEF D
      <4> QED BY <3>1, <4>2, <4>3
    <3> QED BY <3>2, <3>3
  <2>4. /\ believed' \in Node /\ believed'.pending = believed.pending
        /\ believed'.waiting = believed.waiting
        BY <1>1, <2>1, <2>2, ModeSetType
  <2>5. y \in Nat /\ y = D + MailIn(mailbox) + A /\ D \in Nat
        BY <1>1, <1>3, <2>1 DEF A
  <2>6. orders' \in 0 .. MaxOrders /\ orders' \in Int
        BY <1>1, <2>1, Bounds
  <2>7. y - orders' - awakens <= x - orders - awakens
    <3>1. y <= x + 1
          BY <1>2, <2>3, <2>5
    <3>2. /\ x \in Int /\ y \in Int /\ orders \in Int /\ awakens \in Int
          /\ orders' = orders + 1
          BY <1>1, <1>2, <2>1, <2>5
    <3> QED BY <3>1, <3>2
  <2>8. Flight(believed', y, orders', awakens)
    <3>1. /\ believed'.pending = NoPower => believed.pending = NoPower
          /\ believed'.waiting > 0 => believed.waiting > 0
          BY <2>4
    <3>2. x \in Int /\ y \in Int /\ orders \in Int /\ awakens \in Int
          BY <1>1, <1>2, <2>5
    <3> QED BY <1>2, <2>6, <2>7, <3>1, <3>2, FlightShrinks
  <2>9. PowerTypeOK'
        BY <1>1, <2>1, <2>3, <2>4, <2>6 DEF PowerTypeOK, Queues
  <2> QED BY <1>1, <1>4, <2>1, <2>8, <2>9 DEF PowerInv
<1> QED BY <1>5, <1>6, <1>7, <1>8 DEF BaseActs

\* The steps of the node.
LEMMA NodeSteps ==
  ASSUME PowerInv, NodeActs
  PROVE  PowerInv'
<1>1. /\ believed \in Node /\ queue \in Queues /\ mailbox \in Commands \cup {Empty}
      /\ power \in Powers /\ mode \in Modes /\ total \in 0 .. MaxTotal
      /\ uplink \in Seq(Frames) /\ Len(uplink) <= UplinkDepth /\ need \in Powers
      /\ orders \in 0 .. MaxOrders /\ faults \in 0 .. MaxFaults /\ awakens \in 0 .. MaxFaults
      /\ orders \in Nat /\ faults \in Nat /\ awakens \in Nat /\ awakens <= faults
      BY PowerTypes
<1> DEFINE x == InFlight(queue, mailbox, uplink)
           A == Cardinality(AcksIn(uplink))
           C == Cardinality(CommandsIn(queue))
<1>2. /\ Flight(believed, x, orders, awakens)
      /\ x \in Nat /\ A \in Nat /\ C \in Nat /\ MailIn(mailbox) \in {0, 1}
      /\ x = C + MailIn(mailbox) + A
      BY <1>1, InFlightType DEF PowerInv, InFlight
<1> DEFINE y == InFlight(queue', mailbox', uplink')
           D == Cardinality(CommandsIn(queue'))
           B == Cardinality(AcksIn(uplink'))
<1>3. uplink' \in Seq(Frames) =>
        /\ y \in Nat /\ D \in Nat /\ MailIn(mailbox') \in {0, 1} /\ B \in Nat
        /\ y = D + MailIn(mailbox') + B
      BY InFlightType DEF InFlight
<1>4. InFlight(queue, mailbox, uplink)' = y
      BY DEF InFlight, CommandsIn, MailIn, AcksIn
<1> HIDE DEF x, A, C, y, D, B
<1>5. /\ x \in Int /\ orders \in Int /\ awakens \in Int
      BY <1>1, <1>2
<1>6. \A a, b \in Int : b <= a => b - orders - awakens <= a - orders - awakens
      BY <1>5
<1>7. CASE TakeCommand
  <2>1. /\ mailbox # Empty /\ mailbox' = Empty
        /\ uplink' = Appended(CmdAck(mailbox.type))
        /\ believed' = believed /\ queue' = queue /\ total' = total /\ need' = need
        /\ orders' = orders /\ awakens' = awakens
        BY <1>7 DEF TakeCommand
  <2>2. /\ mailbox \in Commands /\ mailbox.type \in {"power", "calibrate"}
        /\ mailbox.mode \in Modes /\ mailbox.dbm \in Int
        BY <1>1, <2>1, CommandFields
  <2>3. /\ mode' \in Modes /\ power' \in Powers
        /\ faults' = faults \/ (faults < MaxFaults /\ faults' = faults + 1)
    <3>1. CASE mailbox.type = "power"
      <4>1. mode' = mailbox.mode /\ \/ power' = Clamp(mailbox.dbm) /\ NoFault
                                    \/ UNCHANGED power /\ Fault("driver")
            BY <1>7, <3>1 DEF TakeCommand
      <4> QED BY <1>1, <2>2, <4>1, ClampType DEF NoFault, Fault
    <3>2. CASE mailbox.type # "power"
          BY <1>1, <1>7, <3>2 DEF TakeCommand
    <3> QED BY <3>1, <3>2
  <2>4. faults' \in 0 .. MaxFaults /\ awakens' <= faults'
        BY <1>1, <2>1, <2>3, Bounds
  <2> DEFINE f == CmdAck(mailbox.type)
             k == IF f.type = "ack" /\ f.of = "power" THEN 1 ELSE 0
  <2>5. f \in Frames /\ k = MailIn(mailbox)
        BY <2>2, FrameTypes DEF MailIn
  <2>6. uplink' \in Seq(Frames) /\ Len(uplink') <= UplinkDepth /\ B <= A + k
        BY <1>1, <2>1, <2>5, AppendedCount DEF A, B
  <2> HIDE DEF k, f
  <2>7. D = C /\ MailIn(mailbox') = 0
    <3>1. MailIn(Empty) = 0
          BY CommandFields DEF MailIn
    <3> QED BY <2>1, <3>1 DEF C, D
  <2>8. y \in Nat /\ y <= x
    <3>1. y \in Nat /\ B \in Nat /\ y = D + MailIn(mailbox') + B
          BY <1>3, <2>6
    <3> QED BY <1>2, <2>5, <2>6, <2>7, <3>1
  <2>9. y - orders - awakens <= x - orders - awakens
        BY <1>5, <1>6, <2>8
  <2>10. Flight(believed, y, orders, awakens)
        BY <1>2, <1>5, <2>8, <2>9, FlightShrinks
  <2>11. PowerTypeOK'
        BY <1>1, <2>1, <2>3, <2>4, <2>6 DEF PowerTypeOK, Queues
  <2> QED BY <1>4, <2>1, <2>4, <2>6, <2>10, <2>11 DEF PowerInv
<1>8. CASE ReportStatus
  <2>1. /\ uplink' = Appended(Status(power, mode, total))
        /\ believed' = believed /\ queue' = queue /\ mailbox' = mailbox /\ power' = power
        /\ mode' = mode /\ total' = total /\ need' = need /\ orders' = orders
        /\ faults' = faults /\ awakens' = awakens
        BY <1>8 DEF ReportStatus
  <2> DEFINE f == Status(power, mode, total)
             k == IF f.type = "ack" /\ f.of = "power" THEN 1 ELSE 0
  <2>2. f \in Frames /\ k = 0
        BY <1>1, FrameTypes
  <2>3. uplink' \in Seq(Frames) /\ Len(uplink') <= UplinkDepth /\ B <= A + k
        BY <1>1, <2>1, <2>2, AppendedCount DEF A, B
  <2> HIDE DEF k, f
  <2>4. D = C
        BY <2>1 DEF C, D
  <2>5. y \in Nat /\ y <= x
    <3>1. y \in Nat /\ B \in Nat /\ y = D + MailIn(mailbox) + B
          BY <1>3, <2>1, <2>3
    <3> QED BY <1>2, <2>2, <2>3, <2>4, <3>1
  <2>6. y - orders - awakens <= x - orders - awakens
        BY <1>5, <1>6, <2>5
  <2>7. Flight(believed, y, orders, awakens)
        BY <1>2, <1>5, <2>5, <2>6, FlightShrinks
  <2>8. PowerTypeOK'
        BY <1>1, <2>1, <2>3 DEF PowerTypeOK, Queues
  <2> QED BY <1>1, <1>4, <2>1, <2>3, <2>7, <2>8 DEF PowerInv
<1>9. CASE Retransmit
  <2>1. /\ total < MaxTotal /\ total' = total + 1
        /\ believed' = believed /\ queue' = queue /\ mailbox' = mailbox /\ power' = power
        /\ mode' = mode /\ uplink' = uplink /\ need' = need /\ orders' = orders
        /\ faults' = faults /\ awakens' = awakens
        BY <1>9 DEF Retransmit
  <2>2. total' \in 0 .. MaxTotal
        BY <1>1, <2>1, Bounds
  <2>3. y = x
        BY <2>1 DEF x, y
  <2>4. PowerTypeOK'
        BY <1>1, <2>1, <2>2 DEF PowerTypeOK, Queues
  <2> QED BY <1>1, <1>2, <1>4, <2>1, <2>3, <2>4 DEF PowerInv
<1>10. CASE SendFrame
  <2>1. /\ uplink # <<>> /\ uplink' = Tail(uplink)
        /\ mailbox' = mailbox /\ power' = power /\ mode' = mode /\ total' = total
        /\ need' = need /\ orders' = orders /\ awakens' = awakens
        BY <1>10 DEF SendFrame
  <2> DEFINE f == Head(uplink)
             k == IF f.type = "ack" /\ f.of = "power" THEN 1 ELSE 0
  <2>2. /\ f \in Frames /\ uplink' \in Seq(Frames) /\ Len(uplink') = Len(uplink) - 1
        /\ B + k <= A
        BY <1>1, <2>1, TailCount DEF A, B
  <2>3. Len(uplink') <= UplinkDepth
        BY <1>1, <2>2, LenProperties, Bounds
  <2>4. /\ f.type \in {"status", "ack"} /\ f.dbm \in Powers /\ f.mode \in Modes
        /\ f.total \in 0 .. MaxTotal
        BY <2>2 DEF Frames
  <2>5. k \in {0, 1} /\ (f.type = "ack" /\ f.of = "power" => k = 1)
        OBVIOUS
  <2>6. /\ \/ power >= need /\ faults' = faults
              /\ IF f.type = "status" THEN StatusHeard(f) ELSE AckHeard(f)
           \/ /\ faults' = faults \/ (faults < MaxFaults /\ faults' = faults + 1)
              /\ believed' = believed /\ queue' = queue
    <3>1. CASE power >= need /\ NoFault
               /\ IF f.type = "status" THEN StatusHeard(f) ELSE AckHeard(f)
          BY <3>1 DEF NoFault
    <3>2. CASE /\ IF power >= need THEN Fault("loss") ELSE NoFault
               /\ UNCHANGED <<believed, queue>>
          BY <3>2 DEF NoFault, Fault
    <3> QED BY <1>10, <3>1, <3>2 DEF SendFrame
  <2> HIDE DEF k, f
  <2>7. /\ y \in Nat /\ B \in Nat /\ D \in Nat /\ y = D + MailIn(mailbox) + B
        BY <1>3, <2>1, <2>2
  <2>8. faults' \in 0 .. MaxFaults /\ awakens' <= faults'
        BY <1>1, <2>1, <2>6, Bounds
  <2>9. /\ believed' \in Node /\ queue' \in Queues
        /\ Flight(believed', y, orders, awakens)
    <3>1. CASE f.type = "status" /\ StatusHeard(f)
      <4> DEFINE p == PacketReceived(believed)
                 n == StatusReceived(p, f.dbm, f.mode, f.total)
      <4>1. p \in Node /\ p.pending = believed.pending /\ p.waiting = believed.waiting
            BY <1>1, PacketReceivedType
      <4> HIDE DEF p
      <4>2. n \in Node /\ n.pending = believed.pending /\ n.waiting = believed.waiting
            BY <2>4, <4>1, StatusReceivedType
      <4>3. IF MayDecide(n)
            THEN \E margin \in Margins :
                   Issued(WindowClosed(n, f.total), Asked(n, Target(n, margin, f.total)))
            ELSE Issued(n, NoPower)
            BY <3>1 DEF StatusHeard, p
      <4> HIDE DEF n
      <4>4. \E m \in Node, dbm \in Powers \cup {NoPower} :
              /\ Issued(m, dbm) /\ (dbm # NoPower => m.pending = NoPower)
              /\ m.pending = believed.pending /\ m.waiting = believed.waiting
        <5>1. CASE MayDecide(n)
          <6>1. PICK margin \in Margins :
                  Issued(WindowClosed(n, f.total), Asked(n, Target(n, margin, f.total)))
                BY <4>3, <5>1
          <6>2. /\ WindowClosed(n, f.total) \in Node
                /\ WindowClosed(n, f.total).pending = n.pending
                /\ WindowClosed(n, f.total).waiting = n.waiting
                BY <2>4, <4>2, WindowClosedType
          <6>3. Asked(n, Target(n, margin, f.total)) \in Powers \cup {NoPower}
                BY <4>2, TargetType
          <6>4. n.pending = NoPower
                BY <5>1 DEF MayDecide
          <6> QED BY <4>2, <6>1, <6>2, <6>3, <6>4
        <5>2. CASE ~MayDecide(n)
              BY <4>2, <4>3, <5>2
        <5> QED BY <5>1, <5>2
      <4>5. PICK m \in Node, dbm \in Powers \cup {NoPower} :
              /\ Issued(m, dbm) /\ (dbm # NoPower => m.pending = NoPower)
              /\ m.pending = believed.pending /\ m.waiting = believed.waiting
            BY <4>4
      <4>6. /\ believed' \in Node /\ queue' \in Queues
            /\ \/ /\ queue' = queue /\ believed'.pending = m.pending
                  /\ believed'.waiting = m.waiting \/ believed'.waiting = 0
               \/ /\ m.pending = NoPower
                  /\ believed'.pending # NoPower /\ believed'.waiting = 0
                  /\ D <= C + 1
            BY <1>1, <4>5, IssuedIs DEF C, D
      <4>7. CASE /\ queue' = queue /\ believed'.pending = m.pending
                 /\ believed'.waiting = m.waiting \/ believed'.waiting = 0
        <5>1. D = C
              BY <4>7 DEF C, D
        <5>2. y <= x
              BY <1>2, <2>2, <2>5, <2>7, <5>1
        <5>3. y - orders - awakens <= x - orders - awakens
              BY <1>5, <1>6, <2>7, <5>2
        <5>4. believed'.waiting > 0 => believed.waiting > 0
              BY <4>5, <4>7
        <5>5. Flight(believed', y, orders, awakens)
              BY <1>2, <1>5, <2>7, <4>5, <4>7, <5>3, <5>4, FlightShrinks
        <5> QED BY <4>6, <5>5
      <4>8. CASE /\ m.pending = NoPower
                 /\ believed'.pending # NoPower /\ believed'.waiting = 0
                 /\ D <= C + 1
        <5>1. y <= x + 1
              BY <1>2, <2>2, <2>5, <2>7, <4>8
        <5>2. believed.pending = NoPower
              BY <4>5, <4>8
        <5>3. believed'.pending # NoPower /\ believed'.waiting = 0
              BY <4>8
        <5>4. y \in Int
              BY <2>7
        <5>5. Flight(believed', y, orders, awakens)
              BY <1>2, <1>5, <5>1, <5>2, <5>3, <5>4, FlightStarts
        <5> QED BY <4>6, <5>5
      <4> QED BY <4>6, <4>7, <4>8
    <3>2. CASE f.type # "status" /\ AckHeard(f)
      <4> DEFINE p == PacketReceived(believed)
      <4>1. p \in Node /\ p.pending = believed.pending /\ p.waiting = believed.waiting
            BY <1>1, PacketReceivedType
      <4>2. /\ queue' = queue
            /\ believed' = IF f.of = "power" THEN CmdAckReceived(p) ELSE p
            BY <3>2 DEF AckHeard
      <4> HIDE DEF p
      <4>3. D = C
            BY <4>2 DEF C, D
      <4>4. y <= x - k
            BY <1>2, <2>2, <2>5, <2>7, <4>3
      <4>5. y <= x
            BY <1>5, <2>5, <2>7, <4>4
      <4>6. y - orders - awakens <= x - orders - awakens
            BY <1>5, <1>6, <2>7, <4>5
      <4>7. CASE f.of = "power" /\ believed.pending # NoPower
        <5>1. k = 1
              BY <2>4, <2>5, <3>2, <4>7
        <5>2. /\ believed' \in Node
              /\ believed'.pending = NoPower /\ believed'.waiting = 0
              BY <4>1, <4>2, <4>7, CmdAckReceivedType
        <5>3. y <= x - 1 /\ y \in Int
              BY <2>7, <4>4, <5>1
        <5>4. Flight(believed', y, orders, awakens)
              BY <1>2, <1>5, <5>2, <5>3, FlightEnds
        <5> QED BY <1>1, <4>2, <5>2, <5>4
      <4>8. CASE ~(f.of = "power" /\ believed.pending # NoPower)
        <5>1. believed' = p
              BY <4>1, <4>2, <4>8, CmdAckReceivedType
        <5>2. p.waiting > 0 => believed.waiting > 0
              BY <4>1
        <5>3. Flight(p, y, orders, awakens)
              BY <1>2, <1>5, <2>7, <4>1, <4>6, <5>2, FlightShrinks
        <5> QED BY <1>1, <4>1, <4>2, <5>1, <5>3
      <4> QED BY <4>7, <4>8
    <3>3. CASE believed' = believed /\ queue' = queue
      <4>1. D = C
            BY <3>3 DEF C, D
      <4>2. y <= x
            BY <1>2, <2>2, <2>5, <2>7, <4>1
      <4>3. y - orders - awakens <= x - orders - awakens
            BY <1>5, <1>6, <2>7, <4>2
      <4>4. Flight(believed, y, orders, awakens)
            BY <1>2, <1>5, <2>7, <4>3, FlightShrinks
      <4> QED BY <1>1, <3>3, <4>4
    <3> QED BY <2>6, <3>1, <3>2, <3>3
  <2>10. PowerTypeOK'
        BY <1>1, <2>1, <2>3, <2>8, <2>9 DEF PowerTypeOK, Queues
  <2> QED BY <1>4, <2>1, <2>2, <2>8, <2>9, <2>10 DEF PowerInv
<1>11. CASE SyncGoesStale
  <2>1. /\ faults < MaxFaults /\ faults' = faults + 1 /\ power' = MaxDbm /\ mode' = "dynamic"
        /\ \/ believed' = AwakenReceived /\ awakens' = awakens + 1
           \/ believed' = believed /\ awakens' = awakens
        /\ queue' = queue /\ mailbox' = mailbox /\ total' = total /\ uplink' = uplink
        /\ need' = need /\ orders' = orders
        BY <1>11 DEF SyncGoesStale, Fault, RevertToBaseline
  <2>2. /\ faults' \in 0 .. MaxFaults /\ awakens' \in 0 .. MaxFaults /\ awakens' <= faults'
        /\ power' \in Powers /\ mode' \in Modes
    <3>1. power' \in Powers /\ mode' \in Modes
          BY <2>1, Bounds, ModeTypes
    <3>2. awakens' = awakens + 1 \/ awakens' = awakens
          BY <2>1
    <3>3. faults \in Nat /\ awakens \in Nat /\ awakens <= faults /\ MaxFaults \in Nat
          BY <1>1, Bounds
    <3>4. faults < MaxFaults /\ faults' = faults + 1
          BY <2>1
    <3> QED BY <3>1, <3>2, <3>3, <3>4
  <2>3. y = x
        BY <2>1 DEF x, y
  <2>4. believed' \in Node /\ Flight(believed', y, orders, awakens')
    <3>1. CASE believed' = AwakenReceived /\ awakens' = awakens + 1
      <4>1. x <= x /\ awakens' \in Int /\ awakens' = awakens + 1
            BY <1>5, <3>1
      <4>2. believed' \in Node /\ believed'.waiting = 0
            BY <3>1, AwakenReceivedType
      <4>3. Flight(believed', x, orders, awakens')
            BY <1>2, <1>5, <4>1, <4>2, FlightEnds
      <4> QED BY <2>3, <4>2, <4>3
    <3>2. CASE believed' = believed /\ awakens' = awakens
          BY <1>1, <1>2, <2>3, <3>2
    <3> QED BY <2>1, <3>1, <3>2
  <2>5. PowerTypeOK'
        BY <1>1, <2>1, <2>2, <2>4 DEF PowerTypeOK, Queues
  <2> QED BY <1>1, <1>4, <2>1, <2>2, <2>4, <2>5 DEF PowerInv
<1>12. CASE Reboot
  <2>1. /\ faults < MaxFaults /\ faults' = faults + 1 /\ power' = MaxDbm /\ mode' = "dynamic"
        /\ total' = 0 /\ mailbox' = Empty /\ uplink' = <<>>
        /\ believed' = AwakenReceived /\ awakens' = awakens + 1
        /\ queue' = queue /\ need' = need /\ orders' = orders
        BY <1>12 DEF Reboot, Fault
  <2>2. /\ faults' \in 0 .. MaxFaults /\ awakens' \in 0 .. MaxFaults /\ awakens' <= faults'
    <3>1. faults \in Nat /\ awakens \in Nat /\ awakens <= faults /\ MaxFaults \in Nat
          BY <1>1, Bounds
    <3>2. faults < MaxFaults /\ faults' = faults + 1 /\ awakens' = awakens + 1
          BY <2>1
    <3> QED BY <3>1, <3>2
  <2>3. power' \in Powers /\ mode' \in Modes /\ total' \in 0 .. MaxTotal
        BY <2>1, Bounds, ModeTypes
  <2>4. uplink' \in Seq(Frames) /\ Len(uplink') = 0 /\ Len(uplink') <= UplinkDepth
        BY <2>1, EmptySeq, Bounds
  <2>5. y \in Nat /\ y <= x
    <3>1. y \in Nat /\ D \in Nat /\ B \in Nat /\ y = D + MailIn(mailbox') + B
          BY <1>3, <2>4
    <3>2. D = C
          BY <2>1 DEF C, D
    <3>3. B = 0
      <4>1. AcksIn(uplink') = {}
            BY <2>4 DEF AcksIn
      <4> QED BY <4>1, FS_EmptySet DEF B
    <3>4. MailIn(mailbox') = 0
          BY <2>1, CommandFields DEF MailIn
    <3> QED BY <1>2, <3>1, <3>2, <3>3, <3>4
  <2>6. believed' \in Node /\ believed'.waiting = 0
        BY <2>1, AwakenReceivedType
  <2>7. Flight(believed', y, orders, awakens')
    <3>1. y \in Int /\ awakens' \in Int /\ awakens' = awakens + 1 /\ y <= x
          BY <1>5, <2>1, <2>5
    <3> QED BY <1>2, <1>5, <2>6, <3>1, FlightEnds
  <2>8. PowerTypeOK'
        BY <1>1, <2>1, <2>2, <2>3, <2>4, <2>6 DEF PowerTypeOK, Queues
  <2> QED BY <1>1, <1>4, <2>1, <2>2, <2>4, <2>7, <2>8 DEF PowerInv
<1> QED BY <1>7, <1>8, <1>9, <1>10, <1>11, <1>12 DEF NodeActs

LEMMA PowerInvStep == PowerInv /\ [PowerNext]_powerVars => PowerInv'
<1> SUFFICES ASSUME PowerInv, [PowerNext]_powerVars PROVE PowerInv'
    OBVIOUS
<1>1. /\ believed \in Node /\ queue \in Queues /\ mailbox \in Commands \cup {Empty}
      /\ power \in Powers /\ mode \in Modes /\ total \in 0 .. MaxTotal
      /\ uplink \in Seq(Frames) /\ Len(uplink) <= UplinkDepth /\ need \in Powers
      /\ orders \in 0 .. MaxOrders /\ faults \in 0 .. MaxFaults /\ awakens \in 0 .. MaxFaults
      /\ orders \in Nat /\ faults \in Nat /\ awakens \in Nat /\ awakens <= faults
      BY PowerTypes
<1>2. InFlight(queue, mailbox, uplink)' = InFlight(queue', mailbox', uplink')
      BY DEF InFlight, CommandsIn, MailIn, AcksIn
<1>3. CASE LinkFades
  <2>1. /\ need' \in Powers /\ faults < MaxFaults /\ faults' = faults + 1
        /\ believed' = believed /\ queue' = queue /\ mailbox' = mailbox /\ power' = power
        /\ mode' = mode /\ total' = total /\ uplink' = uplink /\ orders' = orders
        /\ awakens' = awakens
        BY <1>3 DEF LinkFades, Fault
  <2>2. faults' \in 0 .. MaxFaults /\ awakens' <= faults'
        BY <1>1, <2>1, Bounds
  <2>3. PowerTypeOK'
        BY <1>1, <2>1, <2>2 DEF PowerTypeOK, Queues
  <2> QED BY <1>1, <1>2, <2>1, <2>2, <2>3 DEF PowerInv
<1>4. CASE Tick
  <2>1. /\ InUse = {} /\ mailbox = Empty /\ uplink = <<>> /\ believed' = Aged(believed)
        /\ queue' = queue /\ mailbox' = mailbox /\ power' = power /\ mode' = mode
        /\ total' = total /\ uplink' = uplink /\ need' = need /\ orders' = orders
        /\ faults' = faults /\ awakens' = awakens
        BY <1>4 DEF Tick
  <2>2. believed' \in Node
        BY <1>1, <2>1, AgedType
  <2>3. InFlight(queue, mailbox, uplink) = 0
    <3>1. CommandsIn(queue) = {}
          BY <2>1, CommandFields DEF CommandsIn, InUse
    <3>2. AcksIn(uplink) = {}
      <4>1. Len(uplink) = 0
            BY <2>1, EmptySeq
      <4> QED BY <4>1 DEF AcksIn
    <3>3. MailIn(mailbox) = 0
          BY <2>1, CommandFields DEF MailIn
    <3> QED BY <3>1, <3>2, <3>3, FS_EmptySet DEF InFlight
  <2>4. Flight(believed', 0, orders, awakens)
    <3> DEFINE j == IF believed'.pending = NoPower THEN 0 ELSE 1
    <3>1. j \in {0, 1}
          OBVIOUS
    <3> HIDE DEF j
    <3>2. 0 <= j + orders + awakens /\ 0 <= orders + awakens
          BY <1>1, <3>1
    <3> QED BY <3>2 DEF Flight, j
  <2>5. PowerTypeOK'
        BY <1>1, <2>1, <2>2 DEF PowerTypeOK, Queues
  <2> QED BY <1>1, <1>2, <2>1, <2>3, <2>4, <2>5 DEF PowerInv
<1>5. CASE UNCHANGED powerVars
      BY <1>1, <1>2, <1>5 DEF powerVars, PowerInv, PowerTypeOK, Queues
<1> QED BY <1>3, <1>4, <1>5, BaseSteps, NodeSteps DEF PowerNext

(***************************************************************************)
(* What the base knows of a node, its command queue and the node's mailbox *)
(* stay what they are meant to be: powers within their range, attempts and *)
(* waits below their limits.                                               *)
(***************************************************************************)
THEOREM PowerIsTyped == PowerSpec => []PowerTypeOK
<1>1. PowerInv /\ [PowerNext]_powerVars => PowerInv'
      BY PowerInvStep
<1>2. PowerInv => PowerTypeOK
      BY DEF PowerInv
<1> QED BY <1>1, <1>2, PowerInvInit, PTL DEF PowerSpec

(***************************************************************************)
(* Of the commands the loop itself decides on, never more than one is on   *)
(* its way to the node, but for one more for every AWAKEN or operator's    *)
(* command: an unanswered one is forgotten only when it is certain that it *)
(* has arrived or was lost.                                                *)
(***************************************************************************)
THEOREM OneChangeAtATime == PowerSpec => []OneChangeInFlight
<1>1. PowerInv => OneChangeInFlight
  <2> SUFFICES ASSUME PowerInv PROVE OneChangeInFlight
      OBVIOUS
  <2>1. /\ queue \in Queues /\ mailbox \in Commands \cup {Empty} /\ uplink \in Seq(Frames)
        /\ orders \in Nat /\ awakens \in Nat
        BY PowerTypes
  <2> DEFINE own == {i \in InUse : queue[i].command.own}
             k == IF mailbox.own THEN 1 ELSE 0
             C == Cardinality(CommandsIn(queue))
             A == Cardinality(AcksIn(uplink))
             x == InFlight(queue, mailbox, uplink)
             j == IF believed.pending = NoPower THEN 0 ELSE 1
  <2>2. own \in SUBSET CommandsIn(queue)
    <3> SUFFICES ASSUME NEW i \in InUse, queue[i].command.own PROVE i \in CommandsIn(queue)
        OBVIOUS
    <3>1. i \in 1 .. QueueSize /\ queue[i].command # Empty
          BY DEF InUse
    <3>2. queue[i].command \in Commands
          BY <2>1, <3>1 DEF Queues
    <3> QED BY <3>1, <3>2, CommandFields DEF CommandsIn
  <2>3. Cardinality(own) <= C /\ Cardinality(own) \in Nat
        BY <2>2, CommandsFinite, FS_Subset, FS_CardinalityType
  <2>4. k \in {0, 1} /\ k <= MailIn(mailbox)
    <3>1. mailbox.own => mailbox.type = "power"
          BY <2>1, CommandFields
    <3>2. CASE mailbox.own
      <4>1. k = 1 /\ MailIn(mailbox) = 1
            BY <3>1, <3>2 DEF MailIn
      <4> QED BY <4>1
    <3>3. CASE ~mailbox.own
      <4>1. k = 0 /\ MailIn(mailbox) \in {0, 1}
            BY <3>3 DEF MailIn
      <4> QED BY <4>1
    <3> QED BY <3>2, <3>3
  <2>5. C \in Nat /\ A \in Nat /\ MailIn(mailbox) \in {0, 1} /\ x = C + MailIn(mailbox) + A
        BY <2>1, InFlightType DEF InFlight
  <2>6. x <= j + orders + awakens /\ j \in {0, 1}
        BY DEF PowerInv, Flight
  <2> HIDE DEF own, k, C, A, x, j
  <2>7. Cardinality(own) + k <= 1 + awakens + orders
        BY <2>1, <2>3, <2>4, <2>5, <2>6
  <2> QED BY <2>7 DEF OneChangeInFlight, own, k
<1>2. PowerInv /\ [PowerNext]_powerVars => PowerInv'
      BY PowerInvStep
<1> QED BY <1>1, <1>2, PowerInvInit, PTL DEF PowerSpec

=============================================================================
