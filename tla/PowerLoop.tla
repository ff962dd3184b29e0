------------------------------ MODULE PowerLoop ------------------------------
(***************************************************************************)
(* Transmit power as the base decides it and one node applies it: the      *)
(* controller of TxPower, the base's command queue, the node's one-place   *)
(* mailbox, and the CMD_ACKs and STATUS reports that come back.            *)
(*                                                                         *)
(* The node is heard while its power is at least what the link needs; the  *)
(* base is heard always.  An operator sends commands through the same      *)
(* queue.  A fault loses a frame or a command, makes a radio refuse, makes *)
(* the node's sync stale, reboots it, or raises what the link needs.  A    *)
(* tick is long: everything queued has been sent by its end.               *)
(***************************************************************************)
EXTENDS TxPower, Sequences, FiniteSets, FiniteSetsExt


CONSTANTS QueueSize,     \* kMaxPendingCommands
          MaxAttempts,   \* kMaxPendingCommandSendAttempts
          UplinkDepth,   \* bound: frames in the node's queue that matter here
          Asks,          \* the powers an operator asks for, within the bounds or not
          MaxOrders,     \* bound: how many commands the operator sends
          Faults,        \* the kinds of fault that happen
          MaxFaults      \* bound: how many happen

FaultKinds == {"loss", "refusal", "driver", "stale", "reboot", "fade"}

ASSUME PowerLoopAssumption ==
  /\ QueueSize \in Nat \ {0} /\ MaxAttempts \in Nat \ {0} /\ UplinkDepth \in Nat \ {0}
  /\ Asks \subseteq Int
  /\ MaxOrders \in Nat /\ MaxFaults \in Nat
  /\ Faults \subseteq FaultKinds

VARIABLES believed,   \* the base's record of the node
          queue,      \* _pendingCommands
          mailbox,    \* the node's _pendingCommand, or Empty
          power,      \* the power the node's radio is set to
          mode,       \* the node's _txPowerMode
          total,      \* the node's retransmission counters
          uplink,     \* frames in the node's transmit queue
          need,       \* the least power at which the base hears the node
          orders,     \* commands the operator has sent
          faults,     \* how many faults there were
          awakens     \* history: how many AWAKENs the base has heard

powerVars == <<believed, queue, mailbox, power, mode, total, uplink, need, orders, faults,
               awakens>>

\* own: the control loop sent it, not the operator.
SetPower(dbm, m, own) == [type |-> "power", dbm |-> dbm, mode |-> m, own |-> own]
Calibrate == [type |-> "calibrate", dbm |-> 0, mode |-> "dynamic", own |-> FALSE]
Empty     == [type |-> "none", dbm |-> 0, mode |-> "dynamic", own |-> FALSE]

Commands == {SetPower(dbm, m, FALSE) : dbm \in Asks, m \in Modes}
            \cup {SetPower(dbm, "dynamic", TRUE) : dbm \in Powers} \cup {Calibrate}

Entry(c) == [command |-> c, attempts |-> 0]
InUse    == {i \in 1 .. QueueSize : queue[i].command # Empty}
Free     == 1 .. QueueSize \ InUse

Status(dbm, m, t) == [type |-> "status", of |-> "none", dbm |-> dbm, mode |-> m, total |-> t]
CmdAck(of)        == [type |-> "ack", of |-> of, dbm |-> MaxDbm, mode |-> "dynamic", total |-> 0]

PowerInit ==
  /\ believed = AwakenReceived
  /\ queue = [i \in 1 .. QueueSize |-> Entry(Empty)]
  /\ mailbox = Empty
  /\ power = MaxDbm /\ mode = "dynamic" /\ total = 0 /\ uplink = <<>>
  /\ need = MinDbm
  /\ orders = 0 /\ faults = 0 /\ awakens = 0

Fault(kind) ==
  kind \in Faults /\ faults < MaxFaults /\ faults' = faults + 1

NoFault     == UNCHANGED faults

-----------------------------------------------------------------------------
\* The base.

\* The first free entry: the queue is served in the order of its entries, not first come.
Queued(c) == [queue EXCEPT ![Min(Free)] = Entry(c)]

\* A decision is queued for the node n, or dropped when the queue is full.
Issued(n, dbm) ==
  IF dbm = NoPower THEN believed' = n /\ UNCHANGED queue
  ELSE IF Free = {} THEN believed' = CommandFailed(n) /\ UNCHANGED queue
  ELSE /\ believed' = CommandSent(n, dbm)
       /\ queue' = Queued(SetPower(dbm, "dynamic", TRUE))

StatusHeard(s) ==
  LET n == StatusReceived(PacketReceived(believed), s.dbm, s.mode, s.total)
  IN IF MayDecide(n)
     THEN \E margin \in Margins :
            Issued(WindowClosed(n, s.total), Asked(n, Target(n, margin, s.total)))
     ELSE Issued(n, NoPower)

AckHeard(a) ==
  /\ believed' = IF a.of = "power" THEN CmdAckReceived(PacketReceived(believed))
                 ELSE PacketReceived(believed)
  /\ UNCHANGED queue

\* What update() does on the controller's own clock.
BaseUpdates ==
  LET n == Expired(believed)
      probe == ProbeDue(n)
  IN /\ n # believed \/ probe
     /\ Issued(IF probe THEN Probed(n) ELSE n, IF probe THEN MaxDbm ELSE NoPower)
     /\ UNCHANGED <<mailbox, power, mode, total, uplink, need, orders, faults, awakens>>

\* The mode is recorded even if the queue is full.
OperatorOrders(c) ==
  /\ orders < MaxOrders /\ orders' = orders + 1
  /\ believed' = IF c.type = "power" THEN ModeSet(believed, c.mode) ELSE believed
  /\ queue' = IF Free = {} THEN queue ELSE Queued(c)
  /\ UNCHANGED <<mailbox, power, mode, total, uplink, need, faults, awakens>>

\* The radio refuses the entries in R: they are tried again, so many times.
Refused(R) ==
  [i \in 1 .. QueueSize |->
     IF i \notin R THEN queue[i]
     ELSE IF queue[i].attempts + 1 >= MaxAttempts THEN Entry(Empty)
     ELSE [queue[i] EXCEPT !.attempts = @ + 1]]

\* One place: a command that arrives takes it from one not yet taken.
Remember(c) == mailbox' = c

\* One command leaves in a pass.
SendCommand ==
  /\ \E i \in InUse :
       LET R == {j \in InUse : j < i}
       IN /\ queue' = [Refused(R) EXCEPT ![i] = Entry(Empty)]
          /\ \/ Remember(queue[i].command) /\ IF R = {} THEN NoFault ELSE Fault("refusal")
             \/ R = {} /\ Fault("loss") /\ UNCHANGED mailbox
  /\ UNCHANGED <<believed, power, mode, total, uplink, need, orders, awakens>>

RefuseCommands ==
  /\ InUse # {} /\ queue' = Refused(InUse)
  /\ Fault("refusal")
  /\ UNCHANGED <<believed, mailbox, power, mode, total, uplink, need, orders, awakens>>

-----------------------------------------------------------------------------
\* The node.

\* A full queue drops its oldest frame.
Appended(f) == IF Len(uplink) < UplinkDepth THEN Append(uplink, f) ELSE Append(Tail(uplink), f)

\* A power command is applied within the node's own bounds, and acknowledged whatever came of it.
TakeCommand ==
  /\ mailbox # Empty
  /\ mailbox' = Empty
  /\ IF mailbox.type = "power"
     THEN /\ mode' = mailbox.mode
          /\ \/ power' = Clamp(mailbox.dbm) /\ NoFault
             \/ UNCHANGED power /\ Fault("driver")
     ELSE UNCHANGED <<power, mode, faults>>
  /\ uplink' = Appended(CmdAck(mailbox.type))
  /\ UNCHANGED <<believed, queue, total, need, orders, awakens>>

ReportStatus ==
  /\ uplink' = Appended(Status(power, mode, total))
  /\ \A i \in DOMAIN uplink : uplink[i].type # "status"
  /\ UNCHANGED <<believed, queue, mailbox, power, mode, total, need, orders, faults, awakens>>

Retransmit ==
  /\ total < MaxTotal /\ total' = total + 1
  /\ UNCHANGED <<believed, queue, mailbox, power, mode, uplink, need, orders, faults, awakens>>

SendFrame ==
  /\ uplink # <<>> /\ uplink' = Tail(uplink)
  /\ \/ /\ power >= need /\ NoFault
        /\ IF Head(uplink).type = "status" THEN StatusHeard(Head(uplink))
           ELSE AckHeard(Head(uplink))
     \/ /\ IF power >= need THEN Fault("loss") ELSE NoFault
        /\ UNCHANGED <<believed, queue>>
  /\ UNCHANGED <<mailbox, power, mode, total, need, orders, awakens>>

\* The sync was stale for a while: the node is back at the baseline.
RevertToBaseline == power' = MaxDbm /\ mode' = "dynamic"

\* Whether the base hears the AWAKEN or its broadcast comes first.
SyncGoesStale ==
  /\ Fault("stale")
  /\ RevertToBaseline
  /\ \/ believed' = AwakenReceived /\ awakens' = awakens + 1
     \/ UNCHANGED <<believed, awakens>>
  /\ UNCHANGED <<queue, mailbox, total, uplink, need, orders>>

\* A node that has rebooted says nothing before the base has heard its AWAKEN.
Reboot ==
  /\ Fault("reboot")
  /\ power' = MaxDbm /\ mode' = "dynamic" /\ total' = 0
  /\ mailbox' = Empty /\ uplink' = <<>>
  /\ believed' = AwakenReceived /\ awakens' = awakens + 1
  /\ UNCHANGED <<queue, need, orders>>

-----------------------------------------------------------------------------
LinkFades ==
  /\ Fault("fade")
  /\ need' \in Powers /\ need' > need
  /\ UNCHANGED <<believed, queue, mailbox, power, mode, total, uplink, orders, awakens>>

Tick ==
  /\ InUse = {} /\ mailbox = Empty /\ uplink = <<>>
  /\ believed' = Aged(believed)
  /\ UNCHANGED <<queue, mailbox, power, mode, total, uplink, need, orders, faults, awakens>>

BaseActs == BaseUpdates \/ SendCommand \/ RefuseCommands
            \/ \E c \in {d \in Commands : ~d.own} : OperatorOrders(c)
NodeActs == TakeCommand \/ ReportStatus \/ Retransmit \/ SendFrame \/ SyncGoesStale \/ Reboot
PowerNext == BaseActs \/ NodeActs \/ LinkFades \/ Tick

(***************************************************************************)
(* Both loops run, slots come round, and time passes; the node reports its *)
(* status again and again.  How often a frame is lost, MaxFaults bounds.   *)
(***************************************************************************)
PowerFairness ==
  /\ WF_powerVars(BaseUpdates) /\ WF_powerVars(SendCommand)
  /\ WF_powerVars(TakeCommand) /\ SF_powerVars(ReportStatus) /\ WF_powerVars(SendFrame)
  /\ SF_powerVars(Tick)

PowerSpec == PowerInit /\ [][PowerNext]_powerVars /\ PowerFairness

-----------------------------------------------------------------------------
PowerTypeOK ==
  /\ believed \in Node
  /\ queue \in [1 .. QueueSize -> [command : Commands \cup {Empty}, attempts : 0 .. MaxAttempts - 1]]
  /\ mailbox \in Commands \cup {Empty}
  /\ power \in Powers /\ mode \in Modes
  /\ total \in 0 .. MaxTotal
  /\ Len(uplink) <= UplinkDepth
  /\ need \in Powers
  /\ orders \in 0 .. MaxOrders /\ faults \in 0 .. MaxFaults /\ awakens \in 0 .. MaxFaults

Dark == power < need

(***************************************************************************)
(* A node the base believes below the baseline, and may manage, does not   *)
(* stay unheard: the silence probes bring it back.                         *)
(***************************************************************************)
BelievedLowIsProbed ==
  (Dark /\ believed.dbm < MaxDbm /\ believed.mode = "dynamic")
    ~> (~Dark \/ believed.mode = "static")

(***************************************************************************)
(* STATUS settles what the base believes: while the node can be heard, the *)
(* base is right about its power and its mode again and again, whatever    *)
(* commands, acknowledgements and reports were lost before.                *)
(***************************************************************************)
BeliefSettles ==
  <>[]~Dark => []<>(believed.dbm = power /\ believed.mode = mode)

(***************************************************************************)
(* One change in flight at a time: no two commands of the loop's are on    *)
(* their way to the node, but for an AWAKEN or an operator's command: at   *)
(* the one, and at the CMD_ACK of the other, the base stops waiting.       *)
(***************************************************************************)
OneChangeInFlight ==
  Cardinality({i \in InUse : queue[i].command.own}) + (IF mailbox.own THEN 1 ELSE 0)
    <= 1 + awakens + orders

(***************************************************************************)
(* A node that has gone silent at a power the link does not carry is       *)
(* restored by the base, which it still hears.                             *)
(***************************************************************************)
DarkNodeIsRestored == Dark ~> ~Dark

(***************************************************************************)
(* The loop does not un-pin a node.                                        *)
(***************************************************************************)
LoopNeverUnpins == [][(TakeCommand /\ mailbox.own) => mode = "dynamic"]_powerVars

=============================================================================
