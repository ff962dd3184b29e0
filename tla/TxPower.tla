------------------------------- MODULE TxPower -------------------------------
(***************************************************************************)
(* TxPowerController: what the base knows of one node's transmit power,    *)
(* and what it decides.  The class is pure - calls in, a decision out -    *)
(* and so is this module: a handler is an operator on the node's record,   *)
(* a decision is the power it asks for, or NoPower.                        *)
(*                                                                         *)
(* The time since an event is counted in ticks, and no further than the    *)
(* longest wait it is compared with.  The average of the SNR samples is    *)
(* taken as the class of the margin it leaves: under the target, in the    *)
(* dead band above it, or over both.  Of the two totals a STATUS carries   *)
(* only whether they moved matters, so one stands for both.                *)
(***************************************************************************)
EXTENDS Integers

CONSTANTS MinDbm, MaxDbm,      \* kMinTxPowerDbm, kMaxTxPowerDbm, which is the baseline
          Step,                \* kTxPowerStepDbm
          DecisionInterval,    \* kTxPowerMinDecisionIntervalMs, in ticks
          AckTimeout,          \* kCmdAckTimeoutMs
          SilenceTimeout,      \* kTxPowerSilenceTimeoutMs
          MaxProbes,           \* kMaxTxPowerSilenceProbes
          MaxTotal,            \* where the node's retransmission counters saturate
          NoPower              \* no command awaits its CMD_ACK, no power is asked for

ASSUME TxPowerAssumption ==
  /\ MinDbm \in Int /\ MaxDbm \in Int /\ MinDbm <= MaxDbm
  /\ Step \in Nat \ {0}
  /\ DecisionInterval \in Nat \ {0}
  /\ AckTimeout \in Nat \ {0}
  /\ SilenceTimeout \in Nat /\ SilenceTimeout > AckTimeout
  /\ MaxProbes \in Nat
  /\ MaxTotal \in Nat
  /\ NoPower \notin Int

Powers  == MinDbm .. MaxDbm
Modes   == {"static", "dynamic"}
Margins == {"under", "band", "over"}
Unknown == -1                    \* no STATUS has set the baseline of the totals yet

Later(age, limit) == IF age < limit THEN age + 1 ELSE age

Node == [mode    : Modes,
         dbm     : Powers,                        \* currentDbm
         pending : Powers \cup {NoPower},         \* hasPending, pendingDbm
         waiting : 0 .. AckTimeout,               \* since pendingSinceMs
         sampled : BOOLEAN,                       \* snrCount > 0
         total   : Unknown .. MaxTotal,           \* haveLinkStats, last totals
         rested  : 0 .. DecisionInterval,         \* since lastDecisionMs; haveDecided
         heard   : BOOLEAN,
         silent  : 0 .. SilenceTimeout,           \* since lastHeardMs
         probes  : 0 .. MaxProbes]                \* silenceProbes

Untracked == [mode |-> "dynamic", dbm |-> MaxDbm, pending |-> NoPower, waiting |-> 0,
              sampled |-> FALSE, total |-> Unknown, rested |-> DecisionInterval,
              heard |-> FALSE, silent |-> 0, probes |-> 0]

\* Slip: only the ceiling is kept.
ClampAbove(dbm) == IF dbm > MaxDbm THEN MaxDbm ELSE dbm

Clamp(dbm) == IF dbm < MinDbm THEN MinDbm ELSE IF dbm > MaxDbm THEN MaxDbm ELSE dbm

\* Time: the base's clock moves by a tick.
Aged(n) == [n EXCEPT !.waiting = IF n.pending = NoPower THEN 0 ELSE Later(@, AckTimeout),
                     !.rested  = Later(@, DecisionInterval),
                     !.silent  = IF n.heard THEN Later(@, SilenceTimeout) ELSE 0]

PacketReceived(n) ==
  [n EXCEPT !.sampled = TRUE, !.heard = TRUE, !.silent = 0, !.probes = 0]

\* Slip: what was believed wins over the report.
ModeReceived(n, dbm, mode, total) ==
  [n EXCEPT !.mode = mode, !.total = IF @ = Unknown THEN total ELSE @]

\* The node's own report wins over what was believed, a pending change or not.
StatusReceived(n, dbm, mode, total) ==
  [n EXCEPT !.dbm = dbm, !.mode = mode, !.total = IF @ = Unknown THEN total ELSE @]

\* Slip: a change in flight does not hold the next one back.
MayDecideAnyway(n) == n.mode = "dynamic" /\ n.rested = DecisionInterval /\ n.sampled

MayDecide(n) == /\ n.mode = "dynamic"
                /\ n.pending = NoPower
                /\ n.rested = DecisionInterval
                /\ n.sampled

\* Margin samples, baseline of the totals and rate limit start again together.
WindowClosed(n, total) == [n EXCEPT !.rested = 0, !.sampled = FALSE, !.total = total]

\* Up in one jump; down one step, from a comfortable and quiet interval only.
Target(n, margin, total) ==
  CASE margin = "under"                    -> MaxDbm
    [] margin = "over" /\ total = n.total  -> Clamp(n.dbm - Step)
    [] OTHER                               -> n.dbm

Asked(n, dbm) == IF dbm = n.dbm THEN NoPower ELSE dbm

CmdAckReceived(n) ==
  IF n.pending = NoPower THEN n
  ELSE [n EXCEPT !.dbm = n.pending, !.pending = NoPower, !.waiting = 0,
                 !.heard = TRUE, !.silent = 0]

AwakenReceived == [Untracked EXCEPT !.heard = TRUE]

ModeSet(n, mode) == [n EXCEPT !.mode = mode]

\* Slip: a command waits for its answer for ever.
NeverExpired(n) == n

\* An unanswered command is forgotten, and what was believed before it stays.
Expired(n) ==
  IF n.pending # NoPower /\ n.waiting = AckTimeout
  THEN [n EXCEPT !.pending = NoPower, !.waiting = 0] ELSE n

ProbeDue(n) == /\ n.mode = "dynamic"
               /\ n.pending = NoPower
               /\ n.heard
               /\ n.silent = SilenceTimeout
               /\ n.probes < MaxProbes
               /\ n.dbm # MaxDbm

Probed(n) == [n EXCEPT !.probes = @ + 1]

CommandSent(n, dbm) == [n EXCEPT !.pending = dbm, !.waiting = 0]

CommandFailed(n) == [n EXCEPT !.pending = NoPower, !.waiting = 0]

=============================================================================
