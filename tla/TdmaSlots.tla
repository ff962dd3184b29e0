------------------------------ MODULE TdmaSlots ------------------------------
(***************************************************************************)
(* Who may be on the air when: the session clock every station derives its *)
(* slot from (TdmaClock), the guard bands of myTurn(), the length-aware    *)
(* admission of drainTxQueue() and baseTxDeadlineAllows(), and TIME_SYNC,  *)
(* the only thing that sets a node's clock.                                *)
(*                                                                         *)
(* Station s transmits in slot s of each frame; station 0 is the base,     *)
(* whose clock is the session clock.  Time is counted in a unit of the     *)
(* configuration's choice.  The base stamps a TIME_SYNC before it hands it *)
(* to the radio (sendDirectTimeSync, maybeSendPeriodicTimeSync) and a node *)
(* takes the stamp as the current session time when the whole frame has    *)
(* arrived (applySync), so a node's clock is behind by the time that frame *)
(* spent on the air.  A node keeps its receiver off except near the base's *)
(* slot (updateRxPower, baseRxWindowOpen).                                 *)
(***************************************************************************)
EXTENDS Integers

CONSTANTS NumSlots,   \* totalSlots
          SlotWidth,  \* slotWidthMs
          Guard,      \* guardMs
          Margin,     \* txCompletionMarginMs
          WakeAhead,  \* rxWakeAheadMs
          Airtimes,   \* the airtimes of the frames that are sent
          SyncAir,    \* the airtime of a TIME_SYNC
          Overrun,    \* how much longer than its airtime a send may take
          Drift,      \* how far a clock strays from its last TIME_SYNC
          LastSlot    \* bound: the slots counted from the start of the session

ASSUME TdmaSlotsAssumption ==
  /\ NumSlots \in Nat \ {0}
  /\ SlotWidth \in Nat \ {0}
  /\ Guard \in Nat /\ Margin \in Nat
  /\ WakeAhead \in 0 .. SlotWidth
  /\ Airtimes \subseteq Nat \ {0}
  /\ SyncAir \in Nat \ {0}
  /\ Overrun \in 0 .. Margin
  /\ Drift \in Nat
  /\ LastSlot \in Nat

Stations == 0 .. NumSlots - 1

Unsynced == -1

VARIABLES now,   \* the session time, as the base reads it
          lag,   \* lag[s]: how far s's clock was behind at its last TIME_SYNC
          air    \* air[s]: the frame s has on the air, or Silent

vars == <<now, lag, air>>

(***************************************************************************)
(* A frame on the air, from its start to its end in session time.  slot is *)
(* the slot index the sender admitted it to; a station without a fresh     *)
(* TIME_SYNC transmits when it likes, and its frame is not scheduled.      *)
(* ears are the nodes whose receivers were on when the frame began.        *)
(***************************************************************************)
Transmissions ==
  [on : BOOLEAN, sync : BOOLEAN, scheduled : BOOLEAN,
   slot : Nat, from : Nat, to : Nat, ears : SUBSET (Stations \ {0})]

Silent == [on |-> FALSE, sync |-> FALSE, scheduled |-> FALSE,
           slot |-> 0, from |-> 0, to |-> 0, ears |-> {}]

Init ==
  /\ now = 0
  /\ lag = [s \in Stations |-> IF s = 0 THEN 0 ELSE Unsynced]
  /\ air = [s \in Stations |-> Silent]

HasSync(s) == lag[s] # Unsynced

\* The readings the clock of a synced station may show.
Readings(s) ==
  IF s = 0 THEN {now}
  ELSE {now - lag[s] + e : e \in (0 - Drift) .. Drift}

\* Slip: a frame is admitted by its start alone.
AdmittedByStart(s, k, t, airtime) ==
  /\ k % NumSlots = s
  /\ k * SlotWidth + Guard <= t
  /\ t <= k * SlotWidth + SlotWidth - Guard

(***************************************************************************)
(* myTurn() and the admission test together, for slot index k and a frame  *)
(* of the given airtime, at the clock reading t: inside the guard bands,   *)
(* and with airtime and margin to spare before the trailing one.           *)
(***************************************************************************)
Admitted(s, k, t, airtime) ==
  /\ k % NumSlots = s
  /\ k * SlotWidth + Guard <= t
  /\ t + airtime + Margin <= k * SlotWidth + SlotWidth - Guard

\* Slip: no wake-ahead.
RxWindowInSlotOnly(t) ==
  \E j \in 0 .. LastSlot + 1 :
    j % NumSlots = 0 /\ j * SlotWidth <= t /\ t < j * SlotWidth + SlotWidth

(***************************************************************************)
(* baseRxWindowOpen() at the clock reading t: slot 0 of some frame, or the *)
(* WakeAhead before it.  An unsynced node listens all the time.            *)
(***************************************************************************)
RxWindowOpen(t) ==
  \E j \in 0 .. LastSlot + 1 :
    j % NumSlots = 0 /\ j * SlotWidth - WakeAhead <= t /\ t < j * SlotWidth + SlotWidth

ReceiversOn ==
  {n \in Stations \ {0} : HasSync(n) => \A t \in Readings(n) : RxWindowOpen(t)}

\* s puts a frame on the air, in slot k by its own clock.
Send(s, k, airtime, sync) ==
  /\ HasSync(s) /\ ~air[s].on
  /\ \E t \in Readings(s) : Admitted(s, k, t, airtime)
  /\ \E extra \in 0 .. Overrun :
       air' = [air EXCEPT ![s] = [on |-> TRUE, sync |-> sync, scheduled |-> TRUE,
                                  slot |-> k, from |-> now,
                                  to |-> now + airtime + extra,
                                  ears |-> ReceiversOn]]
  /\ UNCHANGED <<now, lag>>

\* Telemetry, acknowledgements, commands: any frame but a TIME_SYNC.
SendFrame(s, k) == \E airtime \in Airtimes : Send(s, k, airtime, FALSE)

\* The base's periodic or direct TIME_SYNC.
SendTimeSync(k) == Send(0, k, SyncAir, TRUE)

\* myTurn() is TRUE at any time for a node whose clock is unsynced or stale.
SendUnscheduled(s) ==
  /\ s # 0 /\ ~HasSync(s) /\ ~air[s].on
  /\ \E airtime \in Airtimes :
       air' = [air EXCEPT ![s] = [on |-> TRUE, sync |-> FALSE, scheduled |-> FALSE,
                                  slot |-> 0, from |-> now, to |-> now + airtime,
                                  ears |-> {}]]
  /\ UNCHANGED <<now, lag>>

\* Slip: the offset of a TIME_SYNC is taken with the wrong sign.
FinishWrongSign(s) ==
  /\ air[s].on /\ air[s].to = now
  /\ air' = [air EXCEPT ![s] = Silent]
  /\ IF air[s].sync
     THEN \E heard \in SUBSET {n \in air[s].ears : ~air[n].on} :
            lag' = [n \in Stations |-> IF n \in heard THEN air[s].from - now
                                       ELSE lag[n]]
     ELSE UNCHANGED lag
  /\ UNCHANGED now

\* The last symbol of s's frame leaves; a TIME_SYNC sets the clocks of the
\* nodes that heard it, none of which can have been transmitting.
Finish(s) ==
  /\ air[s].on /\ air[s].to = now
  /\ air' = [air EXCEPT ![s] = Silent]
  /\ IF air[s].sync
     THEN \E heard \in SUBSET {n \in air[s].ears : ~air[n].on} :
            lag' = [n \in Stations |-> IF n \in heard THEN now - air[s].from
                                       ELSE lag[n]]
     ELSE UNCHANGED lag
  /\ UNCHANGED now

\* The node has heard no TIME_SYNC for syncStaleMs.
GoStale(s) ==
  /\ s # 0 /\ HasSync(s)
  /\ lag' = [lag EXCEPT ![s] = Unsynced]
  /\ UNCHANGED <<now, air>>

Pass ==
  /\ now < (LastSlot + 1) * SlotWidth
  /\ \A s \in Stations : air[s].on => now < air[s].to
  /\ now' = now + 1
  /\ UNCHANGED <<lag, air>>

Next ==
  \/ Pass
  \/ \E s \in Stations : Finish(s) \/ SendUnscheduled(s) \/ GoStale(s)
  \/ \E s \in Stations, k \in 0 .. LastSlot : SendFrame(s, k)
  \/ \E k \in 0 .. LastSlot : SendTimeSync(k)

Spec == Init /\ [][Next]_vars

-----------------------------------------------------------------------------
TypeOK ==
  /\ now \in Nat
  /\ lag \in [Stations -> Nat \cup {Unsynced}]
  /\ air \in [Stations -> Transmissions]

(***************************************************************************)
(* Two stations that keep to the schedule are never on the air together:   *)
(* the point of the guard bands, of the completion margin and of admitting *)
(* a frame by its length.  It depends on how far apart the clocks are, and *)
(* they are apart by the airtime of the TIME_SYNC that set them.           *)
(***************************************************************************)
OnSchedule(s) == air[s].on /\ air[s].scheduled /\ now < air[s].to

ScheduledSendsDisjoint ==
  \A s1, s2 \in Stations : OnSchedule(s1) /\ OnSchedule(s2) => s1 = s2

(***************************************************************************)
(* A frame the base sends finds every node's receiver on: a node's wake    *)
(* ahead of the base's slot makes up for its clock being behind.           *)
(***************************************************************************)
BaseFindsNodesListening ==
  air[0].on => air[0].ears = Stations \ {0}

(***************************************************************************)
(* What a profile must satisfy for the two properties.                     *)
(***************************************************************************)
LagFits ==
  /\ SyncAir + Drift + 2 * Overrun <= 2 * Guard + Margin
  /\ 2 * Drift + 2 * Overrun <= 2 * Guard + Margin

WakeFits ==
  /\ SyncAir + Overrun + Drift <= Guard + WakeAhead
  /\ Drift <= Guard + Margin

=============================================================================
