------------------------------ MODULE TimeProofs ------------------------------
(***************************************************************************)
(* Time and slots, in two parts.                                           *)
(* - TdmaSlots: the schedule keeps stations apart, and the receive gate    *)
(*   keeps a node's radio on for the base, under conditions on the profile *)
(*   alone: for every number of slots, slot width, set of airtimes, and    *)
(*   however long the session lasts.                                       *)
(* - Join: for any number of nodes, size of the table, mix of duty modes   *)
(*   and run of faults, the base and the nodes that got an id from this    *)
(*   boot of it agree on the id.  IdIsTheBases is not inductive: it also   *)
(*   takes that a node has one entry at most, and that an entry answers at *)
(*   an address of its own node only - the temporary one, which no other   *)
(*   node has, or an id, at which a node without one does not listen.      *)
(***************************************************************************)
EXTENDS TdmaSlots, Join, TLAPS

(***************************************************************************)
(* Slots do not overlap.  (A separate fact because it multiplies two       *)
(* unknowns.)                                                              *)
(***************************************************************************)
LEMMA SlotsAreDisjoint ==
  ASSUME NEW j \in Nat, NEW k \in Nat, j < k
  PROVE  /\ j * SlotWidth \in Nat
         /\ k * SlotWidth \in Nat
         /\ j * SlotWidth + SlotWidth <= k * SlotWidth
<1>1. PICK d \in Nat : k = j + 1 + d
  <2>1. k - j - 1 \in Nat /\ k = j + 1 + (k - j - 1)
    OBVIOUS
  <2>. QED  BY <2>1
<1>2. k * SlotWidth = j * SlotWidth + SlotWidth + d * SlotWidth
  BY <1>1, TdmaSlotsAssumption
<1>3. j * SlotWidth \in Nat /\ k * SlotWidth \in Nat /\ d * SlotWidth \in Nat
  BY <1>1, TdmaSlotsAssumption
<1>. QED  BY <1>2, <1>3, TdmaSlotsAssumption

-----------------------------------------------------------------------------
(***************************************************************************)
(* The inductive invariant.  A clock is behind by what a TIME_SYNC takes   *)
(* to send; a scheduled frame lies inside its slot's guard bands, shifted  *)
(* by what its sender's clock may be wrong; a frame ends in the future.    *)
(***************************************************************************)
LagBounded ==
  /\ lag[0] = 0
  /\ \A s \in Stations \ {0} : lag[s] # Unsynced => lag[s] \in SyncAir .. SyncAir + Overrun

Placed(s) ==
  LET earliest == IF s = 0 THEN 0 ELSE SyncAir - Drift
      latest   == IF s = 0 THEN Overrun ELSE SyncAir + Drift + 2 * Overrun
  IN  /\ air[s].slot % NumSlots = s
      /\ air[s].slot * SlotWidth + Guard + earliest <= air[s].from
      /\ air[s].to <= air[s].slot * SlotWidth + SlotWidth - Guard - Margin + latest

InFlight(s) ==
  /\ air[s].from <= now /\ now <= air[s].to
  /\ air[s].sync => air[s].to - air[s].from \in SyncAir .. SyncAir + Overrun
  /\ air[s].sync => s = 0

AirPlaced ==
  \A s \in Stations : air[s].on => InFlight(s) /\ (air[s].scheduled => Placed(s))

IInv == TypeOK /\ LagBounded /\ AirPlaced

LEMMA InitIInv == Init => IInv
  BY TdmaSlotsAssumption
  DEF Init, IInv, TypeOK, LagBounded, AirPlaced, Stations, Silent, Transmissions, Unsynced

(***************************************************************************)
(* A clock reading is off by no more than the lag and the drift.           *)
(***************************************************************************)
LEMMA ReadingBounds ==
  ASSUME IInv, NEW s \in Stations, HasSync(s), NEW t \in Readings(s)
  PROVE  /\ t \in Int
         /\ s = 0 => t = now
         /\ s # 0 => /\ t <= now - SyncAir + Drift
                     /\ now - SyncAir - Overrun - Drift <= t
<1>1. CASE s = 0
  BY <1>1 DEF IInv, TypeOK, Readings
<1>2. CASE s # 0
  <2>1. lag[s] \in SyncAir .. SyncAir + Overrun
    BY <1>2 DEF IInv, LagBounded, HasSync
  <2>2. PICK e \in (0 - Drift) .. Drift : t = now - lag[s] + e
    BY <1>2 DEF Readings
  <2>. QED  BY <1>2, <2>1, <2>2, TdmaSlotsAssumption DEF IInv, TypeOK
<1>. QED  BY <1>1, <1>2

(***************************************************************************)
(* A frame that passes the guard bands and the length-aware admission of   *)
(* its sender's clock is placed as the invariant says.                     *)
(***************************************************************************)
LEMMA SendIInv ==
  ASSUME IInv, NEW s \in Stations, NEW k \in 0 .. LastSlot,
         NEW airtime \in Airtimes \cup {SyncAir}, NEW sync \in BOOLEAN,
         sync => s = 0 /\ airtime = SyncAir,
         Send(s, k, airtime, sync)
  PROVE  IInv'
<1>. USE TdmaSlotsAssumption
<1>1. PICK t \in Readings(s) : Admitted(s, k, t, airtime)
  BY DEF Send
<1>2. PICK extra \in 0 .. Overrun :
        air' = [air EXCEPT ![s] = [on |-> TRUE, sync |-> sync, scheduled |-> TRUE,
                                   slot |-> k, from |-> now,
                                   to |-> now + airtime + extra,
                                   ears |-> ReceiversOn]]
  BY DEF Send
<1>3. UNCHANGED <<now, lag>> /\ HasSync(s)
  BY DEF Send
<1>4. now \in Nat /\ airtime \in Nat /\ k \in Nat /\ k * SlotWidth \in Nat
  BY DEF IInv, TypeOK
<1>5. TypeOK'
  <2>1. ReceiversOn \in SUBSET (Stations \ {0})
    BY DEF ReceiversOn
  <2>. QED  BY <1>2, <1>3, <1>4, <2>1 DEF IInv, TypeOK, Transmissions
<1>6. LagBounded'
  BY <1>3 DEF IInv, LagBounded
<1>7. air'[s] = [on |-> TRUE, sync |-> sync, scheduled |-> TRUE,
                 slot |-> k, from |-> now, to |-> now + airtime + extra,
                 ears |-> ReceiversOn]
  BY <1>2 DEF IInv, TypeOK
<1>8. InFlight(s)'
  BY <1>3, <1>4, <1>7 DEF InFlight
<1>9. Placed(s)'
  <2>. DEFINE base == k * SlotWidth
  <2>1. k % NumSlots = s /\ base + Guard <= t /\ t + airtime + Margin <= base + SlotWidth - Guard
    BY <1>1 DEF Admitted
  <2>2. /\ t \in Int
        /\ s = 0 => t = now
        /\ s # 0 => t <= now - SyncAir + Drift /\ now - SyncAir - Overrun - Drift <= t
    BY <1>3, ReadingBounds
  <2>3. base \in Nat
    BY <1>4
  <2>. HIDE DEF base
  <2>4. CASE s = 0
    <3>1. base + Guard + 0 <= now
      BY <1>4, <2>1, <2>2, <2>3, <2>4
    <3>2. now + airtime + extra <= base + SlotWidth - Guard - Margin + Overrun
      BY <1>4, <2>1, <2>2, <2>3, <2>4
    <3>. QED  BY <1>7, <2>1, <2>4, <3>1, <3>2 DEF Placed, base
  <2>5. CASE s # 0
    <3>1. base + Guard + (SyncAir - Drift) <= now
      BY <1>4, <2>1, <2>2, <2>3, <2>5
    <3>2. now + airtime + extra
            <= base + SlotWidth - Guard - Margin + (SyncAir + Drift + 2 * Overrun)
      BY <1>4, <2>1, <2>2, <2>3, <2>5
    <3>. QED  BY <1>7, <2>1, <2>5, <3>1, <3>2 DEF Placed, base
  <2>. QED  BY <2>4, <2>5
<1>10. ASSUME NEW r \in Stations, r # s, air'[r].on
       PROVE  InFlight(r)' /\ (air'[r].scheduled => Placed(r)')
  <2>1. air'[r] = air[r]
    BY <1>2, <1>10 DEF IInv, TypeOK
  <2>. QED  BY <1>3, <1>10, <2>1 DEF IInv, AirPlaced, InFlight, Placed
<1>. QED  BY <1>5, <1>6, <1>8, <1>9, <1>10 DEF IInv, AirPlaced

LEMMA FinishIInv ==
  ASSUME IInv, NEW s \in Stations, Finish(s)
  PROVE  IInv'
<1>. USE TdmaSlotsAssumption
<1>1. /\ air[s].on /\ air[s].to = now /\ UNCHANGED now
      /\ air' = [air EXCEPT ![s] = Silent]
  BY DEF Finish
<1>2. Silent \in Transmissions
  BY DEF Silent, Transmissions
<1>3. \A n \in Stations : lag'[n] = lag[n] \/ (n # 0 /\ lag'[n] \in SyncAir .. SyncAir + Overrun)
  <2>1. CASE ~air[s].sync
    BY <2>1 DEF Finish
  <2>2. CASE air[s].sync
    <3>1. PICK heard \in SUBSET {n \in air[s].ears : ~air[n].on} :
            lag' = [n \in Stations |-> IF n \in heard THEN now - air[s].from ELSE lag[n]]
      BY <2>2 DEF Finish
    <3>2. now - air[s].from \in SyncAir .. SyncAir + Overrun
      BY <1>1, <2>2 DEF IInv, AirPlaced, InFlight
    <3>3. 0 \notin heard
      BY DEF IInv, TypeOK, Transmissions
    <3>. QED  BY <3>1, <3>2, <3>3
  <2>. QED  BY <2>1, <2>2
<1>4. lag' \in [Stations -> Nat \cup {Unsynced}]
  <2>1. DOMAIN lag' = Stations /\ lag' = [n \in DOMAIN lag' |-> lag'[n]]
    BY DEF Finish, IInv, TypeOK
  <2>2. \A n \in Stations : lag'[n] \in Nat \cup {Unsynced}
    BY <1>3 DEF IInv, TypeOK
  <2>. QED  BY <2>1, <2>2
<1>5. TypeOK'
  BY <1>1, <1>2, <1>4 DEF IInv, TypeOK
<1>6. LagBounded'
  BY <1>3 DEF IInv, LagBounded, Stations
<1>7. AirPlaced'
  <2>. SUFFICES ASSUME NEW r \in Stations, air'[r].on
                PROVE  InFlight(r)' /\ (air'[r].scheduled => Placed(r)')
    BY DEF AirPlaced
  <2>1. r # s /\ air'[r] = air[r]
    BY <1>1 DEF IInv, TypeOK, Silent
  <2>. QED  BY <1>1, <2>1 DEF IInv, AirPlaced, InFlight, Placed
<1>. QED  BY <1>5, <1>6, <1>7 DEF IInv

LEMMA NextIInv == IInv /\ [Next]_vars => IInv'
<1>. USE TdmaSlotsAssumption
<1>. SUFFICES ASSUME IInv, [Next]_vars  PROVE IInv'
  OBVIOUS
<1>1. CASE Pass
  <2>1. TypeOK' /\ LagBounded'
    BY <1>1 DEF IInv, TypeOK, LagBounded, Pass
  <2>2. ASSUME NEW s \in Stations, air'[s].on
        PROVE  InFlight(s)' /\ (air'[s].scheduled => Placed(s)')
    <3>1. air' = air /\ now' = now + 1 /\ now < air[s].to
      BY <1>1, <2>2 DEF Pass
    <3>2. InFlight(s) /\ (air[s].scheduled => Placed(s))
      BY <2>2, <3>1 DEF IInv, AirPlaced
    <3>3. now \in Nat /\ air[s].to \in Nat /\ air[s].from \in Nat
      BY DEF IInv, TypeOK, Transmissions
    <3>. QED  BY <3>1, <3>2, <3>3 DEF InFlight, Placed
  <2>. QED  BY <2>1, <2>2 DEF IInv, AirPlaced
<1>2. ASSUME NEW s \in Stations, Finish(s)  PROVE IInv'
  BY <1>2, FinishIInv
<1>3. ASSUME NEW s \in Stations, SendUnscheduled(s)  PROVE IInv'
  <2>1. PICK airtime \in Airtimes :
          air' = [air EXCEPT ![s] = [on |-> TRUE, sync |-> FALSE, scheduled |-> FALSE,
                                     slot |-> 0, from |-> now, to |-> now + airtime,
                                     ears |-> {}]]
    BY <1>3 DEF SendUnscheduled
  <2>2. UNCHANGED <<now, lag>> /\ now \in Nat /\ airtime \in Nat
    BY <1>3 DEF SendUnscheduled, IInv, TypeOK
  <2>3. TypeOK' /\ LagBounded'
    BY <2>1, <2>2 DEF IInv, TypeOK, LagBounded, Transmissions
  <2>4. AirPlaced'
    <3>. SUFFICES ASSUME NEW r \in Stations, air'[r].on
                  PROVE  InFlight(r)' /\ (air'[r].scheduled => Placed(r)')
      BY DEF AirPlaced
    <3>1. CASE r = s
      BY <2>1, <2>2, <3>1 DEF IInv, TypeOK, InFlight
    <3>2. CASE r # s
      <4>1. air'[r] = air[r]
        BY <2>1, <3>2 DEF IInv, TypeOK
      <4>. QED  BY <2>2, <4>1 DEF IInv, AirPlaced, InFlight, Placed
    <3>. QED  BY <3>1, <3>2
  <2>. QED  BY <2>3, <2>4 DEF IInv
<1>4. ASSUME NEW s \in Stations, GoStale(s)  PROVE IInv'
  BY <1>4 DEF GoStale, IInv, TypeOK, LagBounded, AirPlaced, InFlight, Placed
<1>5. ASSUME NEW s \in Stations, NEW k \in 0 .. LastSlot, SendFrame(s, k)  PROVE IInv'
  BY <1>5, SendIInv DEF SendFrame
<1>6. ASSUME NEW k \in 0 .. LastSlot, SendTimeSync(k)  PROVE IInv'
  <2>1. 0 \in Stations
    BY DEF Stations
  <2>2. Send(0, k, SyncAir, TRUE)
    BY <1>6 DEF SendTimeSync
  <2>. QED  BY <2>1, <2>2, SendIInv
<1>7. CASE UNCHANGED vars
  BY <1>7 DEF vars, IInv, TypeOK, LagBounded, AirPlaced, InFlight, Placed
<1>. QED  BY <1>1, <1>2, <1>3, <1>4, <1>5, <1>6, <1>7 DEF Next

-----------------------------------------------------------------------------
(***************************************************************************)
(* Two scheduled frames in flight at once, the one in the earlier slot     *)
(* first: the earlier ends before the later starts.                        *)
(***************************************************************************)
LEMMA EarlierEndsFirst ==
  ASSUME IInv, LagFits, NEW a \in Stations, NEW b \in Stations,
         OnSchedule(a), OnSchedule(b), air[a].slot < air[b].slot
  PROVE  FALSE
<1>. DEFINE j == air[a].slot * SlotWidth
            k == air[b].slot * SlotWidth
<1>1. Placed(a) /\ Placed(b) /\ InFlight(a) /\ InFlight(b)
  BY DEF IInv, AirPlaced, OnSchedule
<1>2. /\ air[a].to \in Nat /\ air[b].from \in Nat /\ now \in Nat
      /\ air[a].slot \in Nat /\ air[b].slot \in Nat
  BY DEF IInv, TypeOK, Transmissions
<1>3. j \in Nat /\ k \in Nat /\ j + SlotWidth <= k
  BY <1>2, SlotsAreDisjoint
<1>. HIDE DEF j, k
<1>4. air[a].to <= j + SlotWidth - Guard - Margin
                     + (IF a = 0 THEN Overrun ELSE SyncAir + Drift + 2 * Overrun)
  BY <1>1 DEF Placed, j
<1>5. k + Guard + (IF b = 0 THEN 0 ELSE SyncAir - Drift) <= air[b].from
  BY <1>1 DEF Placed, k
<1>6. a = 0 => b # 0
  <2>. SUFFICES ASSUME a = 0, b = 0  PROVE FALSE
    OBVIOUS
  <2>. QED  BY <1>2
<1>7. air[a].to <= air[b].from
  BY <1>2, <1>3, <1>4, <1>5, <1>6, TdmaSlotsAssumption DEF LagFits
<1>. QED  BY <1>1, <1>2, <1>7 DEF InFlight, OnSchedule

(***************************************************************************)
(* If the airtime of a TIME_SYNC, the drift and the overrun of a send fit  *)
(* in two guard bands and a completion margin, stations that keep to the   *)
(* schedule are never on the air together.                                 *)
(***************************************************************************)
THEOREM ScheduleIsCollisionFree ==
  ASSUME LagFits
  PROVE  Spec => []ScheduledSendsDisjoint
<1>1. IInv => ScheduledSendsDisjoint
  <2>. SUFFICES ASSUME IInv, NEW a \in Stations, NEW b \in Stations,
                       OnSchedule(a), OnSchedule(b)
                PROVE  a = b
    BY DEF ScheduledSendsDisjoint
  <2>1. air[a].slot \in Nat /\ air[b].slot \in Nat
    BY DEF IInv, TypeOK, Transmissions
  <2>2. air[a].slot = air[b].slot
    BY <2>1, EarlierEndsFirst
  <2>3. air[a].slot % NumSlots = a /\ air[b].slot % NumSlots = b
    BY DEF IInv, AirPlaced, OnSchedule, Placed
  <2>. QED  BY <2>2, <2>3
<1>. QED  BY <1>1, InitIInv, NextIInv, PTL DEF Spec

-----------------------------------------------------------------------------
(***************************************************************************)
(* When the base sends within slot k, the receive window of slot k is open *)
(* on every synced node.                                                   *)
(***************************************************************************)
LEMMA BaseSendIsHeard ==
  ASSUME IInv, WakeFits, NEW k \in 0 .. LastSlot,
         NEW airtime \in Airtimes \cup {SyncAir}, NEW sync \in BOOLEAN,
         Send(0, k, airtime, sync)
  PROVE  ReceiversOn = Stations \ {0}
<1>. USE TdmaSlotsAssumption
<1>. DEFINE base == k * SlotWidth
<1>1. now \in Nat /\ base \in Nat /\ airtime \in Nat
  BY DEF IInv, TypeOK
<1>2. /\ k % NumSlots = 0 /\ base + Guard <= now
      /\ now + airtime + Margin <= base + SlotWidth - Guard
  BY DEF Send, Readings, Admitted
<1>3. ASSUME NEW n \in Stations \ {0}, HasSync(n), NEW t \in Readings(n)
      PROVE  RxWindowOpen(t)
  <2>1. t \in Int /\ t <= now - SyncAir + Drift /\ now - SyncAir - Overrun - Drift <= t
    BY <1>3, ReadingBounds
  <2>. HIDE DEF base
  <2>2. base - WakeAhead <= t
    BY <1>1, <1>2, <2>1 DEF WakeFits
  <2>3. t < base + SlotWidth
    BY <1>1, <1>2, <2>1 DEF WakeFits
  <2>4. k \in 0 .. LastSlot + 1
    OBVIOUS
  <2>. QED  BY <1>2, <2>2, <2>3, <2>4 DEF RxWindowOpen, base
<1>. QED  BY <1>3 DEF ReceiversOn

(***************************************************************************)
(* If a node wakes its receiver early enough to make up for the airtime of *)
(* a TIME_SYNC, every frame of the base finds every receiver on.           *)
(***************************************************************************)
THEOREM BaseIsHeard ==
  ASSUME WakeFits
  PROVE  Spec => []BaseFindsNodesListening
<1>1. Init => BaseFindsNodesListening
  BY TdmaSlotsAssumption DEF Init, BaseFindsNodesListening, Silent, Stations
<1>2. IInv /\ BaseFindsNodesListening /\ [Next]_vars => BaseFindsNodesListening'
  <2>. SUFFICES ASSUME IInv, BaseFindsNodesListening, [Next]_vars
                PROVE  BaseFindsNodesListening'
    OBVIOUS
  <2>0. 0 \in Stations /\ DOMAIN air = Stations
    BY TdmaSlotsAssumption DEF Stations, IInv, TypeOK
  <2>1. ASSUME NEW s \in Stations, NEW k \in 0 .. LastSlot,
               NEW airtime \in Airtimes \cup {SyncAir}, NEW sync \in BOOLEAN,
               Send(s, k, airtime, sync)
        PROVE  BaseFindsNodesListening'
    <3>1. CASE s = 0
      <4>1. ReceiversOn = Stations \ {0}
        BY <2>1, <3>1, BaseSendIsHeard
      <4>2. air'[0].ears = ReceiversOn
        BY <2>0, <2>1, <3>1 DEF Send
      <4>. QED  BY <4>1, <4>2 DEF BaseFindsNodesListening
    <3>2. CASE s # 0
      <4>1. air'[0] = air[0]
        BY <2>0, <2>1, <3>2 DEF Send
      <4>. QED  BY <4>1 DEF BaseFindsNodesListening
    <3>. QED  BY <3>1, <3>2
  <2>2. ASSUME NEW s \in Stations, NEW k \in 0 .. LastSlot, SendFrame(s, k)
        PROVE  BaseFindsNodesListening'
    BY <2>1, <2>2 DEF SendFrame
  <2>3. ASSUME NEW k \in 0 .. LastSlot, SendTimeSync(k)
        PROVE  BaseFindsNodesListening'
    BY <2>0, <2>1, <2>3 DEF SendTimeSync
  <2>4. ASSUME NEW s \in Stations, Finish(s)  PROVE BaseFindsNodesListening'
    BY <2>0, <2>4 DEF Finish, BaseFindsNodesListening, Silent
  <2>5. ASSUME NEW s \in Stations, SendUnscheduled(s)  PROVE BaseFindsNodesListening'
    BY <2>0, <2>5 DEF SendUnscheduled, BaseFindsNodesListening
  <2>6. CASE Pass \/ (\E s \in Stations : GoStale(s)) \/ UNCHANGED vars
    BY <2>6 DEF Pass, GoStale, vars, BaseFindsNodesListening
  <2>. QED  BY <2>2, <2>3, <2>4, <2>5, <2>6 DEF Next
<1>. QED  BY <1>1, <1>2, InitIInv, NextIInv, PTL DEF Spec

-----------------------------------------------------------------------------
(***************************************************************************)
(* The clocks' lags, and the slots and times of what is on the air, stay   *)
(* what the radio service can make of them.                                *)
(***************************************************************************)
THEOREM ScheduleIsTyped == Spec => []TypeOK
<1>1. IInv => TypeOK
  BY DEF IInv
<1>. QED  BY <1>1, InitIInv, NextIInv, PTL DEF Spec

-----------------------------------------------------------------------------
(***************************************************************************)
(* Join.                                                                   *)
(***************************************************************************)
OneEntryEach ==
  \A e, f \in Used : table[e].hash = table[f].hash => e = f

OwnAddress ==
  \A e \in Used : table[e].addr \in Ids \cup {Temp[table[e].hash]}

Agreed ==
  \A n \in granted : HasOwnAddress(n) => \E e \in EntriesOf(n) : node[n].id = IdOf(e)

IdInv == JoinTypeOK /\ OneEntryEach /\ OwnAddress /\ Agreed

\* Ids begin at 2, and entry and id determine each other.
LEMMA IdFacts ==
  /\ NoId \notin Ids
  /\ \A e, f \in Entries : IdOf(e) = IdOf(f) => e = f
  /\ \A e \in Entries : IdOf(e) \in Ids
  BY JoinAssumption DEF NoId, Ids, IdOf, Entries, FirstNodeId

-----------------------------------------------------------------------------
\* Types.

\* What the constants' assumptions give about the sets of values.
LEMMA BasicTypes ==
  /\ Boot \in NodeStates /\ FreeEntry \in TableEntries
  /\ StaleAge \in Nat \ {0} /\ MaxSessions \in Nat /\ MaxFaults \in Nat
  /\ Own \in 0 .. MaxSessions
<1>1. StaleAge \in Nat \ {0} /\ MaxSessions \in Nat /\ MaxFaults \in Nat
      BY JoinAssumption
<1>2. Boot \in NodeStates /\ FreeEntry \in TableEntries
      BY <1>1 DEF Boot, NodeStates, FreeEntry, TableEntries, NoId, NoSession, Unset
<1>3. Own \in 0 .. MaxSessions
      BY <1>1 DEF Own
<1> QED BY <1>1, <1>2, <1>3

\* A frame taken leaves a node's state a node's state.
LEMMA SyncedType ==
  ASSUME NEW r \in NodeStates, NEW id \in Ids \cup {NoId}, session \in 0 .. MaxSessions
  PROVE  Synced(r, id) \in NodeStates
<1>1. (r.force /\ r.age \in 0 .. StaleAge - 1) \in BOOLEAN
      BY DEF NodeStates
<1>2. 0 \in Unset .. StaleAge /\ session \in NoSession .. MaxSessions
      BY BasicTypes DEF Unset, NoSession
<1>3. (IF id = NoId THEN r.id ELSE id) \in Ids \cup {NoId}
      BY DEF NodeStates
<1> QED BY <1>1, <1>2, <1>3 DEF Synced, NodeStates

\* An update leaves a node's state a node's state, and its id alone.
LEMMA UpdateType ==
  ASSUME NEW n \in Nodes, NEW r \in NodeStates, NEW next \in Phased(n, r)
  PROVE  Settled(n, next) \in NodeStates /\ Settled(n, next).id = r.id
<1>1. next \in NodeStates /\ next.id = r.id
  <2>1. ASSUME NEW q \in BOOLEAN, next = [r EXCEPT !.phase = "sleep", !.queued = q]
        PROVE  next \in NodeStates /\ next.id = r.id
        BY <2>1 DEF NodeStates
  <2>2. CASE next = Wakened(r)
        BY <2>2 DEF Wakened, NodeStates
  <2>3. CASE next = [r EXCEPT !.queued = FALSE]
        BY <2>3 DEF NodeStates
  <2>4. CASE next = r
        BY <2>4
  <2> QED BY <2>1, <2>2, <2>3, <2>4 DEF Phased
<1>2. Sleeps(n, next) \in BOOLEAN
      BY DEF Sleeps
<1>3. /\ [next EXCEPT !.phase = "standby", !.deaf = TRUE] \in NodeStates
      /\ [next EXCEPT !.phase = "standby", !.deaf = TRUE].id = r.id
      BY <1>1 DEF NodeStates
<1>4. /\ [next EXCEPT !.handled = TRUE, !.deaf = TRUE] \in NodeStates
      /\ [next EXCEPT !.handled = TRUE, !.deaf = TRUE].id = r.id
      BY <1>1 DEF NodeStates
<1>5. /\ [next EXCEPT !.deaf = Sleeps(n, next)] \in NodeStates
      /\ [next EXCEPT !.deaf = Sleeps(n, next)].id = r.id
      BY <1>1, <1>2 DEF NodeStates
<1> QED BY <1>3, <1>4, <1>5 DEF Settled

\* A fault happens once more, at most MaxFaults times; or there is none.
LEMMA FaultType ==
  ASSUME JoinTypeOK, NEW kind, Fault(kind) \/ NoFault
  PROVE  faults' \in 0 .. MaxFaults
  BY BasicTypes DEF JoinTypeOK, Fault, NoFault

\* Taking a frame keeps the types of nodes and granted.
LEMMA TakenType ==
  ASSUME JoinTypeOK, NEW id \in Ids \cup {NoId}, NEW ears \in SUBSET Nodes, Taken(id, ears)
  PROVE  node' \in [Nodes -> NodeStates] /\ granted' \in SUBSET Nodes
<1>1. \A n \in Nodes : Synced(node[n], id) \in NodeStates
      BY SyncedType DEF JoinTypeOK
<1> QED BY <1>1 DEF Taken, JoinTypeOK

\* Every step keeps the types.
LEMMA JoinTypeStep == JoinTypeOK /\ [JoinNext]_joinVars => JoinTypeOK'
<1> SUFFICES ASSUME JoinTypeOK, [JoinNext]_joinVars
             PROVE  JoinTypeOK'
    OBVIOUS
<1>1. ASSUME NEW n \in Nodes, FreshUpdate(n)
      PROVE  JoinTypeOK'
  <2>1. PICK next \in Phased(n, node[n]) : node' = [node EXCEPT ![n] = Settled(n, next)]
        BY <1>1 DEF FreshUpdate
  <2>2. Settled(n, next) \in NodeStates
        BY UpdateType DEF JoinTypeOK
  <2> QED BY <1>1, <2>1, <2>2 DEF FreshUpdate, JoinTypeOK
<1>2. ASSUME NEW n \in Nodes, StaleUpdate(n)
      PROVE  JoinTypeOK'
  <2>1. Sleeps(n, node[n]) \in BOOLEAN
        BY DEF Sleeps
  <2>2. [node[n] EXCEPT !.deaf = Sleeps(n, node[n])] \in NodeStates
        BY <2>1 DEF JoinTypeOK, NodeStates
  <2> QED BY <1>2, <2>2 DEF StaleUpdate, JoinTypeOK
<1>3. ASSUME NEW n \in Nodes, WakeFromStandby(n)
      PROVE  JoinTypeOK'
  <2>1. [node[n] EXCEPT !.phase = "sleep", !.handled = TRUE, !.force = TRUE, !.deaf = FALSE]
           \in NodeStates
        BY DEF JoinTypeOK, NodeStates
  <2> QED BY <1>3, <2>1 DEF WakeFromStandby, JoinTypeOK
<1>4. ASSUME NEW n \in Nodes, Reboot(n)
      PROVE  JoinTypeOK'
      BY <1>4, BasicTypes, FaultType DEF Reboot, JoinTypeOK
<1>5. ASSUME NEW n \in Nodes, SoftReset(n)
      PROVE  JoinTypeOK'
  <2>1. [node[n] EXCEPT !.age = Unset, !.queued = FALSE] \in NodeStates
    <3>1. Unset \in Unset .. StaleAge
          BY BasicTypes DEF Unset
    <3>2. node[n] \in NodeStates
          BY DEF JoinTypeOK
    <3> QED BY <3>1, <3>2 DEF NodeStates
  <2> QED BY <1>5, <2>1, FaultType DEF SoftReset, JoinTypeOK
<1>6. ASSUME NEW n \in Nodes, SendAwaken(n)
      PROVE  JoinTypeOK'
  <2>1. [hash |-> n, pending |-> TRUE, addr |-> Address(n)] \in TableEntries
        BY DEF Address, JoinTypeOK, NodeStates, TableEntries
  <2>2. table' \in [Entries -> TableEntries]
        BY <1>6, <2>1 DEF SendAwaken, JoinTypeOK
  <2>3. faults' \in 0 .. MaxFaults
        BY <1>6, FaultType DEF SendAwaken
  <2> QED BY <1>6, <2>2, <2>3 DEF SendAwaken, JoinTypeOK
<1>7. ASSUME NEW e \in Entries, SendDirectSync(e)
      PROVE  JoinTypeOK'
  <2>1. [table[e] EXCEPT !.pending = FALSE] \in TableEntries
        BY DEF JoinTypeOK, TableEntries
  <2>2. table' \in [Entries -> TableEntries]
        BY <1>7, <2>1 DEF SendDirectSync, JoinTypeOK
  <2>3. PICK ears \in SUBSET Nodes : Taken(IdOf(e), ears)
        BY <1>7 DEF SendDirectSync, Delivered, Ears
  <2>4. node' \in [Nodes -> NodeStates] /\ granted' \in SUBSET Nodes
        BY <2>3, IdFacts, TakenType
  <2>5. faults' \in 0 .. MaxFaults
        BY <1>7, FaultType DEF SendDirectSync, Delivered
  <2> QED BY <1>7, <2>2, <2>4, <2>5 DEF SendDirectSync, JoinTypeOK
<1>8. CASE Broadcast
  <2>1. node' \in [Nodes -> NodeStates] /\ granted' \in SUBSET Nodes
    <3>1. CASE UNCHANGED <<node, granted>>
          BY <3>1 DEF JoinTypeOK
    <3>2. ASSUME NEW ears \in SUBSET Nodes, Taken(NoId, ears)
          PROVE  node' \in [Nodes -> NodeStates] /\ granted' \in SUBSET Nodes
          BY <3>2, TakenType
    <3> QED BY <1>8, <3>1, <3>2 DEF Broadcast, Delivered, Ears
  <2>2. faults' \in 0 .. MaxFaults
        BY <1>8, FaultType DEF Broadcast, Delivered
  <2>3. due' = FALSE /\ UNCHANGED <<table, session, sessions>>
        BY <1>8 DEF Broadcast
  <2> QED BY <2>1, <2>2, <2>3 DEF JoinTypeOK
<1>9. CASE EdgeSync
  <2>1. sessions' \in 0 .. MaxSessions /\ session' \in 0 .. MaxSessions
        BY <1>9, BasicTypes DEF EdgeSync, JoinTypeOK
  <2>2. due' \in BOOLEAN /\ UNCHANGED <<table, node, granted, faults>>
        BY <1>9 DEF EdgeSync, JoinTypeOK
  <2> QED BY <2>1, <2>2 DEF JoinTypeOK
<1>10. CASE SoftResetBase
  <2>1. session' \in 0 .. MaxSessions /\ faults' \in 0 .. MaxFaults
    <3>1. session' = Own /\ Own \in 0 .. MaxSessions
          BY <1>10, BasicTypes, Zenon DEF SoftResetBase
    <3>2. Fault("base reset")
          BY <1>10 DEF SoftResetBase
    <3> QED BY <3>1, <3>2, FaultType
  <2>2. due' \in BOOLEAN /\ UNCHANGED <<table, node, granted, sessions>>
        BY <1>10 DEF SoftResetBase, JoinTypeOK
  <2> QED BY <2>1, <2>2 DEF JoinTypeOK
<1>11. CASE RebootBase
  <2>1. session' \in 0 .. MaxSessions /\ faults' \in 0 .. MaxFaults
    <3>1. session' = Own /\ Own \in 0 .. MaxSessions
          BY <1>11, BasicTypes, Zenon DEF RebootBase
    <3>2. Fault("base reboot")
          BY <1>11 DEF RebootBase
    <3> QED BY <3>1, <3>2, FaultType
  <2>2. table' \in [Entries -> TableEntries]
        BY <1>11, BasicTypes DEF RebootBase
  <2>3. due' \in BOOLEAN /\ granted' \in SUBSET Nodes /\ UNCHANGED <<node, sessions>>
        BY <1>11 DEF RebootBase
  <2> QED BY <2>1, <2>2, <2>3 DEF JoinTypeOK
<1>12. CASE Tick
  <2>1. \A n \in Nodes : Fresh(n) => [node[n] EXCEPT !.age = @ + 1] \in NodeStates
        BY BasicTypes DEF Fresh, JoinTypeOK, NodeStates, Unset
  <2> QED BY <1>12, <2>1 DEF Tick, JoinTypeOK
<1>13. CASE UNCHANGED joinVars
       BY <1>13 DEF joinVars, JoinTypeOK
<1> QED BY <1>1, <1>2, <1>3, <1>4, <1>5, <1>6, <1>7, <1>8, <1>9, <1>10, <1>11, <1>12, <1>13
        DEF JoinNext, NodeActs, BaseActs

\* And the first state has them.
LEMMA JoinTypeInit == JoinInit => JoinTypeOK
<1> SUFFICES ASSUME JoinInit PROVE JoinTypeOK
    OBVIOUS
<1>1. session \in 0 .. MaxSessions /\ sessions \in 0 .. MaxSessions /\ faults \in 0 .. MaxFaults
      BY BasicTypes DEF JoinInit, Own
<1>2. table \in [Entries -> TableEntries] /\ node \in [Nodes -> NodeStates]
      BY BasicTypes DEF JoinInit
<1>3. due \in BOOLEAN /\ granted \subseteq Nodes
      BY DEF JoinInit
<1> QED BY <1>1, <1>2, <1>3 DEF JoinTypeOK

-----------------------------------------------------------------------------
\* What leaves the table, the granted set and all ids alone leaves the invariant.
LEMMA NodesOwnBusiness ==
  ASSUME IdInv, JoinTypeOK', UNCHANGED <<table, granted>>,
         \A n \in Nodes : node'[n].id = node[n].id
  PROVE  IdInv'
<1>1. OneEntryEach' /\ OwnAddress'
      BY DEF IdInv, OneEntryEach, OwnAddress, Used
<1>2. Agreed'
      BY DEF IdInv, JoinTypeOK, Agreed, EntriesOf, Used
<1> QED BY <1>1, <1>2 DEF IdInv

\* The entry an AWAKEN is given is the node's own, or free when it has none.
LEMMA AssignedIsOwn ==
  ASSUME NEW n \in Nodes, NEW e \in Assigned(n)
  PROVE  /\ e \in Entries
         /\ e \in EntriesOf(n) \/ (EntriesOf(n) = {} /\ e \notin Used)
         /\ \A f \in Assigned(n) : f = e
<1>1. Entries \subseteq Int
      BY DEF Entries
<1>2. Assigned(n) \subseteq Entries
      BY DEF Assigned, First, FirstFree, EntriesOf, Used
<1>3. \A f \in Assigned(n) : f <= e /\ e <= f
      BY DEF Assigned, First, FirstFree
<1>4. ASSUME NEW f \in Assigned(n)
      PROVE  f = e
  <2>1. f \in Int /\ e \in Int
        BY <1>1, <1>2
  <2>2. f <= e /\ e <= f
        BY <1>3
  <2> QED BY <2>1, <2>2
<1>5. e \in EntriesOf(n) \/ (EntriesOf(n) = {} /\ e \notin Used)
      BY DEF Assigned, First, FirstFree
<1> QED BY <1>2, <1>4, <1>5

\* AWAKEN: the table still has one entry for each node, and the granted ones keep theirs.
LEMMA AwakenKeeps ==
  ASSUME IdInv, JoinTypeOK', NEW n \in Nodes, SendAwaken(n)
  PROVE  IdInv'
<1>1. CASE UNCHANGED table
      BY <1>1, NodesOwnBusiness DEF SendAwaken
<1>2. CASE table' = [e \in Entries |->
                       IF e \in Assigned(n)
                       THEN [hash |-> n, pending |-> TRUE, addr |-> Address(n)]
                       ELSE table[e]]
  <2>1. /\ \A e \in Entries : e \in Assigned(n) =>
              table'[e] = [hash |-> n, pending |-> TRUE, addr |-> Address(n)]
        /\ \A e \in Entries : e \notin Assigned(n) => table'[e] = table[e]
        /\ UNCHANGED <<node, granted>>
        BY <1>2 DEF SendAwaken
  <2>2. Address(n) \in Ids \cup {Temp[n]}
        BY DEF Address, IdInv, JoinTypeOK, NodeStates
  <2>3. n # NoNode
        BY JoinAssumption
  <2>5. \A e \in Entries : e \in Used' <=> (e \in Used \/ e \in Assigned(n))
        BY <2>1, <2>3 DEF Used
  <2>6. OneEntryEach'
    <3> SUFFICES ASSUME NEW e \in Used', NEW f \in Used', table'[e].hash = table'[f].hash
                 PROVE  e = f
        BY DEF OneEntryEach
    <3>1. e \in Entries /\ f \in Entries
          BY DEF Used
    <3>2. CASE e \in Assigned(n) /\ f \in Assigned(n)
          BY <3>2, AssignedIsOwn
    <3>3. CASE e \in Assigned(n) /\ f \notin Assigned(n)
      <4>1. f \in EntriesOf(n)
            BY <2>1, <2>5, <3>1, <3>3 DEF EntriesOf
      <4>2. e \in EntriesOf(n)
            BY <3>3, <4>1, AssignedIsOwn
      <4> QED BY <4>1, <4>2 DEF EntriesOf, IdInv, OneEntryEach
    <3>4. CASE e \notin Assigned(n) /\ f \in Assigned(n)
      <4>1. e \in EntriesOf(n)
            BY <2>1, <2>5, <3>1, <3>4 DEF EntriesOf
      <4>2. f \in EntriesOf(n)
            BY <3>4, <4>1, AssignedIsOwn
      <4> QED BY <4>1, <4>2 DEF EntriesOf, IdInv, OneEntryEach
    <3>5. CASE e \notin Assigned(n) /\ f \notin Assigned(n)
          BY <2>1, <2>5, <3>1, <3>5 DEF IdInv, OneEntryEach
    <3> QED BY <3>2, <3>3, <3>4, <3>5
  <2>7. OwnAddress'
    <3> SUFFICES ASSUME NEW e \in Used'
                 PROVE  table'[e].addr \in Ids \cup {Temp[table'[e].hash]}
        BY DEF OwnAddress
    <3>1. e \in Entries
          BY DEF Used
    <3>2. CASE e \in Assigned(n)
          BY <2>1, <2>2, <3>1, <3>2
    <3>3. CASE e \notin Assigned(n)
          BY <2>1, <2>5, <3>1, <3>3 DEF IdInv, OwnAddress
    <3> QED BY <3>2, <3>3
  <2>8. Agreed'
    <3> SUFFICES ASSUME NEW m \in granted, HasOwnAddress(m)
                 PROVE  \E e \in EntriesOf(m)' : node[m].id = IdOf(e)
        BY <2>1 DEF Agreed
    <3>1. PICK e \in EntriesOf(m) : node[m].id = IdOf(e)
          BY DEF IdInv, Agreed
    <3>2. e \in Entries /\ e \in Used /\ table[e].hash = m
          BY <3>1 DEF EntriesOf, Used
    <3>3. e \in EntriesOf(m)'
      <4>1. CASE e \in Assigned(n)
        <5>1. e \in EntriesOf(n)
              BY <3>2, <4>1, AssignedIsOwn
        <5> QED BY <2>1, <2>5, <3>2, <4>1, <5>1 DEF EntriesOf
      <4>2. CASE e \notin Assigned(n)
            BY <2>1, <2>5, <3>2, <4>2 DEF EntriesOf
      <4> QED BY <4>1, <4>2
    <3> QED BY <3>1, <3>3
  <2> QED BY <2>6, <2>7, <2>8 DEF IdInv
<1> QED BY <1>1, <1>2 DEF SendAwaken

(***************************************************************************)
(* A frame taken by ears that accept it: who had an id keeps it, and who   *)
(* gets one, and has an address of its own, gets that of its own entry.    *)
(***************************************************************************)
LEMMA TakingKeeps ==
  ASSUME IdInv, JoinTypeOK', NEW id, NEW ears \in SUBSET Nodes, Taken(id, ears),
         \A n \in ears : Accepts(n, id),
         \A n \in ears : node[n].id = NoId /\ HasOwnAddress(n) => \E e \in EntriesOf(n) : id = IdOf(e),
         \A e \in Entries : table'[e].hash = table[e].hash /\ table'[e].addr = table[e].addr
  PROVE  IdInv'
<1>1. /\ \A n \in Nodes : n \notin ears => node'[n] = node[n]
      /\ \A n \in ears : node'[n].id = IF id = NoId THEN node[n].id ELSE id
      /\ granted' = granted \cup {n \in ears : node[n].id = NoId}
  <2>1. \A n \in Nodes : node'[n] = IF n \in ears THEN Synced(node[n], id) ELSE node[n]
        BY DEF Taken
  <2>2. ASSUME NEW n \in Nodes
        PROVE  Synced(node[n], id).id = IF id = NoId THEN node[n].id ELSE id
    <3>1. node[n] \in NodeStates
          BY DEF IdInv, JoinTypeOK
    <3> QED BY <3>1 DEF Synced, NodeStates
  <2> QED BY <2>1, <2>2 DEF Taken
<1>2. /\ \A n \in Nodes : node[n].id # NoId => node'[n].id = node[n].id
      /\ \A n \in ears : node[n].id = NoId => node'[n].id = id
      BY <1>1 DEF Accepts
<1>3. Used' = Used /\ \A n \in Nodes : EntriesOf(n)' = EntriesOf(n)
      BY DEF Used, EntriesOf
<1>5. OneEntryEach' /\ OwnAddress'
      BY <1>3 DEF IdInv, OneEntryEach, OwnAddress, Used
<1>6. Agreed'
  <2> SUFFICES ASSUME NEW n \in granted', HasOwnAddress(n)
               PROVE  \E e \in EntriesOf(n) : node'[n].id = IdOf(e)
      BY <1>1, <1>3 DEF Agreed, IdInv, JoinTypeOK, HasOwnAddress
  <2>1. n \in Nodes
        BY <1>1 DEF IdInv, JoinTypeOK
  <2>2. CASE n \in granted
    <3>1. PICK e \in EntriesOf(n) : node[n].id = IdOf(e)
          BY <2>2 DEF IdInv, Agreed
    <3>2. node[n].id # NoId
          BY <3>1, IdFacts DEF EntriesOf, Used
    <3> QED BY <1>2, <2>1, <3>1, <3>2
  <2>3. CASE n \notin granted
        BY <1>1, <1>2, <2>3
  <2> QED BY <2>2, <2>3
<1> QED BY <1>5, <1>6 DEF IdInv

\* Who listens at the address of an entry without an id of its own is the entry's node.
LEMMA EarsAreOwn ==
  ASSUME IdInv, NEW e \in Pending, NEW n \in Ears(IdOf(e), {table[e].addr}), node[n].id = NoId,
         HasOwnAddress(n)
  PROVE  e \in EntriesOf(n)
<1>1. n \in Nodes /\ Temp[n] = table[e].addr /\ e \in Used
  <2>1. n \in Nodes /\ Address(n) = table[e].addr
        BY DEF Ears
  <2>2. Address(n) = Temp[n]
        BY DEF Address
  <2>3. e \in Used
        BY DEF Pending
  <2> QED BY <2>1, <2>2, <2>3
<1>2. table[e].hash \in Nodes /\ e \in Entries
  <2>1. e \in Entries /\ table[e].hash # NoNode
        BY <1>1 DEF Used
  <2>2. table[e].hash \in Nodes \cup {NoNode}
        BY <2>1 DEF IdInv, JoinTypeOK, TableEntries
  <2> QED BY <2>1, <2>2
<1>3. table[e].addr = Temp[table[e].hash]
      BY <1>1 DEF IdInv, OwnAddress, HasOwnAddress
<1>4. table[e].hash = n
      BY <1>1, <1>2, <1>3 DEF HasOwnAddress
<1> QED BY <1>1, <1>4 DEF EntriesOf

\* A direct TIME_SYNC.
LEMMA DirectSyncKeeps ==
  ASSUME IdInv, JoinTypeOK', NEW e \in Entries, SendDirectSync(e)
  PROVE  IdInv'
<1> DEFINE E == Ears(IdOf(e), {table[e].addr})
<1>1. e \in Pending /\ table' = [table EXCEPT ![e].pending = FALSE]
      BY DEF SendDirectSync
<1>2. PICK ears \in SUBSET E : Taken(IdOf(e), ears)
      BY DEF SendDirectSync, Delivered
<1>3. /\ ears \in SUBSET Nodes
      /\ \A n \in ears : Accepts(n, IdOf(e))
      BY <1>2 DEF Ears
<1>4. \A n \in ears : node[n].id = NoId /\ HasOwnAddress(n) => \E f \in EntriesOf(n) : IdOf(e) = IdOf(f)
      BY <1>1, <1>2, EarsAreOwn
<1>5. \A f \in Entries : table'[f].hash = table[f].hash /\ table'[f].addr = table[f].addr
      BY <1>1 DEF IdInv, JoinTypeOK
<1> QED BY <1>2, <1>3, <1>4, <1>5, TakingKeeps

\* A broadcast gives nobody an id.
LEMMA BroadcastKeeps ==
  ASSUME IdInv, JoinTypeOK', Broadcast
  PROVE  IdInv'
<1> DEFINE E == Ears(NoId, {Address(n) : n \in Nodes})
<1>1. UNCHANGED table
      BY DEF Broadcast
<1>2. CASE UNCHANGED <<node, granted>>
      BY <1>1, <1>2, NodesOwnBusiness
<1>3. CASE Delivered(NoId, {Address(n) : n \in Nodes})
  <2>1. PICK ears \in SUBSET E : Taken(NoId, ears)
        BY <1>3 DEF Delivered
  <2>2. /\ ears \in SUBSET Nodes
        /\ \A n \in ears : Accepts(n, NoId) /\ node[n].id # NoId
        BY <2>1 DEF Ears, Accepts
  <2> QED BY <1>1, <2>1, <2>2, TakingKeeps
<1> QED BY <1>2, <1>3 DEF Broadcast

\* A node that starts again has no id.
LEMMA RebootKeeps ==
  ASSUME IdInv, JoinTypeOK', NEW n \in Nodes, Reboot(n)
  PROVE  IdInv'
<1>1. granted' = granted \ {n} /\ UNCHANGED table /\ \A m \in Nodes \ {n} : node'[m] = node[m]
      BY DEF Reboot, IdInv, JoinTypeOK
<1>2. OneEntryEach' /\ OwnAddress'
      BY <1>1 DEF IdInv, OneEntryEach, OwnAddress, Used
<1>3. Agreed'
      BY <1>1 DEF IdInv, JoinTypeOK, Agreed, EntriesOf, Used
<1> QED BY <1>2, <1>3 DEF IdInv

\* A base that starts again has an empty table and has granted nothing.
LEMMA EmptyTableKeeps ==
  ASSUME JoinTypeOK, table = [e \in Entries |-> FreeEntry], granted = {}
  PROVE  IdInv
<1>1. Used = {}
      BY DEF Used, FreeEntry
<1> QED BY <1>1 DEF IdInv, OneEntryEach, OwnAddress, Agreed

\* The invariant holds at first, and every step keeps it.
LEMMA IdInvInit == JoinInit => IdInv
  BY JoinTypeInit, EmptyTableKeeps DEF JoinInit

LEMMA IdInvStep == IdInv /\ [JoinNext]_joinVars => IdInv'
<1> SUFFICES ASSUME IdInv, [JoinNext]_joinVars
             PROVE  IdInv'
    OBVIOUS
<1>1. JoinTypeOK /\ JoinTypeOK'
      BY JoinTypeStep DEF IdInv
<1>2. ASSUME NEW n \in Nodes, FreshUpdate(n)
      PROVE  IdInv'
  <2>1. PICK next \in Phased(n, node[n]) : node' = [node EXCEPT ![n] = Settled(n, next)]
        BY <1>2 DEF FreshUpdate
  <2>2. Settled(n, next).id = node[n].id
        BY <1>1, UpdateType DEF JoinTypeOK
  <2>3. \A m \in Nodes : node'[m].id = node[m].id
        BY <1>1, <2>1, <2>2 DEF JoinTypeOK
  <2> QED BY <1>1, <1>2, <2>3, NodesOwnBusiness DEF FreshUpdate
<1>3. ASSUME NEW n \in Nodes, StaleUpdate(n) \/ WakeFromStandby(n) \/ SoftReset(n)
      PROVE  IdInv'
  <2>1. \A m \in Nodes : node'[m].id = node[m].id
    <3>1. node \in [Nodes -> NodeStates]
          BY <1>1 DEF JoinTypeOK
    <3>2. CASE StaleUpdate(n)
          BY <3>1, <3>2 DEF StaleUpdate, NodeStates
    <3>3. CASE WakeFromStandby(n)
          BY <3>1, <3>3 DEF WakeFromStandby, NodeStates
    <3>4. CASE SoftReset(n)
          BY <3>1, <3>4 DEF SoftReset, NodeStates
    <3> QED BY <1>3, <3>2, <3>3, <3>4
  <2>2. UNCHANGED <<table, granted>>
        BY <1>3 DEF StaleUpdate, WakeFromStandby, SoftReset
  <2> QED BY <1>1, <2>1, <2>2, NodesOwnBusiness
<1>4. ASSUME NEW n \in Nodes, Reboot(n) \/ SendAwaken(n)
      PROVE  IdInv'
      BY <1>1, <1>4, RebootKeeps, AwakenKeeps
<1>5. ASSUME NEW e \in Entries, SendDirectSync(e)
      PROVE  IdInv'
      BY <1>1, <1>5, DirectSyncKeeps
<1>6. CASE Broadcast
      BY <1>1, <1>6, BroadcastKeeps
<1>7. CASE EdgeSync \/ SoftResetBase \/ UNCHANGED joinVars
      BY <1>1, <1>7, NodesOwnBusiness DEF EdgeSync, SoftResetBase, joinVars
<1>8. CASE RebootBase
  <2>1. table' = [e \in Entries |-> FreeEntry] /\ granted' = {}
        BY <1>8 DEF RebootBase
  <2>2. Used' = {}
        BY <2>1 DEF Used, FreeEntry
  <2> QED BY <1>1, <2>1, <2>2 DEF IdInv, OneEntryEach, OwnAddress, Agreed
<1>9. CASE Tick
  <2>1. \A m \in Nodes : node'[m].id = node[m].id
        BY <1>1, <1>9 DEF Tick, JoinTypeOK, NodeStates
  <2> QED BY <1>1, <1>9, <2>1, NodesOwnBusiness DEF Tick
<1> QED BY <1>2, <1>3, <1>4, <1>5, <1>6, <1>7, <1>8, <1>9 DEF JoinNext, NodeActs, BaseActs

\* Together: the invariant of joining.
LEMMA IdInvHolds == JoinSpec => []IdInv
  BY IdInvInit, IdInvStep, PTL DEF JoinSpec

(***************************************************************************)
(* Whatever is lost, refused, reset or repeated, tables and nodes keep     *)
(* their types: ages and sessions their ranges, addresses their kinds.     *)
(***************************************************************************)
THEOREM JoiningIsTyped == JoinSpec => []JoinTypeOK
<1>1. IdInv => JoinTypeOK
      BY DEF IdInv
<1> QED BY <1>1, IdInvHolds, PTL

(***************************************************************************)
(* A node that has an id from this boot of the base has the one the base's *)
(* table holds for it, and it holds one only, if the node's temporary      *)
(* address is no other node's and no id: its slot is its own, whatever     *)
(* addresses the others have.                                              *)
(***************************************************************************)
THEOREM SlotsAreOwned == JoinSpec => []IdIsTheBases
<1>1. IdInv => IdIsTheBases
  <2> SUFFICES ASSUME IdInv, NEW n \in granted, HasOwnAddress(n)
               PROVE  {IdOf(e) : e \in EntriesOf(n)} = {node[n].id}
      BY DEF IdIsTheBases, HasTheBasesId
  <2>1. PICK e \in EntriesOf(n) : node[n].id = IdOf(e)
        BY DEF IdInv, Agreed
  <2>2. \A f \in EntriesOf(n) : f = e
        BY <2>1 DEF EntriesOf, IdInv, OneEntryEach
  <2> QED BY <2>1, <2>2
<1> QED BY <1>1, IdInvHolds, PTL

=============================================================================
