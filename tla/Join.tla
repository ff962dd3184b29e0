-------------------------------- MODULE Join --------------------------------
(***************************************************************************)
(* How nodes join and keep the session's time: AWAKEN, the base's table of *)
(* node ids, direct and periodic TIME_SYNC, staleness, and what duty       *)
(* cycling does to a node's receiver meanwhile.                            *)
(*                                                                         *)
(* A tick is the period of the base's broadcast.  Everything the base has  *)
(* queued leaves before the next one: slot 0 comes round many times.  A    *)
(* frame reaches at once whoever listens, which for a node without sync is *)
(* always and otherwise, by TdmaSlots, whenever the base sends.            *)
(***************************************************************************)
EXTENDS Integers

CONSTANTS Nodes,         \* the nodes, named by the hash of their UID
          Temp,          \* the radio address a node derives from it until it has an id
          MaxAssigned,   \* kMaxAssignedNodes
          StaleAge,      \* syncStaleMs, in ticks
          DutyMode,      \* the duty-cycle mode each node was built with
          FirstFix,      \* whether the node's GPS has had its first fix
          MaxSessions,   \* bound: how often the edge computer changes the session
          Faults,        \* the kinds of fault that happen
          MaxFaults      \* bound: how many happen

FaultKinds == {"loss", "refusal", "node reboot", "node reset", "base reboot", "base reset"}

FirstNodeId == 2
Entries == 1 .. MaxAssigned
IdOf(e) == FirstNodeId + e - 1
Ids     == {IdOf(e) : e \in Entries}
NoId    == 0
NoNode  == "none"

ASSUME JoinAssumption ==
  /\ NoNode \notin Nodes
  /\ MaxAssigned \in Nat \ {0}
  /\ StaleAge \in Nat \ {0}
  /\ Temp \in [Nodes -> Int]
  /\ DutyMode \in [Nodes -> {"continuous", "triggered", "timed"}]
  /\ FirstFix \in BOOLEAN
  /\ MaxSessions \in Nat /\ MaxFaults \in Nat
  /\ Faults \subseteq FaultKinds

VARIABLES table,      \* _nodeAssignments
          session,    \* the session id of the base's current time source
          due,        \* the periodic or a requested broadcast is due
          node,       \* the nodes
          granted,    \* history: the nodes whose id this boot of the base has given out
          sessions,   \* how many sessions the edge computer has announced
          faults      \* how many faults there were

joinVars == <<table, session, due, node, granted, sessions, faults>>

FreeEntry == [hash |-> NoNode, pending |-> FALSE, addr |-> 0]

Own       == 0          \* the base's own session
NoSession == -1
Unset     == -1         \* the clock has no sync

Boot == [id |-> NoId, session |-> NoSession, age |-> Unset,
         phase |-> "awake", handled |-> FALSE, queued |-> FALSE, force |-> FALSE, deaf |-> FALSE]

JoinInit ==
  /\ table = [e \in Entries |-> FreeEntry]
  /\ session = Own /\ due = FALSE
  /\ node = [n \in Nodes |-> Boot]
  /\ granted = {}
  /\ sessions = 0 /\ faults = 0

Fault(kind) == kind \in Faults /\ faults < MaxFaults /\ faults' = faults + 1
NoFault     == UNCHANGED faults

-----------------------------------------------------------------------------
\* A node.

Address(n) == IF node[n].id = NoId THEN Temp[n] ELSE node[n].id
Up(n)      == node[n].phase # "standby"

\* Slip: a sync as old as syncStaleMs passes for fresh.
FreshTooLong(n) == node[n].age \in 0 .. StaleAge

Fresh(n) == node[n].age \in 0 .. StaleAge - 1

\* The duty phase puts the radio to sleep, but not after standby, nor while it drains.
Sleeps(n, r) == /\ r.phase = "sleep"
                /\ ~r.force
                /\ ~(DutyMode[n] = "timed" /\ ~r.handled /\ r.queued)

Listening(n) == Up(n) /\ ~node[n].deaf

\* A node without an id needs a frame that carries one; the others take none but their own.
Accepts(n, id) == IF node[n].id = NoId THEN id # NoId ELSE id \in {NoId, node[n].id}

\* Slip: the session of the first sync stays.
SyncedOnce(r, id) ==
  [r EXCEPT !.id = IF id = NoId THEN @ ELSE id, !.age = 0,
            !.session = IF @ = NoSession THEN session ELSE @,
            !.force = @ /\ r.age \in 0 .. StaleAge - 1]

\* A sync that ends a time without one also ends what standby had forced.
Synced(r, id) ==
  [r EXCEPT !.id = IF id = NoId THEN @ ELSE id, !.session = session, !.age = 0,
            !.force = @ /\ r.age \in 0 .. StaleAge - 1]

\* maybeEnterTimedMcuSleep, which waits for the queue; then the GPS may keep the MCU up.
Settled(n, r) ==
  IF DutyMode[n] = "timed" /\ r.phase = "sleep" /\ ~r.handled /\ ~r.queued
  THEN IF FirstFix THEN [r EXCEPT !.phase = "standby", !.deaf = TRUE]
       ELSE [r EXCEPT !.handled = TRUE, !.deaf = TRUE]
  ELSE [r EXCEPT !.deaf = Sleeps(n, r)]

Wakened(r) == [r EXCEPT !.phase = "awake", !.force = FALSE, !.handled = FALSE, !.queued = FALSE]

\* What the duty controller may do in an update.
Phased(n, r) ==
  {r} \cup
  (IF r.phase = "awake"
   THEN IF DutyMode[n] = "continuous" THEN {} ELSE {[r EXCEPT !.phase = "sleep", !.queued = q] : q \in BOOLEAN}
   ELSE {Wakened(r)} \cup {[r EXCEPT !.queued = FALSE]})

FreshUpdate(n) ==
  /\ Up(n) /\ Fresh(n)
  /\ \E next \in Phased(n, node[n]) : node' = [node EXCEPT ![n] = Settled(n, next)]
  /\ UNCHANGED <<table, session, due, granted, sessions, faults>>

\* Without sync update() returns before the duty controller has its turn.
StaleUpdate(n) ==
  /\ Up(n) /\ ~Fresh(n)
  /\ node' = [node EXCEPT ![n].deaf = Sleeps(n, node[n])]
  /\ node' # node
  /\ UNCHANGED <<table, session, due, granted, sessions, faults>>

\* The duty controller still has its sleeping phase; the override holds the radio up.
WakeFromStandby(n) ==
  /\ node[n].phase = "standby"
  /\ node' = [node EXCEPT ![n].phase = "sleep", ![n].handled = TRUE,
                          ![n].force = TRUE, ![n].deaf = FALSE]
  /\ UNCHANGED <<table, session, due, granted, sessions, faults>>

Reboot(n) ==
  /\ Fault("node reboot")
  /\ node' = [node EXCEPT ![n] = Boot]
  /\ granted' = granted \ {n}
  /\ UNCHANGED <<table, session, due, sessions>>

\* A soft CMD_RESET: the clock forgets its sync and not its session, the queue is flushed.
SoftReset(n) ==
  /\ Listening(n) /\ node[n].id # NoId
  /\ Fault("node reset")
  /\ node' = [node EXCEPT ![n].age = Unset, ![n].queued = FALSE]
  /\ UNCHANGED <<table, session, due, granted, sessions>>

-----------------------------------------------------------------------------
\* The base.

Used    == {e \in Entries : table[e].hash # NoNode}
EntriesOf(n) == {e \in Used : table[e].hash = n}
Pending == {e \in Used : table[e].pending}

\* The lowest, if there is one.
First(es)  == {e \in es : \A f \in es : e <= f}
FirstFree  == First(Entries \ Used)

\* Slips: every AWAKEN is given a free entry; a hash the table knows is given none.
AssignedAnew(n)  == FirstFree
AssignedOnce(n)  == IF EntriesOf(n) # {} THEN {} ELSE FirstFree

\* The entry with that hash, else the first free one, else none.
Assigned(n) == IF EntriesOf(n) # {} THEN First(EntriesOf(n)) ELSE FirstFree

\* AWAKEN is sent whatever the radio's state; the base answers from its slot.
SendAwaken(n) ==
  /\ Up(n) /\ ~Fresh(n)
  /\ \/ /\ table' = [e \in Entries |->
                       IF e \in Assigned(n)
                       THEN [hash |-> n, pending |-> TRUE, addr |-> Address(n)]
                       ELSE table[e]]
        /\ NoFault
     \/ UNCHANGED table /\ Fault("loss")
  /\ UNCHANGED <<session, due, node, granted, sessions>>

Ears(id, at) == {n \in Nodes : Listening(n) /\ Accepts(n, id) /\ Address(n) \in at}

Taken(id, ears) ==
  /\ node' = [n \in Nodes |-> IF n \in ears THEN Synced(node[n], id) ELSE node[n]]
  /\ granted' = granted \cup {n \in ears : node[n].id = NoId}

\* All who listen at an address and accept the frame take it, but for one that misses it.
Delivered(id, at) ==
  \/ Taken(id, Ears(id, at)) /\ NoFault
  \/ \E n \in Ears(id, at) : Taken(id, Ears(id, at) \ {n}) /\ Fault("loss")

\* A frame the radio refuses stays pending, and the next entry has its turn.
SendDirectSync(e) ==
  /\ e \in Pending
  /\ table' = [table EXCEPT ![e].pending = FALSE]
  /\ \/ e \in First(Pending) /\ Delivered(IdOf(e), {table[e].addr})
     \/ /\ e \notin First(Pending) /\ Fault("refusal")
        /\ Taken(IdOf(e), Ears(IdOf(e), {table[e].addr}))
  /\ UNCHANGED <<session, due, sessions>>

\* The last in the order of slot 0; a broadcast the radio refuses is not tried again.
Broadcast ==
  /\ due /\ due' = FALSE
  /\ Pending = {}
  /\ \/ Delivered(NoId, {Address(n) : n \in Nodes})
     \/ Fault("refusal") /\ UNCHANGED <<node, granted>>
  /\ UNCHANGED <<table, session, sessions>>

\* TIME_SYNC from the edge computer: a new source of time, and perhaps a broadcast at once.
EdgeSync ==
  /\ sessions < MaxSessions /\ sessions' = sessions + 1
  /\ session' = sessions + 1
  /\ due' \in {due, TRUE}
  /\ UNCHANGED <<table, node, granted, faults>>

\* A soft reset of the base keeps its assignments; the broadcast is due unless it has just begun.
SoftResetBase ==
  /\ Fault("base reset")
  /\ session' = Own
  /\ due' \in {due, TRUE}
  /\ UNCHANGED <<table, node, granted, sessions>>

\* A reboot does not.
RebootBase ==
  /\ Fault("base reboot")
  /\ table' = [e \in Entries |-> FreeEntry]
  /\ session' = Own /\ due' = FALSE
  /\ granted' = {}
  /\ UNCHANGED <<node, sessions>>

-----------------------------------------------------------------------------
Tick ==
  /\ ~due /\ due' = TRUE
  /\ Pending = {}
  /\ node' = [n \in Nodes |->
                IF Fresh(n) THEN [node[n] EXCEPT !.age = @ + 1]
                ELSE node[n]]
  /\ UNCHANGED <<table, session, granted, sessions, faults>>

NodeActs(n) == FreshUpdate(n) \/ StaleUpdate(n) \/ WakeFromStandby(n) \/ Reboot(n)
               \/ SoftReset(n) \/ SendAwaken(n)
BaseActs    == (\E e \in Entries : SendDirectSync(e)) \/ Broadcast \/ EdgeSync \/ SoftResetBase \/ RebootBase
JoinNext    == (\E n \in Nodes : NodeActs(n)) \/ BaseActs \/ Tick

(***************************************************************************)
(* Both loops run for ever, standby ends by the RTC, and time passes.  The *)
(* duty controller need not do anything.  Slot 0 has room for several      *)
(* frames and an AWAKEN is repeated after a frame of the schedule or more, *)
(* so the base gets to every entry although it takes the lowest first.     *)
(***************************************************************************)
JoinFairness ==
  /\ \A n \in Nodes : /\ WF_joinVars(StaleUpdate(n))
                      /\ WF_joinVars(WakeFromStandby(n))
                      /\ SF_joinVars(SendAwaken(n))
  /\ \A e \in Entries : SF_joinVars(SendDirectSync(e))
  /\ SF_joinVars(Broadcast)
  /\ SF_joinVars(Tick)

JoinSpec == JoinInit /\ [][JoinNext]_joinVars /\ JoinFairness

-----------------------------------------------------------------------------
TableEntries == [hash : Nodes \cup {NoNode}, pending : BOOLEAN,
                 addr : {0} \cup Ids \cup {Temp[n] : n \in Nodes}]
NodeStates   == [id : Ids \cup {NoId}, session : NoSession .. MaxSessions,
                 age : Unset .. StaleAge,
                 phase : {"awake", "sleep", "standby"}, handled : BOOLEAN,
                 queued : BOOLEAN, force : BOOLEAN, deaf : BOOLEAN]

JoinTypeOK ==
  /\ table \in [Entries -> TableEntries]
  /\ session \in 0 .. MaxSessions
  /\ due \in BOOLEAN
  /\ node \in [Nodes -> NodeStates]
  /\ granted \subseteq Nodes
  /\ sessions \in 0 .. MaxSessions /\ faults \in 0 .. MaxFaults

\* A temporary address is the low byte of a hash: two may be the same, or one be an id.
HasOwnAddress(n) == Temp[n] \notin Ids /\ \A m \in Nodes \ {n} : Temp[m] # Temp[n]

HasTheBasesId(n) == {IdOf(e) : e \in EntriesOf(n)} = {node[n].id}

(***************************************************************************)
(* The base and the nodes agree on who owns which id and slot: a node that *)
(* has an id from this boot of the base has the one the table holds for    *)
(* it, and the table holds one only, whatever was lost, refused, reset or  *)
(* repeated, and whatever addresses other nodes share.  So no two of them  *)
(* share a slot.  (Nodes that kept an id from an earlier boot of the base  *)
(* may.)  It is promised to those whose temporary address is their own.    *)
(***************************************************************************)
IdIsTheBases == \A n \in granted : HasOwnAddress(n) => HasTheBasesId(n)

(***************************************************************************)
(* "The base maps the UID hash to a session-local runtime node ID [...]    *)
(* and replies with fire-and-forget direct TIME_SYNC; the node adopts that *)
(* ID" (SOFTWARE_DESIGN.md:76): every node, and no other.                  *)
(***************************************************************************)
EveryIdIsTheBases == \A n \in granted : HasTheBasesId(n)

(***************************************************************************)
(* A node without fresh sync is heard, answered and takes the answer, as   *)
(* long as its radio is on.                                                *)
(***************************************************************************)
Deaf(n) == ~Fresh(n) /\ node[n].deaf /\ Sleeps(n, node[n])

ListenersRegainSync ==
  \A n \in Nodes : ~Fresh(n) ~> (Fresh(n) \/ Deaf(n))

(***************************************************************************)
(* A session the edge computer announces reaches every node: from the time *)
(* of a change on, no node stays for ever in another one.                  *)
(***************************************************************************)
SessionReachesAll ==
  \A n \in Nodes : []<>(node[n].session = session \/ Deaf(n) \/ ~Up(n))

(***************************************************************************)
(* "Permissive recovery [...] ensures a stale node can hear sync and       *)
(* rejoin" (TDMA_PROTOCOL.md:57).                                          *)
(***************************************************************************)
StaleNodeRejoins == \A n \in Nodes : ~Fresh(n) ~> Fresh(n)

=============================================================================
