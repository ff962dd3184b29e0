# SmartFires IoT: TLA+ models, checks and proofs

SmartFires is a network of battery-powered smoke sensors.  Up to four nodes and
a base share one LoRa channel by time division; an edge computer is attached to
the base by a serial line.  This directory models how a node joins and keeps the
session's time, who transmits when and at what power, how a node measures and
packs its readings, how they are kept until they are acknowledged, how the base
acknowledges them, and what the edge makes of what it hears.

## 1. The system

| Component (source) | State | Operations | Talks to |
|---|---|---|---|
| `TdmaTxQueue` (`src/radio/TdmaTxQueue.cpp`) | ring of frames, head, tail, count, eviction counter | enqueue, dequeue, clear | owned by `TdmaRadioService` |
| `TdmaClock` (`src/radio/TdmaClock.cpp`) | slot number, session id, session/local stamp of the last TIME_SYNC | applyAssignment, applySync, myTurn, baseRxWindowOpen | read by radio service and applications |
| `TdmaRadioService` (`src/radio/TdmaRadioService.cpp`) | queue, pending window, slot's retransmission mark, command mailbox, receiver power | enqueueTelemetry, drainTxQueue, applyAckSummary, notifyMcuStandby, flush, AWAKEN, assignment | driver, clock, node application |
| `SmartFiresNodeApp` (`src/app/SmartFiresNodeApp.cpp`) | mode, sync state, window counter, standby and drain flags | update: commands, markers, telemetry, standby, AWAKEN | radio service, duty cycle, packet handler |
| `SmartFiresBaseApp` (`src/app/SmartFiresBaseApp.cpp`) | node assignments, ACK trackers, pending commands, TIME_SYNC timers, UART parser | processIncomingLoRa, maybeSendInBaseWindow, processIncomingJetsonUart | nodes over the air, edge over UART |
| `TxPowerController` (`src/radio/TxPowerController.cpp`) | per node: power, mode, margin, probe | onPacketReceived, onStatus, update, onCmdAck, onCommandFailed | base application |
| `DutyCycleController` (`src/power/DutyCycleController.cpp`) | phase, timers, first fix, trigger | update, transitionTo | sensors, node application |
| Sensors (`src/sensors/`) | per sensor: state, health, reading | begin, wake, sleep, ready, sample, service | duty cycle |
| `PacketHandler` (`src/radio/PacketHandler.cpp`) | reference sample, deltas, sequence counter | push, flushWindow, takeBundle, reset | node application |
| Base UART link (`include/telemetry/BinaryPacket.h`, `uart_receiver.py`, `packet.py`) | a parser's stage, length and bytes, at each end | push a byte, encode a frame | base, edge |
| Network profiles (`include/config/NetworkProfiles.h`) | constants | compile-time checks | everything |
| Edge services (`edge/edge-receiver/src/smartfires_edge`) | session, window tracker, loss statistics, profile lock, live ring buffers, telemetry cache, state files | ingest, publish, tail, export | base over UART, browser |
| Platform drivers, battery, entry points; sniffer, tools, monitor, bench | device state; none | register access; diagnostics | - |

A frame of SF7 has five slots of 900 ms; slot 0 is the base's.  In it the base
sends, in this order of priority, direct TIME_SYNCs, commands, one
ACK_SUMMARY per pass, and the periodic TIME_SYNC.  In its own slot a node
drains its queue; telemetry (BUNDLE, STATUS) stays in a window of eight pending
entries until an ACK_SUMMARY covers it, it has been tried three times, or it is
too old.  A node in Timed mode closes a sampling window with WINDOW_END, drains
its queue, is in MCU standby, and comes back with WINDOW_BEGIN.

What is hard here, and what would be right:

* **Schedule.** Each clock is set by a frame that takes time to arrive.  Two
  stations must not be on the air together; the base must find receivers on.
* **Joining.** AWAKEN and its answer are lost, repeated and late; either side
  restarts; a node sleeps.  Base and nodes must agree on ids, and whoever
  listens must come back into sync and into the session.
* **Acknowledgement arithmetic.** Modulo-256 numbers and a mask of sixteen
  bits, read by two parties.  A node must not drop a frame nobody received.
* **Pending window.** Failed sends, requeues, eviction, holds, a standby, clock
  jumps and number wraps all rewrite it.  Air time per frame is bounded, a
  number is pending once, nothing is dropped early.
* **Coalesced acknowledgement.** A pass over trackers with failures, silence,
  sleep, suppression and forced resends.  Nothing heard is forgotten, nobody
  starves.
* **Standby, reboot, session change.** One side restarts and the other does not.
* **Power loop.** The base turns down the power of the link it is told of it by.
  Changes must not pile up, belief must settle, a silent node must be probed.
* **Duty cycle.** Warm-up, sampling, overrun, sleep and a first fix, with sensors
  that fail.  A window's readings must be its own and all accounted for.
* **Bundles.** Rounded, clamped differences: errors must not add up unannounced.
* **Edge.** Unwrapping numbers and naming windows from what happens to arrive; a
  parser that must find its way back after noise.

`PROJECT.json` lists every component and every hazard at its line.

## 2. Modules

| Module | Models |
|---|---|
| `DropOldestFifo` | what a transmit queue promises: a bounded FIFO that gives up its oldest frame |
| `TxQueue` | `TdmaTxQueue`, the ring buffer; implements `DropOldestFifo` under `Fifo` (contents are the `count` entries from `head`) |
| `TdmaSlots` | `TdmaClock` at every station, the guard bands and length-aware admission of `drainTxQueue()`/`baseTxDeadlineAllows()`, TIME_SYNC, `updateRxPower()` |
| `Join` | AWAKEN, the base's assignment table, direct and periodic TIME_SYNC, sessions, staleness, standby and the receiver's sleep, resets and reboots of either side |
| `AckWindow` | `recordTelemetrySequence()` and the test of `applyAckSummary()`, as operators |
| `NodeTx` | the transmit side of a node: `drainTxQueue()` step by step, the pending window, acknowledgement, standby, flush |
| `BaseAck` | the ACK trackers of `SmartFiresBaseApp` and `sendPendingAckSummary()` |
| `TelemetryLink` | `NodeTx` and `BaseAck` over a lossy channel, with the Timed mode of `SmartFiresNodeApp`, reboot and session change |
| `TxPower` | `TxPowerController`: what the base knows of one node's power, each handler an operator on that record |
| `PowerLoop` | `TxPower` composed with the base's command queue, the node's one-place mailbox, its CMD_ACK and STATUS, and a link that fades |
| `Sensors` | SHT31, GPS, SPS30 and wind sensor, each operation an operator on the sensor's record |
| `DutyCycle` | `DutyCycleController` over `Sensors`, with the node's accumulator of readings and the window markers |
| `BundleCodec` | `PacketHandler`'s bundles and the edge's `decode_bundle` |
| `UartFrames` | the frames of the serial line and the parser, byte by byte, with noise |
| `EdgeLoss` | `NodeStats` of `packet_loss.py`, fed as `run_receive` does by a node that loses, repeats, reboots |
| `EdgeWindows` | `WindowTracker` of `window_state.py`, fed by markers and bundles |
| `NodeDataProofs` | theorems and proofs about `TxQueue` and `BundleCodec` |
| `LinkProofs` | the same about `AckWindow`, `BaseAck` and `TelemetryLink` |
| `PaceProofs` | more about `TelemetryLink`: the pace of retransmissions |
| `TimeProofs` | the same about `TdmaSlots` and `Join` |
| `EdgeProofs` | the same about `EdgeWindows`, `EdgeLoss` and `UartFrames` |
| `NodeTxProofs`, `DutyCycleProofs`, `PowerProofs` | the same about the module of that name (`PowerLoop` with `TxPower`) |
| `MC*` | constants for TLC, one module per model; `MCDevices` gathers the six components that share nothing |

Operators commented "Slip" are small mistakes a programmer could make in the
operator that follows them.  The specifications do not use them; each property
is known to notice one (`mutants` in `PROJECT.json`).

### How state and actions correspond to the code

**NodeTx.**  `queue`, `pending`, `retxUsed` and `sends` are `_queue`,
`_pending`, `_lastRetxAttemptSlotIndex == slot` and `sendsThisUpdate`.  One call
of `drainTxQueue` is `StartUpdate`, then one of
`SendRetx`, `DeferRetx`, `SendFresh`, `DeferFresh` per turn of its loop, then
`EndUpdate`; the frame is on the `air` between a turn and `AirClears`, so that
the base can hear it in between.  The session time stamps of an entry are kept
as differences to now (`age`, `since`), in frame periods; `Exceeds` and
`AtLeast` compare them as the code's `uint32_t` does, where a stamp in the
future is a huge age.  `freshAge`, the difference to the last fresh send, is not
moved by a hold or a standby, as in the code.  `room` is what is left of the
slot in units of a short frame; `Spend` allows a slow driver to use up the slot.
Without a fresh TIME_SYNC `myTurn()` is always true, nothing is remembered and
one frame leaves per update.  `requireAckSummaryBeforeFirstRetry` is false in
every profile (`NetworkConfig.h`, line 195), so `Ready` has no such gate.
`alive`, `onAir`, `slotRetx`, `nextId` are history variables.

**BaseAck.**  A tracker is the `AckTracker` struct: `win` is `initialized`,
`ackBaseSeq` and `ackMask`; `held` is `retryHeld`; `quiet` counts openings of
slot 0 since the node was heard, in place of `lastHeardMs`.  A whole pass is one
action, since nothing interrupts it in the code; how it ends gives the
actions: the radio takes the acknowledgement of the `k`-th tracker and none
before (`AckPassSends`), the slot has no room for it (`AckPassOutOfTime`), or no
acknowledgement is sent (`AckPassEnds`).

**TdmaSlots.**  `lag[s]` is how far the clock of `s` was behind at its last
TIME_SYNC; `Readings` adds drift.  `SendFrame` is a scheduled send admitted
by its length, `SendUnscheduled` a send of a node without a fresh TIME_SYNC.
`ears` records which receivers were on when a frame began.

**TelemetryLink.**  A frame is the base's slot, then the node's.  `duty` is the
part of the duty cycle the link notices: booting, active, draining its queue,
standby.  `CloseWindow` and `Wake` are the two edges of `updateWindowMarkers`,
`EnterStandby` is `maybeEnterTimedMcuSleep`.  `Reboot` includes the AWAKEN that
has the base reset its tracker.  `faults` counts what goes wrong, up to
`MaxFaults`, of the kinds in `Faults`.

**Join.**  A tick is the period of the base's broadcast, so `age` counts
broadcasts missed.  `table` is `_nodeAssignments`, with the trigger of a direct
TIME_SYNC (`pending`) and the address it will be sent to (`addr`).  Of a node,
`phase` is what the duty cycle contributes (awake, a sleeping phase, MCU
standby), `handled`, `queued` and `force` are `_mcuSleptThisCycle`, frames
left to drain and `_forceRadioAwake`, and `deaf` is a receiver put to sleep.
`FreshUpdate` is a pass of `update()` with fresh sync, in which the phase may
move on; `StaleUpdate` is the pass that returns before the duty cycle; `Accepts`
is the test of `handleTimeSync`.  `Temp` is any function: two nodes may have one
temporary address, and one may be an id.  `granted` is history: the nodes whose id was
given out by the present boot of the base.  A reboot of a node, of the base, a
soft reset of either, a lost frame and a refused send are faults.

**PowerLoop.**  `believed` is the controller's record of the node, `queue`
`_pendingCommands` with attempts, `mailbox` the node's `_pendingCommand`, `power`
and `mode` what the radio is set to.  `StatusHeard` includes the decision that
follows a STATUS; `BaseUpdates` is `update()` on its own clock (a command
expires, a probe is due).  `need` is the least power at which the base hears the
node; a fade raises it.  The average SNR is chosen freely among the three
classes the code tells apart.  `own` tells the loop's commands from an operator's.

**DutyCycle.**  One `Pass` is a pass of `SmartFiresNodeApp::update()`: time
passes, `Controlled` is `DutyCycleController::update()`, `Refreshed` the read of
the GPS for a STATUS, `Marked` `updateWindowMarkers()`, `Pushed` the reading that
enters the accumulator.  `Answers` is what the surroundings decide in a pass.
Without sync the pass returns early and only time passes (`Wait`).  Times are
counted since an event and no further than the code compares them.
`sent`, `lost`, `runt` and, of a sensor, `current` are history.  `MaxCount` is the
most WINDOW_END's `sample_count` can say (255, where `sendWindowMarker` caps it); no
window of a profile has as many readings (under 100), and `DutyAssumption` says so.

**BundleCodec.**  `ref`, `prev`, `deltas`, `lastGood`, `ready`, `encoding` are
the members of `PacketHandler`; a reading is its time, its valid sensors and a
whole number per field.  `Absolute` fields are sent as they are (the wind).
`ShownValue`, `ShownTime` and `IsShown` are `decode_bundle`.

**EdgeLoss, EdgeWindows.**  `stats` is `NodeStats`, `tracker` `_NodeWindow`; the
`Hear...` operators are the branches of `run_receive`.  The node and the air are
there only to decide what can be heard, and in which order: what they may do is
what `NodeTx` allows, with `Reach` the distance over which a frame can come
late.  Frames are numbered without a wrap and arrive modulo `Modulus`.

**UartFrames.**  One `Transfer` is one `push_byte`; `LoseByte` and `ChangeByte`
are the noise.  Data and checksums may hold any bytes, the marks among them.
`LongEnough` is the longest the parser can be kept once it has taken a byte for a first
mark: a second mark completes it and the byte after that is taken for a length, so that
three bytes are lost besides the `MaxLength` that follow.  `Misleads` names the bytes
inside a frame that can begin this for a parser out of step: a first mark with a
second one behind it, or as the frame's last byte, since what comes behind it then is
not yet decided.  (The next frame's own first mark: `push_byte` takes it for a wrong
second one, looks for a first mark again and has missed that frame.)
`quiet` counts the bytes since the last such byte or noise.  A frame is owed (`clean`)
if the line is `Settled` when it begins: `quiet` is `LongEnough`, or the frame before was
owed and not refused for its length, in which case what its bytes look like no
longer matters.

## 3. Runs

| Run | Question | Answer |
|---|---|---|
| `Devices` | Of the components that share nothing: is the ring a drop-oldest FIFO?  Are a window's readings its own, all accounted for, and does sleep end?  Does the edge show what was measured, count what was lost, name the right window, and recover after noise? | yes |
| `Slots_SF7` | Do the SF7 numbers keep stations apart and receivers on? | yes |
| `NodeTx` | Air budget; one entry per number; against any base | yes |
| `BaseAck` | Is what was heard kept until told and then told; does the breaker agree? | yes |
| `Link_Timed` | With any two faults: types; is a cleared frame one that was heard or assumed; is what was acknowledged acknowledged for good; is the base quiet during a standby it knows of; is one missed base slot harmless? | yes |
| `Link_Arrives` | Does every frame get through? | yes |
| `Power` | Do the loop's commands pile up; is a node believed low probed; does belief settle? | no; yes; yes |
| `Join` | Do ids agree with the table; does whoever listens regain sync and session? | yes |
| `Link_Hold` | Is nothing dropped before its time? | **no** (finding 1) |
| `Link_Session` | Is a cleared frame one that was heard or assumed, also after a session change? | **no** (finding 2) |
| `Power_Dark` | Is a node that has gone dark always restored? | **no** (finding 3) |
| `Join_Deaf` | Does a stale node always rejoin? | **no** (finding 4) |

`AckMeansReceived` allows what a window "assumed": the numbers before the first
frame heard, and those a jump of more than the mask leaves behind.  That is what
the code does when it starts a window, although `BinaryPacket.h` (line 277) says
that the base acknowledges "all contiguous packets": a frame lost before the first
one heard is cleared at the node and never repeated.  `AckSound` is the same for
as long as the session does not change.

`NoAckIntoStandby` is about a WINDOW_END that has arrived, so it says nothing
after a loss, a refusal or a drain timeout.  `Link_Timed` has bundles no longer
than markers (`BundleRoom = 1`), so that no frame goes back to the queue: where one
does, finding 8 has the node send telemetry after WINDOW_END, the base takes it for
awake, and the property fails for that reason.  `NodeTx`, `Link_Arrives`,
`Link_Session` and `Link_Hold` do put frames back.
`OneSkipIsTolerated` is in `Link_Timed` for the same reason: frames that go back are
heard behind the base's window and sent again (finding 5).

`Devices` chooses one of six machines at the start and lets it run alone.  The
six have no variable, message or fault in common (the accumulator of `DutyCycle`
counts the readings whose values `BundleCodec` follows), so nothing is lost by
it, and `SleepEnds` is asked under the fairness of `DutySpec`.

Further configurations are kept beside the runs; each shows one violated
property that section 5 names:
`tlc -config MCTdmaSlots_SF9.cfg MCTdmaSlots` (`ScheduledSendsDisjoint`),
`MCNodeTx_OneRetx.cfg` with `MCNodeTx` (`OneRetxPerSlot`), `MCNodeTx_EndLast.cfg`
with `MCNodeTx` (`EndAfterBundles`), `MCBaseAck_Forced.cfg` with `MCBaseAck`
(`ForcedAckIsDue`), `MCTelemetryLink_Overtaken.cfg` with `MCTelemetryLink`
(`OnlyGapsAreResent`; its slot holds WINDOW_BEGIN and no bundle after it, and nothing
goes wrong), `MCEdgeWindows_Rows.cfg` with `EdgeWindows`
(`RowsOfTheirWindow`), `MCJoin_Shared.cfg` with `MCJoin` (`EveryIdIsTheBases`).
`LoopNeverUnpins` (`PowerLoop`), `MissingIsExact` (`EdgeLoss`), `ShownWhenValid`
(`BundleCodec`) and `EveryLengthArrives` (`UartFrames`) are violated when they are put
in place of the properties of `MCPowerLoop.cfg` and `MCDevices.cfg`.

### Bounds, and why they are enough

* Numbers: the code's 256 numbers with a mask of 16 become 9 with 3, 11 with 2, and 3
  with 1.  All keep `2 * MaskBits < SeqSpace`, the relation the arithmetic
  needs; gaps, slides, jumps and wraps all occur.  The theorems about
  `AckWindow` hold for every such pair.
* `QueueDepth` and `WindowDepth` of 2 to 4 overflow within `MaxId` frames;
  `NodeTx` has three numbers for four frames, so entries of different laps meet.
* `MaxAttempts` is the code's 3 where attempts matter for liveness and 2 where
  the smallest number shows an excess sooner.  `HoldFrames = 2` is the code's, and so
  is `SilenceFrames = 2` of the link (`BaseConfig.h`, line 52).
* `MaxAge = 6`, `RetryWait = 2` frames are SF7's 30 s and 9 s in frames of
  4.5 s (6.67 and 2).  The bound on ages stops a step above `MaxAge`.
* `MaxSends = 3` is the code's; a slot has room for three short frames, or a
  bundle and one more.
* `BaseAck` opens the breaker after one failure and calls one missed frame
  silence, so that two nodes fit; `BreakerIsConsistent` is proved for every limit.
* `MaxFaults` of 1 or 2, named in each configuration: `Link_Arrives` needs fewer
  faults than attempts, since three lost sends lose a frame by design.
* `TdmaSlots`: three stations are enough for two neighbours and a wrap from the
  last slot to slot 0.  The configurations keep a profile's guard, margin,
  wake-ahead and TIME_SYNC airtime in proportion and shorten the slot; `LastSlot`
  ends every behaviour, which is why deadlock is not checked there.
* `Join`: two nodes for two entries, one of them in Timed mode, and one change of
  session.  A sync is stale after two ticks where the code has several broadcasts
  in `syncStaleMs`: fewer losses reach the case.  One fault suffices for each kind
  to meet every state of joining; `SlotsAreOwned` is proved for any number of
  nodes, entries and faults.
* `PowerLoop`: three powers and a step of two, so that a step down is clamped and
  a node can be heard at one power and not at another; a decision per tick, an
  answer awaited two, silence three, in the code's order.  Two entries in the
  queue and an operator who sends one command, with a power below the least; two
  faults, so that a probe is lost after a fade.
* `Devices`: the ring holds three of five entries asked for.  The duty cycle has
  all four modes, a bundle of two readings, durations of up to 16 ticks with the
  relations `DutyAssumption` states, a pass that may come a tick late, and one
  failure.  Bundles have two deltas, values on both sides of a clamp and of zero,
  and gaps that round either way and clamp.  The edge counts modulo 6 with a reach
  of 4, so that seven frames wrap; it names three windows with two restarts.  Serial
  frames carry one to seven bytes where the parser takes two to four and the sender
  up to six, with two bytes of noise.  Marks and lengths stand among their data, and
  with nine checksums some are the first mark: without either part of `Misleads`, or
  without the condition on refused frames in `Settled`, TLC finds `CleanFramesArrive`
  violated.

### Fairness, and why the code justifies it

* `BaseFairness`: a pass that keeps coming to a node whose acknowledgement is
  due eventually has the radio take it (strong fairness per node: the driver
  does not fail on one node alone for ever, and slot 0 is not always full of
  other traffic when its turn comes); the rate limit runs out and a frame on the
  air ends.  Of the nodes nothing is assumed; one that is silent, asleep or held
  back by the breaker is not due, on purpose.
* `LinkFairness`: both main loops run for ever (weak fairness on their steps),
  and time passes (strong fairness on `SlotPasses`, because the loop's
  updates may alternate with it).  Nothing is assumed of the application: it need
  not sample, close a window or wake.
* `PowerFairness`: both loops run and slots come round (weak), time passes and the
  node reports its status again and again (strong, since other steps of the
  loop come between).  Losses are faults and bounded by `MaxFaults`, so the
  properties are about what happens once the losses have ended.
* `JoinFairness`: the loop of a node without sync runs and an RTC alarm ends
  standby (weak); a node without sync sends AWAKEN, the base gets to each direct
  TIME_SYNC and to its broadcast, and time passes (strong: each may be
  interrupted by the others, and slot 0 comes round many times in a tick).  The
  duty cycle of a node in sync need not do anything.
* `DutyFairness`: the loop passes for ever, and a lost sync comes back; that it
  does for whoever listens is `ListenersRegainSync` of `Join`.

## 4. Proofs

Type invariants are theorems of every model that has one: `RingIsTyped`,
`BundlesAreTyped`, `ScheduleIsTyped`, `BaseIsTyped`, `NodeIsTyped`, `LinkIsTyped`,
`DutyIsTyped`, `StatsAreTyped`, `PowerIsTyped` and `JoiningIsTyped`.  The rest:

* **`RingStaysConsistent`, `RingImplementsFifo`** (TxQueue).  The inductive
  invariant is `TypeOK /\ RingConsistent`: the tail alone is determined by head
  and count, without which an enqueue could not be shown to append (`ImplementsFifo`
  fails where it does, so no run checks it for itself).  The refinement maps each of the three operations to its abstract counterpart, with
  lemmas on what `Queued` becomes.
* **`HeardIsAcknowledged`, `AcknowledgementIsStable`** (AckWindow).  For every
  `SeqSpace` and `MaskBits`.  They rest on `RunProperties` (the run of bits above
  the base exists and is maximal) and `SlidCovers`.  The first has an exception at
  one exact distance, half the space, where the base calls a frame old and the
  node's test calls it new; the real system reaches it only after 128 numbers.
* **`ScheduleIsCollisionFree`, `BaseIsHeard`** (TdmaSlots).  For every schedule
  and for sessions of any length, under `LagFits` and `WakeFits`: what a profile
  must satisfy.  The invariant bounds every lag by the airtime and overrun of a
  TIME_SYNC and places each frame on the air inside its slot.  SF7 satisfies
  both conditions, SF9 fails the first, SF10 and SF12 fail both.
* **`WhatIsUntoldStaysDue`, `BreakerIsConsistent`** (BaseAck).  For any number
  of nodes, limits and widths.  The invariant `AllGood` is a per-tracker
  predicate; each operation on a tracker preserves it, and a pass applies such
  operations to some trackers and nothing to the rest.
* **`AirBudgetHolds`, `NumbersPendOnce`** (NodeTx).  For any depth of queue and
  window, any slot, any timers, attempts and sequence space.  `AirBudget` counts
  frames while the code counts attempts of pending entries, so the invariant
  `AirInv` says where a frame can be: in one place of the queue, not yet on the
  air, or in one pending slot whose attempts account for each time it was.
  Dropping, ageing, holding and acknowledging make a window `Similar` to the old
  one; the two sends are `RememberedIsOK` and `MarkedSentIsOK`.  That a
  retransmission has an attempt left rests on `CandidateIsReady` (the search
  finds a ready entry) and on the expiry test that goes with it; that a number is
  pending once, on `RememberedWrites` (which slot a fresh frame takes).
* **`LinkImplementsBase`** (TelemetryLink).  What the composition does to the
  base's variables is a step of `BaseAck` or none, so the theorems about the base hold
  in the link.  The node's side cannot be stated that way: a marker, a reboot and a
  session change are steps `NodeTx` alone does not have.  The lemmas of `NodeTxProofs`
  are about single actions, and `LinkTypedNext` uses them action by action.
* **`AcksAreSound`, `AcksAreSoundUnwrapped`** (TelemetryLink).  For any depths,
  widths, timers and faults, and in either duty mode.  `AckSound` is far from
  inductive.  `SoundInv` is about what the node still has (`Live`: in its queue or its
  window): its numbers run behind `nextSeq` in the order of its ids (`InOrder`), the
  base's window ends below `nextSeq` (`Below`), so it covers no number yet to be
  given, what the window covers of the live frames the base has or assumed
  (`CoversKnown`), and an acknowledgement on the air is the window as it is now
  (`AckIsWindow`).  The lemmas about windows do the rest: `SlidCoversNoMore` (a slide
  covers nothing new but what was recorded) and `RecordedIsSound`.  `AcksAreSound`
  asks `NumbersAreNear`: the base's window, and the oldest frame the node has, are
  less than half the sequence space behind.  That is needed: with `SeqSpace = 5` and
  otherwise the constants of `Link_Timed`, TLC finds `AckSound` violated: a
  number half the space behind or more reads as one ahead.  In the real system that takes
  128 numbers given while the base hears none of them, or while the node keeps one.
  Below that many numbers (`2 * MaxId < SeqSpace`, as in `Link_Timed`)
  `UnwrappedInv` shows the hypothesis to hold, which gives the corollary.
* **`NoAckReachesStandby`** (TelemetryLink).  For any
  depths, widths and timers.  `Turns` says who may transmit when (a frame is on
  the air only in the node's slot, where the base is silent); `QuietInv` says that
  without a failed send every pending frame has been on the air, that while draining
  WINDOW_END is the last in the queue, or has just left it as the fresh frame that
  keeps retransmissions off, and that in standby the base takes the node for asleep
  and nothing is on the air.  Two hypotheses: `FreshHoldoff > 0` (2000 ms in
  `NetworkConfig.h`, line 165), without which a retransmission follows WINDOW_END; and
  that no frame goes back to the queue (`[][~DeferFresh]_vars`), a condition on the
  behaviour and not on the length of bundles or slots, since finding 8 breaks the
  property otherwise.
* **`BaseTakesNothingBack`, `BaseTakesNothingBackUnwrapped`** (TelemetryLink).  An
  action property, from `SoundInv`: what the window covers of the node's live frames lies
  behind `nextSeq` by less than half the space, where `AcknowledgementIsStable` applies
  (`AcknowledgedStays`).  Hypotheses as for `AcksAreSound`.
* **`OneSkippedSlotIsTolerated`, `OneSkippedSlotIsToleratedUnwrapped`** (TelemetryLink,
  in `PaceProofs`).  The invariant `PaceInv` speaks of runs in which nothing but missed base
  slots went wrong, and at most one of those; it follows an acknowledgement round its loop:
  frames leave in the order of their numbers (`InLine`), so that each is heard ahead of
  the window and what is pending is on the air or covered (`NotYetHeard`, `TakenIn`); what
  the base last told covers nothing the node still has (`ToldBelow`, `ToldNow`,
  `ToldNothing`), so that something pending makes an acknowledgement due, which a pass
  sends or the slot is missed; hence nothing pending is older than the number of slots
  missed (`Young`), one frame at most, short of the retry wait.  `Lately` and `Waking` are
  about the base's silence and sleep limits: that it takes no node for asleep that has
  something pending, unless that node is about to send what wakes it.  Hypotheses:
  `FreshHoldoff > 0`; `RetryWait >= 2`, two frames in every profile (`PACKET_RELIABILITY.md`,
  line 62); `SilenceFrames >= 2` (`BaseConfig.h`, line 52); that no frame goes back to the
  queue, without which finding 5 is a counterexample; and that less than half the
  numbers lie between the node and what the base has heard (`NumbersAreNear`) and told
  (`ToldIsNear`).  The corollary shows that they do until the node has used half of them;
  that no frame goes back to the queue it asks of the behaviour as well.
* **`SlotsAreOwned`** (Join).  For any number of nodes, entries
  and faults and any mix of duty modes.  `IdIsTheBases` is not inductive: that
  an answer reaches only the node it is for takes two more facts, and the
  invariant `IdInv` is types, `OneEntryEach` (a hash has one entry at most),
  `OwnAddress` (an entry answers at the temporary address of its own node, or at
  an id) and `Agreed`.  Nothing is assumed of the temporary addresses.  The property is
  owed to each node whose own is no other's and no id (`HasOwnAddress`): an answer sent
  to another entry's address cannot reach it while it has no id, and once it has one
  it takes no other, so that collisions among the rest do not touch it.  To those that
  do collide it is not owed (finding 16).
* **`BundlesMatch`, `ShownReadingsAreClose`** (BundleCodec).  For all fields,
  units, clamps, lengths and readings.  `RoundingIsNear` is about the rounding
  alone, negative numbers included; `DeltaIsNear` about one delta; the invariant
  `CodecInv` says that a bundle under way matches the readings so far,
  reading by reading, and that a bundle made goes on matching until it is taken.
* **`ShownTimesAreClose`** (BundleCodec).  The edge adds up the gaps with a recursive
  function; the invariant `TimesInv` speaks of every function that satisfies its
  equation, and keeps that there is one, so that nothing has to be proved by induction
  over the bundle: `CountsMore` extends such a function by one gap.
* **`WindowsAreAccounted`, `RuntsAreKnown`, `GpsSleepsOnceFixed`,
  `ReadingsAreTheWindows`** (DutyCycle).  For every configuration of the four modes,
  any wake-up delays, floors and bundle lengths, and whatever the chips answer.  A pass
  maps controller and sensors through a chain of operators; a first layer of lemmas says
  what each of them writes, a second what a whole pass can be.  The invariant `DutyInv`
  then relates the phase to the count of the window (`WindowOK`: what is held, sent and
  dropped adds up to what was counted, and a bundle is closed short only at the end of
  an overrun) and to the GPS.  `ReadingsAreTheWindows` needs another, one for each sensor
  with a warm-up (`HeavyOK`): during the warm-up its clock has run as long as the phase,
  so that the first tick samples it and takes the place of the old reading.  That is so
  only if no sampling floor is longer than the warm-up, which is `FloorsFit`, its one
  hypothesis; `SensingConfig.h` has 10 s against floors of at most 1 s.
* **`PromptRows`, `OneFirstRow`** (EdgeWindows).  For any number of windows and
  restarts.  The invariant `WindowInv` adds that no BEGIN has been heard of a
  window to come, that the tracker names the present window once its BEGIN was
  heard, and that while a first row is awaited none has been marked.

* **`LossIsAccounted`** (EdgeLoss).  For every `Modulus`, `Reach` below half of it, and any
  number of frames.  The invariant `LossInv` says that, as long as the edge heard one
  numbering without a gap of half the numbers, what it has seen is the set of true
  numbers moved by one offset, and its last is the greatest of them.  `StepIsDistance`
  says that a wrapped difference, taken between minus and plus half, is the true one;
  `LostLessEarly` turns the span into the count of what is missing.
* **`FramesArrive`** (UartFrames).  For any bytes, data of any length, number of
  checksums and length of noise, without further hypotheses.  The parser is in step
  with the frame under way (`InStep`), or is behind (`Behind`), and then either what it can
  still swallow, with the bytes since it was last misled, is at most `LongEnough`, or it
  holds a false first mark that the next byte, no second one, makes it let go
  (`LetsGo`), or it has refused the frame's length.  A parser in step with the end of
  a frame waits for the next one's first mark whatever the frame held, which is why an
  owed frame hands that on to the one behind it (`SettledWaits`).  Of a frame whose
  length the parser refuses nothing is promised (finding 15).
* **`OneChangeAtATime`** (PowerLoop with TxPower).  For any depth of queue, powers,
  margins and faults.  `OneChangeInFlight` is not inductive: what ends the base's wait
  counts too.  In `PowerInv` every power command in the queue or the mailbox, and every
  CMD_ACK of one on its way up, is in flight; there is no more in flight than the answer
  the base awaits and one for each AWAKEN and order, and once the wait has lasted a
  tick (in which the queue, the mailbox and the uplink have emptied) only the latter.
  That makes it safe to forget a command that was not answered in time.  A lemma for
  each handler of the controller says whether it starts, ends or leaves a wait
  (`FlightStarts`, `FlightEnds`, `FlightShrinks`).

The assumptions are the named `ASSUME`s of the modules, and the hypotheses named
above: `FloorsFit`, and those of the link.
Only model-checked is liveness (`DueIsServed`, `EveryFrameArrives`,
`BelievedLowIsProbed`, `BeliefSettles`, `ListenersRegainSync`,
`SessionReachesAll`, `SleepEnds`), which is beyond the prover.  Every invariant of the
passing runs, and both of their action properties that are not liveness
(`NothingTakenBack` and the refinement `ImplementsFifo`), are theorems.

## 5. Findings

`PROJECT.json` quotes the line the code contradicts.  The first four are runs;
of the others section 3 names the configuration.

1. **The hold drops what it should hold** (`Link_Hold`).  After WINDOW_BEGIN the
   first-send stamps move two frames forward.  An entry sent less than that ago
   (standby time does not count) then has a stamp in the future, its unsigned age
   is huge, and the next drain drops it.
2. **Acknowledged, never received** (`Link_Session`): frames of a new session
   under the base's old window.
3. **A dark node believed bright** (`Power_Dark`).  A node that fades out at a
   step down cannot say that it took it.  The base goes on believing the full
   power, and probes only nodes it believes below it.
4. **A stale node that sleeps** (`Join_Deaf`).  The receiver follows the duty
   phase, and the duty phase stands still without sync: the node calls AWAKEN with
   its receiver off.
5. **Heard, and sent again** (`OnlyGapsAreResent`).  A frame that does not fit goes to the
   tail of the queue; the one that overtakes it starts the base's window; the late one
   then leaves the window as it is, so that the pass suppresses its acknowledgement as
   a repeat.  The node sends it again two frames later, with the RETX flag, which forces
   the acknowledgement.
6. **More than one retransmission per slot** (`OneRetxPerSlot`): the fallback
   choice for an empty queue does not look at the slot's mark.
7. **A forced resend that is never sent** (`ForcedAckIsDue`): WINDOW_BEGIN sets
   `forceResend` but not `dirty`.
8. **WINDOW_END before the last bundle** (`EndAfterBundles`): a frame that does
   not fit goes to the tail of the queue.
9. **TIME_SYNC airtime is not compensated** (`ScheduledSendsDisjoint` at SF9): a
   node's clock is behind by it.  SF9, SF10 and SF12 do not satisfy `LagFits`; SF10
   and SF12 do not satisfy `WakeFits` either (330 and 660 ms against guard and
   wake-ahead of 300 and 400 ms), so that a receiver may still be off when the base
   begins its slot.
10. **The loop un-pins a node** (`LoopNeverUnpins`): a STATUS from before an
   operator's STATIC makes the base decide for a node that is about to be pinned.
11. **Rows of another window** (`RowsOfTheirWindow`): stamped in the order of
    arrival.
12. **False losses after a command** (`LossAccounted` without its condition):
    AWAKEN and CMD_ACK have counters of their own, and are observed as telemetry.
13. **Frames before the first one count as received** (`MissingIsExact`), and hide
    as many losses.
14. **A reading's validity is the first one's** (`ShownWhenValid`): the edge shows
    the last good value of a sensor that failed within a bundle as measured.
15. **Lines too long for the frame** (`EveryLengthArrives`): the debug sink allows more
    than the base's encoder and the edge's parser take.
16. **Two nodes, one id** (`EveryIdIsTheBases`): nodes whose hashes have one low byte
    listen at one temporary address until they have an id, and both take the first
    that comes.

Not findings, but visible in the models: a node whose SPS30 fails to wake is in
the Error phase for good, and one whose GPS failed to begin keeps
waiting for a first fix.  A reboot of the base may give an id to a second node
while the first still uses it.  A serial parser out of step loses the frame behind one
whose checksum is the first mark (AA AA 55: the second AA is a wrong second mark and
not tried as a first one, `uart_receiver.py`, lines 59-61).

## 6. Not modelled, and what is assumed

* **Left out as pure input and output**: the layout of packets, log text, register
  and bus access, the battery's ADC, entry points, the ICM20948 (commented out of
  the node's array), the sniffer, operator tools, the monitor's plots.
* **Left out of the edge**: ring buffers and the telemetry cache are a display's
  view of files; the profile lock is one comparison with a file, and
  `state_store` relies on the atomic rename of the file system.
* **Code nobody calls or selects**: strict-link-ACK, `changeEnableState`,
  `resetSensors`; `awakenOnlyMode` is a build for bench tests.
* **Not composed**: the four kinds of frame of one slot 0.  `BaseAck` lets the
  slot be full at any time, `Join` and `PowerLoop` let a frame be refused; that
  their order of priority starves nobody under sustained traffic is not shown.
  `Join` takes from `TdmaSlots` that a node that listens hears the base.
* **Assumed of numbers**: the millisecond counter does not wrap; a window has under
  255 readings (`DutyAssumption`), beyond which WINDOW_END would say 255.
* **Assumed of nodes**: a node beyond the table is refused for ever, by design; in
  `EdgeLoss` and `EdgeWindows` markers leave in the order they were made, and a
  frame comes late by `Reach` at most.
* **Conversions**: floating-point values are whole numbers in `BundleCodec`; SNR is
  one of three classes in `TxPower`; a checksum is some function of the bytes.
