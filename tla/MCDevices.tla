----------------------------- MODULE MCDevices ------------------------------
(***************************************************************************)
(* Small instances for TLC of the components that share nothing: the ring  *)
(* buffer, the duty cycle with its sensors, the bundles, the two trackers  *)
(* of the edge and the serial line to it.  A behaviour is one of one of    *)
(* them, chosen at the start; the others stay as they began.               *)
(***************************************************************************)
EXTENDS TxQueue, DutyCycle, BundleCodec, EdgeLoss, EdgeWindows, UartFrames

VARIABLE machine

MCWakeDelay == [k \in Sensor |-> CASE k = "sps30" -> 1 [] k = "wind" -> 2 [] OTHER -> 0]
MCFloor == [k \in Sensor |-> 1]

Durations(least, active, period, warmup, cycle, standby, overrun) ==
  [minSleep |-> least, active |-> active, period |-> period, warmup |-> warmup,
   cyclePeriod |-> cycle, minStandby |-> standby, overrun |-> overrun]

MCConfig ==
  [m \in {"continuous", "triggered", "timed", "hybrid"} |->
     CASE m = "continuous" -> Durations(0, 0, 2, 2, 0, 0, 0)
       [] m = "triggered"  -> Durations(2, 4, 1, 2, 0, 0, 0)
       [] m = "timed"      -> Durations(0, 8, 2, 2, 16, 2, 4)
       [] m = "hybrid"     -> Durations(2, 4, 1, 2, 9, 2, 0)]

MCSensorOf == [wind |-> "wind", temp |-> "sht31"]
MCUnit     == [wind |-> 1, temp |-> 4]
MCLeast    == [wind |-> 0, temp |-> -2]
MCMost     == [wind |-> 0, temp |-> 1]
MCValues   == [wind |-> {5}, temp |-> {-3, 2, 6}]

\* Marks and lengths among the data, so that behind a false M0 or inside a frame another
\* seems to begin; a checksum that is M0; data too short and too long for the parser, and
\* too long to be written.
MCData == [1 .. 2 -> {1, 8}]
          \cup {<<9, 4, 1>>, <<1, 8, 9>>, <<9, 4, 1, 1>>, <<8>>, <<1, 8, 9, 4, 1>>,
                [k \in 1 .. 7 |-> 1]}

allVars == <<vars, dutyVars, codecVars, lossVars, windowVars, uartVars, machine>>

MCInit ==
  /\ Init /\ DutyInit /\ CodecInit /\ LossInit /\ WindowInit /\ UartInit
  /\ machine \in {"queue", "duty", "codec", "loss", "windows", "uart"}
  /\ machine # "duty" => mode = "timed" /\ sensor.gps = GpsBegun(TRUE)

QueueSteps ==
  /\ machine = "queue" /\ Next
  /\ UNCHANGED <<dutyVars, codecVars, lossVars, windowVars, uartVars, machine>>

DutySteps ==
  /\ machine = "duty" /\ DutyNext
  /\ UNCHANGED <<vars, codecVars, lossVars, windowVars, uartVars, machine>>

CodecSteps ==
  /\ machine = "codec" /\ CodecNext
  /\ UNCHANGED <<vars, dutyVars, lossVars, windowVars, uartVars, machine>>

LossSteps ==
  /\ machine = "loss" /\ LossNext
  /\ UNCHANGED <<vars, dutyVars, codecVars, windowVars, uartVars, machine>>

WindowSteps ==
  /\ machine = "windows" /\ WindowNext
  /\ UNCHANGED <<vars, dutyVars, codecVars, lossVars, uartVars, machine>>

UartSteps ==
  /\ machine = "uart" /\ UartNext
  /\ UNCHANGED <<vars, dutyVars, codecVars, lossVars, windowVars, machine>>

MCNext ==
  \/ QueueSteps \/ DutySteps \/ CodecSteps
  \/ LossSteps \/ WindowSteps \/ UartSteps

\* The fairness of DutySpec, where the duty cycle is what runs.
MCFairness == machine = "duty" => DutyFairness

MCSpec == MCInit /\ [][MCNext]_allVars /\ MCFairness

=============================================================================
