------------------------------- MODULE Sensors -------------------------------
(***************************************************************************)
(* The four sensors a node carries: SHT31 (always on, the trigger), PA1010D*)
(* GPS in backup mode (the first-fix sensor), SPS30 and wind (both with a  *)
(* warm-up).  A sensor is a record:                                        *)
(*   state, healthy   _state, _healthy                                     *)
(*   wake, last       the time since _wakeStartMs and since _lastSampleMs, *)
(*                    as far as the code tells it apart                    *)
(*   valid            _reading.valid; for the GPS also _reading.fix        *)
(*   current          history: the reading was taken since the last wake   *)
(* An operation returns true exactly if it leaves the sensor healthy;      *)
(* only sample() has a result of its own.  What the chip answers is an     *)
(* argument where it can differ: the GPS and wind drivers, once begun,     *)
(* never fail a command, and the ADC's range is the configured one.        *)
(***************************************************************************)
EXTENDS Naturals

Sensor == {"sht31", "gps", "sps30", "wind"}
Heavy  == {"sps30", "wind"}     \* SensorDutyClass::WarmupHeavy

CONSTANTS WakeDelay,   \* wakeDelayMs of each sensor
          Floor        \* minSamplePeriodMs of each sensor

ASSUME SensorsAssumption == WakeDelay \in [Sensor -> Nat] /\ Floor \in [Sensor -> Nat]

States == {"Off", "Sleeping", "Waking", "Ready", "Error"}
SensorType(k) == [state : States, healthy : BOOLEAN, wake : 0 .. WakeDelay[k], last : 0 .. Floor[k],
                  valid : BOOLEAN, current : BOOLEAN]

\* The time dt after t, told apart up to the bound.
Later(t, dt, bound) == IF t + dt > bound THEN bound ELSE t + dt

Aged(k, s, dt) == [s EXCEPT !.wake = Later(@, dt, WakeDelay[k]), !.last = Later(@, dt, Floor[k])]

Begun(k, state, healthy) ==
  [state |-> state, healthy |-> healthy, wake |-> WakeDelay[k], last |-> Floor[k],
   valid |-> FALSE, current |-> FALSE]

Broken(s)  == [s EXCEPT !.state = "Error", !.healthy = FALSE]
Slept(s)   == [s EXCEPT !.state = "Sleeping"]
Opening(s) == [s EXCEPT !.state = "Waking", !.wake = 0, !.current = FALSE]
Awake(s)   == s.state \in {"Ready", "Waking"}

Opened(k, s) == IF s.state = "Waking" /\ s.wake >= WakeDelay[k] THEN [s EXCEPT !.state = "Ready"]
                ELSE s

Read(s, good) == [s EXCEPT !.valid = good, !.last = 0, !.current = TRUE]

-----------------------------------------------------------------------------
\* ready(); the wind sensor's _hasSampled stands for a last sample long ago.
ShtReady(s)  == s.healthy /\ s.state = "Ready" /\ s.last >= Floor["sht31"]
GpsReady(s)  == s.healthy /\ s.state = "Ready" /\ s.last >= Floor["gps"]
SpsReady(s)  == s.healthy /\ s.state = "Ready" /\ s.last >= Floor["sps30"]
WindReady(s) == s.healthy /\ s.state = "Ready" /\ s.last >= Floor["wind"]

\* begin(), and the reset() the controller tries when it fails.  The GPS answers the
\* reset without beginning again, and the node goes on without it.
ShtBegun     == Begun("sht31", "Ready", TRUE)
SpsBegun     == Begun("sps30", "Sleeping", TRUE)
WindBegun    == Begun("wind", "Sleeping", TRUE)
GpsReset     == Begun("gps", "Off", FALSE)
GpsBegun(ok) == IF ok THEN Begun("gps", "Ready", TRUE) ELSE GpsReset

SpsWake(s, ok) ==
  IF ~s.healthy \/ Awake(s) THEN s
  ELSE IF ok THEN Opening(s) ELSE Broken(s)

SpsSleep(s, ok) ==
  IF ~s.healthy \/ s.state = "Sleeping" THEN s
  ELSE IF ok THEN Slept(s) ELSE Broken(s)

SpsService(s) == IF s.healthy THEN Opened("sps30", s) ELSE s

\* Slip: a failed read leaves the old reading valid.
SpsSampleKeeps(s, good) == IF good THEN Read(s, TRUE) ELSE s

\* A failed read does not count as a sample.
SpsSample(s, good) == IF good THEN Read(s, TRUE) ELSE [s EXCEPT !.valid = FALSE]

\* An unhealthy wind sensor is put into Error by whatever is asked of it.
WindWake(s) ==
  IF ~s.healthy THEN Broken(s) ELSE IF Awake(s) THEN s ELSE Opening(s)

WindSleep(s)   == IF s.healthy THEN Slept(s) ELSE Broken(s)
WindService(s) == IF s.healthy THEN Opened("wind", s) ELSE Broken(s)
WindSample(s)  == Read(s, TRUE)

GpsWake(s)  == IF s.healthy THEN Opening(s) ELSE s
GpsSleep(s) == IF s.healthy THEN Slept(s) ELSE s

\* Asleep it is not polled.
GpsService(s) == IF s.healthy /\ s.state # "Sleeping" THEN Opened("gps", s) ELSE s

\* A reading without a fix is a reading.
GpsSample(s, fix) == Read(s, fix)

ShtService(s) == IF s.healthy THEN s ELSE Broken(s)
ShtSample(s, good) == Read(s, good)

=============================================================================
