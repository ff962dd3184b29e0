------------------------------ MODULE DutyCycle ------------------------------
(***************************************************************************)
(* DutyCycleController, the sensors under it, and the part of the node's   *)
(* loop that turns readings into bundles and windows.  One Update is one   *)
(* pass of SmartFiresNodeApp::update().                                    *)
(*                                                                         *)
(* The clock is kept as the time since each moment the code remembers, in  *)
(* ticks, and as far as the code compares it with anything; what nobody    *)
(* reads until it is set again is kept at its first value.                 *)
(***************************************************************************)
EXTENDS Sensors, FiniteSets

CONSTANTS Config,         \* for each mode a build can choose, its DutyCycleConfig
          Bundle,         \* readings in a full bundle: maxDeltas + 1
          MaxCount,       \* 16#FF, the most that sample_count of PKT_WINDOW_END says
          Horizon,        \* bound: the controller's times are not told apart beyond it
          Lateness,       \* bound: how long a pass of the loop may take
          MaxDutyFaults   \* bound: how often a chip or the sync fails

Modes == DOMAIN Config
Times == 0 .. Horizon

\* What SensingConfig.h asserts of its profiles; a warm-up lasts as long as any sensor's, and
\* no window has so many readings that sendWindowMarker caps their number.
ASSUME DutyAssumption ==
  /\ \A m \in Modes :
       /\ Config[m] \in [minSleep : Times, active : Times, period : Times, warmup : Times,
                         cyclePeriod : Times, minStandby : Times, overrun : Times]
       /\ Config[m].active + Config[m].overrun <= Horizon
       /\ Config[m].period > 0
       /\ \A s \in Sensor : WakeDelay[s] <= Config[m].warmup
       /\ m \in {"timed", "hybrid"} =>
            Config[m].cyclePeriod > 0 /\ Config[m].minStandby \in 1 .. Config[m].cyclePeriod
  /\ Modes \subseteq {"continuous", "triggered", "timed", "hybrid"}
  /\ Horizon \in Nat
  /\ Bundle \in Nat \ {0, 1}
  /\ Lateness \in Nat \ {0}
  /\ MaxDutyFaults \in Nat
  /\ MaxCount \in Nat
  /\ \A m \in Modes : Config[m].active + Config[m].overrun < MaxCount * Config[m].period

VARIABLES mode,     \* the mode of the build
          duty,     \* the controller
          sensor,   \* the sensors
          packet,   \* the PacketHandler's accumulator, and what became of the window's readings
          synced,   \* the node has fresh sync
          failed    \* how often a sensor or the sync failed

dutyVars == <<mode, duty, sensor, packet, synced, failed>>

cfg     == Config[mode]
enabled == mode # "continuous"
triggerWakeEnabled == mode \in {"triggered", "hybrid"}
timedWakeEnabled   == mode \in {"timed", "hybrid"}

Phases == {"WarmingUp", "ActiveSampling", "CooldownSleeping", "IdleSleeping", "Error"}
Asleep(d) == d.phase \in {"CooldownSleeping", "IdleSleeping"}

\* What the surroundings decide during a pass: what fails, whether there is a fix,
\* whether a reading of the trigger is far off its baseline, whether a STATUS is due.
Failures == {"sps30 command", "sps30 read", "sht31 read"}
Answers == [fails : SUBSET Failures, sky : BOOLEAN, far : BOOLEAN, status : BOOLEAN]
Good(a, what) == what \notin a.fails

-----------------------------------------------------------------------------
\* The sensors of the controller, in the order of the array.

AllAged(dt) ==
  [sht31 |-> Aged("sht31", sensor["sht31"], dt), gps  |-> Aged("gps", sensor["gps"], dt),
   sps30 |-> Aged("sps30", sensor["sps30"], dt), wind |-> Aged("wind", sensor["wind"], dt)]

Serviced(x) == [sht31 |-> ShtService(x["sht31"]), gps  |-> GpsService(x["gps"]),
                sps30 |-> SpsService(x["sps30"]), wind |-> WindService(x["wind"])]

\* Without a first fix the GPS is neither put to sleep nor woken.
PutToSleep(x, fix, a) ==
  [x EXCEPT !["gps"]   = IF fix THEN GpsSleep(@) ELSE @,
            !["sps30"] = SpsSleep(@, Good(a, "sps30 command")),
            !["wind"]  = WindSleep(@)]

\* The first sensor that does not wake ends it.
WokenGps(x, fix)  == IF fix THEN [x EXCEPT !["gps"] = GpsWake(@)] ELSE x
WokenSps(x, a)    == [x EXCEPT !["sps30"] = SpsWake(@, Good(a, "sps30 command"))]
Woken(x, fix, a) ==
  LET g == WokenGps(x, fix)
      p == WokenSps(g, a)
  IN  IF fix /\ ~g["gps"].healthy THEN g
      ELSE IF ~p["sps30"].healthy THEN p
      ELSE [p EXCEPT !["wind"] = WindWake(@)]

AllWoke(x, fix) == /\ fix => x["gps"].healthy
                   /\ x["sps30"].healthy /\ x["wind"].healthy

Sampled(x, a) ==
  [sht31 |-> IF ShtReady(x["sht31"]) THEN ShtSample(x["sht31"], Good(a, "sht31 read")) ELSE x["sht31"],
   gps   |-> IF GpsReady(x["gps"]) THEN GpsSample(x["gps"], a.sky) ELSE x["gps"],
   sps30 |-> IF SpsReady(x["sps30"]) THEN SpsSample(x["sps30"], Good(a, "sps30 read")) ELSE x["sps30"],
   wind  |-> IF WindReady(x["wind"]) THEN WindSample(x["wind"]) ELSE x["wind"]]

SampledAny(x, a) == \/ ShtReady(x["sht31"]) /\ Good(a, "sht31 read")
                    \/ GpsReady(x["gps"])
                    \/ SpsReady(x["sps30"]) /\ Good(a, "sps30 read")
                    \/ WindReady(x["wind"])

\* sensor.valid of the GPS is the fix of its last reading.
FixSeen(d, x) == [d EXCEPT !.fix = @ \/ x["gps"].valid]

-----------------------------------------------------------------------------
\* The controller's phases.

Warming(d)  == [d EXCEPT !.phase = "WarmingUp", !.age = 0, !.cycle = 0, !.count = 0,
                         !.closed = 0, !.overran = FALSE, !.planned = 0]
Sampling(d) == [d EXCEPT !.phase = "ActiveSampling", !.age = 0, !.fresh = FALSE, !.tick = cfg.period]
Halted(d)   == [d EXCEPT !.phase = "Error", !.age = 0]
Idle(d)     == [d EXCEPT !.phase = "IdleSleeping", !.age = 0]

\* Slip: what is left of the cycle, though it be nothing.
PlannedWithoutFloor(elapsed) == IF cfg.cyclePeriod > elapsed THEN cfg.cyclePeriod - elapsed ELSE 0

\* The standby that keeps the wake-to-wake period, and a floor under it.
Planned(elapsed) ==
  IF cfg.cyclePeriod = 0 THEN 0
  ELSE IF cfg.cyclePeriod < elapsed + cfg.minStandby THEN cfg.minStandby
  ELSE cfg.cyclePeriod - elapsed

Cooling(d) == [d EXCEPT !.phase = "CooldownSleeping", !.age = 0, !.slept = 0, !.latched = FALSE,
                        !.fresh = FALSE, !.planned = Planned(d.cycle)]

\* A whole bundle is waited for, not beyond the overrun.
WindowShouldClose(d) ==
  /\ d.age >= cfg.active
  /\ ~d.hold \/ cfg.overrun = 0 \/ d.age >= cfg.active + cfg.overrun

Closed(d, x) ==
  Cooling([d EXCEPT !.closed = d.count, !.overran = d.hold,
                    !.baseline = @ \/ x["sht31"].valid])

\* A tick of the sampling; whether it sampled anything decides over the reading.  The count
\* goes on to 16#FFFF, but beyond MaxCount only where no window ends.
Ticked(d, any) ==
  IF any THEN [d EXCEPT !.tick = 0, !.fresh = TRUE, !.count = Later(@, 1, MaxCount)]
  ELSE [d EXCEPT !.tick = 0]

\* Each step maps the controller and its sensors to what they are after it.
Pair(d, x) == [duty |-> d, sensor |-> x]

UpdateSampling(d, x, a) ==
  IF enabled /\ WindowShouldClose(d) THEN Pair(Closed(d, x), PutToSleep(x, d.fix, a))
  ELSE IF d.tick >= cfg.period THEN Pair(Ticked(d, SampledAny(x, a)), Sampled(x, a))
  ELSE Pair(d, x)

UpdateWarming(d) == IF d.age >= cfg.warmup THEN Sampling(d) ELSE d

\* The first valid reading sets the baseline, a later one may latch the trigger.
TriggerRead(x, a) == triggerWakeEnabled /\ ShtReady(x["sht31"])
Latching(d, x, a) ==
  IF ~TriggerRead(x, a) \/ ~Good(a, "sht31 read") THEN d
  ELSE IF ~d.baseline THEN [d EXCEPT !.baseline = TRUE]
  ELSE [d EXCEPT !.latched = @ \/ a.far]
TriggerSampled(x, a) ==
  IF TriggerRead(x, a) THEN [x EXCEPT !["sht31"] = ShtSample(@, Good(a, "sht31 read"))] ELSE x

WakeDue(d) == \/ triggerWakeEnabled /\ d.latched /\ d.slept >= cfg.minSleep
              \/ timedWakeEnabled /\ d.planned > 0 /\ d.slept >= d.planned

Wakened(d, x, a) ==
  LET w == Woken(x, d.fix, a)
  IN  Pair(IF AllWoke(w, d.fix) THEN Warming(d) ELSE Halted(d), w)

UpdateSleeping(d, x, a) ==
  LET l == Latching(d, x, a)
      t == TriggerSampled(x, a)
  IN  IF WakeDue(l) THEN Wakened(l, t, a)
      ELSE IF l.phase = "CooldownSleeping" /\ l.slept >= cfg.minSleep THEN Pair(Idle(l), t)
      ELSE Pair(l, t)

\* DutyCycleController::update().
Controlled(d, x, a) ==
  LET s == Serviced(x)
      f == FixSeen(d, s)
  IN  CASE f.phase = "ActiveSampling" -> UpdateSampling(f, s, a)
        [] f.phase = "WarmingUp"      -> Pair(UpdateWarming(f), s)
        [] Asleep(f)                  -> UpdateSleeping(f, s, a)
        [] OTHER                      -> Pair(f, s)

-----------------------------------------------------------------------------
(***************************************************************************)
(* The node's side.  What becomes of a window's readings is history, and   *)
(* kept in Timed mode, where windows are announced:                        *)
(*   held         readings in the accumulator, the reference included      *)
(*   sent, lost   those of the window in bundles, and those dropped        *)
(*   runt         the bundle that closed the window was not full           *)
(***************************************************************************)
Windowed == mode = "timed"

\* Slip: the hold a pass publishes is that of the pass before.
HeldBefore(d, p) == d.hold

Held(d, p) == p.held > 0

\* Slip: the deltas are counted, and the reference forgotten.
PushedLate(p) ==
  IF p.held + 1 <= Bundle THEN [p EXCEPT !.held = @ + 1]
  ELSE [p EXCEPT !.held = 0, !.sent = IF Windowed THEN @ + Bundle ELSE @]

Pushed(p) ==
  IF p.held + 1 < Bundle THEN [p EXCEPT !.held = @ + 1]
  ELSE [p EXCEPT !.held = 0, !.sent = IF Windowed THEN @ + Bundle ELSE @]

\* Slip: the readings left over stay in the accumulator.
NotFlushed(p) == p

\* What is left at the close of a window becomes a bundle, full or not.
Flushed(p) == [p EXCEPT !.held = 0, !.sent = @ + p.held, !.runt = p.held > 0]

\* A new session drops the accumulator.
Reset(p) == [p EXCEPT !.held = 0, !.lost = IF Windowed THEN @ + p.held ELSE @]

Empty == [held |-> 0, sent |-> 0, lost |-> 0, runt |-> FALSE]

\* updateWindowMarkers(): an update changes the phase once at most.
Marked(p, before, after) ==
  IF ~Windowed \/ before = after THEN p
  ELSE IF after = "WarmingUp" THEN Empty
  ELSE IF before = "ActiveSampling" THEN Flushed(p)
  ELSE p

\* Slip: a STATUS is made up while the sensors sleep.
StatusAnyway(d, a) == a.status

StatusDue(d, a) == a.status /\ ~Asleep(d)

\* STATUS reads the GPS outside the sampling.
Refreshed(d, x, a) ==
  IF StatusDue(d, a) /\ GpsReady(x["gps"])
  THEN LET y == [x EXCEPT !["gps"] = GpsSample(@, a.sky)] IN Pair(FixSeen(d, y), y)
  ELSE Pair(d, x)

\* What reads each time, in which phases; elsewhere it is kept at 0.
AgeBound(d)   == CASE d.phase = "WarmingUp"      -> cfg.warmup
                   [] d.phase = "ActiveSampling" -> cfg.active + cfg.overrun
                   [] OTHER                      -> 0
SleptBound(d) == IF ~Asleep(d) THEN 0 ELSE IF d.planned > cfg.minSleep THEN d.planned ELSE cfg.minSleep
CycleBound(d) == IF Asleep(d) THEN 0 ELSE cfg.cyclePeriod
TickBound(d)  == IF d.phase = "ActiveSampling" THEN cfg.period ELSE 0

Elapsed(d, dt) ==
  [d EXCEPT !.age   = Later(@, dt, AgeBound(d)),   !.slept = Later(@, dt, SleptBound(d)),
            !.cycle = Later(@, dt, CycleBound(d)), !.tick  = Later(@, dt, TickBound(d))]

\* update() with fresh sync, dt after the last one.
Pass(dt, a) ==
  /\ synced
  /\ \E d \in {[Elapsed(duty, dt) EXCEPT !.hold = Held(duty, packet)]},
        x \in {AllAged(dt)} :
     \E c \in {Controlled(d, x, a)} :
     \E r \in {Refreshed(c.duty, c.sensor, a)}, m \in {Marked(packet, duty.phase, c.duty.phase)} :
       /\ duty' = [r.duty EXCEPT !.fresh = FALSE]
       /\ sensor' = r.sensor
       /\ packet' = IF c.duty.phase = "ActiveSampling" /\ c.duty.fresh THEN Pushed(m) ELSE m
  /\ failed' = failed + Cardinality(a.fails)
  /\ UNCHANGED <<mode, synced>>

\* Without it update() returns before the controller and the sensors have their turn.
Wait(dt) ==
  /\ ~synced
  /\ duty' = Elapsed(duty, dt)
  /\ sensor' = AllAged(dt)
  /\ UNCHANGED <<mode, packet, synced, failed>>

LoseSync ==
  /\ synced /\ synced' = FALSE
  /\ failed < MaxDutyFaults /\ failed' = failed + 1
  /\ UNCHANGED <<mode, duty, sensor, packet>>

RegainSync ==
  /\ ~synced /\ synced' = TRUE
  /\ UNCHANGED <<mode, duty, sensor, packet, failed>>

\* A TIME_SYNC of another session.
ChangeSession ==
  /\ synced' = TRUE
  /\ packet' = Reset(packet)
  /\ failed < MaxDutyFaults /\ failed' = failed + 1
  /\ UNCHANGED <<mode, duty, sensor>>

\* beginSensors(): without its SHT31, SPS30 or wind sensor a node does not run.
SensorsBegun(gps) == [sht31 |-> ShtBegun, gps |-> GpsBegun(gps), sps30 |-> SpsBegun, wind |-> WindBegun]

\* begin() wakes them; the GPS, without its first fix, has not been to sleep.
DutyInit ==
  /\ mode \in Modes
  /\ \E ok \in BOOLEAN :
       sensor = [SensorsBegun(ok) EXCEPT !["sps30"] = SpsWake(@, TRUE), !["wind"] = WindWake(@)]
  /\ duty = [phase |-> "WarmingUp", age |-> 0, slept |-> 0, cycle |-> 0, tick |-> 0,
             latched |-> FALSE, baseline |-> FALSE, planned |-> 0, count |-> 0, closed |-> 0,
             overran |-> FALSE, fresh |-> FALSE, hold |-> FALSE, fix |-> FALSE]
  /\ packet = Empty
  /\ synced = FALSE
  /\ failed = 0

Passes == \E dt \in 1 .. Lateness, a \in Answers :
            /\ failed + Cardinality(a.fails) <= MaxDutyFaults
            /\ a.sky => ~duty.fix
            /\ a.far => triggerWakeEnabled /\ Asleep(duty)
            /\ Pass(dt, a)

DutyNext == Passes \/ (\E dt \in 1 .. Lateness : Wait(dt)) \/ LoseSync \/ RegainSync \/ ChangeSession

\* The loop runs for ever, and Join says when sync comes back.
DutyFairness == WF_dutyVars(Passes) /\ WF_dutyVars(RegainSync)

DutySpec == DutyInit /\ [][DutyNext]_dutyVars /\ DutyFairness

-----------------------------------------------------------------------------
DutyTypeOK ==
  /\ mode \in Modes
  /\ duty \in [phase : Phases, age : Times, slept : Times, cycle : Times, tick : 0 .. cfg.period,
               latched : BOOLEAN, baseline : BOOLEAN, planned : Times, count : 0 .. MaxCount,
               closed : 0 .. MaxCount, overran : BOOLEAN, fresh : BOOLEAN, hold : BOOLEAN,
               fix : BOOLEAN]
  /\ DOMAIN sensor = Sensor
  /\ \A k \in Sensor : sensor[k] \in SensorType(k)
  /\ packet \in [held : 0 .. Bundle - 1, sent : 0 .. MaxCount, lost : 0 .. MaxCount, runt : BOOLEAN]
  /\ synced \in BOOLEAN
  /\ failed \in 0 .. MaxDutyFaults

(***************************************************************************)
(* Timed: no reading crosses from one window into another, and the count   *)
(* PKT_WINDOW_END carries is the number of readings the window's bundles   *)
(* hold, but for those a new session dropped.                              *)
(***************************************************************************)
WindowAccounted ==
  Windowed =>
    /\ duty.phase = "ActiveSampling" => duty.count = packet.sent + packet.lost + packet.held
    /\ Asleep(duty) => packet.held = 0 /\ duty.closed = packet.sent + packet.lost

(***************************************************************************)
(* Timed: "every bundle on the air carries a full maxDeltas+1 samples"     *)
(* (PacketHandler.h:76) unless the window was held to the end of its       *)
(* overrun, and then the controller knows.                                 *)
(***************************************************************************)
RuntOnlyIfOverran == Windowed /\ Asleep(duty) /\ packet.runt => duty.overran

(***************************************************************************)
(* A reading that a bundle reports valid was taken after the sensor had    *)
(* been woken for this window and had warmed up: a failed read, a command  *)
(* that failed or a first tick that came early never leaves that of the    *)
(* window before in its place.                                             *)
(***************************************************************************)
ReadingsAreThisWindows ==
  duty.phase = "ActiveSampling" /\ duty.count > 0 =>
    \A k \in Heavy : sensor[k].valid => sensor[k].current

(***************************************************************************)
(* The GPS stays awake between windows exactly until its first fix.        *)
(***************************************************************************)
GpsAwakeUntilFix ==
  Asleep(duty) /\ sensor["gps"].healthy => (sensor["gps"].state = "Sleeping") = duty.fix

(***************************************************************************)
(* Sleep ends: by the timer where there is one, also when a lost sync has  *)
(* used up the cycle; by the trigger once it is latched.                   *)
(***************************************************************************)
SleepEnds == Asleep(duty) /\ (timedWakeEnabled \/ duty.latched) ~> ~Asleep(duty)

=============================================================================
