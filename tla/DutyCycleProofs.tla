--------------------------- MODULE DutyCycleProofs ---------------------------
(***************************************************************************)
(* The duty cycle accounts for every reading of a window, hands out no     *)
(* reading of the window before, and keeps the GPS awake until its first   *)
(* fix: for every configuration, size of a bundle, wake delay and sampling *)
(* floor of the sensors, however long a pass of the loop takes and         *)
(* whatever a chip answers.                                                *)
(*                                                                         *)
(* A pass maps the controller and the sensors through several operators.   *)
(* Each has a lemma that says what it writes; a second layer says what a   *)
(* whole pass can be; the invariants are about one sensor, or about the    *)
(* packet, and the controller.                                             *)
(***************************************************************************)
EXTENDS DutyCycle, FiniteSetTheorems, TLAPS

DutyRec ==
  [phase : Phases, age : Times, slept : Times, cycle : Times, tick : 0 .. cfg.period,
   latched : BOOLEAN, baseline : BOOLEAN, planned : Times, count : 0 .. MaxCount,
   closed : 0 .. MaxCount, overran : BOOLEAN, fresh : BOOLEAN, hold : BOOLEAN,
   fix : BOOLEAN]

PacketRec == [held : 0 .. Bundle - 1, sent : 0 .. MaxCount, lost : 0 .. MaxCount, runt : BOOLEAN]

\* A time that is not told apart beyond its bound.
LEMMA LaterType ==
  ASSUME NEW t \in Nat, NEW dt \in Nat, NEW bound \in Nat
  PROVE  /\ Later(t, dt, bound) \in 0 .. bound
         /\ Later(t, dt, bound) = bound \/ Later(t, dt, bound) = t + dt
         /\ Later(t, dt, bound) <= t + dt
  BY DEF Later

\* What SensingConfig.h asserts, of the mode of the build.
LEMMA ConfigFacts ==
  ASSUME mode \in Modes
  PROVE  /\ cfg.minSleep \in Nat /\ cfg.active \in Nat /\ cfg.period \in Nat
         /\ cfg.warmup \in Nat /\ cfg.cyclePeriod \in Nat /\ cfg.minStandby \in Nat
         /\ cfg.overrun \in Nat /\ Horizon \in Nat
         /\ cfg.minSleep <= Horizon /\ cfg.warmup <= Horizon /\ cfg.cyclePeriod <= Horizon
         /\ cfg.minStandby <= Horizon /\ cfg.active + cfg.overrun <= Horizon
         /\ cfg.period > 0
         /\ cfg.active + cfg.overrun < MaxCount * cfg.period
         /\ \A k \in Sensor : WakeDelay[k] <= cfg.warmup
         /\ MaxCount \in Nat /\ Bundle \in Nat /\ Bundle > 1
<1>1. Config[mode] \in [minSleep : Times, active : Times, period : Times, warmup : Times,
                        cyclePeriod : Times, minStandby : Times, overrun : Times]
  BY DutyAssumption
<1>2. /\ Config[mode].active + Config[mode].overrun <= Horizon
      /\ Config[mode].period > 0
      /\ Config[mode].active + Config[mode].overrun < MaxCount * Config[mode].period
      /\ \A k \in Sensor : WakeDelay[k] <= Config[mode].warmup
      /\ Horizon \in Nat /\ MaxCount \in Nat /\ Bundle \in Nat /\ Bundle > 1
  BY DutyAssumption
<1>. QED  BY <1>1, <1>2 DEF cfg, Times

-----------------------------------------------------------------------------
(***************************************************************************)
(* What each operator on the controller writes.                            *)
(***************************************************************************)
LEMMA ElapsedWrites ==
  ASSUME mode \in Modes, NEW d \in DutyRec, NEW dt \in Nat, NEW h \in BOOLEAN
  PROVE  LET e == [Elapsed(d, dt) EXCEPT !.hold = h]
         IN  /\ Elapsed(d, dt) \in DutyRec /\ e \in DutyRec
             /\ e.phase = d.phase /\ e.count = d.count /\ e.closed = d.closed
             /\ e.overran = d.overran /\ e.fresh = d.fresh /\ e.fix = d.fix
             /\ e.planned = d.planned /\ e.hold = h
             /\ e.age = Later(d.age, dt, AgeBound(d))
             /\ e.tick = Later(d.tick, dt, TickBound(d))
<1>. DEFINE u == Elapsed(d, dt)
            e == [u EXCEPT !.hold = h]
<1>1. /\ d.age \in Nat /\ d.slept \in Nat /\ d.cycle \in Nat /\ d.tick \in Nat
      /\ d.planned \in Times
  BY ConfigFacts DEF DutyRec, Times
<1>2. /\ AgeBound(d) \in Nat /\ AgeBound(d) <= Horizon
      /\ SleptBound(d) \in Nat /\ SleptBound(d) <= Horizon
      /\ CycleBound(d) \in Nat /\ CycleBound(d) <= Horizon
      /\ TickBound(d) \in Nat /\ TickBound(d) <= cfg.period
  <2>. USE ConfigFacts
  <2>1. AgeBound(d) \in Nat /\ AgeBound(d) <= Horizon
    BY DEF AgeBound
  <2>2. SleptBound(d) \in Nat /\ SleptBound(d) <= Horizon
    BY <1>1 DEF SleptBound, Times
  <2>3. CycleBound(d) \in Nat /\ CycleBound(d) <= Horizon
    BY DEF CycleBound
  <2>4. TickBound(d) \in Nat /\ TickBound(d) <= cfg.period
    BY DEF TickBound
  <2>. QED  BY <2>1, <2>2, <2>3, <2>4
<1>3. /\ Later(d.age, dt, AgeBound(d)) \in Times
      /\ Later(d.slept, dt, SleptBound(d)) \in Times
      /\ Later(d.cycle, dt, CycleBound(d)) \in Times
      /\ Later(d.tick, dt, TickBound(d)) \in 0 .. cfg.period
  <2>1. ASSUME NEW t \in Nat, NEW b \in Nat, NEW top \in Nat, b <= top
        PROVE  Later(t, dt, b) \in 0 .. top
    BY <2>1 DEF Later
  <2>. QED  BY <1>1, <1>2, <2>1, ConfigFacts DEF Times
<1>5. /\ u \in DutyRec
      /\ u.phase = d.phase /\ u.count = d.count /\ u.closed = d.closed
      /\ u.overran = d.overran /\ u.fresh = d.fresh /\ u.fix = d.fix
      /\ u.planned = d.planned
      /\ u.age = Later(d.age, dt, AgeBound(d)) /\ u.tick = Later(d.tick, dt, TickBound(d))
  <2>. DEFINE v0 == Later(d.age, dt, AgeBound(d))
              v1 == Later(d.slept, dt, SleptBound(d))
              v2 == Later(d.cycle, dt, CycleBound(d))
              v3 == Later(d.tick, dt, TickBound(d))
  <2>1. /\ v0 \in Times /\ v1 \in Times /\ v2 \in Times /\ v3 \in 0 .. cfg.period
    BY <1>3
  <2>2. u = [d EXCEPT !.age = v0, !.slept = v1, !.cycle = v2, !.tick = v3]
    BY DEF Elapsed
  <2>. HIDE DEF v0, v1, v2, v3, u
  <2>3. u \in DutyRec
    BY <2>1, <2>2 DEF DutyRec
  <2>4. /\ u.phase = d.phase /\ u.count = d.count /\ u.closed = d.closed
        /\ u.overran = d.overran /\ u.fresh = d.fresh /\ u.fix = d.fix
        /\ u.planned = d.planned /\ u.age = v0 /\ u.tick = v3
    BY <2>2 DEF DutyRec
  <2>. QED  BY <2>3, <2>4 DEF v0, v3
<1>. HIDE DEF u
<1>6. /\ e \in DutyRec /\ e.hold = h
      /\ e.phase = u.phase /\ e.count = u.count /\ e.closed = u.closed
      /\ e.overran = u.overran /\ e.fresh = u.fresh /\ e.fix = u.fix
      /\ e.planned = u.planned /\ e.age = u.age /\ e.tick = u.tick
  BY <1>5 DEF DutyRec
<1>. HIDE DEF e
<1>. QED  BY <1>5, <1>6 DEF u, e

-----------------------------------------------------------------------------
(***************************************************************************)
(* The sensors: each operation keeps a sensor's type, and the operators on *)
(* all of them change each as said here.                                   *)
(***************************************************************************)
SensorsTyped(x) == DOMAIN x = Sensor /\ \A k \in Sensor : x[k] \in SensorType(k)

LEMMA SensorFields ==
  ASSUME NEW k \in Sensor, NEW s \in SensorType(k)
  PROVE  /\ WakeDelay[k] \in Nat /\ Floor[k] \in Nat
         /\ s.state \in States /\ s.healthy \in BOOLEAN /\ s.valid \in BOOLEAN
         /\ s.current \in BOOLEAN
         /\ s.wake \in 0 .. WakeDelay[k] /\ s.last \in 0 .. Floor[k]
  BY SensorsAssumption DEF SensorType

LEMMA SensorParts ==
  ASSUME NEW k \in Sensor, NEW s \in SensorType(k), NEW good \in BOOLEAN
  PROVE  /\ Broken(s) \in SensorType(k) /\ Slept(s) \in SensorType(k)
         /\ Opening(s) \in SensorType(k) /\ Opened(k, s) \in SensorType(k)
         /\ Read(s, good) \in SensorType(k)
         /\ [s EXCEPT !.valid = FALSE] \in SensorType(k)
<1>. /\ WakeDelay[k] \in Nat /\ Floor[k] \in Nat
     /\ 0 \in 0 .. WakeDelay[k] /\ 0 \in 0 .. Floor[k]
  BY SensorFields
<1>. USE DEF SensorType, States
<1>1. Broken(s) \in SensorType(k)
  BY DEF Broken
<1>2. Slept(s) \in SensorType(k)
  BY DEF Slept
<1>3. Opening(s) \in SensorType(k)
  BY DEF Opening
<1>4. Opened(k, s) \in SensorType(k)
  BY DEF Opened
<1>5. Read(s, good) \in SensorType(k)
  BY DEF Read
<1>6. [s EXCEPT !.valid = FALSE] \in SensorType(k)
  OBVIOUS
<1>. QED  BY <1>1, <1>2, <1>3, <1>4, <1>5, <1>6

LEMMA AgedSensor ==
  ASSUME NEW k \in Sensor, NEW s \in SensorType(k), NEW dt \in Nat
  PROVE  LET t == Aged(k, s, dt)
         IN  /\ t \in SensorType(k)
             /\ t.state = s.state /\ t.healthy = s.healthy
             /\ t.valid = s.valid /\ t.current = s.current
             /\ t.wake = Later(s.wake, dt, WakeDelay[k])
             /\ t.last = Later(s.last, dt, Floor[k])
<1>1. /\ Later(s.wake, dt, WakeDelay[k]) \in 0 .. WakeDelay[k]
      /\ Later(s.last, dt, Floor[k]) \in 0 .. Floor[k]
  <2>1. /\ s.wake \in Nat /\ s.last \in Nat /\ WakeDelay[k] \in Nat /\ Floor[k] \in Nat
    BY SensorFields
  <2>. QED  BY <2>1, LaterType
<1>. DEFINE v == Later(s.wake, dt, WakeDelay[k])
            w == Later(s.last, dt, Floor[k])
<1>3. Aged(k, s, dt) = [s EXCEPT !.wake = v, !.last = w]
  BY DEF Aged
<1>. HIDE DEF v, w
<1>4. v \in 0 .. WakeDelay[k] /\ w \in 0 .. Floor[k]
  BY <1>1 DEF v, w
<1>5. /\ Aged(k, s, dt) \in SensorType(k)
      /\ Aged(k, s, dt).state = s.state /\ Aged(k, s, dt).healthy = s.healthy
      /\ Aged(k, s, dt).valid = s.valid /\ Aged(k, s, dt).current = s.current
      /\ Aged(k, s, dt).wake = v /\ Aged(k, s, dt).last = w
  BY <1>3, <1>4 DEF SensorType
<1>. QED  BY <1>5 DEF v, w

LEMMA SpsTypes ==
  ASSUME NEW s \in SensorType("sps30"), NEW good \in BOOLEAN
  PROVE  /\ SpsWake(s, good) \in SensorType("sps30")
         /\ SpsSleep(s, good) \in SensorType("sps30")
         /\ SpsService(s) \in SensorType("sps30")
         /\ SpsSample(s, good) \in SensorType("sps30")
<1>. "sps30" \in Sensor
  BY DEF Sensor
<1>. QED  BY SensorParts DEF SpsWake, SpsSleep, SpsService, SpsSample

LEMMA WindTypes ==
  ASSUME NEW s \in SensorType("wind")
  PROVE  /\ WindWake(s) \in SensorType("wind") /\ WindSleep(s) \in SensorType("wind")
         /\ WindService(s) \in SensorType("wind") /\ WindSample(s) \in SensorType("wind")
<1>. "wind" \in Sensor
  BY DEF Sensor
<1>. QED  BY SensorParts DEF WindWake, WindSleep, WindService, WindSample

LEMMA GpsTypes ==
  ASSUME NEW s \in SensorType("gps"), NEW good \in BOOLEAN
  PROVE  /\ GpsWake(s) \in SensorType("gps") /\ GpsSleep(s) \in SensorType("gps")
         /\ GpsService(s) \in SensorType("gps") /\ GpsSample(s, good) \in SensorType("gps")
<1>. "gps" \in Sensor
  BY DEF Sensor
<1>. QED  BY SensorParts DEF GpsWake, GpsSleep, GpsService, GpsSample

LEMMA ShtTypes ==
  ASSUME NEW s \in SensorType("sht31"), NEW good \in BOOLEAN
  PROVE  /\ ShtService(s) \in SensorType("sht31")
         /\ ShtSample(s, good) \in SensorType("sht31")
<1>. "sht31" \in Sensor
  BY DEF Sensor
<1>. QED  BY SensorParts DEF ShtService, ShtSample

\* What each operator on the sensors makes of each of them.
LEMMA ServicedMap ==
  ASSUME NEW x
  PROVE  /\ DOMAIN Serviced(x) = Sensor
         /\ Serviced(x)["sht31"] = ShtService(x["sht31"])
         /\ Serviced(x)["gps"] = GpsService(x["gps"])
         /\ Serviced(x)["sps30"] = SpsService(x["sps30"])
         /\ Serviced(x)["wind"] = WindService(x["wind"])
  BY DEF Serviced, SensorsTyped, Sensor

LEMMA PutToSleepMap ==
  ASSUME NEW x, SensorsTyped(x), NEW fix \in BOOLEAN, NEW a
  PROVE  LET y == PutToSleep(x, fix, a)
         IN  /\ DOMAIN y = Sensor
             /\ y["sht31"] = x["sht31"]
             /\ (fix => y["gps"] = GpsSleep(x["gps"])) /\ (~fix => y["gps"] = x["gps"])
             /\ y["sps30"] = SpsSleep(x["sps30"], Good(a, "sps30 command"))
             /\ y["wind"] = WindSleep(x["wind"])
  BY DEF PutToSleep, SensorsTyped, Sensor

LEMMA SampledMap ==
  ASSUME NEW x, NEW a
  PROVE  LET y == Sampled(x, a)
         IN  /\ DOMAIN y = Sensor
             /\ y["sht31"] = IF ShtReady(x["sht31"])
                             THEN ShtSample(x["sht31"], Good(a, "sht31 read")) ELSE x["sht31"]
             /\ y["gps"] = IF GpsReady(x["gps"]) THEN GpsSample(x["gps"], a.sky) ELSE x["gps"]
             /\ y["sps30"] = IF SpsReady(x["sps30"])
                             THEN SpsSample(x["sps30"], Good(a, "sps30 read")) ELSE x["sps30"]
             /\ y["wind"] = IF WindReady(x["wind"]) THEN WindSample(x["wind"]) ELSE x["wind"]
  BY DEF Sampled, SensorsTyped, Sensor

LEMMA TriggerSampledMap ==
  ASSUME NEW x, SensorsTyped(x), NEW a
  PROVE  LET y == TriggerSampled(x, a)
         IN  /\ DOMAIN y = Sensor
             /\ y["sht31"] = IF TriggerRead(x, a)
                             THEN ShtSample(x["sht31"], Good(a, "sht31 read")) ELSE x["sht31"]
             /\ y["gps"] = x["gps"] /\ y["sps30"] = x["sps30"] /\ y["wind"] = x["wind"]
  BY DEF TriggerSampled, SensorsTyped, Sensor

LEMMA GpsReadMap ==
  ASSUME NEW x, SensorsTyped(x), NEW a
  PROVE  LET y == [x EXCEPT !["gps"] = GpsSample(@, a.sky)]
         IN  /\ DOMAIN y = Sensor
             /\ y["gps"] = GpsSample(x["gps"], a.sky)
             /\ y["sht31"] = x["sht31"] /\ y["sps30"] = x["sps30"] /\ y["wind"] = x["wind"]
  BY DEF SensorsTyped, Sensor

\* A wake-up: the sensors before the first that fails have been woken.
LEMMA WokenMap ==
  ASSUME NEW x, SensorsTyped(x), NEW fix \in BOOLEAN, NEW a \in Answers
  PROVE  LET w == Woken(x, fix, a)
             ok == Good(a, "sps30 command")
         IN  /\ DOMAIN w = Sensor
             /\ w["sht31"] = x["sht31"]
             /\ w["gps"] = IF fix THEN GpsWake(x["gps"]) ELSE x["gps"]
             /\ w["sps30"] \in {x["sps30"], SpsWake(x["sps30"], ok)}
             /\ w["wind"] \in {x["wind"], WindWake(x["wind"])}
             /\ AllWoke(w, fix) => /\ w["sps30"] = SpsWake(x["sps30"], ok)
                                   /\ w["wind"] = WindWake(x["wind"])
<1>. DEFINE ok == Good(a, "sps30 command")
            g == WokenGps(x, fix)
            p == WokenSps(g, a)
            v == [p EXCEPT !["wind"] = WindWake(@)]
            w == Woken(x, fix, a)
<1>. USE DEF SensorsTyped, Sensor
<1>1. /\ DOMAIN g = Sensor
      /\ g["sht31"] = x["sht31"] /\ g["sps30"] = x["sps30"] /\ g["wind"] = x["wind"]
      /\ g["gps"] = IF fix THEN GpsWake(x["gps"]) ELSE x["gps"]
  BY DEF WokenGps
<1>. HIDE DEF g
<1>2. /\ DOMAIN p = Sensor
      /\ p["sht31"] = x["sht31"] /\ p["gps"] = g["gps"] /\ p["wind"] = x["wind"]
      /\ p["sps30"] = SpsWake(x["sps30"], ok)
  BY <1>1 DEF WokenSps
<1>. HIDE DEF p
<1>3. /\ DOMAIN v = Sensor
      /\ v["sht31"] = x["sht31"] /\ v["gps"] = g["gps"] /\ v["wind"] = WindWake(x["wind"])
      /\ v["sps30"] = SpsWake(x["sps30"], ok)
  BY <1>2
<1>. HIDE DEF v
<1>4. w = IF fix /\ ~g["gps"].healthy THEN g ELSE IF ~p["sps30"].healthy THEN p ELSE v
  BY DEF Woken, g, p, v
<1>. HIDE DEF w
<1>5. CASE fix /\ ~g["gps"].healthy
  BY <1>1, <1>4, <1>5 DEF AllWoke, w
<1>6. CASE ~(fix /\ ~g["gps"].healthy) /\ ~p["sps30"].healthy
  BY <1>1, <1>2, <1>4, <1>6 DEF AllWoke, w
<1>7. CASE ~(fix /\ ~g["gps"].healthy) /\ p["sps30"].healthy
  BY <1>1, <1>3, <1>4, <1>7 DEF AllWoke, w
<1>. QED  BY <1>5, <1>6, <1>7

LEMMA SensorsStayTyped ==
  ASSUME NEW x, SensorsTyped(x), NEW fix \in BOOLEAN, NEW a \in Answers
  PROVE  /\ SensorsTyped(Serviced(x)) /\ SensorsTyped(PutToSleep(x, fix, a))
         /\ SensorsTyped(Sampled(x, a)) /\ SensorsTyped(TriggerSampled(x, a))
         /\ SensorsTyped(Woken(x, fix, a))
         /\ SensorsTyped([x EXCEPT !["gps"] = GpsSample(@, a.sky)])
<1>1. /\ x["sht31"] \in SensorType("sht31") /\ x["gps"] \in SensorType("gps")
      /\ x["sps30"] \in SensorType("sps30") /\ x["wind"] \in SensorType("wind")
  BY DEF SensorsTyped, Sensor
<1>2. ASSUME NEW y, DOMAIN y = Sensor,
             y["sht31"] \in SensorType("sht31"), y["gps"] \in SensorType("gps"),
             y["sps30"] \in SensorType("sps30"), y["wind"] \in SensorType("wind")
      PROVE  SensorsTyped(y)
  BY <1>2 DEF SensorsTyped, Sensor
<1>3. /\ a.sky \in BOOLEAN
      /\ \A what : Good(a, what) \in BOOLEAN
  BY DEF Answers, Good
<1>op. /\ \A what : /\ SpsWake(x["sps30"], Good(a, what)) \in SensorType("sps30")
                     /\ SpsSleep(x["sps30"], Good(a, what)) \in SensorType("sps30")
                     /\ SpsSample(x["sps30"], Good(a, what)) \in SensorType("sps30")
                     /\ ShtSample(x["sht31"], Good(a, what)) \in SensorType("sht31")
       /\ SpsService(x["sps30"]) \in SensorType("sps30")
       /\ ShtService(x["sht31"]) \in SensorType("sht31")
       /\ GpsWake(x["gps"]) \in SensorType("gps") /\ GpsSleep(x["gps"]) \in SensorType("gps")
       /\ GpsService(x["gps"]) \in SensorType("gps")
       /\ GpsSample(x["gps"], a.sky) \in SensorType("gps")
       /\ WindWake(x["wind"]) \in SensorType("wind") /\ WindSleep(x["wind"]) \in SensorType("wind")
       /\ WindService(x["wind"]) \in SensorType("wind")
       /\ WindSample(x["wind"]) \in SensorType("wind")
  <2>1. ASSUME NEW what
        PROVE  /\ SpsWake(x["sps30"], Good(a, what)) \in SensorType("sps30")
               /\ SpsSleep(x["sps30"], Good(a, what)) \in SensorType("sps30")
               /\ SpsSample(x["sps30"], Good(a, what)) \in SensorType("sps30")
               /\ ShtSample(x["sht31"], Good(a, what)) \in SensorType("sht31")
    <3>. DEFINE good == Good(a, what)
    <3>. good \in BOOLEAN
      BY <1>3
    <3>. HIDE DEF good
    <3>1. /\ SpsWake(x["sps30"], good) \in SensorType("sps30")
          /\ SpsSleep(x["sps30"], good) \in SensorType("sps30")
          /\ SpsSample(x["sps30"], good) \in SensorType("sps30")
          /\ ShtSample(x["sht31"], good) \in SensorType("sht31")
      BY <1>1, SpsTypes, ShtTypes
    <3>. QED  BY <3>1 DEF good
  <2>2. /\ SpsService(x["sps30"]) \in SensorType("sps30")
        /\ ShtService(x["sht31"]) \in SensorType("sht31")
    BY <1>1, SpsTypes, ShtTypes
  <2>3. /\ GpsWake(x["gps"]) \in SensorType("gps") /\ GpsSleep(x["gps"]) \in SensorType("gps")
        /\ GpsService(x["gps"]) \in SensorType("gps")
        /\ GpsSample(x["gps"], a.sky) \in SensorType("gps")
    BY <1>1, <1>3, GpsTypes
  <2>4. /\ WindWake(x["wind"]) \in SensorType("wind") /\ WindSleep(x["wind"]) \in SensorType("wind")
        /\ WindService(x["wind"]) \in SensorType("wind")
        /\ WindSample(x["wind"]) \in SensorType("wind")
    BY <1>1, WindTypes
  <2>. QED  BY <2>1, <2>2, <2>3, <2>4
<1>4. SensorsTyped(Serviced(x))
  BY <1>op, <1>2, ServicedMap
<1>5. SensorsTyped(PutToSleep(x, fix, a))
  <2>. DEFINE y == PutToSleep(x, fix, a)
  <2>1. /\ DOMAIN y = Sensor
        /\ y["sht31"] = x["sht31"]
        /\ (fix => y["gps"] = GpsSleep(x["gps"])) /\ (~fix => y["gps"] = x["gps"])
        /\ y["sps30"] = SpsSleep(x["sps30"], Good(a, "sps30 command"))
        /\ y["wind"] = WindSleep(x["wind"])
    BY PutToSleepMap
  <2>. HIDE DEF y
  <2>4. y["gps"] \in SensorType("gps")
    <3>1. CASE fix
      BY <1>op, <2>1, <3>1
    <3>2. CASE ~fix
      BY <1>1, <2>1, <3>2
    <3>. QED  BY <3>1, <3>2
  <2>2. y["wind"] \in SensorType("wind") /\ y["sps30"] \in SensorType("sps30")
    BY <1>op, <2>1, Zenon
  <2>3. SensorsTyped(y)
    BY <1>1, <1>2, <2>1, <2>2, <2>4
  <2>. QED  BY <2>3 DEF y
<1>6. SensorsTyped(Sampled(x, a))
  <2>. DEFINE y == Sampled(x, a)
  <2>1. /\ DOMAIN y = Sensor
        /\ y["sht31"] = IF ShtReady(x["sht31"])
                        THEN ShtSample(x["sht31"], Good(a, "sht31 read")) ELSE x["sht31"]
        /\ y["gps"] = IF GpsReady(x["gps"]) THEN GpsSample(x["gps"], a.sky) ELSE x["gps"]
        /\ y["sps30"] = IF SpsReady(x["sps30"])
                        THEN SpsSample(x["sps30"], Good(a, "sps30 read")) ELSE x["sps30"]
        /\ y["wind"] = IF WindReady(x["wind"]) THEN WindSample(x["wind"]) ELSE x["wind"]
    BY SampledMap
  <2>. HIDE DEF y
  <2>2. /\ y["gps"] \in SensorType("gps") /\ y["wind"] \in SensorType("wind")
        /\ y["sps30"] \in SensorType("sps30") /\ y["sht31"] \in SensorType("sht31")
    BY <1>1, <1>op, <2>1
  <2>3. SensorsTyped(y)
    BY <1>2, <2>1, <2>2
  <2>. QED  BY <2>3 DEF y
<1>7. SensorsTyped(TriggerSampled(x, a))
  <2>. DEFINE y == TriggerSampled(x, a)
  <2>1. /\ DOMAIN y = Sensor
        /\ y["sht31"] = IF TriggerRead(x, a)
                        THEN ShtSample(x["sht31"], Good(a, "sht31 read")) ELSE x["sht31"]
        /\ y["gps"] = x["gps"] /\ y["sps30"] = x["sps30"] /\ y["wind"] = x["wind"]
    BY TriggerSampledMap
  <2>. HIDE DEF y
  <2>2. y["sht31"] \in SensorType("sht31")
    BY <1>1, <1>op, <2>1
  <2>3. SensorsTyped(y)
    BY <1>1, <1>2, <2>1, <2>2
  <2>. QED  BY <2>3 DEF y
<1>8. SensorsTyped(Woken(x, fix, a))
  <2>. DEFINE y == Woken(x, fix, a)
  <2>1. /\ DOMAIN y = Sensor
        /\ y["sht31"] = x["sht31"]
        /\ y["gps"] = IF fix THEN GpsWake(x["gps"]) ELSE x["gps"]
        /\ y["sps30"] \in {x["sps30"], SpsWake(x["sps30"], Good(a, "sps30 command"))}
        /\ y["wind"] \in {x["wind"], WindWake(x["wind"])}
    BY WokenMap
  <2>. HIDE DEF y
  <2>2. /\ y["gps"] \in SensorType("gps") /\ y["wind"] \in SensorType("wind")
        /\ y["sps30"] \in SensorType("sps30")
    BY <1>1, <1>op, <2>1
  <2>3. SensorsTyped(y)
    BY <1>1, <1>2, <2>1, <2>2
  <2>. QED  BY <2>3 DEF y
<1>9. SensorsTyped([x EXCEPT !["gps"] = GpsSample(@, a.sky)])
  <2>. DEFINE y == [x EXCEPT !["gps"] = GpsSample(@, a.sky)]
  <2>1. /\ DOMAIN y = Sensor
        /\ y["gps"] = GpsSample(x["gps"], a.sky)
        /\ y["sht31"] = x["sht31"] /\ y["sps30"] = x["sps30"] /\ y["wind"] = x["wind"]
    BY GpsReadMap
  <2>. HIDE DEF y
  <2>2. y["gps"] \in SensorType("gps")
    BY <1>1, <1>op, <2>1
  <2>3. SensorsTyped(y)
    BY <1>1, <1>2, <2>1, <2>2
  <2>. QED  BY <2>3 DEF y
<1>. QED  BY <1>4, <1>5, <1>6, <1>7, <1>8, <1>9

-----------------------------------------------------------------------------
(***************************************************************************)
(* The controller: the phases it goes through and what each operator       *)
(* writes.  Carried: nothing that the invariants read, but for the fix.    *)
(***************************************************************************)
Carried(e, d) ==
  /\ e \in DutyRec
  /\ e.phase = d.phase /\ e.age = d.age /\ e.tick = d.tick /\ e.count = d.count
  /\ e.closed = d.closed /\ e.overran = d.overran /\ e.fresh = d.fresh
  /\ e.planned = d.planned /\ e.hold = d.hold

LEMMA DutyFields ==
  ASSUME mode \in Modes, NEW d \in DutyRec
  PROVE  /\ d.phase \in Phases
         /\ d.age \in Nat /\ d.tick \in 0 .. cfg.period /\ d.tick \in Nat /\ d.planned \in Times
         /\ d.cycle \in Nat /\ d.slept \in Nat
         /\ d.count \in 0 .. MaxCount /\ d.count \in Nat /\ d.closed \in 0 .. MaxCount
         /\ d.overran \in BOOLEAN /\ d.fresh \in BOOLEAN /\ d.hold \in BOOLEAN
         /\ d.fix \in BOOLEAN /\ d.latched \in BOOLEAN /\ d.baseline \in BOOLEAN
         /\ 0 \in Times /\ 0 \in 0 .. cfg.period /\ cfg.period \in 0 .. cfg.period
         /\ 0 \in 0 .. MaxCount
<1>1. /\ cfg.period \in Nat /\ MaxCount \in Nat /\ Horizon \in Nat
  BY ConfigFacts
<1>2. /\ d.phase \in Phases
      /\ d.overran \in BOOLEAN /\ d.fresh \in BOOLEAN /\ d.hold \in BOOLEAN
      /\ d.fix \in BOOLEAN /\ d.latched \in BOOLEAN /\ d.baseline \in BOOLEAN
  BY DEF DutyRec
<1>3. /\ d.age \in Times /\ d.tick \in 0 .. cfg.period /\ d.planned \in Times
      /\ d.cycle \in Times /\ d.slept \in Times
      /\ d.count \in 0 .. MaxCount /\ d.closed \in 0 .. MaxCount
  BY DEF DutyRec
<1>4. /\ d.age \in Nat /\ d.tick \in Nat /\ d.cycle \in Nat /\ d.slept \in Nat /\ d.count \in Nat
      /\ 0 \in Times /\ 0 \in 0 .. cfg.period /\ cfg.period \in 0 .. cfg.period
      /\ 0 \in 0 .. MaxCount
  BY <1>1, <1>3 DEF Times
<1>. QED  BY <1>2, <1>3, <1>4

LEMMA FixSeenWrites ==
  ASSUME mode \in Modes, NEW d \in DutyRec, NEW x, x["gps"].valid \in BOOLEAN
  PROVE  /\ Carried(FixSeen(d, x), d)
         /\ FixSeen(d, x).fix = (d.fix \/ x["gps"].valid)
<1>. DEFINE v == d.fix \/ x["gps"].valid
<1>1. FixSeen(d, x) = [d EXCEPT !.fix = v]
  BY DEF FixSeen
<1>2. v \in BOOLEAN
  OBVIOUS
<1>. HIDE DEF v
<1>3. Carried(FixSeen(d, x), d) /\ FixSeen(d, x).fix = v
  BY <1>1, <1>2 DEF Carried, DutyRec
<1>. QED  BY <1>3 DEF v

LEMMA LatchingWrites ==
  ASSUME mode \in Modes, NEW d \in DutyRec, NEW x, NEW a \in Answers
  PROVE  Carried(Latching(d, x, a), d) /\ Latching(d, x, a).fix = d.fix
<1>1. ASSUME NEW v \in BOOLEAN
      PROVE  /\ Carried([d EXCEPT !.latched = v], d) /\ [d EXCEPT !.latched = v].fix = d.fix
             /\ Carried([d EXCEPT !.baseline = v], d) /\ [d EXCEPT !.baseline = v].fix = d.fix
  BY DEF Carried, DutyRec
<1>2. Carried(d, d)
  BY DEF Carried
<1>. DEFINE v == d.latched \/ a.far
<1>3. v \in BOOLEAN
  OBVIOUS
<1>4. Latching(d, x, a) \in {d, [d EXCEPT !.baseline = TRUE], [d EXCEPT !.latched = v]}
  BY DEF Latching
<1>. HIDE DEF v
<1>5. CASE Latching(d, x, a) = d
  BY <1>2, <1>5
<1>6. CASE Latching(d, x, a) = [d EXCEPT !.baseline = TRUE]
  BY <1>1, <1>6
<1>7. CASE Latching(d, x, a) = [d EXCEPT !.latched = v]
  BY <1>1, <1>3, <1>7
<1>. QED  BY <1>4, <1>5, <1>6, <1>7

LEMMA PlannedType ==
  ASSUME mode \in Modes, NEW t \in Nat
  PROVE  Planned(t) \in Times
  BY ConfigFacts DEF Planned, Times

LEMMA WarmingWrites ==
  ASSUME mode \in Modes, NEW d \in DutyRec
  PROVE  LET w == Warming(d)
         IN  /\ w \in DutyRec /\ w.phase = "WarmingUp" /\ w.age = 0 /\ w.count = 0
             /\ w.fix = d.fix /\ w.fresh = d.fresh /\ w.hold = d.hold
  BY DutyFields DEF Warming, DutyRec, Phases

LEMMA SamplingWrites ==
  ASSUME mode \in Modes, NEW d \in DutyRec
  PROVE  LET w == Sampling(d)
         IN  /\ w \in DutyRec /\ w.phase = "ActiveSampling" /\ w.age = 0
             /\ w.tick = cfg.period /\ w.count = d.count /\ w.fix = d.fix
             /\ w.fresh = FALSE /\ w.hold = d.hold
  BY DutyFields DEF Sampling, DutyRec, Phases

LEMMA HaltedWrites ==
  ASSUME mode \in Modes, NEW d \in DutyRec
  PROVE  LET w == Halted(d)
         IN  /\ w \in DutyRec /\ w.phase = "Error" /\ w.fresh = d.fresh /\ w.hold = d.hold
             /\ w.fix = d.fix
  BY DutyFields DEF Halted, DutyRec, Phases

LEMMA IdleWrites ==
  ASSUME mode \in Modes, NEW d \in DutyRec
  PROVE  LET w == Idle(d)
         IN  /\ w \in DutyRec /\ w.phase = "IdleSleeping" /\ w.fresh = d.fresh /\ w.hold = d.hold
             /\ w.fix = d.fix /\ w.count = d.count /\ w.closed = d.closed
             /\ w.overran = d.overran
  BY DutyFields DEF Idle, DutyRec, Phases

LEMMA ClosedWrites ==
  ASSUME mode \in Modes, NEW d \in DutyRec, NEW x
  PROVE  LET w == Closed(d, x)
         IN  /\ w \in DutyRec /\ w.phase = "CooldownSleeping" /\ w.fresh = FALSE
             /\ w.count = d.count /\ w.closed = d.count /\ w.overran = d.hold
             /\ w.fix = d.fix /\ w.hold = d.hold
<1>. DEFINE b == d.baseline \/ x["sht31"].valid
            u == [d EXCEPT !.closed = d.count, !.overran = d.hold, !.baseline = b]
            n == Planned(u.cycle)
            w == [u EXCEPT !.phase = "CooldownSleeping", !.age = 0, !.slept = 0,
                           !.latched = FALSE, !.fresh = FALSE, !.planned = n]
<1>1. Closed(d, x) = w
  BY DEF Closed, Cooling
<1>2. b \in BOOLEAN
  OBVIOUS
<1>. HIDE DEF b
<1>3. /\ u \in DutyRec /\ u.count = d.count /\ u.closed = d.count
      /\ u.overran = d.hold /\ u.fix = d.fix /\ u.hold = d.hold
  BY <1>2, DutyFields DEF DutyRec
<1>. HIDE DEF u
<1>4. n \in Times
  BY <1>3, DutyFields, PlannedType
<1>. HIDE DEF n
<1>5. /\ w \in DutyRec /\ w.phase = "CooldownSleeping" /\ w.fresh = FALSE
      /\ w.count = u.count /\ w.closed = u.closed /\ w.overran = u.overran
      /\ w.fix = u.fix /\ w.hold = u.hold
  BY <1>3, <1>4, DutyFields DEF DutyRec, Phases
<1>. QED  BY <1>1, <1>3, <1>5

LEMMA TickedWrites ==
  ASSUME mode \in Modes, NEW d \in DutyRec, NEW any \in BOOLEAN
  PROVE  LET w == Ticked(d, any)
         IN  /\ w \in DutyRec /\ w.phase = d.phase /\ w.age = d.age /\ w.tick = 0
             /\ w.fix = d.fix /\ w.hold = d.hold /\ w.closed = d.closed
             /\ w.overran = d.overran
             /\ any => w.fresh = TRUE /\ w.count = Later(d.count, 1, MaxCount)
             /\ ~any => w.fresh = d.fresh /\ w.count = d.count
<1>1. ASSUME NEW n \in 0 .. MaxCount
      PROVE  LET w == [d EXCEPT !.tick = 0, !.fresh = TRUE, !.count = n]
             IN  /\ w \in DutyRec /\ w.phase = d.phase /\ w.age = d.age /\ w.tick = 0
                 /\ w.fix = d.fix /\ w.hold = d.hold /\ w.closed = d.closed
                 /\ w.overran = d.overran /\ w.fresh = TRUE /\ w.count = n
  BY DutyFields DEF DutyRec
<1>2. LET w == [d EXCEPT !.tick = 0]
      IN  /\ w \in DutyRec /\ w.phase = d.phase /\ w.age = d.age /\ w.tick = 0
          /\ w.fix = d.fix /\ w.hold = d.hold /\ w.closed = d.closed
          /\ w.overran = d.overran /\ w.fresh = d.fresh /\ w.count = d.count
  BY DutyFields DEF DutyRec
<1>3. CASE any
  <2>. DEFINE n == Later(d.count, 1, MaxCount)
              w == Ticked(d, any)
  <2>1. n \in 0 .. MaxCount
    BY DutyFields, ConfigFacts, LaterType
  <2>2. w = [d EXCEPT !.tick = 0, !.fresh = TRUE, !.count = n]
    BY <1>3 DEF Ticked
  <2>. HIDE DEF n, w
  <2>3. /\ w \in DutyRec /\ w.phase = d.phase /\ w.age = d.age /\ w.tick = 0
        /\ w.fix = d.fix /\ w.hold = d.hold /\ w.closed = d.closed
        /\ w.overran = d.overran /\ w.fresh = TRUE /\ w.count = n
    BY <1>1, <2>1, <2>2
  <2>. QED  BY <1>3, <2>3 DEF n, w
<1>4. CASE ~any
  BY <1>2, <1>4 DEF Ticked
<1>. QED  BY <1>3, <1>4

-----------------------------------------------------------------------------
(***************************************************************************)
(* What one update() of the controller can be, from what it has after the  *)
(* sensors were serviced and the fix was seen: f and s.                    *)
(***************************************************************************)
Budget == cfg.active + cfg.overrun

Closing(f, s, a, c) ==
  /\ f.phase = "ActiveSampling" /\ enabled /\ f.age >= cfg.active
  /\ f.hold => f.age >= Budget
  /\ c = Pair(Closed(f, s), PutToSleep(s, f.fix, a))

Ticking(f, s, a, c) ==
  /\ f.phase = "ActiveSampling" /\ f.tick >= cfg.period
  /\ enabled => f.age < Budget
  /\ c = Pair(Ticked(f, SampledAny(s, a)), Sampled(s, a))

Starting(f, s, c) ==
  /\ f.phase = "WarmingUp" /\ f.age >= cfg.warmup
  /\ c = Pair(Sampling(f), s)

\* Nothing to do, in any phase but sleep.
Staying(f, s, c) == ~Asleep(f) /\ c = Pair(f, s)

\* Asleep: l and t are the controller and the sensors after the trigger was read.
Waking(f, l, t, a, c) ==
  LET w == Woken(t, f.fix, a)
  IN  Asleep(f) /\ AllWoke(w, f.fix) /\ c = Pair(Warming(l), w)

Failing(f, l, t, a, c) == Asleep(f) /\ c = Pair(Halted(l), Woken(t, f.fix, a))

Sleeping(f, l, t, c) == Asleep(f) /\ (c = Pair(Idle(l), t) \/ c = Pair(l, t))

Outcome(f, s, a, c) ==
  LET l == Latching(f, s, a)
      t == TriggerSampled(s, a)
  IN  \/ Closing(f, s, a, c) \/ Ticking(f, s, a, c) \/ Starting(f, s, c) \/ Staying(f, s, c)
      \/ Waking(f, l, t, a, c) \/ Failing(f, l, t, a, c) \/ Sleeping(f, l, t, c)

LEMMA UpdateCases ==
  ASSUME mode \in Modes, NEW d \in DutyRec, NEW x, SensorsTyped(x), NEW a \in Answers
  PROVE  Outcome(FixSeen(d, Serviced(x)), Serviced(x), a, Controlled(d, x, a))
<1>. DEFINE s == Serviced(x)
            f == FixSeen(d, s)
            l == Latching(f, s, a)
            t == TriggerSampled(s, a)
            c == Controlled(d, x, a)
<1>. SUFFICES Outcome(f, s, a, c)
  OBVIOUS
<1>1. SensorsTyped(s)
  BY SensorsStayTyped
<1>2. f \in DutyRec
  <2>1. s["gps"].valid \in BOOLEAN
    BY <1>1, SensorFields DEF SensorsTyped, Sensor
  <2>. QED  BY <2>1, FixSeenWrites DEF Carried
<1>3. l.fix = f.fix /\ f.phase \in Phases /\ f.age \in Nat /\ f.tick \in Nat
  BY <1>2, LatchingWrites, DutyFields
<1>4. /\ f.phase = "ActiveSampling" => c = UpdateSampling(f, s, a)
      /\ f.phase = "WarmingUp" => c = Pair(UpdateWarming(f), s)
      /\ Asleep(f) => c = UpdateSleeping(f, s, a)
      /\ f.phase = "Error" => c = Pair(f, s)
  BY <1>3 DEF Controlled, Asleep, Phases
<1>. HIDE DEF s, f, t, c
<1>5. CASE f.phase = "ActiveSampling"
  <2>1. CASE enabled /\ WindowShouldClose(f)
    <3>1. f.age >= cfg.active /\ (f.hold => f.age >= Budget)
      BY <2>1, <1>3, ConfigFacts DEF WindowShouldClose, Budget
    <3>. QED  BY <1>4, <1>5, <2>1, <3>1 DEF UpdateSampling, Outcome, Closing
  <2>2. CASE ~(enabled /\ WindowShouldClose(f)) /\ f.tick >= cfg.period
    <3>1. enabled => f.age < Budget
      BY <2>2, <1>3, ConfigFacts DEF WindowShouldClose, Budget
    <3>. QED  BY <1>4, <1>5, <2>2, <3>1 DEF UpdateSampling, Outcome, Ticking
  <2>3. CASE ~(enabled /\ WindowShouldClose(f)) /\ ~(f.tick >= cfg.period)
    BY <1>4, <1>5, <2>3 DEF UpdateSampling, Outcome, Staying, Asleep
  <2>. QED  BY <2>1, <2>2, <2>3
<1>6. CASE f.phase = "WarmingUp"
  BY <1>4, <1>6 DEF UpdateWarming, Outcome, Starting, Staying, Asleep
<1>7. CASE f.phase = "Error"
  BY <1>4, <1>7 DEF Outcome, Staying, Asleep
<1>8. CASE Asleep(f)
  <2>1. CASE WakeDue(l)
    <3>1. c = Wakened(l, t, a)
      BY <1>4, <1>8, <2>1 DEF UpdateSleeping, t
    <3>. DEFINE w == Woken(t, f.fix, a)
    <3>2. c = Pair(IF AllWoke(w, f.fix) THEN Warming(l) ELSE Halted(l), w)
      BY <1>3, <3>1 DEF Wakened
    <3>. HIDE DEF l, w
    <3>3. CASE AllWoke(w, f.fix)
      BY <1>8, <3>2, <3>3 DEF Outcome, Waking, w, l, t
    <3>4. CASE ~AllWoke(w, f.fix)
      BY <1>8, <3>2, <3>4 DEF Outcome, Failing, w, l, t
    <3>. QED  BY <3>3, <3>4
  <2>2. CASE ~WakeDue(l)
    BY <1>4, <1>8, <2>2 DEF UpdateSleeping, Outcome, Sleeping, t
  <2>. QED  BY <2>1, <2>2
<1>9. Asleep(f) \/ f.phase \in {"ActiveSampling", "WarmingUp", "Error"}
  BY <1>3 DEF Asleep, Phases
<1>. QED  BY <1>5, <1>6, <1>7, <1>8, <1>9

\* The controller and the sensors keep their types in one update.
LEMMA UpdateTyped ==
  ASSUME mode \in Modes, NEW d \in DutyRec, NEW x, SensorsTyped(x), NEW a \in Answers
  PROVE  LET s == Serviced(x)
             f == FixSeen(d, s)
             c == Controlled(d, x, a)
         IN  /\ SensorsTyped(s) /\ Carried(f, d) /\ f.fix = (d.fix \/ s["gps"].valid)
             /\ c.duty \in DutyRec /\ SensorsTyped(c.sensor) /\ c.duty.hold = d.hold
<1>. DEFINE s == Serviced(x)
            f == FixSeen(d, s)
            l == Latching(f, s, a)
            t == TriggerSampled(s, a)
            w == Woken(t, f.fix, a)
            c == Controlled(d, x, a)
<1>1. SensorsTyped(s)
  BY SensorsStayTyped
<1>2. Carried(f, d) /\ f.fix = (d.fix \/ s["gps"].valid)
  <2>1. s["gps"].valid \in BOOLEAN
    BY <1>1, SensorFields DEF SensorsTyped, Sensor
  <2>. QED  BY <2>1, FixSeenWrites
<1>3. Outcome(f, s, a, c)
  BY UpdateCases
<1>. HIDE DEF s, f, c
<1>4. f \in DutyRec /\ f.fix \in BOOLEAN /\ f.hold = d.hold
  BY <1>2, DutyFields DEF Carried
<1>5. Carried(l, f) /\ l \in DutyRec /\ l.hold = f.hold
  BY <1>4, LatchingWrites DEF Carried
<1>6. SensorsTyped(t)
  BY <1>1, SensorsStayTyped
<1>7. SensorsTyped(w)
  BY <1>4, <1>6, SensorsStayTyped
<1>. HIDE DEF l, t, w
<1>8. c.duty \in DutyRec /\ SensorsTyped(c.sensor) /\ c.duty.hold = f.hold
  <2>1. CASE Closing(f, s, a, c)
    BY <2>1, <1>1, <1>4, ClosedWrites, SensorsStayTyped DEF Closing, Pair
  <2>2. CASE Ticking(f, s, a, c)
    <3>1. SampledAny(s, a) \in BOOLEAN
      BY DEF SampledAny, ShtReady, GpsReady, SpsReady, WindReady, Good
    <3>2. Ticked(f, SampledAny(s, a)) \in DutyRec /\ Ticked(f, SampledAny(s, a)).hold = f.hold
      BY <3>1, <1>4, TickedWrites
    <3>3. SensorsTyped(Sampled(s, a))
      BY <1>1, SensorsStayTyped
    <3>. QED  BY <2>2, <3>2, <3>3 DEF Ticking, Pair
  <2>3. CASE Starting(f, s, c)
    BY <2>3, <1>1, <1>4, SamplingWrites DEF Starting, Pair
  <2>4. CASE Staying(f, s, c)
    BY <2>4, <1>1, <1>4 DEF Staying, Pair
  <2>5. CASE Waking(f, l, t, a, c)
    BY <2>5, <1>5, <1>7, WarmingWrites DEF Waking, Pair, w
  <2>6. CASE Failing(f, l, t, a, c)
    BY <2>6, <1>5, <1>7, HaltedWrites DEF Failing, Pair, w
  <2>7. CASE Sleeping(f, l, t, c)
    BY <2>7, <1>5, <1>6, IdleWrites DEF Sleeping, Pair
  <2>. QED  BY <1>3, <2>1, <2>2, <2>3, <2>4, <2>5, <2>6, <2>7 DEF Outcome, l, t
<1>. QED  BY <1>1, <1>2, <1>4, <1>8 DEF s, f, c

-----------------------------------------------------------------------------
(***************************************************************************)
(* The GPS, while it answers: asleep exactly if the controller sleeps and  *)
(* a fix was seen.                                                         *)
(***************************************************************************)
GpsOK(d, g) ==
  g.healthy =>
    /\ Asleep(d) => (g.state = "Sleeping") = d.fix /\ (g.valid => d.fix)
    /\ d.phase \in {"WarmingUp", "ActiveSampling"} => g.state # "Sleeping"

LEMMA GpsKept ==
  ASSUME mode \in Modes, NEW d \in DutyRec, NEW x, SensorsTyped(x), NEW a \in Answers,
         GpsOK(d, x["gps"])
  PROVE  GpsOK(Controlled(d, x, a).duty, Controlled(d, x, a).sensor["gps"])
<1>. DEFINE s == Serviced(x)
            f == FixSeen(d, s)
            l == Latching(f, s, a)
            t == TriggerSampled(s, a)
            w == Woken(t, f.fix, a)
            c == Controlled(d, x, a)
            g == s["gps"]
<1>. SUFFICES GpsOK(c.duty, c.sensor["gps"])
  OBVIOUS
<1>1. /\ SensorsTyped(s) /\ Carried(f, d) /\ f.fix = (d.fix \/ g.valid)
      /\ Outcome(f, s, a, c) /\ f \in DutyRec
  BY UpdateTyped, UpdateCases DEF Carried
<1>2. x["gps"] \in SensorType("gps") /\ g \in SensorType("gps")
  BY <1>1 DEF SensorsTyped, Sensor
<1>3. g = GpsService(x["gps"])
  BY ServicedMap
<1>. HIDE DEF s, f, c
<1>4. f.fix \in BOOLEAN /\ d.fix \in BOOLEAN /\ f.phase = d.phase
  BY <1>1, DutyFields DEF Carried
<1>5. l \in DutyRec /\ l.phase = f.phase /\ l.fix = f.fix
  BY <1>1, LatchingWrites DEF Carried
<1>6. SensorsTyped(t) /\ t["gps"] = g
  BY <1>1, SensorsStayTyped, TriggerSampledMap
<1>7. (f.fix => w["gps"] = GpsWake(g)) /\ (~f.fix => w["gps"] = g)
  <2>. DEFINE fix == f.fix
  <2>1. fix \in BOOLEAN
    BY <1>4
  <2>. HIDE DEF fix, t
  <2>2. LET v == Woken(t, fix, a)
        IN  (fix => v["gps"] = GpsWake(t["gps"])) /\ (~fix => v["gps"] = t["gps"])
    BY <1>6, <2>1, WokenMap
  <2>. QED  BY <1>6, <2>2 DEF fix
<1>. HIDE DEF l, t, w, g
<1>8. GpsOK(f, g) /\ (g.valid => f.fix)
  BY <1>1, <1>2, <1>3, <1>4 DEF GpsOK, GpsService, Opened, Asleep, SensorType
<1>9. CASE Closing(f, s, a, c)
  <2>1. c.duty.phase = "CooldownSleeping" /\ c.duty.fix = f.fix
    BY <1>1, <1>9, ClosedWrites DEF Closing, Pair
  <2>2. (f.fix => c.sensor["gps"] = GpsSleep(g)) /\ (~f.fix => c.sensor["gps"] = g)
    <3>. DEFINE fix == f.fix
    <3>1. fix \in BOOLEAN
      BY <1>4
    <3>. HIDE DEF fix
    <3>2. LET v == PutToSleep(s, fix, a)
          IN  (fix => v["gps"] = GpsSleep(g)) /\ (~fix => v["gps"] = g)
      BY <1>1, <3>1, PutToSleepMap DEF g
    <3>3. c.sensor = PutToSleep(s, fix, a)
      BY <1>9 DEF Closing, Pair, fix
    <3>. QED  BY <3>2, <3>3 DEF fix
  <2>3. f.phase = "ActiveSampling"
    BY <1>9 DEF Closing
  <2>. QED  BY <1>2, <1>4, <1>8, <2>1, <2>2, <2>3 DEF GpsOK, Asleep, GpsSleep, Slept, SensorType
<1>10. CASE Ticking(f, s, a, c)
  <2>1. SampledAny(s, a) \in BOOLEAN
    BY DEF SampledAny, ShtReady, GpsReady, SpsReady, WindReady, Good
  <2>2. c.duty.phase = "ActiveSampling"
    BY <1>1, <1>10, <2>1, TickedWrites DEF Ticking, Pair
  <2>3. c.sensor["gps"] \in {g, GpsSample(g, a.sky)}
    BY <1>10, SampledMap DEF Ticking, Pair, g
  <2>4. f.phase = "ActiveSampling"
    BY <1>10 DEF Ticking
  <2>. QED  BY <1>2, <1>8, <2>2, <2>3, <2>4 DEF GpsOK, Asleep, GpsSample, Read, SensorType
<1>11. CASE Starting(f, s, c)
  <2>1. c.duty.phase = "ActiveSampling" /\ c.sensor["gps"] = g /\ f.phase = "WarmingUp"
    BY <1>1, <1>11, SamplingWrites DEF Starting, Pair, g
  <2>. QED  BY <1>8, <2>1 DEF GpsOK, Asleep
<1>12. CASE Staying(f, s, c)
  BY <1>8, <1>12 DEF Staying, Pair, g
<1>13. CASE Waking(f, l, t, a, c)
  <2>1. c.duty.phase = "WarmingUp" /\ c.sensor["gps"] = w["gps"] /\ Asleep(f)
    BY <1>5, <1>13, WarmingWrites DEF Waking, Pair, w
  <2>. QED  BY <1>2, <1>4, <1>7, <1>8, <2>1 DEF GpsOK, Asleep, GpsWake, Opening, SensorType
<1>14. CASE Failing(f, l, t, a, c)
  <2>1. c.duty.phase = "Error"
    BY <1>5, <1>14, HaltedWrites DEF Failing, Pair
  <2>. QED  BY <2>1 DEF GpsOK, Asleep
<1>15. CASE Sleeping(f, l, t, c)
  <2>1. Asleep(c.duty) /\ Asleep(f) /\ c.duty.fix = f.fix /\ c.sensor["gps"] = g
    BY <1>5, <1>6, <1>15, IdleWrites DEF Sleeping, Pair, Asleep
  <2>. QED  BY <1>8, <2>1 DEF GpsOK, Asleep
<1>. QED
  BY <1>1, <1>9, <1>10, <1>11, <1>12, <1>13, <1>14, <1>15 DEF Outcome, l, t

-----------------------------------------------------------------------------
(***************************************************************************)
(* A sensor with a warm-up, from the wake-up to the next sleep.  Warming   *)
(* up, its clocks have run as long as the phase, so that it can be sampled *)
(* on the first tick; from then on a reading that is valid is of this      *)
(* window.                                                                 *)
(***************************************************************************)
\* A sampling floor lasts no longer than a warm-up: SensingConfig.h has 10 s against
\* floors of 10 ms and 1 s.
FloorsFit == \A m \in Modes, k \in Heavy : Floor[k] <= Config[m].warmup

HeavyOK(d, k, s) ==
  /\ d.phase = "WarmingUp" =>
       /\ d.count = 0
       /\ s.healthy /\ s.state \in {"Ready", "Waking"} /\ ~s.current
       /\ s.wake >= d.age \/ s.wake = WakeDelay[k]
       /\ s.last >= d.age \/ s.last = Floor[k]
  /\ d.phase = "ActiveSampling" =>
       /\ s.healthy /\ s.state = "Ready"
       /\ d.count = 0 => s.last = Floor[k]
       /\ d.count > 0 => (s.valid => s.current)
  /\ Asleep(d) /\ s.healthy => s.state = "Sleeping"

HeavyAll(d, x) == \A k \in Heavy : HeavyOK(d, k, x[k])

\* What the operators make of such a sensor.
LEMMA HeavyServiced ==
  ASSUME NEW x, NEW k \in Heavy
  PROVE  /\ x[k].healthy => Serviced(x)[k] = Opened(k, x[k])
         /\ ~x[k].healthy => Serviced(x)[k] \in {x[k], Broken(x[k])}
  BY ServicedMap DEF Heavy, SpsService, WindService

LEMMA HeavyPutToSleep ==
  ASSUME NEW x, SensorsTyped(x), NEW fix \in BOOLEAN, NEW a, NEW k \in Heavy,
         PutToSleep(x, fix, a)[k].healthy
  PROVE  PutToSleep(x, fix, a)[k].state = "Sleeping"
<1>1. x["sps30"] \in SensorType("sps30") /\ x["wind"] \in SensorType("wind")
  BY DEF SensorsTyped, Sensor
<1>2. /\ PutToSleep(x, fix, a)["sps30"] = SpsSleep(x["sps30"], Good(a, "sps30 command"))
      /\ PutToSleep(x, fix, a)["wind"] = WindSleep(x["wind"])
  BY PutToSleepMap
<1>. QED  BY <1>1, <1>2 DEF Heavy, SpsSleep, WindSleep, Slept, Broken, SensorType

LEMMA HeavyWoken ==
  ASSUME NEW x, SensorsTyped(x), NEW fix \in BOOLEAN, NEW a \in Answers, NEW k \in Heavy,
         AllWoke(Woken(x, fix, a), fix),
         x[k].healthy => x[k].state = "Sleeping"
  PROVE  Woken(x, fix, a)[k] = Opening(x[k]) /\ x[k].healthy
<1>. DEFINE w == Woken(x, fix, a)
<1>. SUFFICES w[k] = Opening(x[k]) /\ x[k].healthy
  OBVIOUS
<1>1. x["sps30"] \in SensorType("sps30") /\ x["wind"] \in SensorType("wind")
  BY DEF SensorsTyped, Sensor
<1>2. /\ w["sps30"] = SpsWake(x["sps30"], Good(a, "sps30 command"))
      /\ w["wind"] = WindWake(x["wind"])
  BY WokenMap
<1>3. w["sps30"].healthy /\ w["wind"].healthy
  BY DEF AllWoke
<1>. HIDE DEF w
<1>4. CASE k = "sps30"
  BY <1>1, <1>2, <1>3, <1>4 DEF SpsWake, Broken, Awake, SensorType
<1>5. CASE k = "wind"
  BY <1>1, <1>2, <1>3, <1>5 DEF WindWake, Broken, Awake, SensorType
<1>. QED  BY <1>4, <1>5 DEF Heavy

\* A tick that samples it leaves it a reading of this window or none that is valid.
LEMMA HeavySampled ==
  ASSUME NEW x, SensorsTyped(x), NEW a \in Answers, NEW k \in Heavy,
         x[k].healthy, x[k].state = "Ready"
  PROVE  LET y == Sampled(x, a)[k]
         IN  /\ y.healthy /\ y.state = "Ready"
             /\ x[k].last = Floor[k] => (y.valid => y.current)
             /\ (x[k].valid => x[k].current) => (y.valid => y.current)
<1>1. x["sps30"] \in SensorType("sps30") /\ x["wind"] \in SensorType("wind")
  BY DEF SensorsTyped, Sensor
<1>2. \A j \in Heavy : x[j].last = Floor[j] => x[j].last >= Floor[j]
  BY SensorsAssumption DEF Heavy, Sensor
<1>3. /\ Sampled(x, a)["sps30"] = IF SpsReady(x["sps30"])
                                  THEN SpsSample(x["sps30"], Good(a, "sps30 read")) ELSE x["sps30"]
      /\ Sampled(x, a)["wind"] = IF WindReady(x["wind"]) THEN WindSample(x["wind"]) ELSE x["wind"]
  BY SampledMap
<1>. DEFINE y == Sampled(x, a)[k]
<1>. SUFFICES /\ y.healthy /\ y.state = "Ready"
              /\ x[k].last = Floor[k] => (y.valid => y.current)
              /\ (x[k].valid => x[k].current) => (y.valid => y.current)
  OBVIOUS
<1>4. CASE k = "sps30"
  <2>1. x[k].last = Floor[k] => SpsReady(x["sps30"])
    BY <1>2, <1>4 DEF SpsReady, Heavy
  <2>2. CASE SpsReady(x["sps30"]) /\ Good(a, "sps30 read")
    <3>1. y = Read(x["sps30"], TRUE)
      BY <1>3, <1>4, <2>2 DEF SpsSample
    <3>. QED  BY <1>1, <1>4, <3>1 DEF Read, SensorType
  <2>3. CASE SpsReady(x["sps30"]) /\ ~Good(a, "sps30 read")
    <3>1. y = [x["sps30"] EXCEPT !.valid = FALSE]
      BY <1>3, <1>4, <2>3 DEF SpsSample
    <3>. QED  BY <1>1, <1>4, <3>1 DEF SensorType
  <2>4. CASE ~SpsReady(x["sps30"])
    <3>1. y = x[k]
      BY <1>3, <1>4, <2>4
    <3>. QED  BY <2>1, <2>4, <3>1
  <2>. QED  BY <2>2, <2>3, <2>4
<1>5. CASE k = "wind"
  <2>1. x[k].last = Floor[k] => WindReady(x["wind"])
    BY <1>2, <1>5 DEF WindReady, Heavy
  <2>2. CASE WindReady(x["wind"])
    <3>1. y = Read(x["wind"], TRUE)
      BY <1>3, <1>5, <2>2 DEF WindSample
    <3>. QED  BY <1>1, <1>5, <3>1 DEF Read, SensorType
  <2>3. CASE ~WindReady(x["wind"])
    <3>1. y = x[k]
      BY <1>3, <1>5, <2>3
    <3>. QED  BY <2>1, <2>3, <3>1
  <2>. QED  BY <2>2, <2>3
<1>. QED  BY <1>4, <1>5 DEF Heavy

LEMMA HeavyKept ==
  ASSUME FloorsFit, mode \in Modes, NEW d \in DutyRec, NEW x, SensorsTyped(x), NEW a \in Answers,
         HeavyAll(d, x)
  PROVE  HeavyAll(Controlled(d, x, a).duty, Controlled(d, x, a).sensor)
<1>. DEFINE s == Serviced(x)
            f == FixSeen(d, s)
            l == Latching(f, s, a)
            t == TriggerSampled(s, a)
            w == Woken(t, f.fix, a)
            c == Controlled(d, x, a)
<1>. SUFFICES HeavyAll(c.duty, c.sensor)
  OBVIOUS
<1>1. /\ SensorsTyped(s) /\ Carried(f, d) /\ Outcome(f, s, a, c) /\ f \in DutyRec
  BY UpdateTyped, UpdateCases DEF Carried
<1>2. \A k \in Heavy : /\ x[k].healthy => s[k] = Opened(k, x[k])
                       /\ ~x[k].healthy => s[k] \in {x[k], Broken(x[k])}
  BY HeavyServiced
<1>. HIDE DEF s, f, c
<1>3. /\ f.fix \in BOOLEAN /\ f.age \in Nat /\ f.count \in Nat
      /\ f.phase = d.phase /\ f.age = d.age /\ f.count = d.count
  BY <1>1, DutyFields DEF Carried
<1>4. l \in DutyRec /\ l.phase = f.phase
  BY <1>1, LatchingWrites DEF Carried
<1>5. SensorsTyped(t) /\ \A k \in Heavy : t[k] = s[k]
  BY <1>1, SensorsStayTyped, TriggerSampledMap DEF Heavy
<1>. HIDE DEF l, t, w
<1>6. \A k \in Heavy : /\ k \in Sensor /\ x[k] \in SensorType(k) /\ s[k] \in SensorType(k)
                       /\ WakeDelay[k] \in Nat /\ Floor[k] \in Nat
                       /\ s[k].wake \in Nat /\ s[k].last \in Nat
  BY <1>1, SensorFields DEF SensorsTyped, Heavy, Sensor
<1>7. ASSUME NEW k \in Heavy
      PROVE  HeavyOK(f, k, s[k]) /\ (f.phase = "WarmingUp" => s[k] = Opened(k, x[k]))
  <2>1. HeavyOK(d, k, x[k])
    BY DEF HeavyAll
  <2>. QED  BY <1>2, <1>3, <1>6, <2>1 DEF HeavyOK, Opened, Broken, SensorType, Asleep
<1>8. CASE Closing(f, s, a, c)
  <2>1. c.duty.phase = "CooldownSleeping"
    BY <1>1, <1>8, ClosedWrites DEF Closing, Pair
  <2>. DEFINE fix == f.fix
  <2>2. c.sensor = PutToSleep(s, fix, a) /\ fix \in BOOLEAN
    BY <1>3, <1>8 DEF Closing, Pair
  <2>. HIDE DEF fix
  <2>3. \A k \in Heavy : c.sensor[k].healthy => c.sensor[k].state = "Sleeping"
    BY <1>1, <2>2, HeavyPutToSleep
  <2>. QED  BY <2>1, <2>3 DEF HeavyAll, HeavyOK, Asleep
<1>9. CASE Ticking(f, s, a, c)
  <2>. DEFINE any == SampledAny(s, a)
  <2>1. any \in BOOLEAN
    BY DEF SampledAny, ShtReady, GpsReady, SpsReady, WindReady, Good
  <2>2. f.phase = "ActiveSampling" /\ c.duty = Ticked(f, any) /\ c.sensor = Sampled(s, a)
    BY <1>9 DEF Ticking, Pair
  <2>3. f.count = 0 => any
    <3>1. "wind" \in Heavy
      BY DEF Heavy
    <3>2. s["wind"].last = Floor["wind"] => s["wind"].last >= Floor["wind"]
      BY <1>6, <3>1
    <3>3. f.count = 0 =>
            s["wind"].healthy /\ s["wind"].state = "Ready" /\ s["wind"].last = Floor["wind"]
      BY <1>7, <2>2, <3>1 DEF HeavyOK
    <3>. QED  BY <3>2, <3>3 DEF SampledAny, WindReady
  <2>. HIDE DEF any
  <2>4. /\ c.duty.phase = "ActiveSampling"
        /\ any => c.duty.count = Later(f.count, 1, MaxCount)
        /\ ~any => c.duty.count = f.count
    <3>1. CASE any = TRUE
      <4>1. c.duty = Ticked(f, TRUE)
        BY <2>2, <3>1
      <4>. QED  BY <1>1, <2>2, <3>1, <4>1, TickedWrites
    <3>2. CASE any = FALSE
      <4>1. c.duty = Ticked(f, FALSE)
        BY <2>2, <3>2
      <4>. QED  BY <1>1, <2>2, <3>2, <4>1, TickedWrites
    <3>. QED  BY <2>1, <3>1, <3>2
  <2>5. c.duty.count > 0
    <3>1. MaxCount > 0
      <4>1. MaxCount \in Nat /\ 0 <= cfg.active + cfg.overrun
            /\ cfg.active + cfg.overrun < MaxCount * cfg.period
        BY ConfigFacts
      <4>2. MaxCount # 0
        BY <4>1, ConfigFacts
      <4>. QED  BY <4>1, <4>2
    <3>. QED  BY <1>3, <2>1, <2>3, <2>4, <3>1, ConfigFacts DEF Later
  <2>6. ASSUME NEW k \in Heavy
        PROVE  /\ c.sensor[k].healthy /\ c.sensor[k].state = "Ready"
               /\ c.sensor[k].valid => c.sensor[k].current
    <3>1. /\ s[k].healthy /\ s[k].state = "Ready"
          /\ s[k].last = Floor[k] \/ (s[k].valid => s[k].current)
      BY <1>3, <1>7, <2>2 DEF HeavyOK
    <3>. QED  BY <1>1, <2>2, <3>1, HeavySampled
  <2>. QED  BY <2>4, <2>5, <2>6 DEF HeavyAll, HeavyOK, Asleep
<1>10. CASE Starting(f, s, c)
  <2>1. /\ c.duty.phase = "ActiveSampling" /\ c.duty.count = f.count
        /\ f.phase = "WarmingUp" /\ f.age >= cfg.warmup /\ c.sensor = s
    BY <1>1, <1>10, SamplingWrites DEF Starting, Pair
  <2>2. ASSUME NEW k \in Heavy
        PROVE  /\ s[k].healthy /\ s[k].state = "Ready" /\ ~s[k].current
               /\ s[k].last = Floor[k]
    <3>1. WakeDelay[k] <= cfg.warmup /\ Floor[k] <= cfg.warmup /\ cfg.warmup \in Nat
      BY <1>6, ConfigFacts DEF FloorsFit, cfg
    <3>2. HeavyOK(d, k, x[k]) /\ x[k].wake \in 0 .. WakeDelay[k] /\ x[k].last \in 0 .. Floor[k]
      BY <1>6, SensorFields DEF HeavyAll
    <3>3. x[k].wake = WakeDelay[k] /\ x[k].last = Floor[k]
      BY <1>3, <1>6, <2>1, <3>1, <3>2 DEF HeavyOK
    <3>4. /\ s[k] = Opened(k, x[k])
          /\ x[k].healthy /\ x[k].state \in {"Ready", "Waking"} /\ ~x[k].current
      BY <1>3, <1>7, <2>1, <3>2 DEF HeavyOK
    <3>5. x[k].wake >= WakeDelay[k]
      BY <1>6, <3>3
    <3>6. s[k] = [x[k] EXCEPT !.state = "Ready"]
      BY <1>6, <3>4, <3>5 DEF Opened, SensorType
    <3>. QED  BY <1>6, <3>3, <3>4, <3>6 DEF SensorType
  <2>3. f.count = 0
    <3>1. "wind" \in Heavy
      BY DEF Heavy
    <3>. QED  BY <1>7, <2>1, <3>1 DEF HeavyOK
  <2>. QED  BY <2>1, <2>2, <2>3 DEF HeavyAll, HeavyOK, Asleep
<1>11. CASE Staying(f, s, c)
  BY <1>7, <1>11 DEF Staying, Pair, HeavyAll
<1>12. CASE Waking(f, l, t, a, c)
  <2>. DEFINE fix == f.fix
              v == Woken(t, fix, a)
  <2>1. fix \in BOOLEAN /\ AllWoke(v, fix) /\ c.sensor = v /\ Asleep(f)
    BY <1>3, <1>12 DEF Waking, Pair
  <2>2. c.duty.phase = "WarmingUp" /\ c.duty.age = 0 /\ c.duty.count = 0
    BY <1>4, <1>12, WarmingWrites DEF Waking, Pair
  <2>. HIDE DEF fix
  <2>3. ASSUME NEW k \in Heavy
        PROVE  v[k] = Opening(s[k]) /\ s[k].healthy
    <3>1. s[k].healthy => s[k].state = "Sleeping"
      BY <1>7, <2>1 DEF HeavyOK
    <3>. QED  BY <1>5, <2>1, <3>1, HeavyWoken
  <2>. HIDE DEF v
  <2>4. ASSUME NEW k \in Heavy
        PROVE  HeavyOK(c.duty, k, v[k])
    <3>1. /\ v[k].healthy /\ v[k].state = "Waking" /\ ~v[k].current
          /\ v[k].wake = 0 /\ v[k].last = s[k].last
      <4>1. ASSUME NEW r \in SensorType(k), r.healthy
            PROVE  LET o == Opening(r)
                   IN  /\ o.healthy /\ o.state = "Waking" /\ ~o.current
                       /\ o.wake = 0 /\ o.last = r.last
        BY <4>1 DEF Opening, SensorType
      <4>. QED  BY <1>6, <2>3, <4>1
    <3>2. v[k].wake >= c.duty.age /\ v[k].last >= c.duty.age
      BY <1>6, <2>2, <3>1
    <3>. QED  BY <2>2, <3>1, <3>2 DEF HeavyOK, Asleep
  <2>. QED  BY <2>1, <2>4 DEF HeavyAll
<1>13. CASE Failing(f, l, t, a, c)
  <2>1. c.duty.phase = "Error"
    BY <1>4, <1>13, HaltedWrites DEF Failing, Pair
  <2>. QED  BY <2>1 DEF HeavyAll, HeavyOK, Asleep
<1>14. CASE Sleeping(f, l, t, c)
  <2>1. Asleep(c.duty) /\ Asleep(f) /\ c.sensor = t
    BY <1>4, <1>14, IdleWrites DEF Sleeping, Pair, Asleep
  <2>2. ASSUME NEW k \in Heavy
        PROVE  HeavyOK(c.duty, k, t[k])
    BY <1>5, <1>7, <2>1 DEF HeavyOK, Asleep
  <2>. QED  BY <2>1, <2>2 DEF HeavyAll
<1>. QED
  BY <1>1, <1>8, <1>9, <1>10, <1>11, <1>12, <1>13, <1>14 DEF Outcome, l, t

-----------------------------------------------------------------------------
(***************************************************************************)
(* The readings of a window: each is in a bundle, was dropped by a new     *)
(* session, or waits in the accumulator.  A tick comes no earlier than a   *)
(* period after the one before, so that the count stays under its bound as *)
(* long as the window is open, and no reading goes uncounted.              *)
(***************************************************************************)
WindowIs(d, p) ==
  /\ d.phase = "WarmingUp" => d.count = 0
  /\ Windowed =>
       /\ d.phase = "WarmingUp" => p = Empty
       /\ d.phase # "ActiveSampling" => p.held = 0
       /\ d.phase = "ActiveSampling" =>
            /\ d.count = p.sent + p.lost + p.held
            /\ d.age < Budget => d.count * cfg.period + d.tick <= d.age + cfg.period
            /\ ~p.runt
       /\ Asleep(d) => d.closed = p.sent + p.lost /\ p.runt = d.overran

WindowOK(d, p) == ~d.fresh /\ WindowIs(d, p)

LEMMA ProductStep ==
  ASSUME NEW m \in Nat, NEW n \in Nat
  PROVE  (m + 1) * n = m * n + n
  OBVIOUS

LEMMA ProductLess ==
  ASSUME NEW m \in Nat, NEW n \in Nat, NEW q \in Nat, m * q < n * q
  PROVE  m < n
<1>. SUFFICES ASSUME m >= n PROVE FALSE
  OBVIOUS
<1>1. PICK j \in Nat : m = n + j
  <2>1. m - n \in Nat /\ m = n + (m - n)
    OBVIOUS
  <2>. QED  BY <2>1
<1>2. m * q = n * q + j * q
  BY <1>1
<1>3. j * q \in Nat /\ n * q \in Nat
  OBVIOUS
<1>. QED  BY <1>2, <1>3

\* Under the bound of the window's length a tick finds the counter under its own.
LEMMA TickHasRoom ==
  ASSUME mode \in Modes, NEW n \in Nat, NEW tick \in Nat, NEW age \in Nat,
         n * cfg.period + tick <= age + cfg.period, tick >= cfg.period, age < Budget
  PROVE  n < MaxCount /\ (n + 1) * cfg.period <= age + cfg.period
<1>1. /\ cfg.period \in Nat /\ MaxCount \in Nat /\ cfg.active \in Nat /\ cfg.overrun \in Nat
      /\ cfg.active + cfg.overrun < MaxCount * cfg.period
  BY ConfigFacts
<1>. DEFINE u == n * cfg.period
            v == MaxCount * cfg.period
<1>2. u \in Nat /\ v \in Nat
  BY <1>1
<1>3. (n + 1) * cfg.period = u + cfg.period
  BY <1>1, ProductStep
<1>. HIDE DEF u, v
<1>4. u + tick <= age + cfg.period /\ Budget < v
  BY <1>1 DEF u, v, Budget
<1>5. u <= age /\ u < v
  BY <1>1, <1>2, <1>4 DEF Budget
<1>6. n < MaxCount
  BY <1>1, <1>5, ProductLess DEF u, v
<1>. QED  BY <1>1, <1>2, <1>3, <1>5, <1>6

LEMMA PacketFields ==
  ASSUME mode \in Modes, NEW p \in PacketRec
  PROVE  /\ p.held \in Nat /\ p.held < Bundle /\ p.sent \in Nat /\ p.lost \in Nat
         /\ p.sent <= MaxCount /\ p.lost <= MaxCount
<1>1. MaxCount \in Nat /\ Bundle \in Nat /\ Bundle > 1
  BY ConfigFacts
<1>2. /\ p.held \in 0 .. Bundle - 1 /\ p.sent \in 0 .. MaxCount /\ p.lost \in 0 .. MaxCount
  BY DEF PacketRec
<1>. QED  BY <1>1, <1>2

LEMMA EmptyPacket == ASSUME mode \in Modes PROVE Empty \in PacketRec
<1>1. 0 \in 0 .. Bundle - 1 /\ 0 \in 0 .. MaxCount
  BY ConfigFacts
<1>. QED  BY <1>1 DEF Empty, PacketRec

\* The clock moves; nothing else does.
LEMMA WindowAged ==
  ASSUME mode \in Modes, NEW d \in DutyRec, NEW p \in PacketRec, WindowOK(d, p),
         NEW dt \in Nat, NEW h \in BOOLEAN
  PROVE  /\ WindowOK(Elapsed(d, dt), p)
         /\ WindowOK([Elapsed(d, dt) EXCEPT !.hold = h], p)
<1>. DEFINE u == Elapsed(d, dt)
            e == [Elapsed(d, dt) EXCEPT !.hold = h]
<1>1. /\ u \in DutyRec /\ e \in DutyRec
      /\ e.phase = d.phase /\ e.count = d.count /\ e.closed = d.closed
      /\ e.overran = d.overran /\ e.fresh = d.fresh
      /\ e.age = Later(d.age, dt, AgeBound(d)) /\ e.tick = Later(d.tick, dt, TickBound(d))
  BY ElapsedWrites
<1>2. /\ u.phase = e.phase /\ u.count = e.count /\ u.closed = e.closed
      /\ u.overran = e.overran /\ u.fresh = e.fresh /\ u.age = e.age /\ u.tick = e.tick
  BY <1>1 DEF DutyRec
<1>. HIDE DEF u, e
<1>. SUFFICES WindowIs(e, p)
  BY <1>1, <1>2 DEF WindowOK, WindowIs, Asleep, u, e
<1>3. ASSUME d.phase = "ActiveSampling", e.age < Budget
      PROVE  /\ d.age < Budget /\ e.age = d.age + dt /\ e.tick <= d.tick + dt /\ e.tick \in Nat
  <2>1. AgeBound(d) = Budget /\ Budget \in Nat /\ TickBound(d) = cfg.period /\ cfg.period \in Nat
    BY <1>3, ConfigFacts DEF AgeBound, TickBound, Budget
  <2>2. d.age \in Nat /\ d.tick \in Nat
    BY DutyFields
  <2>. QED  BY <1>1, <1>3, <2>1, <2>2 DEF Later
<1>4. ASSUME Windowed, d.phase = "ActiveSampling", e.age < Budget
      PROVE  e.count * cfg.period + e.tick <= e.age + cfg.period
  <2>. DEFINE n == d.count * cfg.period
  <2>1. cfg.period \in Nat /\ d.count \in Nat /\ d.age \in Nat /\ d.tick \in Nat
    BY DutyFields, ConfigFacts
  <2>2. n \in Nat
    BY <2>1
  <2>3. n + d.tick <= d.age + cfg.period
    BY <1>3, <1>4 DEF WindowOK, WindowIs
  <2>4. e.count * cfg.period = n
    BY <1>1
  <2>. HIDE DEF n
  <2>. QED  BY <1>3, <1>4, <2>1, <2>2, <2>3, <2>4
<1>5. WindowIs(d, p)
  BY DEF WindowOK
<1>. QED  BY <1>1, <1>4, <1>5 DEF WindowIs, Asleep

LEMMA FlushedPacket ==
  ASSUME mode \in Modes, NEW p \in PacketRec, p.sent + p.held <= MaxCount
  PROVE  LET q == Flushed(p)
         IN  /\ q \in PacketRec /\ q.held = 0 /\ q.lost = p.lost /\ q.sent = p.sent + p.held
             /\ q.runt = (p.held > 0)
<1>. DEFINE v == p.sent + p.held
            b == p.held > 0
<1>1. v \in 0 .. MaxCount /\ b \in BOOLEAN /\ 0 \in 0 .. Bundle - 1
  BY PacketFields, ConfigFacts
<1>2. Flushed(p) = [p EXCEPT !.held = 0, !.sent = v, !.runt = b]
  BY DEF Flushed
<1>. HIDE DEF v, b
<1>3. /\ Flushed(p) \in PacketRec /\ Flushed(p).held = 0 /\ Flushed(p).lost = p.lost
      /\ Flushed(p).sent = v /\ Flushed(p).runt = b
  BY <1>1, <1>2 DEF PacketRec
<1>. QED  BY <1>3 DEF v, b

LEMMA PushedPacket ==
  ASSUME mode \in Modes, NEW p \in PacketRec, Windowed => p.sent + p.held < MaxCount
  PROVE  LET q == Pushed(p)
         IN  /\ q \in PacketRec /\ q.lost = p.lost /\ q.runt = p.runt
             /\ Windowed => q.sent + q.held = p.sent + p.held + 1
<1>1. /\ p.held \in Nat /\ p.held < Bundle /\ p.sent \in Nat /\ p.sent <= MaxCount
      /\ Bundle \in Nat /\ Bundle > 1 /\ MaxCount \in Nat
  BY PacketFields, ConfigFacts
<1>2. CASE p.held + 1 < Bundle
  <2>. DEFINE v == p.held + 1
  <2>1. v \in 0 .. Bundle - 1
    BY <1>1, <1>2
  <2>2. Pushed(p) = [p EXCEPT !.held = v]
    BY <1>2 DEF Pushed
  <2>. HIDE DEF v
  <2>3. /\ Pushed(p) \in PacketRec /\ Pushed(p).lost = p.lost /\ Pushed(p).runt = p.runt
        /\ Pushed(p).held = v /\ Pushed(p).sent = p.sent
    BY <2>1, <2>2 DEF PacketRec
  <2>4. Pushed(p).sent + Pushed(p).held = p.sent + p.held + 1
    BY <1>1, <2>3 DEF v
  <2>. QED  BY <2>3, <2>4
<1>3. CASE ~(p.held + 1 < Bundle)
  <2>. DEFINE v == IF Windowed THEN p.sent + Bundle ELSE p.sent
  <2>1. v \in 0 .. MaxCount /\ 0 \in 0 .. Bundle - 1 /\ v \in Nat
    BY <1>1, <1>3
  <2>2. Pushed(p) = [p EXCEPT !.held = 0, !.sent = v]
    BY <1>3 DEF Pushed
  <2>3. Windowed => v = p.sent + p.held + 1
    BY <1>1, <1>3
  <2>. HIDE DEF v
  <2>4. /\ Pushed(p) \in PacketRec /\ Pushed(p).lost = p.lost /\ Pushed(p).runt = p.runt
        /\ Pushed(p).held = 0 /\ Pushed(p).sent = v
    BY <2>1, <2>2 DEF PacketRec
  <2>5. Windowed => Pushed(p).sent + Pushed(p).held = p.sent + p.held + 1
    BY <2>1, <2>3, <2>4
  <2>. QED  BY <2>4, <2>5
<1>. QED  BY <1>2, <1>3

\* A pass keeps the accounts, whatever it does to the sensors.
LEMMA PacketKept ==
  ASSUME mode \in Modes, NEW d \in DutyRec, NEW p \in PacketRec, WindowOK(d, p),
         d.hold = (p.held > 0),
         NEW x, SensorsTyped(x), NEW a \in Answers
  PROVE  LET c == Controlled(d, x, a).duty
             m == Marked(p, d.phase, c.phase)
             q == IF c.phase = "ActiveSampling" /\ c.fresh THEN Pushed(m) ELSE m
         IN  q \in PacketRec /\ WindowIs(c, q)
<1>. DEFINE s == Serviced(x)
            f == FixSeen(d, s)
            l == Latching(f, s, a)
            t == TriggerSampled(s, a)
            r == Controlled(d, x, a)
            c == r.duty
            m == Marked(p, d.phase, c.phase)
            q == IF c.phase = "ActiveSampling" /\ c.fresh THEN Pushed(m) ELSE m
<1>. SUFFICES q \in PacketRec /\ WindowIs(c, q)
  OBVIOUS
<1>1. Carried(f, d) /\ Outcome(f, s, a, r) /\ f \in DutyRec
  BY UpdateTyped, UpdateCases DEF Carried
<1>. HIDE DEF s, f, r
<1>2. /\ f.phase = d.phase /\ f.age = d.age /\ f.tick = d.tick /\ f.count = d.count
      /\ f.closed = d.closed /\ f.overran = d.overran /\ f.fresh = d.fresh /\ f.hold = d.hold
  BY <1>1 DEF Carried
<1>3. Carried(l, f) /\ l \in DutyRec
  BY <1>1, LatchingWrites DEF Carried
<1>4. /\ l.phase = f.phase /\ l.count = f.count /\ l.closed = f.closed /\ l.overran = f.overran
      /\ l.fresh = f.fresh /\ l.age = f.age /\ l.tick = f.tick
  BY <1>3 DEF Carried
<1>. HIDE DEF l, t
<1>5. WindowIs(d, p) /\ ~d.fresh
  BY DEF WindowOK
<1>6. Windowed => enabled
  BY DEF Windowed, enabled
<1>7. /\ p.held \in Nat /\ p.sent \in Nat /\ p.lost \in Nat /\ d.count \in Nat
      /\ d.count <= MaxCount /\ MaxCount \in Nat
  BY PacketFields, DutyFields, ConfigFacts
<1>8. CASE Closing(f, s, a, r)
  <2>1. /\ d.phase = "ActiveSampling" /\ c.phase = "CooldownSleeping"
        /\ c.closed = d.count /\ c.overran = d.hold
    BY <1>1, <1>2, <1>8, ClosedWrites DEF Closing, Pair
  <2>2. CASE Windowed
    <3>1. q = Flushed(p)
      BY <2>1, <2>2 DEF Marked
    <3>2. d.count = p.sent + p.lost + p.held
      BY <1>5, <2>1, <2>2 DEF WindowIs
    <3>3. p.sent + p.held <= MaxCount
      BY <1>7, <3>2
    <3>4. /\ q \in PacketRec /\ q.held = 0 /\ q.lost = p.lost /\ q.sent = p.sent + p.held
          /\ q.runt = (p.held > 0)
      BY <3>1, <3>3, FlushedPacket
    <3>5. c.closed = q.sent + q.lost
      BY <1>7, <2>1, <3>2, <3>4
    <3>. HIDE DEF q, c
    <3>6. q.runt = c.overran
      BY <2>1, <3>4
    <3>. QED  BY <2>1, <3>4, <3>5, <3>6 DEF WindowIs, Asleep
  <2>3. CASE ~Windowed
    BY <2>1, <2>3 DEF Marked, WindowIs
  <2>. QED  BY <2>2, <2>3
<1>9. CASE Ticking(f, s, a, r)
  <2>. DEFINE any == SampledAny(s, a)
  <2>1. any \in BOOLEAN
    BY DEF SampledAny, ShtReady, GpsReady, SpsReady, WindReady, Good
  <2>2. /\ d.phase = "ActiveSampling" /\ d.tick >= cfg.period /\ (enabled => d.age < Budget)
        /\ c = Ticked(f, any)
    BY <1>2, <1>9 DEF Ticking, Pair
  <2>. HIDE DEF any, c
  <2>3. /\ c.phase = "ActiveSampling" /\ c.age = d.age /\ c.tick = 0
        /\ any => c.fresh = TRUE /\ c.count = Later(d.count, 1, MaxCount)
        /\ ~any => c.fresh = d.fresh /\ c.count = d.count
    <3>1. CASE any = TRUE
      <4>1. c = Ticked(f, TRUE)
        BY <2>2, <3>1
      <4>2. /\ c.phase = f.phase /\ c.age = f.age /\ c.tick = 0
            /\ c.fresh = TRUE /\ c.count = Later(f.count, 1, MaxCount)
        BY <1>1, <4>1, TickedWrites
      <4>. QED  BY <1>2, <2>2, <3>1, <4>2
    <3>2. CASE any = FALSE
      <4>1. c = Ticked(f, FALSE)
        BY <2>2, <3>2
      <4>2. /\ c.phase = f.phase /\ c.age = f.age /\ c.tick = 0
            /\ c.fresh = f.fresh /\ c.count = f.count
        BY <1>1, <4>1, TickedWrites
      <4>. QED  BY <1>2, <2>2, <3>2, <4>2
    <3>. QED  BY <2>1, <3>1, <3>2
  <2>4. m = p
    BY <2>2, <2>3 DEF Marked
  <2>5. ASSUME Windowed
        PROVE  /\ d.count = p.sent + p.lost + p.held /\ d.count < MaxCount /\ ~p.runt
               /\ d.count * cfg.period + 0 <= d.age + cfg.period
               /\ (d.count + 1) * cfg.period + 0 <= d.age + cfg.period
    <3>1. /\ d.count = p.sent + p.lost + p.held /\ ~p.runt /\ d.age < Budget
          /\ d.count * cfg.period + d.tick <= d.age + cfg.period
      BY <1>5, <1>6, <2>2, <2>5 DEF WindowIs
    <3>2. /\ d.count < MaxCount /\ (d.count + 1) * cfg.period <= d.age + cfg.period
          /\ d.tick \in Nat /\ d.age \in Nat /\ cfg.period \in Nat
      BY <1>7, <2>2, <3>1, TickHasRoom, DutyFields, ConfigFacts
    <3>. DEFINE u == d.count * cfg.period
                v == (d.count + 1) * cfg.period
    <3>3. u \in Nat /\ v \in Nat
      BY <1>7, <3>2
    <3>4. u + d.tick <= d.age + cfg.period /\ v <= d.age + cfg.period
      BY <3>1, <3>2
    <3>. HIDE DEF u, v
    <3>5. u + 0 <= d.age + cfg.period /\ v + 0 <= d.age + cfg.period
      BY <3>2, <3>3, <3>4
    <3>. QED  BY <3>1, <3>2, <3>5 DEF u, v
  <2>6. CASE any
    <3>1. q = Pushed(p) /\ c.count = Later(d.count, 1, MaxCount)
      BY <2>3, <2>4, <2>6
    <3>2. Windowed => p.sent + p.held < MaxCount
      BY <1>7, <2>5
    <3>3. /\ q \in PacketRec /\ q.lost = p.lost /\ q.runt = p.runt
          /\ Windowed => q.sent + q.held = p.sent + p.held + 1
      BY <3>1, <3>2, PushedPacket
    <3>4. ASSUME Windowed
          PROVE  /\ c.count = d.count + 1
                 /\ c.count = q.sent + q.lost + q.held
      <4>1. c.count = d.count + 1
        BY <1>7, <2>5, <3>1, <3>4 DEF Later
      <4>2. q.held \in Nat /\ q.sent \in Nat /\ q.lost \in Nat
        BY <3>3, PacketFields
      <4>. QED  BY <1>7, <2>5, <3>3, <3>4, <4>1, <4>2
    <3>. HIDE DEF q
    <3>. QED  BY <2>3, <2>5, <3>3, <3>4 DEF WindowIs, Asleep
  <2>7. CASE ~any
    <3>1. q = p /\ c.count = d.count
      BY <1>5, <2>3, <2>4, <2>7
    <3>. HIDE DEF q
    <3>. QED  BY <2>3, <2>5, <3>1 DEF WindowIs, Asleep
  <2>. QED  BY <2>6, <2>7
<1>10. CASE Starting(f, s, r)
  <2>1. /\ d.phase = "WarmingUp" /\ c.phase = "ActiveSampling" /\ c.count = d.count
        /\ c.fresh = FALSE /\ c.age = 0 /\ c.tick = cfg.period
    BY <1>1, <1>2, <1>10, SamplingWrites DEF Starting, Pair
  <2>2. q = p
    BY <2>1 DEF Marked
  <2>3. d.count = 0 /\ (Windowed => p = Empty)
    BY <1>5, <2>1 DEF WindowIs
  <2>4. c.count * cfg.period + c.tick <= c.age + cfg.period
    <3>1. cfg.period \in Nat
      BY ConfigFacts
    <3>. QED  BY <2>1, <2>3, <3>1
  <2>5. Windowed => c.count = q.sent + q.lost + q.held /\ ~q.runt
    BY <2>1, <2>2, <2>3 DEF Empty
  <2>. HIDE DEF q, c
  <2>. QED  BY <2>1, <2>2, <2>4, <2>5 DEF WindowIs, Asleep
<1>11. CASE Staying(f, s, r)
  <2>1. c = f
    BY <1>11 DEF Staying, Pair
  <2>2. q = p
    BY <1>2, <1>5, <2>1 DEF Marked
  <2>. QED  BY <1>2, <1>5, <2>1, <2>2 DEF WindowIs, Asleep
<1>12. CASE Waking(f, l, t, a, r)
  <2>1. Asleep(d) /\ c.phase = "WarmingUp" /\ c.count = 0
    BY <1>2, <1>3, <1>12, WarmingWrites DEF Waking, Pair, Asleep
  <2>2. q = IF Windowed THEN Empty ELSE p
    BY <2>1 DEF Marked, Asleep
  <2>. QED  BY <2>1, <2>2, EmptyPacket DEF WindowIs, Asleep, Empty
<1>13. CASE Failing(f, l, t, a, r)
  <2>1. Asleep(d) /\ c.phase = "Error"
    BY <1>2, <1>3, <1>13, HaltedWrites DEF Failing, Pair, Asleep
  <2>2. q = p
    BY <2>1 DEF Marked, Asleep
  <2>. QED  BY <1>5, <2>1, <2>2 DEF WindowIs, Asleep
<1>14. CASE Sleeping(f, l, t, r)
  <2>1. /\ Asleep(d) /\ Asleep(c)
        /\ c.closed = d.closed /\ c.overran = d.overran
    BY <1>2, <1>3, <1>4, <1>14, IdleWrites DEF Sleeping, Pair, Asleep
  <2>2. q = p
    BY <2>1 DEF Marked, Asleep
  <2>. QED  BY <1>5, <2>1, <2>2 DEF WindowIs, Asleep
<1>. QED
  BY <1>1, <1>8, <1>9, <1>10, <1>11, <1>12, <1>13, <1>14 DEF Outcome, l, t

-----------------------------------------------------------------------------
(***************************************************************************)
(* The clock, the STATUS that reads the GPS, and what a whole step does.   *)
(***************************************************************************)
LEMMA AllAgedMap ==
  ASSUME SensorsTyped(sensor), NEW dt \in Nat
  PROVE  /\ SensorsTyped(AllAged(dt))
         /\ \A k \in Sensor : AllAged(dt)[k] = Aged(k, sensor[k], dt)
<1>1. /\ DOMAIN AllAged(dt) = Sensor
      /\ \A k \in Sensor : AllAged(dt)[k] = Aged(k, sensor[k], dt)
  BY DEF AllAged, Sensor
<1>2. \A k \in Sensor : Aged(k, sensor[k], dt) \in SensorType(k)
  BY AgedSensor DEF SensorsTyped
<1>. QED  BY <1>1, <1>2 DEF SensorsTyped

\* Time alone changes nothing for the GPS, and a sensor that warms up keeps pace.
LEMMA SensorsAged ==
  ASSUME mode \in Modes, duty \in DutyRec, SensorsTyped(sensor), NEW dt \in Nat,
         NEW e \in DutyRec, e.phase = duty.phase, e.fix = duty.fix, e.count = duty.count,
         e.age = Later(duty.age, dt, AgeBound(duty))
  PROVE  /\ GpsOK(duty, sensor["gps"]) => GpsOK(e, AllAged(dt)["gps"])
         /\ HeavyAll(duty, sensor) => HeavyAll(e, AllAged(dt))
<1>1. "gps" \in Sensor /\ \A k \in Heavy : k \in Sensor
  BY DEF Sensor, Heavy
<1>2. \A k \in Sensor :
        LET y == AllAged(dt)[k]
        IN  /\ y.state = sensor[k].state /\ y.healthy = sensor[k].healthy
            /\ y.valid = sensor[k].valid /\ y.current = sensor[k].current
            /\ y.wake = Later(sensor[k].wake, dt, WakeDelay[k])
            /\ y.last = Later(sensor[k].last, dt, Floor[k])
  <2>1. ASSUME NEW k \in Sensor
        PROVE  AllAged(dt)[k] = Aged(k, sensor[k], dt) /\ sensor[k] \in SensorType(k)
    BY AllAgedMap DEF SensorsTyped
  <2>2. ASSUME NEW k \in Sensor, NEW y, y = Aged(k, sensor[k], dt)
        PROVE  /\ y.state = sensor[k].state /\ y.healthy = sensor[k].healthy
               /\ y.valid = sensor[k].valid /\ y.current = sensor[k].current
               /\ y.wake = Later(sensor[k].wake, dt, WakeDelay[k])
               /\ y.last = Later(sensor[k].last, dt, Floor[k])
    BY <2>1, <2>2, AgedSensor
  <2>. QED  BY <2>1, <2>2
<1>3. GpsOK(duty, sensor["gps"]) => GpsOK(e, AllAged(dt)["gps"])
  BY <1>1, <1>2 DEF GpsOK, Asleep
<1>4. ASSUME HeavyAll(duty, sensor), NEW k \in Heavy
      PROVE  HeavyOK(e, k, AllAged(dt)[k])
  <2>. DEFINE y == AllAged(dt)[k]
  <2>1. /\ y.state = sensor[k].state /\ y.healthy = sensor[k].healthy
        /\ y.valid = sensor[k].valid /\ y.current = sensor[k].current
        /\ y.wake = Later(sensor[k].wake, dt, WakeDelay[k])
        /\ y.last = Later(sensor[k].last, dt, Floor[k])
    BY <1>1, <1>2
  <2>2. HeavyOK(duty, k, sensor[k])
    BY <1>4 DEF HeavyAll
  <2>3. /\ sensor[k].wake \in Nat /\ sensor[k].last \in 0 .. Floor[k] /\ sensor[k].last \in Nat
        /\ WakeDelay[k] \in Nat /\ Floor[k] \in Nat
    <3>1. sensor[k] \in SensorType(k)
      BY <1>1 DEF SensorsTyped
    <3>. QED  BY <1>1, <3>1, SensorFields
  <2>. HIDE DEF y
  <2>4. sensor[k].last = Floor[k] => y.last = Floor[k]
    BY <2>1, <2>3 DEF Later
  <2>5. ASSUME duty.phase = "WarmingUp"
        PROVE  /\ y.wake >= e.age \/ y.wake = WakeDelay[k]
               /\ y.last >= e.age \/ y.last = Floor[k]
    <3>1. duty.age \in Nat /\ e.age \in Nat /\ e.age <= duty.age + dt
      <4>1. AgeBound(duty) \in Nat
        BY <2>5, ConfigFacts DEF AgeBound
      <4>2. duty.age \in Nat
        BY DutyFields
      <4>3. /\ Later(duty.age, dt, AgeBound(duty)) \in 0 .. AgeBound(duty)
            /\ Later(duty.age, dt, AgeBound(duty)) <= duty.age + dt
        BY <4>1, <4>2, LaterType
      <4>. QED  BY <4>1, <4>2, <4>3
    <3>2. /\ sensor[k].wake >= duty.age \/ sensor[k].wake = WakeDelay[k]
          /\ sensor[k].last >= duty.age \/ sensor[k].last = Floor[k]
      BY <2>2, <2>5 DEF HeavyOK
    <3>. QED  BY <2>1, <2>3, <3>1, <3>2 DEF Later
  <2>6. HeavyOK(e, k, y)
    BY <2>1, <2>2, <2>4, <2>5 DEF HeavyOK, Asleep
  <2>. QED  BY <2>6 DEF y
<1>. QED  BY <1>3, <1>4 DEF HeavyAll

LEMMA RefreshedKeeps ==
  ASSUME mode \in Modes, NEW d \in DutyRec, NEW x, SensorsTyped(x), NEW a \in Answers
  PROVE  LET r == Refreshed(d, x, a)
         IN  /\ Carried(r.duty, d) /\ SensorsTyped(r.sensor)
             /\ GpsOK(d, x["gps"]) => GpsOK(r.duty, r.sensor["gps"])
             /\ \A k \in Heavy : r.sensor[k] = x[k]
<1>. DEFINE r == Refreshed(d, x, a)
            y == [x EXCEPT !["gps"] = GpsSample(@, a.sky)]
<1>. SUFFICES /\ Carried(r.duty, d) /\ SensorsTyped(r.sensor)
              /\ GpsOK(d, x["gps"]) => GpsOK(r.duty, r.sensor["gps"])
              /\ \A k \in Heavy : r.sensor[k] = x[k]
  OBVIOUS
<1>1. CASE StatusDue(d, a) /\ GpsReady(x["gps"])
  <2>1. r.duty = FixSeen(d, y) /\ r.sensor = y
    BY <1>1 DEF Refreshed, Pair
  <2>2. /\ SensorsTyped(y) /\ y["gps"] = GpsSample(x["gps"], a.sky)
        /\ y["sps30"] = x["sps30"] /\ y["wind"] = x["wind"]
    BY GpsReadMap, SensorsStayTyped
  <2>. HIDE DEF y, r
  <2>3. x["gps"] \in SensorType("gps") /\ y["gps"] \in SensorType("gps")
    BY <2>2 DEF SensorsTyped, Sensor
  <2>4. Carried(r.duty, d)
    BY <2>1, <2>3, FixSeenWrites DEF SensorType
  <2>5. ~Asleep(d) /\ r.duty.phase = d.phase
    BY <1>1, <2>4 DEF StatusDue, Carried
  <2>6. GpsOK(d, x["gps"]) => GpsOK(r.duty, r.sensor["gps"])
    BY <2>1, <2>2, <2>3, <2>5 DEF GpsOK, Asleep, GpsSample, Read, SensorType
  <2>. QED  BY <2>1, <2>2, <2>4, <2>6 DEF Heavy
<1>2. CASE ~(StatusDue(d, a) /\ GpsReady(x["gps"]))
  BY <1>2 DEF Refreshed, Pair, Carried
<1>. QED  BY <1>1, <1>2

LEMMA PassKeeps ==
  ASSUME mode \in Modes, duty \in DutyRec, SensorsTyped(sensor), packet \in PacketRec,
         WindowOK(duty, packet), NEW dt \in Nat, NEW a \in Answers, Pass(dt, a)
  PROVE  /\ duty' \in DutyRec /\ SensorsTyped(sensor') /\ packet' \in PacketRec
         /\ WindowOK(duty', packet')
         /\ GpsOK(duty, sensor["gps"]) => GpsOK(duty', sensor'["gps"])
         /\ FloorsFit /\ HeavyAll(duty, sensor) => HeavyAll(duty', sensor')
<1>. DEFINE h == Held(duty, packet)
            e == [Elapsed(duty, dt) EXCEPT !.hold = h]
            x == AllAged(dt)
            c == Controlled(e, x, a)
            r == Refreshed(c.duty, c.sensor, a)
            m == Marked(packet, duty.phase, c.duty.phase)
            z == [r.duty EXCEPT !.fresh = FALSE]
<1>1. /\ duty' = z /\ sensor' = r.sensor
      /\ packet' = IF c.duty.phase = "ActiveSampling" /\ c.duty.fresh THEN Pushed(m) ELSE m
  BY DEF Pass
<1>2. h \in BOOLEAN
  BY DEF Held
<1>0. h = (packet.held > 0)
  BY DEF Held
<1>. HIDE DEF h
<1>3. /\ e \in DutyRec /\ e.phase = duty.phase /\ e.fix = duty.fix /\ e.count = duty.count
      /\ e.hold = h /\ e.age = Later(duty.age, dt, AgeBound(duty))
  BY <1>2, ElapsedWrites
<1>4. WindowOK(e, packet)
  BY <1>2, WindowAged
<1>. HIDE DEF e
<1>5. SensorsTyped(x)
  BY AllAgedMap
<1>6. /\ GpsOK(duty, sensor["gps"]) => GpsOK(e, x["gps"])
      /\ HeavyAll(duty, sensor) => HeavyAll(e, x)
  BY <1>3, SensorsAged
<1>. HIDE DEF x
<1>7. /\ c.duty \in DutyRec /\ SensorsTyped(c.sensor)
  BY <1>3, <1>5, UpdateTyped
<1>8. /\ GpsOK(e, x["gps"]) => GpsOK(c.duty, c.sensor["gps"])
      /\ FloorsFit /\ HeavyAll(e, x) => HeavyAll(c.duty, c.sensor)
  BY <1>3, <1>5, GpsKept, HeavyKept
<1>9. packet' \in PacketRec /\ WindowIs(c.duty, packet')
  <2>1. e.hold = (packet.held > 0)
    BY <1>0, <1>3
  <2>2. LET n == Marked(packet, e.phase, c.duty.phase)
            q == IF c.duty.phase = "ActiveSampling" /\ c.duty.fresh THEN Pushed(n) ELSE n
        IN  q \in PacketRec /\ WindowIs(c.duty, q)
    BY <1>3, <1>4, <1>5, <2>1, PacketKept
  <2>. QED  BY <1>1, <1>3, <2>2
<1>. HIDE DEF c, m
<1>10. /\ Carried(r.duty, c.duty) /\ SensorsTyped(r.sensor)
       /\ GpsOK(c.duty, c.sensor["gps"]) => GpsOK(r.duty, r.sensor["gps"])
       /\ \A k \in Heavy : r.sensor[k] = c.sensor[k]
  BY <1>7, RefreshedKeeps
<1>. HIDE DEF r
<1>11. /\ z \in DutyRec /\ z.fresh = FALSE /\ z.fix = r.duty.fix
       /\ z.phase = c.duty.phase /\ z.age = c.duty.age /\ z.tick = c.duty.tick
       /\ z.count = c.duty.count /\ z.closed = c.duty.closed /\ z.overran = c.duty.overran
       /\ r.duty.phase = c.duty.phase
  BY <1>10 DEF Carried, DutyRec
<1>. HIDE DEF z
<1>12. WindowOK(z, packet')
  BY <1>9, <1>11 DEF WindowOK, WindowIs, Asleep
<1>13. GpsOK(r.duty, r.sensor["gps"]) => GpsOK(z, r.sensor["gps"])
  BY <1>11 DEF GpsOK, Asleep
<1>14. HeavyAll(c.duty, c.sensor) => HeavyAll(z, r.sensor)
  BY <1>10, <1>11 DEF HeavyAll, HeavyOK, Asleep
<1>. QED
  BY <1>1, <1>6, <1>8, <1>9, <1>10, <1>11, <1>12, <1>13, <1>14

-----------------------------------------------------------------------------
(***************************************************************************)
(* The inductive invariants.                                               *)
(***************************************************************************)
DutyInv == DutyTypeOK /\ WindowOK(duty, packet) /\ GpsOK(duty, sensor["gps"])
HeavyInv == HeavyAll(duty, sensor)

LEMMA TypeParts ==
  DutyTypeOK <=> /\ mode \in Modes /\ duty \in DutyRec /\ SensorsTyped(sensor)
                 /\ packet \in PacketRec /\ synced \in BOOLEAN /\ failed \in 0 .. MaxDutyFaults
  BY DEF DutyTypeOK, DutyRec, SensorsTyped, PacketRec

LEMMA DutyInitInv == DutyInit => DutyInv /\ HeavyInv
<1>. SUFFICES ASSUME DutyInit PROVE DutyInv /\ HeavyInv
  OBVIOUS
<1>1. PICK ok \in BOOLEAN :
        sensor = [SensorsBegun(ok) EXCEPT !["sps30"] = SpsWake(@, TRUE), !["wind"] = WindWake(@)]
  BY DEF DutyInit
<1>2. /\ DOMAIN sensor = Sensor
      /\ sensor["sht31"] = ShtBegun /\ sensor["gps"] = GpsBegun(ok)
      /\ sensor["sps30"] = SpsWake(SpsBegun, TRUE) /\ sensor["wind"] = WindWake(WindBegun)
  BY <1>1 DEF SensorsBegun, Sensor
<1>3. \A k \in Sensor : /\ WakeDelay[k] \in 0 .. WakeDelay[k] /\ Floor[k] \in 0 .. Floor[k]
                        /\ Floor[k] \in Nat
  BY SensorsAssumption
<1>4. /\ "Ready" \in States /\ "Off" \in States /\ "Sleeping" \in States
      /\ "sht31" \in Sensor /\ "gps" \in Sensor /\ "sps30" \in Sensor /\ "wind" \in Sensor
  BY DEF States, Sensor
<1>5. sensor["sht31"] \in SensorType("sht31")
  <2>1. sensor["sht31"] = Begun("sht31", "Ready", TRUE)
    BY <1>2 DEF ShtBegun
  <2>. QED  BY <1>3, <1>4, <2>1 DEF Begun, SensorType
<1>6. sensor["gps"] \in SensorType("gps") /\ sensor["gps"].state # "Sleeping"
  <2>1. CASE ok = TRUE
    <3>1. sensor["gps"] = Begun("gps", "Ready", TRUE)
      BY <1>2, <2>1 DEF GpsBegun
    <3>. QED  BY <1>3, <1>4, <3>1 DEF Begun, SensorType
  <2>2. CASE ok = FALSE
    <3>1. sensor["gps"] = Begun("gps", "Off", FALSE)
      BY <1>2, <2>2 DEF GpsBegun, GpsReset
    <3>. QED  BY <1>3, <1>4, <3>1 DEF Begun, SensorType
  <2>. QED  BY <2>1, <2>2
<1>7. \A k \in Heavy : /\ sensor[k] = Opening(Begun(k, "Sleeping", TRUE))
                       /\ Begun(k, "Sleeping", TRUE) \in SensorType(k)
                       /\ Begun(k, "Sleeping", TRUE).healthy
                       /\ Begun(k, "Sleeping", TRUE).state = "Sleeping"
  <2>1. ASSUME NEW k \in Heavy
        PROVE  /\ Begun(k, "Sleeping", TRUE) \in SensorType(k)
               /\ Begun(k, "Sleeping", TRUE).healthy
               /\ Begun(k, "Sleeping", TRUE).state = "Sleeping"
    <3>1. k \in Sensor
      BY DEF Heavy, Sensor
    <3>. QED  BY <1>3, <1>4, <3>1 DEF Begun, SensorType
  <2>2. sensor["sps30"] = Opening(Begun("sps30", "Sleeping", TRUE))
    BY <1>2, <2>1 DEF Heavy, SpsWake, SpsBegun, Awake
  <2>3. sensor["wind"] = Opening(Begun("wind", "Sleeping", TRUE))
    BY <1>2, <2>1 DEF Heavy, WindWake, WindBegun, Awake
  <2>. QED  BY <2>1, <2>2, <2>3 DEF Heavy
<1>8. \A k \in Heavy :
        /\ sensor[k] \in SensorType(k) /\ sensor[k].healthy /\ sensor[k].state = "Waking"
        /\ ~sensor[k].current /\ sensor[k].wake = 0 /\ sensor[k].last \in Nat
  <2>1. ASSUME NEW k \in Heavy, NEW b \in SensorType(k), b.healthy, NEW o, o = Opening(b)
        PROVE  /\ o \in SensorType(k) /\ o.healthy /\ o.state = "Waking"
               /\ ~o.current /\ o.wake = 0 /\ o.last \in Nat
    <3>1. k \in Sensor
      BY DEF Heavy, Sensor
    <3>2. Opening(b) \in SensorType(k) /\ b.last \in Nat
      <4>1. b.last \in Nat /\ 0 \in 0 .. WakeDelay[k]
        BY <3>1, SensorFields
      <4>2. Opening(b) \in SensorType(k)
        BY <4>1 DEF Opening, SensorType, States
      <4>. QED  BY <4>1, <4>2
    <3>. QED  BY <2>1, <3>2 DEF Opening, SensorType
  <2>. QED  BY <1>7, <2>1
<1>9. SensorsTyped(sensor)
  BY <1>2, <1>5, <1>6, <1>8 DEF SensorsTyped, Sensor, Heavy
<1>10. /\ mode \in Modes /\ synced \in BOOLEAN /\ failed = 0 /\ packet = Empty
       /\ duty.phase = "WarmingUp" /\ duty.age = 0 /\ duty.count = 0 /\ ~duty.fresh
  BY DEF DutyInit
<1>11. duty \in DutyRec
  <2>1. 0 \in Times /\ 0 \in 0 .. cfg.period /\ 0 \in 0 .. MaxCount
    BY <1>10, ConfigFacts DEF Times
  <2>. QED  BY <2>1 DEF DutyInit, DutyRec, Phases
<1>12. failed \in 0 .. MaxDutyFaults
  BY <1>10, DutyAssumption
<1>13. DutyTypeOK
  BY <1>9, <1>10, <1>11, <1>12, EmptyPacket, TypeParts
<1>14. WindowOK(duty, packet)
  BY <1>10 DEF WindowOK, WindowIs, Empty, Asleep
<1>15. GpsOK(duty, sensor["gps"])
  BY <1>6, <1>10 DEF GpsOK, Asleep
<1>16. ASSUME NEW k \in Heavy
       PROVE  HeavyOK(duty, k, sensor[k])
  BY <1>8, <1>10 DEF HeavyOK, Asleep
<1>. QED  BY <1>13, <1>14, <1>15, <1>16 DEF DutyInv, HeavyInv, HeavyAll

\* The types of the next state, as those of this one: the mode never changes.
LEMMA TypePartsNext ==
  ASSUME mode' = mode
  PROVE  DutyTypeOK' <=>
           /\ mode \in Modes /\ duty' \in DutyRec /\ SensorsTyped(sensor')
           /\ packet' \in PacketRec /\ synced' \in BOOLEAN /\ failed' \in 0 .. MaxDutyFaults
<1>1. cfg' = cfg
  BY DEF cfg
<1>. QED  BY <1>1 DEF DutyTypeOK, DutyRec, SensorsTyped, PacketRec

\* What a step has to show: WindowOK reads the mode, GpsOK and HeavyAll the state alone.
LEMMA StepShows ==
  ASSUME mode' = mode, mode \in Modes,
         duty' \in DutyRec, SensorsTyped(sensor'), packet' \in PacketRec,
         synced' \in BOOLEAN, failed' \in 0 .. MaxDutyFaults,
         WindowOK(duty', packet'), GpsOK(duty', sensor'["gps"])
  PROVE  DutyInv' /\ (HeavyAll(duty', sensor') => HeavyInv')
<1>1. DutyTypeOK'
  BY TypePartsNext
<1>2. WindowOK(duty, packet)'
  <2>1. cfg' = cfg
    BY DEF cfg
  <2>. QED  BY <2>1 DEF WindowOK, WindowIs, Windowed, Budget, Asleep
<1>3. GpsOK(duty, sensor["gps"])'
  BY DEF GpsOK, Asleep
<1>4. HeavyAll(duty', sensor') => HeavyInv'
  BY DEF HeavyInv, HeavyAll, HeavyOK, Asleep
<1>. QED  BY <1>1, <1>2, <1>3, <1>4 DEF DutyInv

LEMMA ResetKeeps ==
  ASSUME mode \in Modes, duty \in DutyRec, packet \in PacketRec, WindowOK(duty, packet)
  PROVE  Reset(packet) \in PacketRec /\ WindowOK(duty, Reset(packet))
<1>. DEFINE v == IF Windowed THEN packet.lost + packet.held ELSE packet.lost
            q == Reset(packet)
<1>. SUFFICES q \in PacketRec /\ WindowOK(duty, q)
  OBVIOUS
<1>1. q = [packet EXCEPT !.held = 0, !.lost = v]
  BY DEF Reset
<1>2. /\ packet.held \in Nat /\ packet.sent \in Nat /\ packet.lost \in Nat
      /\ packet.lost <= MaxCount /\ MaxCount \in Nat /\ 0 \in 0 .. Bundle - 1
      /\ duty.count \in Nat /\ duty.count <= MaxCount
  BY PacketFields, DutyFields, ConfigFacts
<1>3. WindowIs(duty, packet) /\ ~duty.fresh
  BY DEF WindowOK
<1>4. v \in 0 .. MaxCount
  <2>1. CASE Windowed /\ duty.phase = "ActiveSampling"
    <3>1. duty.count = packet.sent + packet.lost + packet.held
      BY <1>3, <2>1 DEF WindowIs
    <3>. QED  BY <1>2, <2>1, <3>1
  <2>2. CASE Windowed /\ duty.phase # "ActiveSampling"
    <3>1. packet.held = 0
      BY <1>3, <2>2 DEF WindowIs
    <3>. QED  BY <1>2, <2>2, <3>1
  <2>3. CASE ~Windowed
    BY <1>2, <2>3
  <2>. QED  BY <2>1, <2>2, <2>3
<1>5. Windowed => v = packet.lost + packet.held
  OBVIOUS
<1>. HIDE DEF v, q
<1>6. /\ q \in PacketRec /\ q.held = 0 /\ q.lost = v /\ q.sent = packet.sent
      /\ q.runt = packet.runt
  BY <1>1, <1>2, <1>4 DEF PacketRec
<1>7. WindowIs(duty, q)
  <2>1. CASE ~Windowed
    BY <1>3, <2>1 DEF WindowIs
  <2>2. CASE Windowed /\ duty.phase = "ActiveSampling"
    <3>1. q.sent + q.lost + q.held = packet.sent + packet.lost + packet.held
      BY <1>2, <1>5, <1>6, <2>2
    <3>. QED  BY <1>3, <1>6, <2>2, <3>1 DEF WindowIs, Asleep
  <2>3. CASE Windowed /\ duty.phase # "ActiveSampling"
    <3>1. packet.held = 0 /\ v = packet.lost
      BY <1>2, <1>3, <1>5, <2>3 DEF WindowIs
    <3>2. q = packet
      BY <1>1, <3>1 DEF PacketRec
    <3>. QED  BY <1>3, <3>2
  <2>. QED  BY <2>1, <2>2, <2>3
<1>. QED  BY <1>3, <1>6, <1>7 DEF WindowOK

LEMMA DutyStepInv ==
  DutyInv /\ [DutyNext]_dutyVars => DutyInv' /\ (FloorsFit /\ HeavyInv => HeavyInv')
<1>. SUFFICES ASSUME DutyInv, [DutyNext]_dutyVars
              PROVE  DutyInv' /\ (FloorsFit /\ HeavyInv => HeavyInv')
  OBVIOUS
<1>1. /\ mode \in Modes /\ duty \in DutyRec /\ SensorsTyped(sensor)
      /\ packet \in PacketRec /\ synced \in BOOLEAN /\ failed \in 0 .. MaxDutyFaults
      /\ WindowOK(duty, packet) /\ GpsOK(duty, sensor["gps"])
  BY TypeParts DEF DutyInv
<1>2. MaxDutyFaults \in Nat /\ Lateness \in Nat
  BY DutyAssumption
<1>3. CASE Passes
  <2>1. PICK dt \in 1 .. Lateness, a \in Answers :
          failed + Cardinality(a.fails) <= MaxDutyFaults /\ Pass(dt, a)
    BY <1>3 DEF Passes
  <2>2. dt \in Nat
    BY <1>2
  <2>3. Cardinality(a.fails) \in Nat
    <3>1. IsFiniteSet(Failures)
      <4>1. /\ IsFiniteSet({"sps30 command"}) /\ IsFiniteSet({"sps30 read"})
            /\ IsFiniteSet({"sht31 read"})
        BY FS_Singleton
      <4>2. Failures = {"sps30 command"} \cup ({"sps30 read"} \cup {"sht31 read"})
        BY DEF Failures
      <4>. QED  BY <4>1, <4>2, FS_Union
    <3>2. a.fails \subseteq Failures
      BY DEF Answers
    <3>. QED  BY <3>1, <3>2, FS_Subset, FS_CardinalityType
  <2>4. /\ mode' = mode /\ synced' = synced /\ failed' = failed + Cardinality(a.fails)
    BY <2>1 DEF Pass
  <2>5. failed' \in 0 .. MaxDutyFaults
    BY <1>1, <1>2, <2>1, <2>3, <2>4
  <2>6. /\ duty' \in DutyRec /\ SensorsTyped(sensor') /\ packet' \in PacketRec
        /\ WindowOK(duty', packet')
        /\ GpsOK(duty, sensor["gps"]) => GpsOK(duty', sensor'["gps"])
        /\ FloorsFit /\ HeavyAll(duty, sensor) => HeavyAll(duty', sensor')
    BY <1>1, <2>1, <2>2, PassKeeps
  <2>. QED  BY <1>1, <2>4, <2>5, <2>6, StepShows DEF HeavyInv
<1>4. ASSUME NEW dt \in 1 .. Lateness, Wait(dt)
      PROVE  DutyInv' /\ (FloorsFit /\ HeavyInv => HeavyInv')
  <2>1. /\ duty' = Elapsed(duty, dt) /\ sensor' = AllAged(dt) /\ mode' = mode
        /\ packet' = packet /\ synced' = synced /\ failed' = failed
    BY <1>4 DEF Wait
  <2>2. dt \in Nat
    BY <1>2
  <2>. DEFINE u == Elapsed(duty, dt)
              e == [u EXCEPT !.hold = FALSE]
  <2>3. /\ u \in DutyRec /\ e.phase = duty.phase /\ e.count = duty.count /\ e.fix = duty.fix
        /\ e.age = Later(duty.age, dt, AgeBound(duty))
    BY <1>1, <2>2, ElapsedWrites
  <2>4. WindowOK(u, packet)
    BY <1>1, <2>2, WindowAged
  <2>. HIDE DEF u
  <2>5. u.phase = e.phase /\ u.count = e.count /\ u.fix = e.fix /\ u.age = e.age
    BY <2>3 DEF DutyRec
  <2>. HIDE DEF e
  <2>6. /\ GpsOK(u, AllAged(dt)["gps"])
        /\ HeavyAll(duty, sensor) => HeavyAll(u, AllAged(dt))
    BY <1>1, <2>2, <2>3, <2>5, SensorsAged
  <2>7. SensorsTyped(AllAged(dt))
    BY <1>1, <2>2, AllAgedMap
  <2>8. duty' = u
    BY <2>1 DEF u
  <2>. QED  BY <1>1, <2>1, <2>3, <2>4, <2>6, <2>7, <2>8, StepShows DEF HeavyInv
<1>5. CASE LoseSync
  <2>1. /\ mode' = mode /\ duty' = duty /\ sensor' = sensor /\ packet' = packet
        /\ synced' = FALSE /\ failed < MaxDutyFaults /\ failed' = failed + 1
    BY <1>5 DEF LoseSync
  <2>2. failed' \in 0 .. MaxDutyFaults
    BY <1>1, <1>2, <2>1
  <2>. QED  BY <1>1, <2>1, <2>2, StepShows DEF HeavyInv
<1>6. CASE RegainSync
  <2>1. /\ mode' = mode /\ duty' = duty /\ sensor' = sensor /\ packet' = packet
        /\ synced' = TRUE /\ failed' = failed
    BY <1>6 DEF RegainSync
  <2>. QED  BY <1>1, <2>1, StepShows DEF HeavyInv
<1>7. CASE ChangeSession
  <2>1. /\ mode' = mode /\ duty' = duty /\ sensor' = sensor /\ packet' = Reset(packet)
        /\ synced' = TRUE /\ failed < MaxDutyFaults /\ failed' = failed + 1
    BY <1>7 DEF ChangeSession
  <2>2. failed' \in 0 .. MaxDutyFaults
    BY <1>1, <1>2, <2>1
  <2>3. Reset(packet) \in PacketRec /\ WindowOK(duty, Reset(packet))
    BY <1>1, ResetKeeps
  <2>. QED  BY <1>1, <2>1, <2>2, <2>3, StepShows DEF HeavyInv
<1>8. CASE UNCHANGED dutyVars
  <2>1. /\ mode' = mode /\ duty' = duty /\ sensor' = sensor /\ packet' = packet
        /\ synced' = synced /\ failed' = failed
    BY <1>8 DEF dutyVars
  <2>. QED  BY <1>1, <2>1, StepShows DEF HeavyInv
<1>. QED  BY <1>3, <1>4, <1>5, <1>6, <1>7, <1>8 DEF DutyNext

LEMMA DutyInvHolds == DutySpec => []DutyInv
<1>1. DutyInit => DutyInv
  BY DutyInitInv
<1>2. DutyInv /\ [DutyNext]_dutyVars => DutyInv'
  BY DutyStepInv
<1>. QED  BY <1>1, <1>2, PTL DEF DutySpec

(***************************************************************************)
(* What DutyTypeOK says of the controller, the sensors and the             *)
(* accumulator always holds: _activeSampleCount, which stops at 16#FFFF,   *)
(* is never asked for more in a window, and the accumulator never holds a  *)
(* whole bundle between two passes.                                        *)
(***************************************************************************)
THEOREM DutyIsTyped == DutySpec => []DutyTypeOK
<1>1. DutyInv => DutyTypeOK
  BY DEF DutyInv
<1>. QED  BY <1>1, DutyInvHolds, PTL

(***************************************************************************)
(* Timed: PKT_WINDOW_END counts the readings its window's bundles hold and *)
(* those a new session dropped, and nothing is left over for the next      *)
(* window.                                                                 *)
(***************************************************************************)
THEOREM WindowsAreAccounted == DutySpec => []WindowAccounted
<1>1. DutyInv => WindowAccounted
  BY DEF DutyInv, WindowOK, WindowIs, WindowAccounted, Asleep
<1>. QED  BY <1>1, DutyInvHolds, PTL

(***************************************************************************)
(* Timed: the last bundle of a window is short only if the overrun ended   *)
(* the window, and then the controller says so.                            *)
(***************************************************************************)
THEOREM RuntsAreKnown == DutySpec => []RuntOnlyIfOverran
<1>1. DutyInv => RuntOnlyIfOverran
  BY DEF DutyInv, WindowOK, WindowIs, RuntOnlyIfOverran
<1>. QED  BY <1>1, DutyInvHolds, PTL

(***************************************************************************)
(* The GPS, while it answers, sleeps with the controller if and only if a  *)
(* fix has been seen since the boot.                                       *)
(***************************************************************************)
THEOREM GpsSleepsOnceFixed == DutySpec => []GpsAwakeUntilFix
<1>1. DutyInv => GpsAwakeUntilFix
  BY DEF DutyInv, GpsOK, GpsAwakeUntilFix
<1>. QED  BY <1>1, DutyInvHolds, PTL

(***************************************************************************)
(* A reading of the SPS30 or of the wind sensor that a bundle reports      *)
(* valid is of this window, if no sampling floor outlasts the warm-up: of  *)
(* one that did, the first tick would find the sensor not ready, and the   *)
(* reading of the window before still in its place.                        *)
(***************************************************************************)
THEOREM ReadingsAreTheWindows == FloorsFit => (DutySpec => []ReadingsAreThisWindows)
<1>. SUFFICES ASSUME FloorsFit PROVE DutySpec => []ReadingsAreThisWindows
  OBVIOUS
<1>1. DutyInit => DutyInv /\ HeavyInv
  BY DutyInitInv
<1>2. DutyInv /\ HeavyInv /\ [DutyNext]_dutyVars => (DutyInv /\ HeavyInv)'
  BY DutyStepInv
<1>3. DutyInv /\ HeavyInv => ReadingsAreThisWindows
  BY DEF HeavyInv, HeavyAll, HeavyOK, ReadingsAreThisWindows
<1>. QED  BY <1>1, <1>2, <1>3, PTL DEF DutySpec

=============================================================================
