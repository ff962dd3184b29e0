\* The ring is asked for five entries and has three, so that the constructor's clamp
\* matters; the eviction counter wraps every four evictions.
\* A window of readings, a queue of frames and a boot end here, hence no deadlock check.
SPECIFICATION MCSpec
CONSTANTS
  Frames = {f1, f2, f3}
  NoFrame = NoFrame
  Depth = 5
  MaxDepth = 3
  CounterSize = 4
  WakeDelay <- MCWakeDelay
  Floor <- MCFloor
  Config <- MCConfig
  Bundle = 2
  MaxCount = 9
  Horizon = 16
  Lateness = 2
  MaxDutyFaults = 1
  Fields = {"wind", "temp"}
  SensorOf <- MCSensorOf
  Absolute = {"wind"}
  Unit <- MCUnit
  Least <- MCLeast
  Most <- MCMost
  Values <- MCValues
  Tick = 4
  MaxTicks = 3
  MaxDeltas = 2
  Gaps = {5, 6, 14}
  Modulus = 6
  Reach = 4
  MaxMade = 7
  MaxHeard = 5
  MaxAwakens = 1
  MaxUpsets = 1
  MaxWindow = 3
  MaxRestarts = 2
  M0 = 8
  M1 = 9
  Bytes = {0, 1, 3, 4, 6, 8, 9}
  Data <- MCData
  Checks = 9
  MinLength = 2
  MaxLength = 4
  MaxByte = 6
  MaxNoise = 2
INVARIANTS
  TypeOK
  DutyTypeOK
  WindowAccounted
  RuntOnlyIfOverran
  ReadingsAreThisWindows
  GpsAwakeUntilFix
  CodecTypeOK
  ReadingsAreClose
  TimesAreClose
  LossTypeOK
  LossAccounted
  PromptRowsAreStamped
  OneRowIsFirst
  CleanFramesArrive
PROPERTIES
  ImplementsFifo
  SleepEnds
CHECK_DEADLOCK FALSE
