\* The SF9 profile in units of 5 ms: guard 30, margin 50, wake-ahead 200,
\* TIME_SYNC 185 ms on the air.
SPECIFICATION Spec
CONSTANTS
  NumSlots = 3
  SlotWidth = 64
  Guard = 6
  Margin = 10
  WakeAhead = 40
  FrameAir = 30
  Airtimes <- MCAirtimes
  SyncAir = 37
  Overrun = 0
  Drift = 0
  LastSlot = 4
INVARIANTS
  ScheduledSendsDisjoint
CHECK_DEADLOCK FALSE
