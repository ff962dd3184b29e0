\* The SF7 profile in units of 4 ms: guard 20, margin 22, wake-ahead 150,
\* TIME_SYNC 52 ms on the air.
SPECIFICATION Spec
CONSTANTS
  NumSlots = 3
  SlotWidth = 40
  Guard = 5
  Margin = 5
  WakeAhead = 37
  FrameAir = 20
  Airtimes <- MCAirtimes
  SyncAir = 13
  Overrun = 0
  Drift = 2
  LastSlot = 4
INVARIANTS
  TypeOK
  ScheduledSendsDisjoint
  BaseFindsNodesListening
\* The time bound ends every behaviour.
CHECK_DEADLOCK FALSE
