\* A marker and two telemetry frames, a slot as long as a bundle, and nothing goes wrong: the
\* queue is never full, no number wraps and the window does not jump.
SPECIFICATION LinkSpec
CONSTANTS
  SeqSpace = 9
  MaskBits = 3
  QueueDepth = 3
  WindowDepth = 4
  MaxAttempts = 3
  MaxAge = 6
  RetryWait = 2
  MinRetryGap = 1
  FreshHoldoff = 1
  HoldFrames = 2
  MaxSends = 3
  SlotRoom = 2
  BundleRoom = 2
  AppKinds <- Telemetry
  MaxId = 3
  NumNodes = 1
  MaxAckFailures = 3
  SilenceFrames = 2
  Faults = {}
  MaxFaults = 0
  Timed = TRUE
INVARIANTS
  OnlyGapsAreResent
