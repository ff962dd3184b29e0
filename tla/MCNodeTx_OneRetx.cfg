\* MaxSends is the three of the code and the slot has room for three frames.
SPECIFICATION NodeSpec
CONSTANTS
  SeqSpace = 3
  MaskBits = 1
  QueueDepth = 2
  WindowDepth = 2
  MaxAttempts = 3
  MaxAge = 4
  RetryWait = 2
  MinRetryGap = 1
  FreshHoldoff = 1
  HoldFrames = 2
  MaxSends = 3
  SlotRoom = 3
  BundleRoom = 2
  AppKinds <- Telemetry
  MaxId = 2
INVARIANTS
  OneRetxPerSlot
