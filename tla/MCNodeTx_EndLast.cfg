\* A bundle needs more room than a marker, as it does on the air.
SPECIFICATION NodeSpec
CONSTANTS
  SeqSpace = 3
  MaskBits = 1
  QueueDepth = 2
  WindowDepth = 2
  MaxAttempts = 3
  MaxAge = 4
  RetryWait = 2
  MinRetryGap = 1
  FreshHoldoff = 1
  HoldFrames = 2
  MaxSends = 3
  SlotRoom = 3
  BundleRoom = 2
  AppKinds <- Windowed
  MaxId = 3
INVARIANTS
  EndAfterBundles
