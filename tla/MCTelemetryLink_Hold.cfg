\* The hold of two frames, as kAckRoundTripFrames; one lost bundle.
SPECIFICATION LinkSpec
CONSTANTS
  SeqSpace = 9
  MaskBits = 3
  QueueDepth = 3
  WindowDepth = 3
  MaxAttempts = 3
  MaxAge = 6
  RetryWait = 2
  MinRetryGap = 1
  FreshHoldoff = 1
  HoldFrames = 2
  MaxSends = 3
  SlotRoom = 3
  BundleRoom = 2
  AppKinds <- Telemetry
  MaxId = 4
  NumNodes = 1
  MaxAckFailures = 3
  SilenceFrames = 2
  Faults = {"loss"}
  MaxFaults = 1
  Timed = TRUE
INVARIANTS
  HonestExpiry
