\* Three sequence numbers for four frames, so that they wrap while entries are
\* pending; a queue and a window of two, so that both overflow.
SPECIFICATION NodeSpec
CONSTANTS
  SeqSpace = 3
  MaskBits = 1
  QueueDepth = 2
  WindowDepth = 2
  MaxAttempts = 2
  MaxAge = 3
  RetryWait = 2
  MinRetryGap = 1
  FreshHoldoff = 1
  HoldFrames = 2
  MaxSends = 2
  SlotRoom = 3
  BundleRoom = 2
  AppKinds <- Wakeups
  MaxId = 4
INVARIANTS
  NodeTypeOK
  AirBudget
  OneEntryPerSeq
