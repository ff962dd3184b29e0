\* Every kind of fault, two of any; windows of sampling with standby between them.
\* Bundles are as short as markers, so that no frame goes back to the queue; a mask of
\* two bits, so that windows have gaps and jump; two attempts, so that a budget is soon spent.
\* Less than half of the numbers are used, which AcksAreSoundUnwrapped asks.
SPECIFICATION LinkSpec
CONSTANTS
  SeqSpace = 11
  MaskBits = 2
  QueueDepth = 3
  WindowDepth = 3
  MaxAttempts = 2
  MaxAge = 6
  RetryWait = 2
  MinRetryGap = 1
  FreshHoldoff = 1
  HoldFrames = 2
  MaxSends = 3
  SlotRoom = 3
  BundleRoom = 1
  AppKinds <- Telemetry
  MaxId = 5
  NumNodes = 1
  MaxAckFailures = 3
  SilenceFrames = 2
  Faults = {"loss", "refusal", "skip", "timeout", "reboot", "session"}
  MaxFaults = 2
  Timed = TRUE
INVARIANTS
  LinkTypeOK
  AckSound
  NoAckIntoStandby
  OneSkipIsTolerated
PROPERTIES
  NothingTakenBack
