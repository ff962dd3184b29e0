\* The node fades out of range at the moment of a step down: no operator, one fault.
SPECIFICATION PowerSpec
CONSTANTS
  MinDbm = 1
  MaxDbm = 3
  Step = 2
  DecisionInterval = 1
  AckTimeout = 2
  SilenceTimeout = 3
  MaxProbes = 3
  MaxTotal = 1
  NoPower = NoPower
  QueueSize = 2
  MaxAttempts = 3
  UplinkDepth = 2
  Asks = {0}
  MaxOrders = 0
  Faults = {"loss", "fade"}
  MaxFaults = 1
PROPERTIES
  DarkNodeIsRestored
