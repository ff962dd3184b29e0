\* SF7's waits in ticks of a minute, shortened: a decision per tick, a CMD_ACK within two,
\* silence after three.  Three powers and a step of two, so that
\* a step below the lowest is clamped; two faults, so that a probe is lost after a fade.
SPECIFICATION PowerSpec
CONSTANTS
  MinDbm = 1
  MaxDbm = 3
  Step = 2
  DecisionInterval = 1
  AckTimeout = 2
  SilenceTimeout = 3
  MaxProbes = 3
  MaxTotal = 1
  NoPower = NoPower
  QueueSize = 2
  MaxAttempts = 3
  UplinkDepth = 2
  Asks = {0}
  MaxOrders = 1
  Faults = {"loss", "refusal", "driver", "stale", "reboot", "fade"}
  MaxFaults = 2
INVARIANTS
  PowerTypeOK
  OneChangeInFlight
PROPERTIES
  BelievedLowIsProbed
  BeliefSettles
