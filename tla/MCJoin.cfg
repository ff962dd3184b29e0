SPECIFICATION JoinSpec
CONSTANTS
  Nodes <- MCNodes
  Temp <- MCTemp
  MaxAssigned = 2
  StaleAge = 2
  DutyMode <- MCMode
  FirstFix = TRUE
  MaxSessions = 1
  Faults = {"loss", "refusal", "node reboot", "node reset", "base reboot", "base reset"}
  MaxFaults = 1
INVARIANTS
  JoinTypeOK
  IdIsTheBases
PROPERTIES
  ListenersRegainSync
  SessionReachesAll
