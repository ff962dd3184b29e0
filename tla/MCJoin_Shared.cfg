\* Two nodes whose hashes have the same low byte.
SPECIFICATION JoinSpec
CONSTANTS
  Nodes <- MCNodes
  Temp <- MCSame
  MaxAssigned = 2
  StaleAge = 2
  DutyMode <- MCMode
  FirstFix = TRUE
  MaxSessions = 0
  Faults = {}
  MaxFaults = 0
INVARIANTS
  EveryIdIsTheBases
