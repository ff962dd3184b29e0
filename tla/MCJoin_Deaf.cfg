SPECIFICATION JoinSpec
CONSTANTS
  Nodes <- MCNodes
  Temp <- MCTemp
  MaxAssigned = 2
  StaleAge = 2
  DutyMode <- MCMode
  FirstFix = FALSE
  MaxSessions = 0
  Faults = {"refusal"}
  MaxFaults = 2
PROPERTIES
  StaleNodeRejoins
