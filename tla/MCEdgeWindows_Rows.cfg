\* Two windows are enough for a lost BEGIN, and for a bundle that comes after the next one.
SPECIFICATION WindowSpec
CONSTANTS
  MaxWindow = 2
  MaxRestarts = 0
INVARIANTS
  RowsOfTheirWindow
CHECK_DEADLOCK FALSE
