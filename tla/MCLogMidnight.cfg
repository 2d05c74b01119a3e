SPECIFICATION Spec
CONSTANTS
  p1 = p1
  p2 = p2
  Loggers <- MCLoggers
  RetainDays = 7
  MaxDay = 2
  MaxRecords = 3
  MaxLength = 3
SYMMETRY Symmetry
INVARIANTS
  PreservedThroughMidnight
CHECK_DEADLOCK FALSE
