SPECIFICATION Spec
CONSTANTS
  p1 = p1
  p2 = p2
  Loggers <- MCLoggers
  RetainDays = 1
  MaxDay = 3
  MaxRecords = 3
  MaxLength = 3
SYMMETRY Symmetry
INVARIANTS
  NothingLostAlone
  SweptInTime
  OnceAndInOrder
CHECK_DEADLOCK FALSE
