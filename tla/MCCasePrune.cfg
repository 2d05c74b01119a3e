SPECIFICATION Spec
CONSTANTS
  r1 = r1
  r2 = r2
  Runs <- MCRuns
  Sources = {"log", "doc"}
  Marked = {"doc"}
  MaxAge = 1
  MaxTime = 1
SYMMETRY Symmetry
CHECK_DEADLOCK FALSE
PROPERTIES
  NeverHalfWritten
