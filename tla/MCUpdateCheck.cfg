SPECIFICATION Spec
CONSTANTS
  p1 = p1
  p2 = p2
  Procs <- MCProcs
  Interval = 2
  MaxTag = 2
  MaxTime = 3
SYMMETRY Symmetry
INVARIANTS
  MarkedMeansShown
  BannerOncePerTag
CHECK_DEADLOCK FALSE
