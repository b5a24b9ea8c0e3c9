CONSTANTS
  p1 = p1
  p2 = p2
  p3 = p3
  Procs = {p1, p2, p3}
  TIME_SLICE = 3
  YIELD_TICKS = 1
  CallersMask = FALSE
  NULL = NULL
SPECIFICATION FairSpec
INVARIANTS
  NoProcessLost
CHECK_DEADLOCK FALSE
