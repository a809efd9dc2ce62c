SPECIFICATION FairSpec
CONSTANTS
  nLrt = 4
  grt = 1
  MaxIterations = 2
INVARIANT IterateWaits
CHECK_DEADLOCK FALSE
