SPECIFICATION FairSpec
CONSTANTS
  nLrt = 4
  grt = 1
  MaxIterations = 0
PROPERTY CallsReturn
CHECK_DEADLOCK FALSE
