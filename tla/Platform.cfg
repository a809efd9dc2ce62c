SPECIFICATION FairHistorySpec
CONSTANTS
  nLrt = 3
  grt = 1
  MaxIterations = 3
INVARIANT TypeOK
INVARIANT OnlyArchiIsLost
INVARIANT WaitsUntilMiscounted
PROPERTY ReturnsUntilMiscounted
CHECK_DEADLOCK FALSE
