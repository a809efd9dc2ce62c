SPECIFICATION MemSpec
CONSTANTS
  Graphs <- Pairs
  MaxRepetition = 9
  MinAlloc = 4
  MemSize = 40
INVARIANT PlacesAlwaysAgree
CHECK_DEADLOCK FALSE
