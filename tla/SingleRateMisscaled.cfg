SPECIFICATION MemSpec
CONSTANTS
  Graphs <- Misscaled
  MaxRepetition = 9
  MinAlloc = 4
  MemSize = 40
INVARIANT ConsistentIsAccepted
CHECK_DEADLOCK FALSE
