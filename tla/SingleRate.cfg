SPECIFICATION MemSpec
CONSTANTS
  Graphs <- AllGraphs
  MaxRepetition = 9
  MinAlloc = 4
  MemSize = 40
INVARIANT RepetitionVectorIsRight
INVARIANT ReadsAsSpecified
INVARIANT SharedPlacesAgree
PROPERTY OptimsEnds
CHECK_DEADLOCK FALSE
