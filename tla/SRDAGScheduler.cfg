SPECIFICATION Spec
CONSTANTS
  MaxVertex = 4
  MaxPE = 2
  Vertices <- MCVertices
  PE <- MCPE
  Enabled <- MCEnabled
  grt = 0
  Graphs <- MCGraphs
  virtualID <- MCVirtualID
  Timings <- MCAllTimings
  MapTime = 1
INVARIANT ScheduleIsSound
INVARIANT SourcesAreMapped
INVARIANT TimesAreSound
CHECK_DEADLOCK FALSE
