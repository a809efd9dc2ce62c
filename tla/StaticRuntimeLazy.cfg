SPECIFICATION FairSpec
CONSTANTS
  nLrt = 3
  grt = 0
  NJobs = 5
  Activated <- AllActivated
  preds <- ZigzagPreds
  mappedPE <- ZigzagMapping
  jobID <- MCJobID
  nJobPerPE <- MCNJobPerPE
  jobs2Wait <- MCJobs2Wait
  lrts2Notify <- MCLrts2Notify
  TraceEnabled = FALSE
  LazyPosters <- AllLazyPosters
  MaxIterations = 2
PROPERTY ImplementsDataflow
PROPERTY StampsOnlyAdvance
PROPERTY IterateTerminates
PROPERTY DestroyTerminates
