SPECIFICATION FairSpec
CONSTANTS
  nLrt = 3
  grt = 0
  NJobs = 2
  Activated <- AllActivated
  preds <- IdlePreds
  mappedPE <- IdleMapping
  jobID <- MCJobID
  nJobPerPE <- MCNJobPerPE
  jobs2Wait <- MCJobs2Wait
  lrts2Notify <- MCLrts2Notify
  TraceEnabled = FALSE
  LazyPosters <- NoLazyPoster
  MaxIterations = 1
PROPERTY IterateTerminates
CHECK_DEADLOCK FALSE
