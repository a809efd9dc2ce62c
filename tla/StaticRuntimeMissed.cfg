SPECIFICATION Spec
CONSTANTS
  nLrt = 3
  grt = 0
  NJobs = 6
  Activated <- AllActivated
  preds <- BraidPreds
  mappedPE <- BraidMapping
  jobID <- MCJobID
  nJobPerPE <- MCNJobPerPE
  jobs2Wait <- MCJobs2Wait
  lrts2Notify <- MCLrts2Notify
  TraceEnabled = FALSE
  LazyPosters <- AllLazyPosters
  MaxIterations = 2
INVARIANT SanityCheckHolds
