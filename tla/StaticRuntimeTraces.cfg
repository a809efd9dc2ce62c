SPECIFICATION Spec
CONSTANTS
  nLrt = 3
  grt = 0
  NJobs = 4
  Activated <- AllActivated
  preds <- RelayPreds
  mappedPE <- RelayMapping
  jobID <- MCJobID
  nJobPerPE <- MCNJobPerPE
  jobs2Wait <- MCJobs2Wait
  lrts2Notify <- MCLrts2Notify
  TraceEnabled = TRUE
  LazyPosters <- AllButLrt1
  MaxIterations = 2
INVARIANT IterationComplete
