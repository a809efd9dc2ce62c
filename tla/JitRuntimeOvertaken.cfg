SPECIFICATION Spec
CONSTANTS
  nLrt = 3
  grt = 0
  NJobs = 3
  NRounds = 2
  Activated <- AllActivated
  preds <- TailPreds
  mappedPE <- TailMapping
  round <- TailRounds
  Config <- TailConfig
  jobID <- MCJobID
  nJobPerPE <- MCNJobPerPE
  jobs2Wait <- MCJobs2Wait
  TraceEnabled = FALSE
  LazyPosters <- NoLazyPoster
  MaxIterations = 2
PROPERTY ImplementsDataflow
