SPECIFICATION Spec
CONSTANTS
  nLrt = 3
  grt = 0
  NJobs = 2
  NRounds = 2
  Activated <- AllActivated
  preds <- FromGrtPreds
  mappedPE <- FromLrtMapping
  round <- TwoRounds
  Config <- FirstConfig
  jobID <- MCJobID
  nJobPerPE <- MCNJobPerPE
  jobs2Wait <- MCJobs2Wait
  TraceEnabled = FALSE
  LazyPosters <- NoLazyPoster
  MaxIterations = 1
PROPERTY BroadcastAfterLastJob
