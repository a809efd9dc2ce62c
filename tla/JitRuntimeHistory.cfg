SPECIFICATION HistorySpec
CONSTANTS
  nLrt = 3
  grt = 0
  NJobs = 3
  NRounds = 2
  Activated <- AllActivated
  preds <- TailPreds
  mappedPE <- TailMapping
  round <- TailRounds
  Config <- TailConfig
  jobID <- MCJobID
  nJobPerPE <- MCNJobPerPE
  jobs2Wait <- MCJobs2Wait
  TraceEnabled = FALSE
  LazyPosters <- AllActivated
  MaxIterations = 2
INVARIANT StampsTrueUntilLeftover
PROPERTY DataflowUntilLeftover
PROPERTY MissedForALatePost
CHECK_DEADLOCK FALSE
