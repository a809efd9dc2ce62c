SPECIFICATION FairSpec
CONSTANTS
  nLrt = 2
  grt = 0
  NJobs = 6
  NRounds = 3
  Activated <- AllActivated
  preds <- ReturnPreds
  mappedPE <- ReturnMapping
  round <- ReturnRounds
  Config <- ReturnConfig
  jobID <- MCJobID
  nJobPerPE <- MCNJobPerPE
  jobs2Wait <- MCJobs2Wait
  TraceEnabled = TRUE
  LazyPosters <- OnlyGrt
  MaxIterations = 2
INVARIANT TypeOK
INVARIANT ParametersAreKnown
INVARIANT StampsAreReset
INVARIANT TracesAreKept
PROPERTY ImplementsDataflow
PROPERTY IterateTerminates
