SPECIFICATION FairRunnerSpec
CONSTANTS
  num_jobs = 3
  NumFiles = 4
  verify_paths = TRUE
  Pill = Pill
  None = None
INVARIANTS RunnerTypeOK OkMeansAllHandled
PROPERTY PoolEnds
CHECK_DEADLOCK FALSE
