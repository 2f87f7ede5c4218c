SPECIFICATION Spec
CONSTANTS
  num_jobs = 3
  NumFiles = 4
  verify_paths = FALSE
  Pill = Pill
  None = None
INVARIANTS TypeOK LateNotLost LossIsTallied ExitZeroIsComplete
PROPERTY WalkOrder
CHECK_DEADLOCK FALSE
