SPECIFICATION FairSpec
CONSTANTS
  Request = {q1, q2, q3, q4}
  n_threads = 2
  max_orphaned_tasks = 1
INVARIANTS TypeOK SoftCap
PROPERTIES EventuallyAnswered Recovers
CHECK_DEADLOCK FALSE
