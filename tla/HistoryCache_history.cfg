SPECIFICATION Spec
CONSTANTS
  c1 = c1
  c2 = c2
  x = x
  m = m
  cfg1 = cfg1
  cfg2 = cfg2
  NoTime = NoTime
  MinTime = 1
  Absent = Absent
  p1 = p1
  p2 = p2
  Proc = {p1}
  Version = {1}
  Commit <- MCCommit
  Parents <- MCParents
  Time <- MonotoneTimes
  Option <- AllOptions
  Config = {cfg1, cfg2}
  Recorded <- MCRecorded
  MaxDepth = 2
  Graft <- MCGraft
  CacheConfig <- AllConfigs
  Clock <- MCClock
  Changes = 2
  Faults = {"abort", "write_error", "clear_error", "lost_file"}
INVARIANTS TypeOK HitIsFresh NoSilentTruncation
