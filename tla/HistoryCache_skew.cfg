SPECIFICATION Spec
CONSTANTS
  c1 = c1
  c2 = c2
  x = x
  m = m
  cfg1 = cfg1
  cfg2 = cfg2
  NoTime = NoTime
  MinTime = 1
  Absent = Absent
  p1 = p1
  p2 = p2
  Proc = {p1}
  Version = {1}
  Commit <- MCBranch
  Parents <- MCParents
  Time <- SkewedTimes
  Option <- FirstParentOnly
  Config = {cfg1, cfg2}
  Recorded <- MCRecorded
  MaxDepth = 0
  Graft <- NoGraft
  CacheConfig <- Enabled
  Clock <- MCClock
  Changes = 2
  Faults = {}
INVARIANT HitIsFresh
