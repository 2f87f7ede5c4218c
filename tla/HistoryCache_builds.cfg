SPECIFICATION WarmSpec
CONSTANTS
  c1 = c1
  c2 = c2
  x = x
  m = m
  cfg1 = cfg1
  cfg2 = cfg2
  NoTime = NoTime
  MinTime = 1
  Absent = Absent
  p1 = p1
  p2 = p2
  Proc = {p1, p2}
  Version = {1}
  Commit <- MCBranch
  Parents <- MCParents
  Time <- MonotoneTimes
  Option <- FirstParentOnly
  Config = {cfg1}
  Recorded <- MCRecorded
  MaxDepth = 1
  Graft <- MCUnshallow
  CacheConfig <- Enabled
  Clock = {3, 5}
  Changes = 2
  Faults = {}
INVARIANTS EntriesSound
PROPERTIES ServiceSpec EventuallyWarm
