SPECIFICATION Spec
CONSTANTS
  Files = {f1, f2, f3, f4}
  Unread = {f3}
  SelfIncluding = {f1}
  Undecodable = {f4}
  NoPath = NoPath
INVARIANTS
  Lockstep
  CollapseKeepsReach
  NoCycleLeft
  MacrosAreThoseIncluded
  LeftOutIsReported
