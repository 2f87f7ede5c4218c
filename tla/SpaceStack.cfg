SPECIFICATION Spec
CONSTANTS
  N = 5
  Kinds = {"function", "closure", "class", "item", "branch", "attr", "test", "marker", "file_marker"}
INVARIANTS
  OpenSpacesFollowChain
  ClosedOnceInsideOut
  CountedWhereItStands
  MarkersLandInnermost
  NestingIsInherited
PROPERTY ExactlyTestCodeIsPruned
