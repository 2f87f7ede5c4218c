SPECIFICATION Spec
CONSTANTS
  Path = {a, b, c, d}
  File = {x, y}
  MaxCommits = 6
  MAX_ALIAS_DEPTH = 3
  PathsReused = FALSE
  Droppable = {"create", "edit", "delete"}
INVARIANTS
  HomedAtTarget
