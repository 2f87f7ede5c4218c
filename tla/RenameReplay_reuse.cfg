SPECIFICATION Spec
CONSTANTS
  Path = {a, b, c}
  File = {x, y}
  MaxCommits = 6
  MAX_ALIAS_DEPTH = 6
  PathsReused = TRUE
  Droppable = {}
INVARIANT
  NoOtherFilesChange
