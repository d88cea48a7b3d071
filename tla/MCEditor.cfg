CONSTANTS
  LNSZ = 4
  LINES = 3
  Blks = {0, 1, 2}
  Chars = {"a", "b"}
  Typed <- MCTyped
  FirstF <- MCFirstF
  Disks <- MCDisks
  Numbers = {0, 2}
  MaxKeys = 3
SPECIFICATION Spec
INVARIANTS CutPaste
PROPERTIES PagesSpec Strays
CHECK_DEADLOCK FALSE
