CONSTANTS
  Blks = {0, 1}
  Vals = {sp, v}
  Blank = sp
  Outside = {"abort"}
SPECIFICATION PowerSpec
INVARIANT HoldsItsBlock
