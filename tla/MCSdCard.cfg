CONSTANTS
  Blocks = {1}
  Sectors = {1, 2, 3}
  Len512 = 12
  Tries = 3
  Resets = 3
  Wakes = 3
  Patterns <- MCLong
  Damaged = {0, 1, 255}
  Glitches = 1
SPECIFICATION Spec
INVARIANTS Moved InSync CrcsAgree
PROPERTIES OnlyTarget NoErrorUp DamageFound
