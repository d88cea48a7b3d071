CONSTANTS
  LNSZ = 4
  Lines = 2
  Texts <- MCTexts
  Typed <- MCTyped
SPECIFICATION LiveSpec
INVARIANTS TypeOK OneSource
PROPERTIES StreamSpec Ready
