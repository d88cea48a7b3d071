CONSTANTS
  Bits = 2
  N = 2
  Codes <- MCCodes
  NoCode = NoCode
SPECIFICATION LiveSpec
PROPERTY Returned
