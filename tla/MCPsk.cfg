CONSTANTS
  Bits = 2
  N = 4
  Codes <- MCCodes
  NoCode = NoCode
SPECIFICATION LiveSpec
INVARIANTS TypeOK HeadKept
PROPERTIES FifoSpec ReturnedIfTyping
