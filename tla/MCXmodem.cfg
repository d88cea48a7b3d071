CONSTANTS
  PktLen = 2
  PerBlk = 2
  Source <- MCSource
  Old <- MCOld
  CRC16 <- MCCRC16
  Noise = {0, 1, 4, 6, 21, 67}
  Faults = 1
SPECIFICATION LiveSpec
INVARIANTS TypeOK Delivered Whole
PROPERTIES TakenStays Ends
CHECK_DEADLOCK FALSE
