CONSTANTS
  Blks = {0, 1, 2}
  Vals = {sp, v}
  Blank = sp
  msdsks <- MCmsdsks
  Drives = {0, 1}
SPECIFICATION Spec
INVARIANTS TypeOK RightDisk
PROPERTIES MediumSpec DrvselFlushed
