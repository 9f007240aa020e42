SPECIFICATION MCSpec
CONSTANTS
  SECTORS = 3
  OFFSET = 1
  XLATE <- Skew
  LAST = 15
  WORD = 16
  BYTE = 7
  Hi = {0, 1, 2, 3, 4, 5, 6, 7, 8, 9, 10, 11, 12, 13, 14, 15}
  R1 <- Bytes
  Extent <- Extents
  Entries = 2
INVARIANTS RightSector NumbersAgree SizeIsEnd
PROPERTY SeekEnds
CHECK_DEADLOCK FALSE
