SPECIFICATION FairSpec
CONSTANTS
  DSKSIZE = 7
  DirBlocks <- DirectoryBlocks
INVARIANTS FindsNearest
PROPERTY Returns
