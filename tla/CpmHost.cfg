SPECIFICATION CSpec
CONSTANTS
  DSKSIZE = 2
  DirBlocks <- DirectoryBlocks
  Name = {n1, n2}
  Data = {zero, v}
  Zero = zero
  Hole = hole
  DIRSIZE = 1
  RPE = 2
  RPB = 1
  EXTS = 1
  S2S = 2
  XH = 4
  Behind = {"drive", "other"}
  Unused = Unused
  Watch = {"io"}
  Slot = {s1}
  Random <- EvenRecords
  Attr = {TRUE}
  Shared = FALSE
  Tidy = TRUE
  MayDie = TRUE
SYMMETRY Alike
 
PROPERTY ClosedIsOnHost
CHECK_DEADLOCK FALSE
