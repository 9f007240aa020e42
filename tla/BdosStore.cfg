SPECIFICATION Spec
CONSTANTS
  DSKSIZE = 2
  DirBlocks <- DirectoryBlocks
  Name = {n1, n2}
  Data = {zero, v}
  Zero = zero
  Hole = hole
  DIRSIZE = 1
  RPE = 1
  RPB = 1
  EXTS = 2
  S2S = 1
  Unused = Unused
  Watch = {}
  Slot = {s1, s2}
  Random <- AllRecords
  Attr = {TRUE}
  Shared = FALSE
SYMMETRY Alike
PROPERTY StoreSpec
