SPECIFICATION Spec
CONSTANTS
  DSKSIZE = 2
  DirBlocks <- DirectoryBlocks
  Name = {n1}
  Data = {zero}
  Zero = zero
  Hole = hole
  DIRSIZE = 3
  RPE = 1
  RPB = 1
  EXTS = 2
  S2S = 2
  Unused = Unused
  Watch = {"xfer"}
  Slot = {s1, s2}
  Random <- EvenRecords
  Attr = {TRUE}
  Shared = TRUE
SYMMETRY Alike
INVARIANTS NoSharedBlocks NothingUsedIsFree OneEntryPerExtent TransferInside  
PROPERTY ProtectedUntouched
