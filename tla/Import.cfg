SPECIFICATION ISpec
CONSTANTS
  n1 = n1
  n2 = n2
  u1 = u1
  u2 = u2
  u3 = u3
  DSKSIZE = 9
  DirBlocks <- DirectoryBlocks
  Name = {n1, n2}
  Data = {zero}
  Zero = zero
  DIRSIZE = 4
  RPE = 4
  RPB = 2
  EXTS = 4
  S2S = 2
  XH = 8
  Behind = {"drive"}
  LOW = 2
  Unused = Unused
  Watch = {}
  Host = {u1, u2, u3}
  CpmName <- Alike1
  MaxSize = 8
 
INVARIANT FreeIsFree
CHECK_DEADLOCK FALSE
