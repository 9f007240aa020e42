SPECIFICATION Spec
CONSTANTS
  User = {0, 1}
  Name = {"x", "y"}
  RECLEN = 2
  RECS = 2
  Capacity = 3
  Files = 2
  Byte <- Bytes_
  Default = 255
  Hole = Hole
  Absent = Absent
  Closed = Closed
  NoName = NoName
  MAXCHAN = 2
  MAXFILE = 2
  BUFSIZ = 2
  MAXSTREAM = 1
  Target <- Names
  Opening <- Modes
  Amount = {1, 3}
  Text <- Texts
  Goal <- Goals
  Memory = {TRUE}
  Stored <- Disks
  Calls = 6
  Alone = TRUE
  Rewrites = FALSE
INVARIANTS  NothingHeld
 
CHECK_DEADLOCK FALSE
