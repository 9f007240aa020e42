SPECIFICATION Spec
CONSTANTS
  User = {0, 1}
  Name = {"x", "y"}
  RECLEN = 2
  RECS = 3
  Capacity = 5
  Files = 3
  Byte <- Bytes_
  Default = 255
  Hole = Hole
  Absent = Absent
  Closed = Closed
  MAXFILE = 2
  RDNSCT = 2
  WRNSCT = 2
  Target <- Names
  Text = {10, 26}
  Stored <- Disks
  Calls = 7
PROPERTY TinySpec
CHECK_DEADLOCK FALSE
