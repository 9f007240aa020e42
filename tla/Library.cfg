SPECIFICATION Spec
CONSTANTS
  Given <- Arrays
  INT = 65536
  HIGH = 16
  Job <- Jobs
  Limit = 12
  GRAIN = 4
  Request = {4, 17}
  Gap = {1}
INVARIANTS Sorts InPart  PrintsRight ScansRight HeapInOrder
PROPERTIES QsortReturns NothingLost NullWhenFull
CHECK_DEADLOCK FALSE
