SPECIFICATION FairSpec
CONSTANTS
  Typed = {0}
  Called = {0, 9}
  Mounted = {0, 8}
  Comes = {}
  Image = {}
INVARIANT IoOnActive
CHECK_DEADLOCK FALSE
