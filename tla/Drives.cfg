SPECIFICATION FairSpec
CONSTANTS
  Typed = {0, 1}
  Called = {0, 1, 2, 8, 10}
  Mounted = {1, 8}
  Comes = {0}
  Image = {1}
INVARIANT IoOnActive
 
INVARIANT LockOfCurrent
PROPERTY ActiveRestored
 
CHECK_DEADLOCK FALSE
