SPECIFICATION Spec
CONSTANTS
  Intervals = {0, 11, 30}
  MaxRtt = 2
INVARIANTS
  AliveIsKept
  SilentIsFound
CHECK_DEADLOCK FALSE
