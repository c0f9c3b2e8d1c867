SPECIFICATION Spec
CONSTANTS
  Requests = {r1, r2}
  MaxStarts = 3
INVARIANTS
  StopsOnlyWhenIdle
CHECK_DEADLOCK FALSE
