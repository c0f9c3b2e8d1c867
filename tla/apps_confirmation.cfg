SPECIFICATION AppsSpec
CONSTANTS
  Packages = {"p"}
  MaxTargets = 2
  MaxRequests = 3
INVARIANT ConfirmedTargetIsKept
CHECK_DEADLOCK FALSE
