SPECIFICATION Spec
CONSTANTS
  w1 = w1
  w2 = w2
  Workers = {w1, w2}
  MaxChanges = 2
SYMMETRY WorkerSymmetry
INVARIANTS
  ResultsAreOfThisMode
  CancelledLeaseYieldsNothing
  IdentityIsOfOwnLease
  CacheIsOfThisLease
  FreshLeaseIsLive
PROPERTIES
  OnlyOwnModeIsInvalidated
CHECK_DEADLOCK FALSE
