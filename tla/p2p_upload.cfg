SPECIFICATION Spec
CONSTANTS
  Files = {f1, f2}
  Dirs = {d1}
  Olds = {f1}
  Scenarios <- MCScenarios
  MaxSessions = 2
INVARIANTS
  NoResidue
  NothingIsHeld
PROPERTIES
  DeliveryIsHonest
  UploadEnds
  SessionsEnd
CHECK_DEADLOCK FALSE
