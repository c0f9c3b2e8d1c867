SPECIFICATION Spec
CONSTANTS
  a = a
  b = b
  NoFile = NoFile
  Damaged = Damaged
  Serials = {a, b}
  Backends <- MCBackends
  InitialDirs <- MCLegacyOfA
  Scopes <- AllScopes
  Values <- Setting
  Defaults <- Standard
  MaxOps = 3
  MaxCrashes = 1
  MaxFails = 0
  MaxDamage = 0
INVARIANTS
  PendingChoiceIsAppliedOnce
CHECK_DEADLOCK FALSE
