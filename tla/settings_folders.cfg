SPECIFICATION Spec
CONSTANTS
  a = a
  b = b
  NoFile = NoFile
  Damaged = Damaged
  Serials = {a}
  Backends <- MCBackends
  InitialDirs <- MCLegacyOfA
  Scopes <- AllScopes
  Values <- Setting
  Defaults <- Standard
  MaxOps = 2
  MaxCrashes = 1
  MaxFails = 0
  MaxDamage = 0
INVARIANTS
  FoldersFollowTheProfile
CHECK_DEADLOCK FALSE
