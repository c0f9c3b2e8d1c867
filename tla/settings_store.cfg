SPECIFICATION Spec
CONSTANTS
  a = a
  b = b
  NoFile = NoFile
  Damaged = Damaged
  Serials = {a}
  Backends <- MCBackends
  InitialDirs <- MCLegacyOfA
  Scopes <- AllScopes
  Values <- Setting
  Defaults <- Standard
  MaxOps = 3
  MaxCrashes = 1
  MaxFails = 2
  MaxDamage = 1
INVARIANTS
  LastKnownGood
  PendingChoiceIsKept
  FailedActivationChangesNothing
  ProfilesHoldNoPendingChoice
PROPERTIES
  BackupsSurvive
CHECK_DEADLOCK FALSE
