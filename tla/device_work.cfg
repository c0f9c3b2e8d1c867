SPECIFICATION FairSpec
CONSTANTS
  MaxDevices = 2
  MaxModes = 2
  Packages = {"p"}
  MaxTargets = 2
  MaxRequests = 3
  MaxInputs = 1
  MaxHosts = 2
  MaxLosses = 1
  MaxCalls = 2
  MaxUpsets = 1
INVARIANTS
  TypeOK
  TransferSuccessIsTrue
  ExistingTargetsAreSafe
  NoStagingIsLeft
  NothingRunsAfterShutdown
  RowsAreOfThisMode
  WaitingWorkIsWoken
  UninstalledAppsHaveBackups
  BackupsStayInTheirProfile
  PagesWaitForTheMode
  ForegroundIsHandedOver
  InstallsAreNeeded
  TrustIsEarned
  DeletedPathIsGone
PROPERTY WorkEnds
CHECK_DEADLOCK FALSE
