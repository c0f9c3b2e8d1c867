SPECIFICATION Spec
CONSTANTS
  a = a
  b = b
  usb = usb
  wifi = wifi
  f1 = f1
  f2 = f2
  o1 = o1
  o2 = o2
  r1 = r1
  Serials = {a, b}
  Device <- MCDevice
  Folders = {f1, f2}
  NoSerial = NoSerial
  UI = UI
  Refreshers = {r1}
  MaxChanges = 2
  Ops = {o1}
  Kinds <- MCKinds
  BoundKinds <- MCBoundKinds
  CommandFamilies <- MCCommandFamilies
  SerialFamilies <- MCSerialFamilies
INVARIANTS
  StaleWorkIsCancelled
  GenerationIdentifiesTarget
  ShutdownCancelsAll
PROPERTIES
  StaleForever
  FencedResults
CHECK_DEADLOCK FALSE
