SPECIFICATION Spec
CONSTANTS
  a = a
  b = b
  usb = usb
  wifi = wifi
  f1 = f1
  f2 = f2
  o1 = o1
  o2 = o2
  r1 = r1
  Serials = {a, b}
  Device <- MCDevice
  Folders = {f1}
  NoSerial = NoSerial
  UI = UI
  Refreshers = {r1}
  MaxChanges = 3
  Ops = {}
  Kinds <- MCKinds
  BoundKinds <- MCBoundKinds
  CommandFamilies <- MCCommandFamilies
  SerialFamilies <- MCSerialFamilies
INVARIANTS
  ChoiceIsNotOverridden
CHECK_DEADLOCK FALSE
