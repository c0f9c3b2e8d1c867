-------------------------- MODULE MCDeviceOperations --------------------------
(* Small instances of DeviceOperations. *)
EXTENDS DeviceOperations

CONSTANTS a, b, usb, wifi, f1, f2, o1, o2, r1

Dev(serial, mode, transport) ==
  [serial |-> serial, mode |-> mode, transport |-> transport]

\* One phone that reboots to the bootloader, and another.
MCDevice == {Dev(a, "ADB", usb), Dev(a, "Fastboot", usb), Dev(b, "ADB", wifi)}

\* Two phones that come and go.
MCPair == {Dev(a, "ADB", usb), Dev(b, "ADB", wifi)}

\* A dashboard command, the ACBridge update, and a global "adb devices".
MCKinds == {"command", "update", "discovery"}
MCBoundKinds == {"command", "update"}
MCCommandFamilies == [k \in MCKinds |-> IF k = "command" THEN {"device-command"} ELSE {}]
MCSerialFamilies ==
  [k \in MCKinds |-> CASE k = "command"   -> {"device-exclusive"}
                       [] k = "update"    -> {"device-exclusive", "acbridge-maintenance"}
                       [] k = "discovery" -> {}]
=============================================================================
