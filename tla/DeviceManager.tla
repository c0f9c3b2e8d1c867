---------------------------- MODULE DeviceManager ----------------------------
(***************************************************************************)
(* The active Android device, its generation and its profile, as kept by   *)
(* openadb/core/device.py, together with the two settings values the       *)
(* manager reads: the saved serial and the profile the settings point at.  *)
(*                                                                         *)
(* Every method of DeviceManager that holds _context_lock for one block is *)
(* one action; a method that releases the lock between two blocks (a       *)
(* refresh, a change followed by cancel_stale) is one action per block, so *)
(* that the thread running it may be overtaken in between.  The actions    *)
(* take the thread that runs them: the Qt thread, or a pool thread running *)
(* the status bar's refresh.                                               *)
(***************************************************************************)
EXTENDS Naturals

CONSTANTS Serials,      \* the serials a device may have
          Device,       \* the (serial, mode, transport) identities that can appear
          Folders,      \* the folder configurations a profile can hold
          NoSerial,     \* the empty serial
          UI,           \* the Qt thread
          Refreshers,   \* the pool threads that run DeviceManager.refresh
          MaxChanges    \* bound on what the user and the cables do

ASSUME DeviceAssumption ==
  /\ NoSerial \notin Serials
  /\ \A d \in Device : /\ DOMAIN d = {"serial", "mode", "transport"}
                       /\ d.serial \in Serials

ASSUME ThreadAssumption == UI \notin Refreshers

ASSUME BoundAssumption == MaxChanges \in Nat

Threads == {UI} \cup Refreshers

NoDevice == [serial |-> NoSerial, mode |-> "No device", transport |-> ""]

\* serial is the profile the manager was told about, root the directory the
\* settings had open when its paths were read.
Profile == [serial: Serials \cup {NoSerial},
            root: Serials \cup {NoSerial},
            folders: Folders]

Context == [device: Device, profile: Profile, generation: Nat]

\* The context of an operation that is not bound to a device.
NoContext == [device |-> NoDevice, profile |-> NoSerial, generation |-> 0]

VARIABLES
  attached,    \* the devices the host can enumerate
  changes,     \* how many environment and user changes have happened
  saved,       \* settings["active_device_serial"]
  opened,      \* the settings scope in use: [root, folders]
  loading,     \* the settings hold only defaults while a profile file is read
  active,      \* DeviceManager.active, as its identity
  devices,     \* DeviceManager.devices
  generation,  \* DeviceManager._generation
  profile,     \* DeviceManager._profile_serial and _profile_paths
  pc,          \* where each thread is
  resume,      \* where a thread continues after its cancel_stale
  start,       \* the generation a refresh started from
  listed,      \* the enumeration a refresh has in hand
  chosen,      \* the device a thread has in hand
  sweep        \* the generation passed to the cancel_stale in progress

envVars      == <<attached, changes>>
settingsVars == <<saved, opened, loading>>
managerVars  == <<active, devices, generation, profile>>
localVars    == <<pc, resume, start, listed, chosen, sweep>>
deviceVars   == <<envVars, settingsVars, managerVars, localVars>>

Labels == {"idle", "list", "fastboot", "store", "pick", "detail", "commit",
           "snapshot", "posted", "scan", "return", "activate", "load", "sync",
           "notify", "reset", "recheck", "clear", "collect", "cancel", "closed"}

DeviceTypeOK ==
  /\ attached \subseteq Device
  /\ changes \in 0..MaxChanges
  /\ saved \in Serials \cup {NoSerial}
  /\ opened \in [root: Serials \cup {NoSerial}, folders: Folders]
  /\ loading \in BOOLEAN
  /\ active \in Device \cup {NoDevice}
  /\ devices \subseteq Device
  /\ generation \in Nat
  /\ profile \in Profile
  /\ pc \in [Threads -> Labels]
  /\ resume \in [Threads -> Labels]
  /\ start \in [Threads -> Nat]
  /\ listed \in [Threads -> SUBSET Device]
  /\ chosen \in [Threads -> Device \cup {NoDevice}]
  /\ sweep \in [Threads -> Nat]

DeviceInit ==
  /\ attached = {}
  /\ changes = 0
  /\ saved \in Serials \cup {NoSerial}
  /\ opened \in [root: {NoSerial}, folders: Folders]
  /\ loading = FALSE
  /\ active = NoDevice
  /\ devices = {}
  /\ generation = 0
  /\ profile = [serial |-> NoSerial, root |-> NoSerial, folders |-> opened.folders]
  /\ pc = [t \in Threads |-> "idle"]
  /\ resume = [t \in Threads |-> "idle"]
  /\ start = [t \in Threads |-> 0]
  /\ listed = [t \in Threads |-> {}]
  /\ chosen = [t \in Threads |-> NoDevice]
  /\ sweep = [t \in Threads |-> 0]

-----------------------------------------------------------------------------
(* Contexts *)

\* Mutant: capture_context does not ask for a device.
ContextAvailableWithoutDevice == profile.serial = active.serial

\* capture_context raises DeviceContextUnavailable unless this holds.
ContextAvailable == /\ active.serial # NoSerial
                    /\ profile.serial = active.serial

CapturedContext ==
  [device |-> active, profile |-> profile, generation |-> generation]

\* Mutant: a context is compared by what it targets only.
IsContextCurrentByTarget(c) ==
  c = NoContext \/ (c.device = active /\ c.profile = profile)

IsContextCurrent(c) ==
  \/ c = NoContext
  \/ /\ c.generation = generation
     /\ active.serial # NoSerial
     /\ c.device = active
     /\ c.profile = profile

\* settings.get reads the dictionary without the settings lock, so it sees the
\* defaults that activate_device_profile installs before it loads the profile.
SavedSerial == IF loading THEN NoSerial ELSE saved

\* What _read_profile_paths and active_profile_serial give for a serial.
SettingsProfile(serial) ==
  [serial |-> serial, root |-> opened.root, folders |-> opened.folders]

-----------------------------------------------------------------------------
(* Generation changes *)

Goto(t, label) == pc' = [pc EXCEPT ![t] = label]

\* _advance_generation_locked under the lock, then cancel_stale after it.
AdvanceIf(t, changed, next) ==
  IF changed
  THEN /\ generation' = generation + 1
       /\ sweep' = [sweep EXCEPT ![t] = generation + 1]
       /\ resume' = [resume EXCEPT ![t] = next]
       /\ Goto(t, "collect")
  ELSE /\ Goto(t, next)
       /\ UNCHANGED <<generation, sweep, resume>>

\* Mutant: a device is identified by its serial alone.
SetActiveBySerial(t, d, next) ==
  /\ active' = d
  /\ AdvanceIf(t, d.serial # active.serial, next)

SetActive(t, d, next) ==
  /\ active' = d
  /\ AdvanceIf(t, d # active, next)

NotifyProfileChanged(t, serial, next) ==
  /\ profile' = SettingsProfile(serial)
  /\ AdvanceIf(t, SettingsProfile(serial) # profile, next)

InvalidateProfile(t, next) ==
  /\ profile' = SettingsProfile(NoSerial)
  /\ AdvanceIf(t, TRUE, next)

-----------------------------------------------------------------------------
(* refresh, by a pool thread or by the Qt thread from choose *)

AfterRefresh(t) == IF t = UI THEN "return" ELSE "snapshot"

Adb(ds) == {d \in ds : d.mode # "Fastboot"}

RefreshBegin(t) ==
  /\ pc[t] = "idle"
  /\ t \in Refreshers
  /\ start' = [start EXCEPT ![t] = generation]
  /\ Goto(t, "list")
  /\ UNCHANGED <<envVars, settingsVars, managerVars, resume, listed, chosen, sweep>>

\* fastboot is asked only when adb lists nothing.
RefreshListAdb(t) ==
  /\ pc[t] = "list"
  /\ listed' = [listed EXCEPT ![t] = Adb(attached)]
  /\ Goto(t, IF Adb(attached) = {} THEN "fastboot" ELSE "store")
  /\ UNCHANGED <<envVars, settingsVars, managerVars, resume, start, chosen, sweep>>

RefreshListFastboot(t) ==
  /\ pc[t] = "fastboot"
  /\ listed' = [listed EXCEPT ![t] = attached \ Adb(attached)]
  /\ Goto(t, "store")
  /\ UNCHANGED <<envVars, settingsVars, managerVars, resume, start, chosen, sweep>>

RefreshStore(t) ==
  /\ pc[t] = "store"
  /\ IF generation # start[t]
     THEN Goto(t, AfterRefresh(t)) /\ UNCHANGED devices
     ELSE /\ devices' = listed[t]
          /\ Goto(t, IF listed[t] = {} THEN "commit" ELSE "pick")
  /\ chosen' = [chosen EXCEPT ![t] = NoDevice]
  /\ UNCHANGED <<envVars, settingsVars, active, generation, profile,
                 resume, start, listed, sweep>>

\* The saved device if it is listed; the only device if none is saved; no
\* device ("selection_required") otherwise.
Selected(serial, ds) ==
  LET matching == {d \in ds : d.serial = serial}
  IN  IF matching # {} THEN matching
      ELSE IF serial = NoSerial /\ \A d, e \in ds : d = e THEN ds
      ELSE {NoDevice}

RefreshPick(t) ==
  /\ pc[t] = "pick"
  /\ \E d \in Selected(SavedSerial, listed[t]) :
        /\ chosen' = [chosen EXCEPT ![t] = d]
        /\ Goto(t, IF d.mode = "ADB" THEN "detail" ELSE "commit")
  /\ UNCHANGED <<envVars, settingsVars, managerVars, resume, start, listed, sweep>>

\* _capture_refresh_context, then the property query, which keeps the identity.
RefreshDetail(t) ==
  /\ pc[t] = "detail"
  /\ Goto(t, IF generation = start[t] THEN "commit" ELSE AfterRefresh(t))
  /\ UNCHANGED <<envVars, settingsVars, managerVars,
                 resume, start, listed, chosen, sweep>>

RefreshCommit(t) ==
  /\ pc[t] = "commit"
  /\ IF generation = start[t]
     THEN SetActive(t, chosen[t], AfterRefresh(t))
     ELSE Goto(t, AfterRefresh(t)) /\ UNCHANGED <<active, generation, sweep, resume>>
  /\ UNCHANGED <<envVars, settingsVars, devices, profile, start, listed, chosen>>

\* active_snapshot: one atomic copy of the device and its generation, posted to
\* the Qt thread as the worker's result.
RefreshSnapshot(t) ==
  /\ pc[t] = "snapshot"
  /\ chosen' = [chosen EXCEPT ![t] = active]
  /\ start' = [start EXCEPT ![t] = generation]
  /\ listed' = [listed EXCEPT ![t] = {}]
  /\ Goto(t, "posted")
  /\ UNCHANGED <<envVars, settingsVars, managerVars, resume, sweep>>

Refresh(t) ==
  \/ RefreshListAdb(t)
  \/ RefreshListFastboot(t)
  \/ RefreshStore(t)
  \/ RefreshPick(t)
  \/ RefreshDetail(t)
  \/ RefreshCommit(t)

-----------------------------------------------------------------------------
(* The cables: devices come and go, reboot into another mode, reconnect under
   another transport.  adb enumerates a serial once. *)

Plug ==
  /\ changes < MaxChanges
  /\ changes' = changes + 1
  /\ \E ds \in SUBSET Device :
        /\ ds # attached
        /\ \A d, e \in ds : d.serial = e.serial => d = e
        /\ attached' = ds
  /\ UNCHANGED <<settingsVars, managerVars, localVars>>
=============================================================================
