----------------------------- MODULE AccessLease -----------------------------
(***************************************************************************)
(* The access mode (Standard, Root, Shizuku) under which commands reach    *)
(* the Android shell: PrivilegeManager with its operation leases and       *)
(* cached status, the prepared clients of openadb/core/privilege.py, and   *)
(* what the Qt thread does when the user switches the mode, when another   *)
(* profile brings its own mode with it, and when the connection changes.   *)
(*                                                                         *)
(* A lease is the selected mode together with the identity of the current  *)
(* cancellation event.  Here an event is a number: reset installs the next *)
(* one, and sets the old one only after it has released the lock.          *)
(***************************************************************************)
EXTENDS Naturals

CONSTANTS Workers,     \* the operations, each with its pool thread
          MaxChanges   \* bound on changes of the mode and of the device, together

ASSUME LeaseBoundAssumption == MaxChanges \in Nat

Backends == {"Standard", "Root", "Shizuku"}

NoStatus == [backend |-> "none", generation |-> 0, available |-> FALSE]
Status   == [backend: Backends, generation: Nat, available: BOOLEAN]

NoLease == [backend |-> "Standard", event |-> 0]

VARIABLES
  selected,    \* settings["privilege_backend"]
  known,       \* MainWindow._last_privilege_backend
  modes,       \* how often the mode has been changed
  generation,  \* DeviceManager._generation
  noticed,     \* the generation of MainWindow._last_privilege_connection_key
  sweep,       \* a refresh has changed the device and not yet called cancel_stale
  event,       \* PrivilegeManager._backend_cancel_event
  fired,       \* the events that are set
  cached,      \* PrivilegeManager._cached
  cachedUnder, \* the event under which the cached status was established
  uiPc,        \* where the Qt thread is in a change of modes
  swapped,     \* the event reset has replaced and not yet set
  lease,       \* Worker -> token.privilege_lease
  checks,      \* the workers that only check the access (PrivilegeManager.check)
  ctx,         \* Worker -> the generation of its device context
  mode,        \* Worker -> the number of mode changes before its lease was captured
  cancelled,   \* the workers whose token is cancelled
  pc,          \* Worker -> where it is
  status,      \* Worker -> the status it has established
  client,      \* Worker -> the client prepare_adb gave it
  verified,    \* Worker -> the event under which its identity was verified
  late         \* the workers with a command that started on a cancelled lease

deviceVars  == <<generation, noticed, sweep>>
modeVars    == <<selected, known, modes>>
eventVars   == <<event, fired, cached, cachedUnder>>
managerVars == <<deviceVars, modeVars, eventVars, uiPc, swapped>>
grantVars   == <<lease, checks, ctx, mode>>
workVars    == <<status, client, verified, late>>
vars        == <<managerVars, grantVars, cancelled, pc, workVars>>

Labels == {"new", "captured", "start", "probe", "probed", "cache", "recheck", "ready",
           "premode", "run", "postevent", "postmode", "returned", "invalidate", "fire",
           "failed", "applied", "dropped"}

Clients == {"none", "direct", "root", "shizuku"}

\* The types; also, an operation has a client when it comes to run (prepare_adb raises
\* where the identity is not the one the mode asks for).
TypeOK ==
  /\ selected \in Backends
  /\ known \in Backends
  /\ modes \in 0..MaxChanges
  /\ generation \in 0..(MaxChanges + 1)
  /\ noticed \in 0..generation
  /\ sweep \in BOOLEAN
  /\ event \in Nat
  /\ fired \subseteq 0..event
  /\ cached \in Status \cup {NoStatus}
  /\ cachedUnder \in Nat
  /\ uiPc \in {"idle", "load", "notify", "sweep", "cancel", "swap", "fire"}
  /\ swapped \in Nat
  /\ lease \in [Workers -> [backend: Backends, event: Nat]]
  /\ checks \subseteq Workers
  /\ ctx \in [Workers -> Nat]
  /\ mode \in [Workers -> Nat]
  /\ cancelled \subseteq Workers
  /\ pc \in [Workers -> Labels]
  /\ status \in [Workers -> Status \cup {NoStatus}]
  /\ client \in [Workers -> Clients]
  /\ verified \in [Workers -> Nat]
  /\ late \subseteq Workers
  /\ \A w \in Workers : pc[w] = "run" => client[w] # "none"

Init ==
  /\ selected \in Backends
  /\ known = selected
  /\ modes = 0
  /\ generation = 0
  /\ noticed = 0
  /\ sweep = FALSE
  /\ event = 0
  /\ fired = {}
  /\ cached = NoStatus
  /\ cachedUnder = 0
  /\ uiPc = "idle"
  /\ swapped = 0
  /\ lease = [w \in Workers |-> NoLease]
  /\ checks = {}
  /\ ctx = [w \in Workers |-> 0]
  /\ mode = [w \in Workers |-> 0]
  /\ cancelled = {}
  /\ pc = [w \in Workers |-> "new"]
  /\ status = [w \in Workers |-> NoStatus]
  /\ client = [w \in Workers |-> "none"]
  /\ verified = [w \in Workers |-> 0]
  /\ late = {}

Goto(w, label) == pc' = [pc EXCEPT ![w] = label]

-----------------------------------------------------------------------------
(* The checks *)

ContextCurrent(w) == ctx[w] = generation

\* _require_operation_lease, and what _reset_if_lease_current asks for.
LeaseCurrent(w) ==
  /\ lease[w].event = event
  /\ lease[w].event \notin fired
  /\ selected = lease[w].backend

\* The event a worker waits on: its token's or its lease's (_LinkedCancellationEvent).
Cancelled(w) == w \in cancelled \/ lease[w].event \in fired

StatusCurrent(s) == s.backend = selected /\ s.generation = generation

CachedStatus == IF StatusCurrent(cached) THEN cached ELSE NoStatus

-----------------------------------------------------------------------------
(* The Qt thread *)

Working == UNCHANGED <<grantVars, pc, workVars>>

MayChange == modes + generation < MaxChanges

UiGoto(label) == uiPc' = label

\* The user changes the mode; the settings are saved before anybody is told.
SelectBackend ==
  /\ uiPc = "idle"
  /\ MayChange
  /\ \E b \in Backends \ {selected} : selected' = b /\ known' = b
  /\ modes' = modes + 1
  /\ UiGoto("cancel")
  /\ UNCHANGED <<deviceVars, eventVars, swapped, cancelled>> /\ Working

\* Another profile is opened: a reader of the settings sees the defaults ...
OpenProfile ==
  /\ uiPc = "idle"
  /\ MayChange
  /\ selected' = "Standard"
  /\ UiGoto("load")
  /\ UNCHANGED <<deviceVars, known, modes, eventVars, swapped, cancelled>> /\ Working

\* ... until the profile's own mode has been read, or the previous one put back.
LoadProfile ==
  /\ uiPc = "load"
  /\ \E b \in IF modes + generation + 1 < MaxChanges THEN Backends ELSE {known} : selected' = b
  /\ UiGoto("notify")
  /\ UNCHANGED <<deviceVars, known, modes, eventVars, swapped, cancelled>> /\ Working

\* notify_profile_changed, or invalidate_profile, advances the generation ...
NotifyProfile ==
  /\ uiPc = "notify"
  /\ generation' = generation + 1
  /\ UiGoto("sweep")
  /\ UNCHANGED <<noticed, sweep, modeVars, eventVars, swapped, cancelled>> /\ Working

Registered(w) == pc[w] \notin {"new", "captured", "applied", "dropped"}

\* The tokens cancel_stale finds: theirs is an earlier device or profile.
Stale == {w \in Workers : Registered(w) /\ ctx[w] # generation}

\* ... and cancels what belongs to the profile before; the mode may be another one.
SweepProfile ==
  /\ uiPc = "sweep"
  /\ cancelled' = cancelled \cup Stale
  /\ known' = selected
  /\ IF selected = known THEN UiGoto("idle") /\ UNCHANGED modes
     ELSE UiGoto("cancel") /\ modes' = modes + 1
  /\ UNCHANGED <<deviceVars, selected, eventVars, swapped>> /\ Working

\* _on_device_refreshed, under another generation than before: the access of the
\* previous connection is given up.  It follows the opening of a profile at once, or,
\* after a full reset of the settings, with the next refresh.
NoticeConnection ==
  /\ uiPc = "idle"
  /\ ~sweep
  /\ noticed # generation
  /\ noticed' = generation
  /\ UiGoto("swap")
  /\ UNCHANGED <<generation, sweep, modeVars, eventVars, swapped, cancelled>> /\ Working

\* Mutant: only the prepared clients are thought of.
CancelPreparedOperations ==
  /\ uiPc = "cancel"
  /\ cancelled' = cancelled \cup {w \in Workers : client[w] \in {"root", "shizuku"}}
  /\ UiGoto("swap")
  /\ UNCHANGED <<deviceVars, modeVars, eventVars, swapped>> /\ Working

\* Every registered token that holds a lease; tokens are registered and finished
\* on this thread, so the copy taken under the lock is complete.
CancelPrivilegeOperations ==
  /\ uiPc = "cancel"
  /\ cancelled' = cancelled \cup {w \in Workers : Registered(w)}
  /\ UiGoto("swap")
  /\ UNCHANGED <<deviceVars, modeVars, eventVars, swapped>> /\ Working

\* Mutant: reset keeps the cached status.
ResetSwapKeepsStatus ==
  /\ uiPc = "swap"
  /\ swapped' = event
  /\ event' = event + 1
  /\ UiGoto("fire")
  /\ UNCHANGED <<deviceVars, modeVars, fired, cached, cachedUnder, cancelled>>
  /\ Working

\* reset: a new event and no cached status under the lock ...
ResetSwap ==
  /\ uiPc = "swap"
  /\ swapped' = event
  /\ event' = event + 1
  /\ cached' = NoStatus
  /\ UiGoto("fire")
  /\ UNCHANGED <<deviceVars, modeVars, fired, cachedUnder, cancelled>>
  /\ Working

\* ... and the old event set after it.
ResetFire ==
  /\ uiPc = "fire"
  /\ fired' = fired \cup {swapped}
  /\ swapped' = 0
  /\ UiGoto("idle")
  /\ UNCHANGED <<deviceVars, modeVars, event, cached, cachedUnder, cancelled>>
  /\ Working

Withdrawn(w) ==
  /\ lease' = [lease EXCEPT ![w] = NoLease]
  /\ checks' = checks \ {w}
  /\ ctx' = [ctx EXCEPT ![w] = 0]
  /\ mode' = [mode EXCEPT ![w] = 0]

\* The user asks for an operation: its lease and its device are those of that
\* moment; a confirmation may follow, during which everything else goes on ...
Capture(w) ==
  /\ uiPc = "idle"
  /\ pc[w] = "new"
  /\ lease' = [lease EXCEPT ![w] = [backend |-> selected, event |-> event]]
  /\ checks' \in {checks, checks \cup {w}}
  /\ ctx' = [ctx EXCEPT ![w] = generation]
  /\ mode' = [mode EXCEPT ![w] = modes]
  /\ Goto(w, "captured")
  /\ UNCHANGED <<managerVars, cancelled, workVars>>

\* ... before its token is registered, where only the device is looked at again.
Register(w) ==
  /\ uiPc = "idle"
  /\ pc[w] = "captured"
  /\ IF ContextCurrent(w) THEN Goto(w, "start") /\ UNCHANGED grantVars
     ELSE Goto(w, "dropped") /\ Withdrawn(w)
  /\ UNCHANGED <<managerVars, cancelled, workVars>>

UserCancels(w) ==
  /\ uiPc = "idle"
  /\ Registered(w)
  /\ cancelled' = cancelled \cup {w}
  /\ UNCHANGED <<managerVars, grantVars, pc, workVars>>

\* The result callback, and the release of the token; the worker has returned and
\* its variables are gone.
Deliver(w) ==
  /\ uiPc = "idle"
  /\ pc[w] \in {"returned", "failed"}
  /\ Goto(w, IF pc[w] = "returned" /\ w \notin cancelled /\ ContextCurrent(w)
             THEN "applied" ELSE "dropped")
  /\ Withdrawn(w)
  /\ cancelled' = cancelled \ {w}
  /\ status' = [status EXCEPT ![w] = NoStatus]
  /\ client' = [client EXCEPT ![w] = "none"]
  /\ verified' = [verified EXCEPT ![w] = 0]
  /\ late' = late \ {w}
  /\ UNCHANGED managerVars

-----------------------------------------------------------------------------
(* A refresh, on its thread (module DeviceOperations) *)

DeviceChanges ==
  /\ ~sweep
  /\ MayChange
  /\ generation' = generation + 1
  /\ sweep' = TRUE
  /\ UNCHANGED <<noticed, modeVars, eventVars, uiPc, swapped, cancelled>> /\ Working

CancelStale ==
  /\ sweep
  /\ sweep' = FALSE
  /\ cancelled' = cancelled \cup Stale
  /\ UNCHANGED <<generation, noticed, modeVars, eventVars, uiPc, swapped>> /\ Working

-----------------------------------------------------------------------------
(* prepare_adb and check, on a worker's thread *)

Local(w) == UNCHANGED <<managerVars, grantVars, cancelled>>

\* A check begins whatever has become of its device; nobody will use its answer then.
Start(w) ==
  /\ pc[w] = "start"
  /\ Goto(w, IF LeaseCurrent(w) /\ (w \in checks \/ ContextCurrent(w)) /\ w \notin cancelled
             THEN "probe" ELSE "failed")
  /\ Local(w) /\ UNCHANGED workVars

\* What the worker has found out, and the client that follows from it.
Establish(w, available, kind, under) ==
  /\ status' = [status EXCEPT ![w] = [backend    |-> lease[w].backend,
                                      generation |-> ctx[w],
                                      available  |-> available]]
  /\ client' = [client EXCEPT ![w] = kind]
  /\ verified' = [verified EXCEPT ![w] = under]
  /\ Goto(w, "probed")
  /\ UNCHANGED late

\* Standard: direct adbd must have UID 2000.
ProbeStandard(w) ==
  /\ lease[w].backend = "Standard"
  /\ \E available \in BOOLEAN :
        Establish(w, available, IF available THEN "direct" ELSE "none", event)

\* Root: direct adbd or su; else Standard if adbd has UID 2000; else nothing.
ProbeRoot(w) ==
  /\ lease[w].backend = "Root"
  /\ \/ Establish(w, TRUE, "root", event)
     \/ \E kind \in {"direct", "none"} : Establish(w, FALSE, kind, event)

\* Root outside Android and recovery: the captured client, unverified.
RootUnsupported(w) ==
  /\ lease[w].backend = "Root"
  /\ client' = [client EXCEPT ![w] = "direct"]
  /\ Goto(w, IF ContextCurrent(w) THEN "run" ELSE "failed")
  /\ UNCHANGED <<status, verified, late>>

\* Shizuku: a fresh session, ready or not.
ProbeShizuku(w) ==
  /\ lease[w].backend = "Shizuku"
  /\ \E available \in BOOLEAN :
        Establish(w, available, IF available THEN "shizuku" ELSE "none", event)

\* Shizuku: the identity somebody has verified within the last minute.
ReuseStatus(w) ==
  /\ lease[w].backend = "Shizuku"
  /\ CachedStatus.backend = "Shizuku"
  /\ CachedStatus.available
  /\ status' = [status EXCEPT ![w] = NoStatus]
  /\ client' = [client EXCEPT ![w] = "shizuku"]
  /\ verified' = [verified EXCEPT ![w] = cachedUnder]
  /\ Goto(w, "probed")
  /\ UNCHANGED late

\* The probe raises: unless it was cancelled, the mode is not to be trusted.
ProbeRaises(w) ==
  /\ Goto(w, IF lease[w].backend = "Standard" \/ w \in checks \/ Cancelled(w)
             THEN "failed" ELSE "invalidate")
  /\ UNCHANGED workVars

Probe(w) ==
  /\ pc[w] = "probe"
  /\ \/ ProbeStandard(w)
     \/ ProbeRoot(w)
     \/ w \notin checks /\ RootUnsupported(w)
     \/ ProbeShizuku(w)
     \/ w \notin checks /\ ReuseStatus(w)
     \/ ProbeRaises(w)
  /\ Local(w)

\* The checks after the probe.  In Root a stale context is raised inside the try
\* block whose handler invalidates the mode; so is a Shizuku that is not ready.
Examine(w) ==
  /\ pc[w] = "probed"
  /\ Goto(w, IF Cancelled(w) THEN "failed"
             ELSE IF ~LeaseCurrent(w) THEN "failed"
             ELSE IF lease[w].backend = "Standard" \/ w \in checks THEN "cache"
             ELSE IF ~ContextCurrent(w)
                  THEN IF lease[w].backend = "Root" THEN "invalidate" ELSE "failed"
             ELSE IF lease[w].backend = "Shizuku" /\ client[w] = "none" THEN "invalidate"
             ELSE IF status[w] = NoStatus THEN "recheck" ELSE "cache")
  /\ Local(w) /\ UNCHANGED workVars

\* Mutant: the status is compared with the mode and the device, the lease is not.
CacheableByStatus(w) == StatusCurrent(status[w])

\* _cache_if_current, under the manager's lock.
Cacheable(w) ==
  /\ lease[w].event = event
  /\ lease[w].event \notin fired
  /\ StatusCurrent(status[w])

\* A check returns its status; prepare_adb gives out a client or raises.
AfterCache(w) ==
  IF w \in checks THEN "returned"
  ELSE IF lease[w].backend # "Standard" THEN "recheck"
  ELSE IF client[w] = "direct" THEN "run" ELSE "failed"

Cache(w) ==
  /\ pc[w] = "cache"
  /\ IF Cacheable(w)
     THEN cached' = status[w] /\ cachedUnder' = verified[w]
     ELSE UNCHANGED <<cached, cachedUnder>>
  /\ Goto(w, AfterCache(w))
  /\ UNCHANGED <<deviceVars, modeVars, event, fired, uiPc, swapped, grantVars,
                 cancelled, workVars>>

Recheck(w) ==
  /\ pc[w] = "recheck"
  /\ Goto(w, IF ~ContextCurrent(w) \/ ~LeaseCurrent(w) \/ client[w] = "none" THEN "failed"
             ELSE IF client[w] = "direct" THEN "run" ELSE "ready")
  /\ Local(w) /\ UNCHANGED workVars

\* Mutant: whoever fails resets the manager.
InvalidateUnconditionally(w) ==
  /\ pc[w] = "invalidate"
  /\ event' = event + 1
  /\ cached' = NoStatus
  /\ Goto(w, "fire")
  /\ UNCHANGED <<deviceVars, modeVars, fired, cachedUnder, uiPc, swapped, grantVars,
                 cancelled, workVars>>

\* _reset_if_lease_current: the event and the cache under the lock ...
Invalidate(w) ==
  /\ pc[w] = "invalidate"
  /\ IF LeaseCurrent(w)
     THEN event' = event + 1 /\ cached' = NoStatus /\ Goto(w, "fire")
     ELSE UNCHANGED <<event, cached>> /\ Goto(w, "failed")
  /\ UNCHANGED <<deviceVars, modeVars, fired, cachedUnder, uiPc, swapped, grantVars,
                 cancelled, workVars>>

\* Mutant: the manager's event is read again after the lock.
FireCurrent(w) ==
  /\ pc[w] = "fire"
  /\ fired' = fired \cup {event}
  /\ Goto(w, "failed")
  /\ UNCHANGED <<deviceVars, modeVars, event, cached, cachedUnder, uiPc, swapped,
                 grantVars, cancelled, workVars>>

\* ... and the replaced event, which is the worker's own, after it.
Fire(w) ==
  /\ pc[w] = "fire"
  /\ fired' = fired \cup {lease[w].event}
  /\ Goto(w, "failed")
  /\ UNCHANGED <<deviceVars, modeVars, event, cached, cachedUnder, uiPc, swapped,
                 grantVars, cancelled, workVars>>

-----------------------------------------------------------------------------
(* run_shell of a prepared client *)

PreEvent(w) ==
  /\ pc[w] = "ready"
  /\ Goto(w, IF lease[w].event \in fired THEN "failed" ELSE "premode")
  /\ Local(w) /\ UNCHANGED workVars

SameModeAndContext(w) == selected = lease[w].backend /\ ContextCurrent(w)

PreMode(w) ==
  /\ pc[w] = "premode"
  /\ Goto(w, IF SameModeAndContext(w) /\ ~Cancelled(w) THEN "run" ELSE "failed")
  /\ Local(w) /\ UNCHANGED workVars

\* A command runs.  A direct client is used as it is, with no check around it; the
\* command itself stops for the event it was given (CommandRunner).
Run(w) ==
  /\ pc[w] = "run"
  /\ late' = IF lease[w].event \in fired THEN late \cup {w} ELSE late
  /\ \/ client[w] = "direct" /\ \E next \in {"run", "returned"} : Goto(w, next)
     \/ client[w] # "direct" /\ Goto(w, "postevent")
     \/ client[w] = "shizuku" /\ Goto(w, "invalidate")
     \/ Cancelled(w) /\ Goto(w, "failed")
  /\ Local(w) /\ UNCHANGED <<status, client, verified>>

\* Mutant: only the mode is looked at after the command.
PostEventSkipped(w) ==
  /\ pc[w] = "postevent"
  /\ Goto(w, "postmode")
  /\ Local(w) /\ UNCHANGED workVars

\* It has ended.
PostEvent(w) ==
  /\ pc[w] = "postevent"
  /\ Goto(w, IF lease[w].event \in fired THEN "failed" ELSE "postmode")
  /\ Local(w) /\ UNCHANGED workVars

\* The operation has its result; it may have more commands to run.
PostMode(w) ==
  /\ pc[w] = "postmode"
  /\ \E next \in {"ready", "returned"} :
        Goto(w, IF SameModeAndContext(w) THEN next ELSE "failed")
  /\ Local(w) /\ UNCHANGED workVars

-----------------------------------------------------------------------------

Switch ==
  \/ SelectBackend
  \/ OpenProfile \/ LoadProfile \/ NotifyProfile \/ SweepProfile
  \/ NoticeConnection
  \/ CancelPrivilegeOperations \/ ResetSwap \/ ResetFire

Work(w) ==
  \/ Capture(w)
  \/ Register(w)
  \/ UserCancels(w)
  \/ Deliver(w)
  \/ Start(w)
  \/ Probe(w)
  \/ Examine(w)
  \/ Cache(w)
  \/ Recheck(w)
  \/ Invalidate(w)
  \/ Fire(w)
  \/ PreEvent(w)
  \/ PreMode(w)
  \/ Run(w)
  \/ PostEvent(w)
  \/ PostMode(w)

Next == Switch \/ DeviceChanges \/ CancelStale \/ \E w \in Workers : Work(w)

Spec == Init /\ [][Next]_vars

-----------------------------------------------------------------------------
(* Safety *)

\* A result that may still be applied belongs to the mode that is selected: an
\* operation of an earlier mode has had its token cancelled, which is all that
\* stops a Standard client or a Root fallback (cancel_privilege_operations).
ResultsAreOfThisMode ==
  uiPc = "idle" => \A w \in Workers : pc[w] = "returned" /\ w \notin cancelled
                                         => mode[w] = modes

\* Once a lease is cancelled, be it because another worker found that the identity
\* behind it is gone, no command that starts after that yields a result through a
\* prepared client; the token of the operation is not cancelled then (run_shell).
CancelledLeaseYieldsNothing ==
  \A w \in late : ~(pc[w] \in {"ready", "postmode", "returned"}
                     /\ client[w] \in {"root", "shizuku"})

\* A prepared client relies on an identity verified under its own lease, also
\* when it has taken it from the cache instead of asking the device.
IdentityIsOfOwnLease ==
  \A w \in Workers : pc[w] = "ready" => verified[w] = lease[w].event

\* The cache holds nothing an operation of an invalidated lease has found out.
CacheIsOfThisLease == cached # NoStatus => cachedUnder = event

\* A lease is not cancelled when it is captured, whoever replaced the event last.
FreshLeaseIsLive == event \notin fired

\* A worker of an earlier mode never invalidates the mode selected since.
OnlyOwnModeIsInvalidated ==
  [][\A w \in Workers : pc[w] = "invalidate" /\ pc'[w] = "fire"
                           => mode[w] = modes]_vars
=============================================================================
