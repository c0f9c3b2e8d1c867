# A TLA+ development for OpenADB

OpenADB is a Windows desktop program (Python, Qt) that drives Android devices through
`adb` and `fastboot`, with a helper application on the device (ACBridge, Java). Its own
logic is concurrency control around those tools: which device is active, which answers
are still about it, with which rights a command runs, and what survives a crash. The
modules here are translated from `src/openadb`; the names in them are the names of the
source. The comment above each definition says what it models, and `PROJECT.json`
("map") gives its lines.

- [Inventory](#inventory)
- [Modules](#modules)
- [Runs](#runs)
- [Fairness](#fairness)
- [Proofs](#proofs)
- [What the runs found](#what-the-runs-found)
- [Seen while modelling](#seen-while-modelling)
- [Not modelled, and the plan](#not-modelled-and-the-plan)

## Inventory

| Component | State | Operations | Hard because | Correct when |
|---|---|---|---|---|
| `core/device.py` DeviceManager | active device, device list, generation, profile identity | refresh, choose, capture_context, notify/invalidate profile, reconnect_offline | a refresh takes seconds without the lock; the sweep of stale operations runs after the lock | a generation names one target; a stale context stays stale |
| `core/operations.py` OperationRegistry | tokens, shutting_down | register, finish, cancel_owner, cancel_stale, cancel_privilege_operations, shutdown | cancelling and releasing are different moments; shutdown is two lock sections | no conflicting work runs together; nothing outlives a cancellation unnoticed |
| `ui/workers.py` | pool, posted signals | start_worker, result/error/finished | a worker can fail to start, be dropped, or report late | every token is released; late results are dropped |
| `ui/main_window.py` | opened profile, dashboard tokens, last mode and connection, ACBridge update and barrier flags | choosing and activating a device, settings changes, reset, closing, mode switches, ACBridge update | nested event loops (dialogs), handlers that overlap with pool threads | results shown belong to the device, profile and mode shown |
| `core/privilege.py` PrivilegeManager and clients | selected mode, cancellation event, cached status | capture lease, prepare_adb, check, reset, run_shell | A→B→A switches, probes that fail late, cached identities | no command or result crosses from one lease to another |
| `core/settings_manager.py` | settings files and backups, profile directories, pending mode | load, save, activate_device_profile, select_privilege_backend | crashes and failing writes between the files of one transaction | last known good survives; choices and backups are not lost; failures roll back |
| `ui/device_status_bar.py` | monitor, refresh and reconnect flags | refresh, apply snapshot, monitor, offline reconnect | events dropped while something else is running | the bar follows the device |
| `core/command_runner.py` | owned processes, `_shutting_down` | run, stream, cancel, shutdown | exit, deadline and cancellation race; a pump thread outlives its command | one outcome per command, no orphan |
| `core/acbridge.py` | the installed helper, its result files, control tunnels, permission hosts | probe, install, verify, delete, export, forward, request access | requests share fixed files; every broadcast and `am start` may be lost or late | the helper used is the bundled one; what is reported is so; what was opened is closed |
| main window, access workflow | update, barrier, drain and recheck flags, single-shot timers | connect, select a mode, update ACBridge, check, drain, refresh pages | deferred steps wait for each other | the pages are disabled while a mode changes and enabled afterwards |
| `core/acbridge_p2p.py`, `p2p_*.py` | streams, preparation lock, forwards | plan, prepare, upload in parallel, retry, clean up | connections break at any byte; streams fail separately | success is reported only over stored files |
| `P2PTransferService.java` | sessions, count, staged documents | start, accept, receive, place, stop | intents, workers and `onDestroy` race | no half-written file is left; the service stops when idle |
| `PermissionHostActivity.java`, `PrivilegeActivity.java` | token, status file, orphan timer | open, answer, dismiss, recreate | Android kills the process; commits fail | a host closes for its own token only |
| `core/shizuku.py`, `Shizuku*.java` | request token, result file | request, status, execute | answers after the timeout | an answer belongs to its request |
| `core/adb_transfer_strategy.py`, `transfer_plan.py` | staging names, backups of replaced targets | pull, push, verify, publish, roll back | failure or cancellation half-way, a late pump | the original is there or the new file is |
| `core/file_*_controller.py`, `ui/file_manager_*.py` | view, slots, waiting work | list, scan, act, transfer | answers of an earlier directory; passive work in the way of confirmed work | rows are of the current view; waiting work is woken |
| `core/backup_*.py`, `ui/backups_page.py` | backup directories | create, list, restore, delete | the profile changes meanwhile | a backup is in its device's folder |
| `core/app*_*.py`, `ui/apps_*.py` | list, selection, bulk operation | load, choose, confirm, uninstall, enable, clear | partial failure, dialogs during which the device changes | only what was confirmed, only where it was confirmed |

Interaction: the status bar and the monitor post refreshes to pool threads, which change
the device manager under its lock; the Qt thread activates profiles through the settings
manager and tells the device manager (`notify_profile_changed`) and the privilege manager
(`reset`); every feature captures a context (and a lease), registers a token and runs a
worker whose result the Qt thread applies if token, context and lease are still current.

## Modules

| Module | Models | Built on |
|---|---|---|
| `DeviceManager` | the device, its generation and its profile; one action per lock section of `device.py`, with the thread that runs it as parameter | |
| `OperationRegistry` | tokens, conflict groups, what each cancellation covers | |
| `DeviceOperations` | both together with the Qt thread: choice, activation, reset, one dashboard command from capture to its last signal, shutdown | the two above |
| `EpochFence` | the abstract promise: work is opened in an epoch, and begins and applies only in that epoch | |
| `DeviceOperationsProofs` | theorems | `DeviceOperations` |
| `AccessLease` | mode, cancellation event, cached status; the Qt thread's mode switch; two workers through `prepare_adb`/`check` and `run_shell` | |
| `AccessLeaseProofs` | theorems | `AccessLease` |
| `SettingsFiles` | one settings file and its backup, one step per atomic replacement | |
| `SettingsStore` | global settings and profiles; activation, migration, commit, rollback; crash and failure at every step | `SettingsFiles` |
| `SettingsStoreProofs` | theorems | `SettingsStore` |
| `FileDelivery` | the abstract promise of a transfer: success only over published files, and they stay, unless it was begun again beside its own first attempt | |
| `P2PPlan` | how many streams an upload gets, and which file goes to which | |
| `P2PTransfer` | one ACBridge P2P upload: coordinator and stream threads on the PC, session threads and storage access on Android, control channel and LAN connection | `P2PPlan`; refines `FileDelivery` |
| `P2PTransferProofs` | theorems, on plans, uploads and the refinement | `P2PTransfer`, `P2PPlan` |
| `P2PService` | the Android service around the sessions: intents, workers, count, `stopSelfResult` | |
| `CommandRunner` | one external command: process, pump, cancellation, deadline, shutdown | |
| `AdbTransfer` | a transfer of several entries through adb: staging, TAR, commit, rollback | `CommandRunner` |
| `AdbTransferProofs` | theorems | `AdbTransfer` |
| `FileManager` | the file manager page: four worker slots, dialogs, waiting work, the gate of the device | |
| `AppWork` | the Applications and Backups pages and their coordinators | |
| `AccessWork` | the main window's way into an access mode: update, handshake, drain, recheck | |
| `PermissionGrant` | permission requests: the asker on the PC, host and permission activity on Android | |
| `PermissionGrantProofs` | theorems | `PermissionGrant` |
| `BridgeHelper` | the calls that install, verify and use the ACBridge helper, and the helper's activity | |
| `BridgeHelperProofs` | theorems | `BridgeHelper` |
| `PagesProofs` | theorems about the three page models | `AccessWork`, `AppWork`, `FileManager` |
| `DeviceWork` | the six components above (transfer, files, apps, access, grant, bridge) in one specification, one of them working per behaviour | all six |
| `MC*` | small instances | |

**DeviceManager and DeviceOperations.** A refresh is `RefreshBegin` (reads the
generation), `RefreshListAdb`/`RefreshListFastboot` (subprocesses), `RefreshStore`,
`RefreshPick` (reads the saved serial), `RefreshDetail`, `RefreshCommit`: between any two
everything else may happen. A change of generation is followed by `CollectStale` and one
`CancelVictim` per token, because `cancel_stale` runs outside the context lock. The Qt
thread's handlers are sequences of steps with its program counter `pc[UI]`; a step guarded
by `pc[UI] = "idle"` is a new event. An operation moves through `Capture` (context),
a possible dialog, `Register`, `Recheck` (second currency check), `WorkerStart`,
`WorkerReturns`, `DeliverResult`, `DeliverFinished`. The profile loaded over defaults is
`loading`: `settings.get` takes no lock, so a refresh then reads an empty saved serial.
The profile's data are abstracted to the directory opened and a folder configuration; a
device to serial, mode and transport, which is what `_device_identity` compares.

**AccessLease.** An event is a number, `fired` the set of events that are set; `reset` is
`ResetSwap` (new event, cache cleared, under the lock) and `ResetFire` (old event set,
after it), and so is a worker's `_reset_if_lease_current` (`Invalidate`, `Fire`). `uiPc`
orders what the Qt thread does in a switch: save the mode, cancel the operations that hold
a lease, reset. `Capture` and `Register` are separate because a confirmation dialog can
lie between them. What a probe says is a free choice: every answer of the device is
possible. `PostEvent` and `PostMode` are two reads, as in the code: `run_shell` by itself
could return across a switch away and back; the cancelled token then drops the result,
which is why `ResultsAreOfThisMode` speaks of the result and the token.

**SettingsFiles and SettingsStore.** All operations hold `_save_lock`, so there is one
thread. An operation queues requests in `io`; each step executes one replacement of the
first request, and `Crash` or `Fail` may come instead. A settings file holds the access
mode, the pending mode and the directory its folders lie in. `Publish` is the copy of a
profile into a work directory and its rename, one step because the work directory is not
visible under a profile's name. `owed`, `taker`, `takers`, `before`, `holds`, `newest` and
`older` only record history for the properties. `_preserve_corrupt_file` is modelled as on
Windows, where it moves the damaged file away.

**P2PTransfer.** A stream owns a session and walks, under the preparation lock, through
start, control channel, acknowledgement, status and grant of storage access, and then
without the lock through connect, send, reply, fetch and cleanup; the session thread on
Android walks through accept, access, receive, verify, place (a rename, or a copy where
the provider has no rename) and its cleanup. Bytes are abstracted to "some of a file has
arrived"; keys and MACs to whether an answer is authentic, which is all that the code asks
of them. One `faults` counter pays for every loss, timeout and failed write, so a scenario
says how much may go wrong and the model checker chooses where. Cleanup on Android is best
effort, as in the code: the deletion of a temporary file or of half a copy may be refused,
and nobody looks at the result. At the end of a session that costs no fault, since the
error that ends it is likely to refuse the deletion as well; after a good copy it costs
one. `temps` is a session's temporary files, `litter` those Android refused to delete,
`torn` the targets of which half a copy stays. The refinement mapping to `FileDelivery`
reads a half-copied target as no content. `contested` only records history for that
promise: that the second upload began while a session of the first was still at work on
Android, which nothing in the code waits for.

**P2PService.** Only the service's counting: `OnStartCommand`, `Register` and `Count` are
the three lock sections of one handler, `SessionOver` and `Leave` those of a worker.

**CommandRunner and AdbTransfer.** A command is of four kinds, told apart by what can end
it and by which thread moves the bytes. The caller polls; a pump may outlive the command
by more than the two seconds it is waited for, and then its last write comes `late`. A
plain run waits for its killed process without a deadline. `AdbTransfer` puts the strategy
over it: which method each entry takes (`Method`), staging names, the size check that
decides instead of adb's exit code, TAR members that are committed one by one over
backups, the rollback that leaves alone what somebody else has changed (`touched`) and
says so (`warned`), local staging files that cannot be removed (`Sweep`, `leftover`), and
the finalizing shell on Android, which may still run after adb has given up on it
(`RemoteMove`).

**FileManager, AppWork, AccessWork.** Qt runs a handler in one piece and handlers call
each other, so the state of a page is one record and a handler is an operator from the
record before to the record after; an action is an event (a signal of a worker, a timer, a
button) followed by all the calls it makes. A modal dialog splits a handler in two: what
comes while it is open lies between. In `FileManager` a slot is a worker of a kind
(listing, storage, action, transfer) with the context, lease and target it was started
for. In `AppWork` there are two devices, each with a worker of its own, since the gate
`acbridge-maintenance:<serial>` admits one per device; an error of the file system ends a
backup, and the folder it leaves unfinished is removed if it can be (`DiscardDraft`). In
`AccessWork` the device keeps its serial over all generations, a feature that works on the
device is one of four kinds (none, with a lease, without, one that blocks updates), "apps"
stands for the File Manager as well, and the Shizuku request a user makes by hand is the
check of kind "manual".

**PermissionGrant.** Tokens are counted; every `am start` and broadcast is a message that
may be lost or arrive late. The host's preferences, its status file and its place in the
task are separate because a commit may fail and the process may be killed between them. A
commit that fails has changed the preferences in memory (`marked`) and not on disk
(`written`); the process that comes after a kill reads the disk.

**BridgeHelper.** A call is a record with its program point (`at`), its cancellation and what
it has seen; `phone` has the package, the paths, the result files, the export and the
activities that run. Two callers (the automatic update and a worker) share
`_INSTALL_LOCK` (`EnterGuard`), and the queries under it may fail on a phone that has the
package. A package is told apart by what the code asks of it: its version, whether it is
readable, whether it is the bundled APK. A deletion writes a request, starts the activity
and reads a result file whose name does not tell one request from another: an activity of
a cancelled call goes on (`BeginRun`, `WorkRun`, `EndRun`), which is why the path is looked
for afterwards (`CheckDeleted`). `upsets` counts the failed queries, lost starts and changes
of the package behind the program's back.

**DeviceWork.** The six components share no variable. They are checked in one run, with
`part` choosing which one works, because each alone is small; `Fairness` and the
properties are those of each.

## Runs

`CHECK_DEADLOCK FALSE` stands in every configuration because every instance may stop: a
closed program does nothing more, and the bounds on what the environment and the user do
(`MaxChanges`, `MaxOps`, `MaxCrashes`, `MaxFails`, `MaxDamage`, `MaxSessions`, `MaxStarts`,
`MaxDevices`, `MaxModes`, `MaxTargets`, `MaxRequests`, `MaxInputs`, `MaxHosts`, `MaxLosses`,
`MaxCalls`, `MaxUpsets` and the `faults` of a scenario or a plan) exhaust themselves. A module's
type invariant is checked where no theorem or inductive invariant covers it.

| Run | Instance | States | Shows |
|---|---|---|---|
| `device_targets` | phone a in ADB and Fastboot, phone b over Wi-Fi; one operation, one refresh thread, two folder configurations, 2 changes | 1.9 M | stale work is cancelled, generations identify targets, shutdown cancels all, stale contexts stay stale, refinement of `EpochFence` |
| `device_conflicts` | the same devices, two operations of three kinds, 1 change | 1.3 M | conflict groups exclude each other; the inductive invariant of the proofs holds |
| `device_live` | two phones, one operation, 2 changes, fairness | 0.3 M | tokens are released; the saved device becomes active |
| `access_modes` | two workers, 2 changes of mode or device | 7.5 M | leases, cached identities and invalidations do not cross |
| `settings_store` | one device with three directories, 3 operations, 1 crash, 2 failures, 1 damaged file | 3.6 M | recovery, rollback, pending choice, backups |
| `p2p_upload` | two files and a folder, one file existing before; one or two streams, at most two sessions, five scenarios | 0.71 M | `FileDelivery` is implemented; no residue but what Android refused to delete, nothing stays held; the upload and its sessions end |
| `device_work` | six components, one working; see below | 1.3 M | fourteen invariants, and that each component settles |
| `device_choice` | two phones, no operation, 3 changes | violation | see below |
| `settings_pending` | two devices, 1 crash | violation | see below |
| `settings_folders` | one device with a legacy profile, 1 crash | violation | see below |
| `p2p_service` | two sessions, three intents | violation | see below |
| `apps_confirmation` | one application, two devices, 3 requests | violation | see below |

**Why the bounds are enough for the interesting cases.** In `device_targets` a change is a
plug event, a choice, an edit of the folders, a failed profile load or a reset; two of
them are what it takes for a target to go and to come back (the A→B→A case), with one
operation and one refresh open across both. Generations are not bounded otherwise: they
follow from the changes. `device_conflicts` needs two operations and a change that
cancels the first. In `access_modes` two changes are a switch away and back, or a switch
and a device change; two workers are one that fails and one that is harmed by it.
A worker runs one operation: after `Deliver` it
holds no lease and takes no other. In `settings_store` three operations are a choice, an
activation and an activation of the other kind; a rollback that itself fails needs two failures.

The scenarios of `p2p_upload` are one stream that must ask for access, one that may be
denied a write and retries, two streams with a failure, two that wait for access, and two
of which one has nothing to send. Two sessions are a retry, or a second stream that fails
after the first has stored its files. In `device_work`, transfers are a pull of a file and a
folder, a pull of a folder of two files with three failures, a push over Wi-Fi with the
runner closed meanwhile, a push to a protected path, and pushes of folders; two
generations of the device and two access modes are what makes an answer late; three
requests are a choice, its dialog and the refresh that interferes; in the access workflow
one input on top of the connection (a reconnection, a mode or a check) is what meets a
handshake half-way; two permission requests are one that was given up and one that meets
what is left of it, with one killed process or failed commit; the calls of the bridge are a
cancelled one and one that meets its activity or its installation, on a phone without the
helper, with an older one or with one that only looks like the bundled one.

**Properties worth explaining.** `StaleWorkIsCancelled` does not say "cancelled": there is
a window between the new generation and the sweep, and the property says that a sweep
which has started will still reach the operation. `CancelledLeaseYieldsNothing` is about
commands that start after their lease was cancelled by somebody else, whose own token
nobody cancels. `FailedActivationChangesNothing` compares what a reader would find, not
the bytes: the rollback itself may repair a file. `LastKnownGood` allows for one
destroyed file of each pair.

`DeliveryIsHonest` is a refinement, not an invariant: besides "success means stored" it
says that a stored file stays stored and that the outcome is announced once. It promises
nothing of an upload begun again beside a session of its first attempt (see [Seen while
modelling](#seen-while-modelling)); `p2p_upload` is too small for that to happen, so what
the run shows of it is the promise without the exception, and the theorem
`UploadsAreHonest` covers the larger uploads; that the contested ones go wrong is shown by
no property. `NoResidue` and `NothingIsHeld` say what cleanup may leave and when: a
forward stays only if adb itself failed to remove it, a temporary file or half a copy only
if Android refused that very deletion. `NoResidue` is therefore about the program's own
paths, that each of them tries to remove what it made; it does not say that an upload
leaves nothing, and what the documents say beyond it is not so (see [Seen while
modelling](#seen-while-modelling)). What was left is never taken for content: half a copy
is no content in the refinement. `TransferSuccessIsTrue` leaves out TAR archives, for
which it does not hold (see [Seen while modelling](#seen-while-modelling)).
`ExistingTargetsAreSafe` exempts files that another program changed, which the code leaves
alone on purpose. `WaitingWorkIsWoken` is the invariant behind a liveness: whatever waits
has a scan that is still to finish and will wake it. `PagesWaitForTheMode` is the safety
half of the barrier, `WorkEnds` the liveness half: while a device is there the pages are
enabled in the end, and the page in front does not wait for a refresh that was put off
(`PageIsServed`), unless work of the user is on the device or, for the Applications, the
mode does not work; without a device it promises nothing. `WorkEnds` lists its exceptions
in `Stranded`: the orders of events after which the code does wait for ever. With a second
input it has been checked for the access workflow alone (1.4 M states), which
`device_work` has no room for.

## Fairness

`device_live` assumes (`FairSpec` of `DeviceOperations`):

- weak fairness for each pool thread and for the rest of a handler the Qt thread has begun:
  the operating system schedules them, and no step waits for a user;
- weak fairness for `StartRefresh`: the status bar's timer (the default `auto_refresh`; with
  the timer switched off and no event from the monitor, nothing obliges a refresh);
- strong fairness for the delivery of posted signals: Qt's queue is first-in first-out, so a
  signal is delivered although other handlers make the thread busy again and again;
- weak fairness for the end of a running command: each has a timeout in `CommandRunner`.

`p2p_upload` assumes weak fairness of the coordinator, of each stream, of each session
thread on Android and of each stream's cancellation monitor. They are threads with socket
timeouts; a wait that runs out is one of their steps. Nothing is assumed of the user, of
the faults or of `onDestroy`.

`device_work` assumes (`FairSpec` of `DeviceWork`): weak fairness of the strategy's thread and
of a shell that adb has started on Android; of each timer of the access workflow, Qt's zero
timer that dispatches a refresh among them, and of its workers, which have command timeouts; of the asker of a permission request, whose waits
are bounded; of the orphan timer of a host and of Android's `onDestroy` after `finish`; of a
call of the bridge, each of whose commands and polls has a timeout. The
workers of the file manager are said to leave each phase again and again, which is
the weak fairness of a slot's steps: in every phase but "idle" a slot has one enabled. For
the Applications page nothing is claimed to end, since each of its operations waits for
nobody but its own commands.

Nothing is assumed of the user, the cables or the order of failures. A profile load that
fails counts against `MaxChanges`; without that bound a disk that always fails would keep
the device from becoming ready, which is right.

## Proofs

Every theorem holds for all values of the constants that satisfy the named assumptions of
the module (`DeviceAssumption` and the like: a value for "none" is none of the values, a
bound is a number), and for every bound. The inductive invariants were model-checked
before they were proved. A component of `DeviceWork` is proved about under its own
specification (`AccessSpec`, `AppsSpec`, `FilesSpec`, `GrantSpec`, `BridgeSpec`,
`TransferSpec`), whose next-state relation is the one `DeviceWork` runs when it is that component's turn.

### The device (`DeviceOperationsProofs`)

| Theorem | States |
|---|---|
| `Invariance` | `[]IInv` |
| `TypeSafety` | `[]TypeOK` |
| `NoStaleSurvivor` | `[]StaleWorkIsCancelled` |
| `GenerationSafety` | `[]GenerationIdentifiesTarget` |
| `Exclusion` | `[]ExclusiveExecution` |
| `ShutdownSafety` | `[]ShutdownCancelsAll` |
| `StaleForeverSafety` | `StaleForever` |
| `FenceRefinement` | the component implements `EpochFence` |

None of the invariants is inductive alone. `IInv` adds four facts: no context or refresh
is of a future generation (`PastContexts`), an operation's label agrees with its token and
the sweeps (`Lifecycle`), whatever is alive is in the registry until shutdown takes it
over, and then it is cancelled or among the victims of that loop (`Shutdown`), and live
operations never share a conflict group, which is about registration and thus stronger
than about running (`ExclusiveLife`). `StaleWorkIsCancelled` needs `Shutdown` because
`cancel_stale` only sees registered tokens; `Shutdown` needs `Lifecycle` because only the
Qt thread stands between `Register` and `Recheck`. `InvNext` has one case per action. For
the refinement, `FenceStep` maps an operation's steps to the fence's and every other step
to a stutter or an advance of the epoch, with `IInv` for the guards.

### Leases (`AccessLeaseProofs`)

| Theorem | States |
|---|---|
| `LeaseInvariance`, `LeaseTypes` | `[]IInv`, `[]TypeOK` |
| `ModeSafety` | `[]ResultsAreOfThisMode` |
| `LateCommandSafety` | `[]CancelledLeaseYieldsNothing` |
| `IdentitySafety` | `[]IdentityIsOfOwnLease` |
| `CacheSafety` | `[]CacheIsOfThisLease` |
| `FreshLeaseSafety` | `[]FreshLeaseIsLive` |
| `OwnModeSafety` | `OnlyOwnModeIsInvalidated`, an action property |

For any set of workers. The mode a lease was taken for does not tell whether it is still
that mode, because it may have been switched away and back. What does is the event: only
replaced events are set (`EventInv`), a lease of the event in place is of the mode in place
unless a switch has yet to replace the event (`LeaseInv`), and a registered operation of
an earlier mode is cancelled unless that switch has yet to cancel it (`TokenInv`). The rest
says what a worker has established at each of its steps (`WorkInv`, `LateInv`).

### Settings (`SettingsStoreProofs`)

| Theorem | States |
|---|---|
| `StoreInvariance` | `[]IInv` |
| `ProfileSafety` | `[]ProfilesHoldNoPendingChoice` |
| `BackupSafety` | `BackupsSurvive`, an action property |
| `RecoverySafety` | `[]LastKnownGood`, when `MaxDamage` is 0 or 1 |
| `ChoiceSafety` | `[]PendingChoiceIsKept` |
| `RollbackSafety` | `[]FailedActivationChangesNothing` |

For any devices, directories and modes, and any number of operations, crashes and failing
writes. `IInv` is about ownership: a file, a queued write, the memory and a job in progress
fit the scope they belong to. `LastKnownGood` needs `GoodInv` on top of it, which follows
each file through the queue of replacements: what the file and its copy hold, that a
write begins only over a good file, and what a rollback will put back. It is false, and
must be, when damage destroys both files of a pair; `MaxDamage \in {0, 1}` is the program's
own assumption, not one of the proof.

The last two say nothing once a file has been destroyed, and need no bound on `MaxDamage`:
until then `GoodInv` holds whatever the bound is (`HonestInv`). An access mode chosen without
a device is followed by `ChoiceInv`: it is what the application's file holds, what
the memory and every queued write would put there, and what a rollback would put back
(`ChoiceWaits`), until the profile that is given it has been saved with it; only then is it
taken from the queue, and it is settled when that is written. A rollback is followed by
`UndoInv`: there are files only where there is a directory (`TreeInv`), profiles are complete,
so that merging one again changes nothing (`WholeInv`), what the activation found is what it
remembers (`BeforeInv`), and until a second failure each settings file either holds what was
found, with nothing queued that would change it (`Steady`), or is put back from the snapshot
taken before its first change (`PutBack`). `RollInv` says which of the two it is at each
step: the order of snapshot, change and flag in `activate_device_profile` is what it needs.

### The permission handshake (`PermissionGrantProofs`)

`GrantInvariance` (`[]IInv`) and `ForegroundSafety` (`[]ForegroundIsHandedOver`), for any number
of requests, kills and failed commits. A token is closed only after somebody asked for it;
one host at most is alive, the one the static reference and the preferences name; nothing
exists of a token whose start has not arrived. For the last request a `closed` that the
computer has read then means that nothing is left to reopen the host (`Handshake`). A commit
that fails leaves its mark in memory only, where a kill may lose it; the invariant ties both
copies of the mark to the request that was dismissed.

### The helper (`BridgeHelperProofs`)

`HelperInvariance` (`[]IInv`), `InstallSafety` (`[]InstallsAreNeeded`), `TrustSafety`
(`[]TrustIsEarned`), `DeletionSafety` (`[]DeletedPathIsGone`). The three properties become
inductive with one more fact: a single call holds the installation lock.

### The pages (`PagesProofs`)

| Theorem | States |
|---|---|
| `AccessInvariance`, `BarrierSafety` | `[]AccessInv`, `[]PagesWaitForTheMode` |
| `AppsInvariance`, `BackupSafety`, `ProfileSafety` | `[]AppsInv`, `[]UninstalledAppsHaveBackups`, `[]BackupsStayInTheirProfile` |
| `FilesInvariance`, `RowSafety`, `WakeSafety` | `[]FilesInv`, `[]RowsAreOfThisMode`, `[]WaitingWorkIsWoken` |

For any devices, applications, backups and folders, and any number of reconnections and
selections. A handler calls many others, which move flags and timers; each part says which
changes no property can see (`Keeps`, `Quiet`, `Alike`) and places the helpers of the page
among them. `BusyInv` explains why nobody enables the pages early: a connection whose
handshake is done has no start of one on record. `WorkInv` carries the backup of an
application from the step that publishes it to the command that removes the application;
`ScanInv` the profile of a scan to the list. `ButtonInv` says that no dialog, action or
transfer overlaps a waiting transfer, which is what the finishing reader relies on.

### Transfers through adb (`AdbTransferProofs`)

| Theorem | States |
|---|---|
| `TransferInvariant` | `[]IInv` |
| `NothingOutlivesTheRunner` | `[]NothingRunsAfterShutdown` |
| `SuccessIsComplete` | `[]TransferSuccessIsTrue` |
| `StagingIsRemoved` | `[]NoStagingIsLeft` |
| `TargetsAreSafe` | `[]ExistingTargetsAreSafe` |

For transfers of any number of files and folders (a folder stands for two files), in any
direction, with any number of faults, cancelled or interrupted by a shutdown anywhere
(`TransferPlans`). `IInv` divides the files by entry. Files of later entries are untouched
(`FreshInv`); those of earlier ones are vouched for by the result of their entry
(`ResultInv`), and late pumps and shells can only complete them (`SideInv`). For the current
entry the worker's label tells: while a TAR pull is committed or rolled back, each member
that nobody else touched is in one of four states, target and backup together
(`CommitInv`); of a push, whatever is neither waiting nor failed is complete (`StreamInv`),
which for `adb push` rests on `CmdInv`, that success takes a clean exit. The lemmas
`InsideKeeps`, `EndStep` and, where a refused removal leaves a file behind, `LeaveStep` carry
the other entries through every step.

### Transfers over ACBridge P2P (`P2PTransferProofs`)

| Theorem | States |
|---|---|
| `UploadInvariant` | `[]IInv` |
| `StreamsGiveBack` | `[]NothingIsHeld` |
| `NothingIsLeftBehind` | `[]NoResidue` |
| `BatchesSpread` | the batches of a plan hold every entry, each of them once |
| `DeliveryInvariant` | `[]DInv` |
| `UploadsAreHonest` | `DeliveryIsHonest`: `P2PTransfer` implements `FileDelivery` |

For any finite sets of files and folders, any number of streams, sessions and retries, and
any number of faults. The sessions in use are the first ones, so a retry takes none that an
earlier stream had (`InOrder`, which needs that the plan's number of streams is a number
whatever the sizes are); a stream that has not prepared its session holds neither forward
nor lock (`Held`); Android knows nothing of a session before `am start` (`NotStarted`).
With these every step of a stream or of a worker concerns its own session (`StreamStep`,
`WorkerStep`), and the two invariants follow. A stream leaves the traces of its session on
Android as they are (`SameTraces`); after each step of a worker every temporary file and every
half copy belongs to the entry it is at or to a deletion that was refused (`Accounted`).

The refinement needs to know that success means *every* entry was stored, which ties the
plan, the wire and the answers together (`DInv`):

- `Shared`: the batches of an attempt hold every entry once. `BatchesSpread` proves it of
  whatever `Batches` computes: `DealOne` is shown to keep a deal well dealt, and an induction
  over the number of files dealt (`AllNat`, over a set of numbers, and `Iterates`, that a
  step can be repeated) carries it to the end. `SpreadOneMore` is the step, `SpreadBefore`
  the folders put before the first batch.
- `Wire`: what is under way on a session's socket is exactly what lies between the last
  entry sent and the last one taken, and after the last entry the transcript's tag. So the
  session stores the entries in the order of its batch, and answers only after the last.
- `Answered`: a stream that ends without a failure has that answer.
- `Collected`: the coordinator announces success only when it has reaped every stream and
  none had a failure.
- `Quiet` and `Kept`: unless the attempt is `contested`, no session but its own is at work,
  and what these have counted is stored. `Kept` is where the distinctness in `Shared`
  matters: two sessions of an attempt never write to one target.

`StreamEffects` and `WorkerEffects` say what a step leaves alone, `CalmKeepsWire` that most
steps leave the wire alone, and `SendKeeps`, `TakingOne` and `WorkerKeeps` treat the others.
TLC has checked `DInv` on `p2p_upload`'s instance and on a guided one with four sessions.

### Only model-checked

- Liveness (`TokensAreReleased`, `SavedDeviceBecomesReady`, `UploadEnds`, `SessionsEnd`,
  `WorkEnds`): the prover has no fairness reasoning about `ENABLED`.
- `TypeOK` of `DeviceWork`: the typing of each component is part of its own invariant; the
  composition has no theorem.
- The existence of the violations below.

## What the runs found

- `device_choice` (`device.py:224`): a refresh under way when the user chooses a device can
  commit the device it had picked before; if the chosen one has gone, the other device is
  what `choose` returns and what is activated.
- `settings_pending` (`settings_manager.py:1397`): a crash after a profile has been saved with
  the pending mode and before the queue is cleared applies the one-shot choice twice.
- `settings_folders` (`settings_manager.py:1569`): a crash after a migrated profile was
  published and before its first save leaves its folders in the old directory for good.

- `p2p_service` (`P2PTransferService.java:135`): the start number is published before the
  session is counted; the last worker of an earlier session may stop the service in
  between, and `onDestroy` cancels the session just started.
- `apps_confirmation` (`apps_action_workflow.py:268`): packages chosen and confirmed on one
  device are uninstalled from the device that has replaced it during the dialog, because
  the context is captured after the dialog.

Each is quoted with the line it contradicts in `PROJECT.json` ("findings").

## Seen while modelling

Behaviour the models contain and no run is spent on:

- P2P: a plan may give a stream an empty batch when all files are empty; the receiver
  refuses it ("Invalid transfer entry count: 0", `acbridge_p2p.py:713`), and the upload fails.
- P2P: when a session is refused access, the strategy asks for it and uploads once more
  (`p2p_transfer_strategy.py:88`), but nothing waits for the other sessions of the first
  upload to end on Android. One that is placing a file removes what has the target's name
  before it renames its own (`P2PTransferService.java:790`, `852`); beside the second upload
  that may be the file this one has just stored, even after it announced
  success. It takes two streams twice; TLC found it on an instance of four sessions with a
  constraint that leads there. `contested` marks these uploads.
- P2P: the deletions that clean up ignore their failure (`P2PTransferService.java:800`,
  `810-814`, `857-859`, `864-866`, `978-981`, `1008-1013`), and the provider or volume that
  fails a copy is likely to refuse the deletion too. Half a target or a `.part` file then
  stays, although README.md:571 has partial files "removed after cancellation or failure" and
  docs/DEVICE_LAB_MATRIX.md has "no staging residue" (line 127) and "no partial committed
  target" (line 129). When it is the deletion of the temporary document after a copy that
  throws (`800`), the session ends with an error over a complete target.
- adb: a TAR stream that is cut between two members and ends with exit code 0 is taken for
  complete (`adb_transfer_strategy.py:1722`, `1825`). A pump that outlives its command may
  leave a staging file, and so does a cleanup that the closed runner refuses or a local
  removal that fails (`adb_transfer_strategy.py:1433-1436`, `1469-1473`)
  (docs/DEVICE_LAB_MATRIX.md:121 has none left). Rollback looks at a target and then
  replaces it; a program that writes in between loses what it wrote.
- Permissions: a delayed `am start` opens a host after its dismissal was acknowledged, and
  while that host is active it acknowledges dismissals of other tokens (`bridge.stray`). An
  orphan timer whose only run cannot commit leaves its host for good (`bridge.stranded`).
  A host recreated after its process was killed refuses the next request.
- File manager: a passive refresh that confirmed work has pre-empted is not repeated when
  that work fails, is a pull or an installation.
- Applications: a backup for which only some of the APKs could be read is published as
  failed and still offered for restoring. A listing of backups asked for right after a reset
  is refused when the cancelled scan of that folder has not ended. A partial folder that a
  crash left is never removed.
- Access: a Root recheck that an ACBridge update puts off may run between two attempts of
  the update, and then nobody lowers the barrier (`main_window.py:1795`, `2640-2672`); a check
  that ends while the 750 ms recheck timer is pending keeps it too. `LeftRaised` names both.
  A deferred update whose scheduling fails because the device went away does not release
  its flag (`main_window.py:1563`).

## Not modelled, and the plan

Next, in this order:

1. `DeviceStatus`: monitor, refresh, offline reconnection and wireless suspension of the
   status bar, on top of `DeviceManager`; that a change seen by the monitor is not lost.
2. `ShizukuExec`: the execution of commands through the Shizuku user service; so far only
   the permission request and the passive status are modelled.
3. The backup worker against a profile that moves: `SettingsStore` with `AppWork`.

Abstracted within modelled components:

- P2P: the death of the Android process during a session; the contents of a file.
- File manager: closing the page, the probe for Root in a listing, the view.
- Access workflow: a change of profile, a worker that cannot be started, closing the window.
- Applications and Backups: the setting that moves the backup folder, the availability of
  Shizuku, installation of APKs, assets beyond "the worker ends".
- TAR on Android: the exit status of `tar` there is not seen by the desktop, so `Pack` may end
  early with a clean exit.

Left out for good: parsing of command output, APKs and icons, texts, layout, widgets,
themes, the taskbar, build tools and vendored code. `tracked()` is a registration followed
by a release. Two OpenADB processes at once are outside the model, as nothing in the code
is meant to coordinate them.
