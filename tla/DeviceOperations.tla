--------------------------- MODULE DeviceOperations ---------------------------
(***************************************************************************)
(* Device-bound work from its click to its callback: DeviceManager and     *)
(* OperationRegistry under the Qt thread, the pool threads that refresh    *)
(* the device, and the pool threads that run operations.                   *)
(*                                                                         *)
(* The Qt thread runs one handler at a time (pc[UI] = "idle" between two), *)
(* except that a confirmation dialog may run other handlers between the    *)
(* capture of a context and the registration that uses it.  A worker's     *)
(* result and finished signals are queued to the Qt thread.                *)
(***************************************************************************)
EXTENDS DeviceManager, OperationRegistry, FiniteSets

VARIABLES
  opPc,     \* Op -> where the operation is
  victims,  \* Thread -> the tokens its cancellation loop still has to cancel
  applied,  \* the operations whose result was presented
  closing   \* MainWindow._closing

opVars == <<opPc, victims, applied, closing>>
vars   == <<deviceVars, registryVars, opVars>>

OpLabels == {"new", "captured", "recheck", "queued", "running", "returned",
             "delivered", "done"}

TypeOK ==
  /\ DeviceTypeOK
  /\ registered \subseteq Ops
  /\ shuttingDown \in BOOLEAN
  /\ cancelled \subseteq Ops
  /\ kind \in [Ops -> Kinds]
  /\ context \in [Ops -> Context \cup {NoContext}]
  /\ opPc \in [Ops -> OpLabels]
  /\ victims \in [Threads -> SUBSET Ops]
  /\ applied \subseteq Ops
  /\ closing \in BOOLEAN

Init ==
  /\ DeviceInit
  /\ registered = {}
  /\ shuttingDown = FALSE
  /\ cancelled = {}
  /\ kind \in [Ops -> Kinds]
  /\ context = [o \in Ops |-> NoContext]
  /\ opPc = [o \in Ops |-> "new"]
  /\ victims = [t \in Threads |-> {}]
  /\ applied = {}
  /\ closing = FALSE

OpGoto(o, label) == opPc' = [opPc EXCEPT ![o] = label]

UserChange == changes < MaxChanges /\ changes' = changes + 1

-----------------------------------------------------------------------------
(* The threads inside DeviceManager *)

\* The status bar starts a refresh from its timer or from the device monitor, on
\* the Qt thread, and starts no other until the snapshot has been handled.
StartRefresh(t) ==
  /\ pc[UI] = "idle"
  /\ ~closing
  /\ RefreshBegin(t)
  /\ UNCHANGED <<registryVars, opVars>>

RunRefresh(t) == Refresh(t) /\ UNCHANGED <<registryVars, opVars>>

PostSnapshot(t) == RefreshSnapshot(t) /\ UNCHANGED <<registryVars, opVars>>

\* cancel_stale: the snapshot under the registry lock ...
CollectStale(t) ==
  /\ pc[t] = "collect"
  /\ victims' = [victims EXCEPT ![t] = StaleTokens(sweep[t], NoContext)]
  /\ Goto(t, "cancel")
  /\ UNCHANGED <<envVars, settingsVars, managerVars, resume, start, listed,
                 chosen, sweep, registryVars, opPc, applied, closing>>

\* ... then token.cancel, one token at a time, without it.
CancelVictim(t) ==
  /\ pc[t] = "cancel"
  /\ \E o \in victims[t] :
        /\ CancelToken(o)
        /\ victims' = [victims EXCEPT ![t] = @ \ {o}]
  /\ UNCHANGED <<deviceVars, registered, shuttingDown, kind, context,
                 opPc, applied, closing>>

CancelReturns(t) ==
  /\ pc[t] = "cancel"
  /\ victims[t] = {}
  /\ Goto(t, resume[t])
  /\ sweep' = [sweep EXCEPT ![t] = 0]
  /\ UNCHANGED <<envVars, settingsVars, managerVars, resume, start, listed,
                 chosen, registryVars, opVars>>

DeviceThread(t) ==
  \/ RunRefresh(t)
  \/ PostSnapshot(t)
  \/ CollectStale(t)
  \/ CancelVictim(t)
  \/ CancelReturns(t)

-----------------------------------------------------------------------------
(* The Qt thread: choosing a device and following the active one *)

\* The Devices button shows while there is something to choose and is disabled
\* during a refresh; the dialog it opens keeps the devices of that moment and
\* runs the event loop, so refreshes go on behind it.
OpenPicker ==
  /\ pc[UI] = "idle"
  /\ devices # {}
  /\ active = NoDevice \/ Cardinality(devices) > 1
  /\ \A t \in Refreshers : pc[t] = "idle"
  /\ listed' = [listed EXCEPT ![UI] = devices]
  /\ UNCHANGED <<envVars, settingsVars, managerVars, pc, resume, start, chosen,
                 sweep, registryVars, opVars>>

\* choose saves the serial the dialog returned.
Choose ==
  /\ pc[UI] = "idle"
  /\ UserChange
  /\ \E d \in listed[UI] :
        /\ saved' = d.serial
        /\ chosen' = [chosen EXCEPT ![UI] = d]
  /\ listed' = [listed EXCEPT ![UI] = {}]
  /\ Goto(UI, "scan")
  /\ UNCHANGED <<attached, opened, loading, managerVars, resume, start,
                 sweep, registryVars, opVars>>

\* choose looks the serial up in the devices list, without the lock, and falls
\* back to a refresh on the Qt thread.
ChooseScan ==
  /\ pc[UI] = "scan"
  /\ \/ \E d \in devices : /\ d.serial = chosen[UI].serial
                           /\ SetActive(UI, d, "return")
                           /\ UNCHANGED start
     \/ /\ \A d \in devices : d.serial # chosen[UI].serial
        /\ start' = [start EXCEPT ![UI] = generation]
        /\ Goto(UI, "list")
        /\ UNCHANGED <<active, generation, resume, sweep>>
  /\ UNCHANGED <<envVars, settingsVars, devices, profile, listed, chosen,
                 registryVars, opVars>>

\* choose returns self.active, read without the lock, to _on_device_refreshed.
ChooseReturns ==
  /\ pc[UI] = "return"
  /\ chosen' = [chosen EXCEPT ![UI] = active]
  /\ start' = [start EXCEPT ![UI] = 0]
  /\ listed' = [listed EXCEPT ![UI] = {}]
  /\ Goto(UI, "activate")
  /\ UNCHANGED <<envVars, settingsVars, managerVars, resume, sweep,
                 registryVars, opVars>>

\* _apply_refresh_snapshot drops a snapshot of an older generation.
ApplySnapshot(t) ==
  /\ pc[UI] = "idle"
  /\ pc[t] = "posted"
  /\ IF start[t] = generation
     THEN /\ pc' = [pc EXCEPT ![t] = "idle", ![UI] = "activate"]
          /\ chosen' = [chosen EXCEPT ![t] = NoDevice, ![UI] = chosen[t]]
     ELSE /\ pc' = [pc EXCEPT ![t] = "idle"]
          /\ chosen' = [chosen EXCEPT ![t] = NoDevice]
  /\ start' = [start EXCEPT ![t] = 0]
  /\ UNCHANGED <<envVars, settingsVars, managerVars, resume, listed, sweep,
                 registryVars, opVars>>

\* _activate_device_profile: nothing to load when the settings already have the
\* profile open; an existing profile is read over freshly installed defaults.
Activate ==
  /\ pc[UI] = "activate"
  /\ \/ /\ chosen[UI].serial = NoSerial
        /\ Goto(UI, "idle")
        /\ UNCHANGED loading
     \/ /\ chosen[UI].serial # NoSerial
        /\ opened.root = chosen[UI].serial
        /\ Goto(UI, "sync")
        /\ UNCHANGED loading
     \/ /\ chosen[UI].serial \notin {NoSerial, opened.root}
        /\ Goto(UI, "load")
        /\ loading' \in BOOLEAN
  /\ UNCHANGED <<envVars, saved, opened, managerVars, resume, start, listed,
                 chosen, sweep, registryVars, opVars>>

LoadProfile ==
  /\ pc[UI] = "load"
  /\ opened' \in [root: {chosen[UI].serial}, folders: Folders]
  /\ saved' = chosen[UI].serial
  /\ loading' = FALSE
  /\ Goto(UI, "notify")
  /\ UNCHANGED <<envVars, managerVars, resume, start, listed, chosen, sweep,
                 registryVars, opVars>>

\* Mutant: the rollback forgets the settings dictionary.
LoadProfileFailsWithDefaults ==
  /\ pc[UI] = "load"
  /\ UserChange
  /\ InvalidateProfile(UI, "idle")
  /\ UNCHANGED <<attached, settingsVars, active, devices, start, listed, chosen,
                 registryVars, opVars>>

\* A failed activation rolls the settings back and leaves no profile active.
LoadProfileFails ==
  /\ pc[UI] = "load"
  /\ UserChange
  /\ loading' = FALSE
  /\ InvalidateProfile(UI, "idle")
  /\ UNCHANGED <<attached, saved, opened, active, devices, start, listed, chosen,
                 registryVars, opVars>>

\* profile_needs_sync: the manager may hold another device or profile by now.
SyncProfile ==
  /\ pc[UI] = "sync"
  /\ Goto(UI, IF ContextAvailable /\ active.serial = chosen[UI].serial
              THEN "idle" ELSE "notify")
  /\ UNCHANGED <<envVars, settingsVars, managerVars, resume, start, listed,
                 chosen, sweep, registryVars, opVars>>

\* _settings_changed -> notify_profile_changed
SettingsChanged ==
  /\ pc[UI] = "notify"
  /\ NotifyProfileChanged(UI, opened.root, "idle")
  /\ UNCHANGED <<envVars, settingsVars, active, devices, start, listed, chosen,
                 registryVars, opVars>>

\* The user edits a folder of the open settings scope.
ChangeFolders ==
  /\ pc[UI] = "idle"
  /\ UserChange
  /\ \E f \in Folders \ {opened.folders} : opened' = [opened EXCEPT !.folders = f]
  /\ Goto(UI, "notify")
  /\ UNCHANGED <<attached, saved, loading, managerVars, resume, start, listed,
                 chosen, sweep, registryVars, opVars>>

\* The full reset first invalidates the profile, then rewrites the settings.
BeginReset ==
  /\ pc[UI] = "idle"
  /\ UserChange
  /\ InvalidateProfile(UI, "reset")
  /\ UNCHANGED <<attached, settingsVars, active, devices, start, listed, chosen,
                 registryVars, opVars>>

ResetSettings ==
  /\ pc[UI] = "reset"
  /\ opened' \in [root: {NoSerial}, folders: Folders]
  /\ saved' = NoSerial
  /\ Goto(UI, "notify")
  /\ UNCHANGED <<envVars, loading, managerVars, resume, start, listed, chosen,
                 sweep, registryVars, opVars>>

DeviceHandler ==
  \/ OpenPicker
  \/ Choose
  \/ ChooseScan
  \/ ChooseReturns
  \/ \E t \in Refreshers : ApplySnapshot(t)
  \/ Activate
  \/ LoadProfile
  \/ LoadProfileFails
  \/ SyncProfile
  \/ SettingsChanged
  \/ ChangeFolders
  \/ BeginReset
  \/ ResetSettings

-----------------------------------------------------------------------------
(* The Qt thread: starting an operation *)

\* The handler captures its context first; it may then ask for confirmation.
Capture(o) ==
  /\ pc[UI] = "idle"
  /\ opPc[o] = "new"
  /\ IF kind[o] \in BoundKinds
     THEN /\ ContextAvailable
          /\ context' = [context EXCEPT ![o] = CapturedContext]
     ELSE UNCHANGED context
  /\ OpGoto(o, "captured")
  /\ UNCHANGED <<deviceVars, registered, shuttingDown, cancelled, kind,
                 victims, applied, closing>>

\* Mutant: shutdown does not refuse registrations.
RegisterAfterShutdown(o) ==
  /\ pc[UI] \in {"idle", "closed"}
  /\ opPc[o] = "captured"
  /\ IF \E p \in registered : Conflicts(p, GroupsOf(o))
     THEN OpGoto(o, "done") /\ UNCHANGED <<registered, pc>>
     ELSE /\ RegisterToken(o)
          /\ OpGoto(o, "recheck")
          /\ Goto(UI, "recheck")
  /\ UNCHANGED <<envVars, settingsVars, managerVars, resume, start, listed,
                 chosen, sweep, shuttingDown, cancelled, kind, context,
                 victims, applied, closing>>

\* The confirmation may return only after the window has been closed.
Register(o) ==
  /\ pc[UI] \in {"idle", "closed"}
  /\ opPc[o] = "captured"
  /\ IF \/ shuttingDown
        \/ \E p \in registered : Conflicts(p, GroupsOf(o))
     THEN OpGoto(o, "done") /\ UNCHANGED <<registered, pc>>
     ELSE /\ RegisterToken(o)
          /\ OpGoto(o, "recheck")
          /\ Goto(UI, "recheck")
  /\ UNCHANGED <<envVars, settingsVars, managerVars, resume, start, listed,
                 chosen, sweep, shuttingDown, cancelled, kind, context,
                 victims, applied, closing>>

\* Mutant: the token stays in the registry.
WithdrawKeepsToken(o) ==
  /\ CancelToken(o)
  /\ UNCHANGED registered
  /\ OpGoto(o, "done")

\* Withdraws a token whose worker will not run.
Withdraw(o) ==
  /\ CancelToken(o)
  /\ FinishToken(o)
  /\ OpGoto(o, "done")

\* Mutant: the second check is left out.
RecheckSkipped(o) ==
  /\ pc[UI] = "recheck"
  /\ opPc[o] = "recheck"
  /\ OpGoto(o, "queued")
  /\ Goto(UI, "idle")
  /\ UNCHANGED <<envVars, settingsVars, managerVars, resume, start, listed,
                 chosen, sweep, registryVars, victims, applied, closing>>

\* The context is checked once more, because the generation may have advanced,
\* and the sweep gone by, before the token was in the registry.
Recheck(o) ==
  /\ pc[UI] = "recheck"
  /\ opPc[o] = "recheck"
  /\ IF IsContextCurrent(context[o])
     THEN OpGoto(o, "queued") /\ UNCHANGED <<registered, cancelled>>
     ELSE Withdraw(o)
  /\ Goto(UI, "idle")
  /\ UNCHANGED <<envVars, settingsVars, managerVars, resume, start, listed,
                 chosen, sweep, shuttingDown, kind, context, victims, applied,
                 closing>>

\* pool.start raises.
StartFails(o) ==
  /\ pc[UI] = "recheck"
  /\ opPc[o] = "recheck"
  /\ IsContextCurrent(context[o])
  /\ Withdraw(o)
  /\ Goto(UI, "idle")
  /\ UNCHANGED <<envVars, settingsVars, managerVars, resume, start, listed,
                 chosen, sweep, shuttingDown, kind, context, victims, applied,
                 closing>>

CancelOwner(k) ==
  /\ pc[UI] = "idle"
  /\ ~ OwnedTokens(k) \subseteq cancelled
  /\ victims' = [victims EXCEPT ![UI] = OwnedTokens(k)]
  /\ resume' = [resume EXCEPT ![UI] = "idle"]
  /\ Goto(UI, "cancel")
  /\ UNCHANGED <<envVars, settingsVars, managerVars, start, listed, chosen, sweep,
                 registryVars, opPc, applied, closing>>

-----------------------------------------------------------------------------
(* The worker of an operation, and its queued signals *)

\* Cancelled before its turn, or of a device that is gone: no command is run.
WorkerStart(o) ==
  /\ opPc[o] = "queued"
  /\ IF o \in cancelled
     THEN OpGoto(o, "returned") /\ UNCHANGED cancelled
     ELSE IF IsContextCurrent(context[o])
     THEN OpGoto(o, "running") /\ UNCHANGED cancelled
     ELSE OpGoto(o, "returned") /\ CancelToken(o)
  /\ UNCHANGED <<deviceVars, registered, shuttingDown, kind, context,
                 victims, applied, closing>>

WorkerReturns(o) ==
  /\ opPc[o] = "running"
  /\ OpGoto(o, "returned")
  /\ UNCHANGED <<deviceVars, registryVars, victims, applied, closing>>

\* Mutant: only cancellation is looked at.
CallbackIsNotCancelled(o) == ~closing /\ o \notin cancelled

\* _operation_callback_is_current guards the result and the error callback.
CallbackIsCurrent(o) ==
  /\ ~closing
  /\ o \notin cancelled
  /\ IsContextCurrent(context[o])

DeliverResult(o) ==
  /\ pc[UI] \in {"idle", "closed"}
  /\ opPc[o] = "returned"
  /\ applied' = IF CallbackIsCurrent(o) THEN applied \cup {o} ELSE applied
  /\ OpGoto(o, "delivered")
  /\ UNCHANGED <<deviceVars, registryVars, victims, closing>>

DeliverFinished(o) ==
  /\ pc[UI] \in {"idle", "closed"}
  /\ opPc[o] = "delivered"
  /\ FinishToken(o)
  /\ OpGoto(o, "done")
  /\ UNCHANGED <<deviceVars, shuttingDown, cancelled, kind, context,
                 victims, applied, closing>>

\* The Qt objects are gone: the worker's fallback finalizer cleans up.
FallbackFinished(o) ==
  /\ pc[UI] = "closed"
  /\ opPc[o] = "returned"
  /\ FinishToken(o)
  /\ OpGoto(o, "done")
  /\ UNCHANGED <<deviceVars, shuttingDown, cancelled, kind, context,
                 victims, applied, closing>>

-----------------------------------------------------------------------------
(* Shutdown *)

\* closeEvent, up to the flag that shutdown sets in its first lock section.
Close ==
  /\ pc[UI] = "idle"
  /\ ~closing
  /\ closing' = TRUE
  /\ shuttingDown' = TRUE
  /\ Goto(UI, "clear")
  /\ UNCHANGED <<envVars, settingsVars, managerVars, resume, start, listed,
                 chosen, sweep, registered, cancelled, kind, context,
                 opPc, victims, applied>>

\* Mutant: the registry is emptied before it is copied.
ShutdownClearsFirst ==
  /\ pc[UI] = "clear"
  /\ victims' = [victims EXCEPT ![UI] = {}]
  /\ registered' = {}
  /\ resume' = [resume EXCEPT ![UI] = "closed"]
  /\ Goto(UI, "cancel")
  /\ UNCHANGED <<envVars, settingsVars, managerVars, start, listed, chosen, sweep,
                 shuttingDown, cancelled, kind, context, opPc, applied, closing>>

\* cancel_all(remove=True): the registry is emptied, then the tokens cancelled.
ShutdownClear ==
  /\ pc[UI] = "clear"
  /\ victims' = [victims EXCEPT ![UI] = registered]
  /\ registered' = {}
  /\ resume' = [resume EXCEPT ![UI] = "closed"]
  /\ Goto(UI, "cancel")
  /\ UNCHANGED <<envVars, settingsVars, managerVars, start, listed, chosen, sweep,
                 shuttingDown, cancelled, kind, context, opPc, applied, closing>>

\* QThreadPool.clear drops the workers that have not started.
PoolClear(o) ==
  /\ pc[UI] = "closed"
  /\ opPc[o] = "queued"
  /\ OpGoto(o, "done")
  /\ UNCHANGED <<deviceVars, registryVars, victims, applied, closing>>

-----------------------------------------------------------------------------

Operation(o) ==
  \/ Capture(o)
  \/ Register(o)
  \/ Recheck(o)
  \/ StartFails(o)
  \/ WorkerStart(o)
  \/ WorkerReturns(o)
  \/ DeliverResult(o)
  \/ DeliverFinished(o)
  \/ FallbackFinished(o)
  \/ PoolClear(o)

PlugDevices == Plug /\ UNCHANGED <<registryVars, opVars>>

Next ==
  \/ PlugDevices
  \/ \E t \in Refreshers : StartRefresh(t)
  \/ \E t \in Threads : DeviceThread(t)
  \/ DeviceHandler
  \/ \E k \in Kinds : CancelOwner(k)
  \/ \E o \in Ops : Operation(o)
  \/ Close
  \/ ShutdownClear

Spec == Init /\ [][Next]_vars

\* What the scheduler owes.  The Qt thread finishes the handler it runs, and its
\* event queue is first-in first-out, so a posted signal is delivered even
\* though other handlers keep it busy; pool threads make progress, a command
\* ends (it has a timeout), and the status bar's timer starts refresh after
\* refresh.
HandlerContinues ==
  \/ ChooseScan
  \/ ChooseReturns
  \/ Activate
  \/ LoadProfile
  \/ LoadProfileFails
  \/ SyncProfile
  \/ SettingsChanged
  \/ ResetSettings
  \/ \E o \in Ops : Recheck(o) \/ StartFails(o)
  \/ ShutdownClear

Fairness ==
  /\ WF_vars(HandlerContinues)
  /\ \A t \in Threads : WF_vars(DeviceThread(t))
  /\ \A t \in Refreshers : WF_vars(StartRefresh(t)) /\ SF_vars(ApplySnapshot(t))
  /\ \A o \in Ops :
        /\ WF_vars(WorkerStart(o) \/ PoolClear(o))
        /\ WF_vars(WorkerReturns(o))
        /\ SF_vars(DeliverResult(o) \/ FallbackFinished(o))
        /\ SF_vars(DeliverFinished(o))

FairSpec == Spec /\ Fairness

-----------------------------------------------------------------------------
(* Safety *)

InFlight == {"queued", "running", "returned", "delivered"}

Bound(o) == context[o] # NoContext

IsStale(o) == Bound(o) /\ context[o].generation < generation

\* Some cancellation loop that has already started will reach o.
BeingSwept(o) ==
  \E t \in Threads :
     \/ o \in victims[t]
     \/ /\ pc[t] = "collect"
        /\ o \in registered
        /\ context[o].generation < sweep[t]

\* An operation whose device or profile has changed is cancelled, or a
\* cancellation that covers it is under way: the window between capturing a
\* context and registering it loses no cancellation (the second currency check
\* in _start_dashboard_command, register_operation and their siblings).
StaleWorkIsCancelled ==
  \A o \in Ops : opPc[o] \in InFlight /\ IsStale(o) => o \in cancelled \/ BeingSwept(o)

\* The generation alone identifies the target: a context of the current
\* generation has the current device and profile, so is_context_current can
\* never see a half-changed pair, and a snapshot of the current generation
\* shows the active device (capture_context, active_snapshot).
GenerationIdentifiesTarget ==
  /\ \A o \in Ops : Bound(o) /\ context[o].generation = generation
                       => context[o].device = active /\ context[o].profile = profile
  /\ \A t \in Refreshers : pc[t] = "posted" /\ start[t] = generation
                              => chosen[t] = active

\* Two commands that share a device-side resource never run at the same time,
\* not even when the first is cancelled, or dropped from the registry by
\* shutdown, while its process is still alive (conflict groups).
ExclusiveExecution ==
  \A o, p \in Ops : o # p /\ opPc[o] = "running" /\ opPc[p] = "running"
                      => GroupsOf(o) \cap GroupsOf(p) = {}

\* When closeEvent has shut the registry down, everything that may still run
\* has been told to stop.
ShutdownCancelsAll ==
  pc[UI] = "closed" => \A o \in Ops : opPc[o] \in InFlight => o \in cancelled

\* A context that has ceased to be current never becomes current again, even
\* if the same device returns under the same transport and profile.
StaleForever ==
  [][\A o \in Ops : Bound(o) /\ ~ IsContextCurrent(context[o])
                      => ~ IsContextCurrent(context[o])']_vars

\* choose never answers with a device that was not chosen: if the chosen one has
\* left, no device is selected and no other takes its place
\* (test_disconnect_does_not_silently_switch_to_another_device).
ChoiceIsNotOverridden ==
  pc[UI] = "return" => active.serial \in {NoSerial, saved}

-----------------------------------------------------------------------------
(* The inductive strengthening of the safety properties *)

\* The registry knows the operation, or shutdown has taken it over.
Live == {"recheck"} \cup InFlight

\* Shutdown has emptied the registry: only shutdown itself sets this label.
Cleared == resume[UI] = "closed"

PastContexts ==
  /\ \A o \in Ops : context[o].generation <= generation
  /\ \A t \in Threads : start[t] <= generation

Lifecycle ==
  /\ \A o \in Ops :
        /\ opPc[o] = "new" => /\ context[o] = NoContext
                             /\ o \notin registered \cup cancelled \cup applied
                             /\ \A t \in Threads : o \notin victims[t]
        /\ opPc[o] = "recheck" => pc[UI] = "recheck"
        /\ o \in applied => opPc[o] \in {"delivered", "done"}
        /\ \A p \in Ops : opPc[o] = "recheck" /\ opPc[p] = "recheck" => o = p
  /\ \A t \in Threads : /\ pc[t] # "cancel" => victims[t] = {}
                        /\ resume[t] \notin {"posted", "clear"}

Shutdown ==
  /\ Cleared => pc[UI] \in {"cancel", "closed"} /\ shuttingDown
  /\ pc[UI] = "closed" => Cleared
  /\ pc[UI] = "clear" => shuttingDown
  /\ ~Cleared => \A o \in Ops : opPc[o] \in Live => o \in registered
  /\ Cleared => \A o \in Ops : opPc[o] \in Live => o \in cancelled \cup victims[UI]

ExclusiveLife ==
  \A o, p \in Ops : o # p /\ opPc[o] \in Live /\ opPc[p] \in Live
                      => GroupsOf(o) \cap GroupsOf(p) = {}

\* Neither the sweep of a generation change nor the registry alone explains why
\* no stale operation survives; together these are preserved by every step.
IInv ==
  /\ TypeOK
  /\ PastContexts
  /\ Lifecycle
  /\ Shutdown
  /\ ExclusiveLife
  /\ StaleWorkIsCancelled
  /\ GenerationIdentifiesTarget

-----------------------------------------------------------------------------
(* Refinement: the operations implement the epoch fence *)

FenceStage(o) ==
  IF o \in applied THEN "applied"
  ELSE IF o \in cancelled \/ opPc[o] \in {"delivered", "done"} THEN "dropped"
  ELSE IF opPc[o] = "new" THEN "idle"
  ELSE IF opPc[o] \in {"captured", "recheck", "queued"} THEN "open" ELSE "live"

Fence == INSTANCE EpochFence
           WITH Work    <- Ops,
                NoEpoch <- NoSerial,
                epoch   <- generation,
                stage   <- [o \in Ops |-> FenceStage(o)],
                opened  <- [o \in Ops |-> IF Bound(o) THEN context[o].generation
                                                      ELSE NoSerial]

\* Results are presented only in the epoch their operation was started for.
FencedResults == Fence!FenceSpec

-----------------------------------------------------------------------------
(* Liveness *)

\* Every registered operation leaves the registry: whatever is cancelled,
\* fails to start, or is overtaken by a device change (start_worker's cleanup).
TokensAreReleased == \A o \in Ops : o \in registered ~> o \notin registered

Visible == IF Adb(attached) = {} THEN attached ELSE Adb(attached)

\* Once the saved device stays attached, it becomes and stays the active device
\* with its own profile, however many refreshes were discarded on the way.
SavedDeviceBecomesReady ==
  \A d \in Device :
     <>[](~closing /\ d \in Visible /\ saved = d.serial)
       => <>[](active = d /\ ContextAvailable)
=============================================================================
