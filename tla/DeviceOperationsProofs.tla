------------------------ MODULE DeviceOperationsProofs ------------------------
(***************************************************************************)
(* Theorems about DeviceOperations, for every set of devices, operations   *)
(* and refresh threads and every number of changes.                        *)
(***************************************************************************)
EXTENDS DeviceOperations, TLAPS

(* The types of what the device actions are built from. *)

LEMMA ContextTypes ==
  /\ NoDevice.serial = NoSerial
  /\ NoDevice \notin Device
  /\ NoContext \notin Context
  /\ \A d \in Device : d.serial \in Serials /\ d.serial # NoSerial
BY DeviceAssumption DEF NoDevice, NoContext, Context

LEMMA StateTypes ==
  ASSUME DeviceTypeOK
  PROVE  /\ SettingsProfile(opened.root) \in Profile
         /\ SettingsProfile(NoSerial) \in Profile
         /\ ContextAvailable => CapturedContext \in Context
<1>1. SettingsProfile(opened.root) \in Profile
  BY DEF DeviceTypeOK, SettingsProfile, Profile
<1>2. SettingsProfile(NoSerial) \in Profile
  BY DEF DeviceTypeOK, SettingsProfile, Profile
<1>3. ContextAvailable => CapturedContext \in Context
  BY ContextTypes DEF DeviceTypeOK, ContextAvailable, CapturedContext, Context, NoDevice
<1> QED BY <1>1, <1>2, <1>3

\* The program starts with well-typed variables (the constructors).
LEMMA TypeInit == Init => TypeOK
<1> SUFFICES ASSUME Init PROVE TypeOK
  OBVIOUS
<1>1. opened \in [root: Serials \cup {NoSerial}, folders: Folders] /\ profile \in Profile
  BY DEF Init, DeviceInit, Profile
<1>2. DeviceTypeOK
  <2>1. changes \in 0..MaxChanges /\ generation \in Nat
    BY BoundAssumption DEF Init, DeviceInit
  <2>2. /\ pc \in [Threads -> Labels] /\ resume \in [Threads -> Labels]
        /\ start \in [Threads -> Nat] /\ sweep \in [Threads -> Nat]
    BY DEF Init, DeviceInit, Labels
  <2>3. listed \in [Threads -> SUBSET Device]
    BY DEF Init, DeviceInit
  <2>4. chosen \in [Threads -> Device \cup {NoDevice}]
    BY DEF Init, DeviceInit
  <2>5. loading \in BOOLEAN
    BY Zenon DEF Init, DeviceInit
  <2>6. attached \subseteq Device /\ devices \subseteq Device /\ active \in Device \cup
      {NoDevice}
    BY DEF Init, DeviceInit
  <2> QED BY <1>1, <2>1, <2>2, <2>3, <2>4, <2>5, <2>6 DEF Init, DeviceInit, DeviceTypeOK
<1>3. opPc \in [Ops -> OpLabels] /\ context \in [Ops -> Context \cup {NoContext}]
  BY DEF Init, OpLabels
<1>4. victims \in [Threads -> SUBSET Ops]
  BY DEF Init
<1>5. shuttingDown \in BOOLEAN /\ closing \in BOOLEAN
  BY ZenonT(60) DEF Init
<1> QED
  BY <1>2, <1>3, <1>4, <1>5 DEF Init, TypeOK

\* Every step of the device, the registry and the operations keeps the types.
LEMMA TypeNext == TypeOK /\ [Next]_vars => TypeOK'
<1> SUFFICES ASSUME TypeOK, [Next]_vars PROVE TypeOK'
  OBVIOUS
<1>0. /\ SettingsProfile(opened.root) \in Profile
      /\ SettingsProfile(NoSerial) \in Profile
      /\ ContextAvailable => CapturedContext \in Context
  BY StateTypes DEF TypeOK
<1> USE DEF TypeOK, DeviceTypeOK, Labels, OpLabels, Goto, OpGoto, UserChange,
    AfterRefresh, AdvanceIf, SetActive, NotifyProfileChanged, InvalidateProfile, Threads,
    envVars, settingsVars, managerVars, localVars, deviceVars, registryVars, opVars,
    RegisterToken, FinishToken, CancelToken, Withdraw
<1>1. CASE PlugDevices BY <1>1, BoundAssumption DEF PlugDevices, Plug
<1>2. ASSUME NEW t \in Refreshers, StartRefresh(t)
    PROVE TypeOK'
  BY <1>2 DEF StartRefresh, RefreshBegin
<1>3. ASSUME NEW t \in Threads, RefreshListAdb(t), UNCHANGED <<registryVars, opVars>>
    PROVE TypeOK'
  BY <1>3 DEF RefreshListAdb, Adb
<1>4. ASSUME NEW t \in Threads, RefreshListFastboot(t), UNCHANGED <<registryVars, opVars>>
    PROVE TypeOK'
  BY <1>4 DEF RefreshListFastboot, Adb
<1>5. ASSUME NEW t \in Threads, RefreshStore(t), UNCHANGED <<registryVars, opVars>>
    PROVE TypeOK'
  BY <1>5 DEF RefreshStore
<1>6. ASSUME NEW t \in Threads, RefreshPick(t), UNCHANGED <<registryVars, opVars>>
    PROVE TypeOK'
  BY <1>6 DEF RefreshPick, Selected
<1>7. ASSUME NEW t \in Threads, RefreshDetail(t), UNCHANGED <<registryVars, opVars>>
    PROVE TypeOK'
  BY <1>7 DEF RefreshDetail
<1>8. ASSUME NEW t \in Threads, RefreshCommit(t), UNCHANGED <<registryVars, opVars>>
    PROVE TypeOK'
  BY <1>8 DEF RefreshCommit
<1>9. ASSUME NEW t \in Threads, PostSnapshot(t)
    PROVE TypeOK'
  BY <1>9 DEF PostSnapshot, RefreshSnapshot
<1>10. ASSUME NEW t \in Threads, CollectStale(t)
    PROVE TypeOK'
  BY <1>10 DEF CollectStale, StaleTokens
<1>11. ASSUME NEW t \in Threads, CancelVictim(t)
    PROVE TypeOK'
  BY <1>11 DEF CancelVictim
<1>12. ASSUME NEW t \in Threads, CancelReturns(t)
    PROVE TypeOK'
  BY <1>12 DEF CancelReturns
<1>13. CASE OpenPicker BY <1>13 DEF OpenPicker
<1>14. CASE Choose BY <1>14, BoundAssumption, ContextTypes DEF Choose
<1>15. CASE ChooseScan BY <1>15 DEF ChooseScan
<1>16. CASE ChooseReturns BY <1>16 DEF ChooseReturns
<1>17. ASSUME NEW t \in Refreshers, ApplySnapshot(t)
    PROVE TypeOK'
  BY <1>17 DEF ApplySnapshot
<1>18. CASE Activate BY <1>18 DEF Activate
<1>19. CASE LoadProfile BY <1>19, ContextTypes DEF LoadProfile
<1>20. CASE LoadProfileFails
  <2>1. changes' \in 0..MaxChanges /\ profile' \in Profile
    BY <1>20, <1>0, BoundAssumption DEF LoadProfileFails
  <2>2. /\ generation' \in Nat
        /\ pc' \in [Threads -> Labels]
        /\ resume' \in [Threads -> Labels]
        /\ sweep' \in [Threads -> Nat]
    BY <1>20 DEF LoadProfileFails
  <2> QED BY <1>20, <2>1, <2>2 DEF LoadProfileFails
<1>21. CASE SyncProfile BY <1>21 DEF SyncProfile
<1>22. CASE SettingsChanged BY <1>22, <1>0 DEF SettingsChanged
<1>23. CASE ChangeFolders BY <1>23, BoundAssumption DEF ChangeFolders
<1>24. CASE BeginReset BY <1>24, BoundAssumption, <1>0 DEF BeginReset
<1>25. CASE ResetSettings BY <1>25 DEF ResetSettings
<1>26. ASSUME NEW k \in Kinds, CancelOwner(k)
    PROVE TypeOK'
  BY <1>26 DEF CancelOwner, OwnedTokens
<1>27. ASSUME NEW o \in Ops, Capture(o)
    PROVE TypeOK'
  BY <1>27, <1>0 DEF Capture
<1>28. ASSUME NEW o \in Ops, Register(o)
    PROVE TypeOK'
  BY <1>28 DEF Register
<1>29. ASSUME NEW o \in Ops, Recheck(o)
    PROVE TypeOK'
  BY <1>29 DEF Recheck
<1>30. ASSUME NEW o \in Ops, StartFails(o)
    PROVE TypeOK'
  BY <1>30 DEF StartFails
<1>31. ASSUME NEW o \in Ops, WorkerStart(o)
    PROVE TypeOK'
  BY <1>31 DEF WorkerStart
<1>32. ASSUME NEW o \in Ops, WorkerReturns(o)
    PROVE TypeOK'
  BY <1>32 DEF WorkerReturns
<1>33. ASSUME NEW o \in Ops, DeliverResult(o)
    PROVE TypeOK'
  BY <1>33 DEF DeliverResult
<1>34. ASSUME NEW o \in Ops, DeliverFinished(o)
    PROVE TypeOK'
  BY <1>34 DEF DeliverFinished
<1>35. ASSUME NEW o \in Ops, FallbackFinished(o)
    PROVE TypeOK'
  BY <1>35 DEF FallbackFinished
<1>36. ASSUME NEW o \in Ops, PoolClear(o)
    PROVE TypeOK'
  BY <1>36 DEF PoolClear
<1>37. CASE Close BY <1>37 DEF Close
<1>38. CASE ShutdownClear BY <1>38 DEF ShutdownClear
<1>39. CASE UNCHANGED vars BY <1>39 DEF vars
<1> QED
  BY <1>1, <1>2, <1>3, <1>4, <1>5, <1>6, <1>7, <1>8, <1>9, <1>10, <1>11, <1>12, <1>13,
      <1>14, <1>15, <1>16, <1>17, <1>18, <1>19, <1>20, <1>21, <1>22, <1>23, <1>24, <1>25,
      <1>26, <1>27, <1>28, <1>29, <1>30, <1>31, <1>32, <1>33, <1>34, <1>35, <1>36, <1>37,
      <1>38, <1>39
  DEF Next, DeviceThread, RunRefresh, Refresh, DeviceHandler, Operation

\* Every variable keeps its type, in particular every registered context is a
\* context of a real device.
THEOREM TypeSafety == Spec => []TypeOK
BY TypeInit, TypeNext, PTL DEF Spec

-----------------------------------------------------------------------------
(* The inductive invariant *)

\* The program starts with no operation, no device and nothing to sweep.
LEMMA InvInit == Init => IInv
<1> SUFFICES ASSUME Init PROVE IInv
  OBVIOUS
<1>1. TypeOK
  BY TypeInit
<1>2. PastContexts
  BY DEF Init, DeviceInit, PastContexts, NoContext
<1>3. Lifecycle
  BY DEF Init, DeviceInit, Lifecycle
<1>4. Shutdown /\ ExclusiveLife
  BY DEF Init, DeviceInit, Shutdown, ExclusiveLife, Cleared, Live, InFlight, Threads
<1>5. StaleWorkIsCancelled /\ GenerationIdentifiesTarget
  BY DEF Init, DeviceInit, StaleWorkIsCancelled, GenerationIdentifiesTarget, InFlight,
         Bound, Threads
<1> QED
  BY <1>1, <1>2, <1>3, <1>4, <1>5 DEF IInv

\* A context carries a generation that can be compared (DeviceContext.generation).
LEMMA ContextGeneration ==
  ASSUME TypeOK PROVE \A o \in Ops : context[o].generation \in Nat
BY DEF TypeOK, Context, NoContext

\* Time only moves forward: what is not past now is not past later.
LEMMA PastFrame ==
  ASSUME TypeOK, TypeOK', PastContexts, context' = context,
         generation' \in {generation, generation + 1},
         \A t \in Threads : start'[t] \in {0, start[t], generation}
  PROVE  PastContexts'
<1>1. generation \in Nat /\ generation <= generation'
  BY DEF TypeOK, DeviceTypeOK
<1>2. \A o \in Ops : context'[o].generation <= generation'
  BY <1>1, ContextGeneration DEF PastContexts, TypeOK, DeviceTypeOK
<1>3. \A t \in Threads : start'[t] <= generation'
  BY SMTT(30), <1>1 DEF PastContexts, TypeOK, DeviceTypeOK
<1> QED
  BY <1>2, <1>3 DEF PastContexts

\* Only a registration can bring two operations into conflict.
LEMMA ExclusiveFrame ==
  ASSUME ExclusiveLife, kind' = kind,
         \A o \in Ops : opPc'[o] \in Live => opPc[o] \in Live /\ context'[o] = context[o]
  PROVE  ExclusiveLife'
BY DEF ExclusiveLife, GroupsOf, Live, InFlight

\* Every step preserves the inductive invariant: one case per action, and under it
\* the parts of the invariant that the action can disturb.
LEMMA InvNext == IInv /\ [Next]_vars => IInv'
<1> SUFFICES ASSUME IInv, TypeOK', [Next]_vars PROVE IInv'
  BY TypeNext DEF IInv
<1> USE ThreadAssumption, ContextTypes
    DEF IInv, TypeOK, DeviceTypeOK, Threads, Labels, OpLabels, Goto, OpGoto, UserChange,
        AfterRefresh, AdvanceIf, SetActive, NotifyProfileChanged, InvalidateProfile,
        RegisterToken, FinishToken, CancelToken, Withdraw,
        envVars, settingsVars, managerVars, localVars, deviceVars, registryVars, opVars
<1>1. CASE PlugDevices
  <2>1. PastContexts' /\ ExclusiveLife'
    BY <1>1, PastFrame, ExclusiveFrame DEF PlugDevices, Plug, Live, InFlight
  <2> QED
    BY <1>1, <2>1
    DEF PlugDevices, Plug, PastContexts, Lifecycle, Shutdown, Cleared, Live, InFlight,
         StaleWorkIsCancelled, GenerationIdentifiesTarget, IsStale, Bound, BeingSwept
<1>2. ASSUME NEW t \in Refreshers, StartRefresh(t) PROVE IInv'
  <2>1. PastContexts' /\ ExclusiveLife'
    BY <1>2, PastFrame, ExclusiveFrame DEF StartRefresh, RefreshBegin, Live, InFlight
  <2> QED
    BY <1>2, <2>1
    DEF StartRefresh, RefreshBegin, PastContexts, Lifecycle, Shutdown, Cleared, Live,
        InFlight,
         StaleWorkIsCancelled, GenerationIdentifiesTarget, IsStale, Bound, BeingSwept
<1>3. ASSUME NEW t \in Threads, RefreshListAdb(t), UNCHANGED <<registryVars, opVars>>
    PROVE IInv'
  <2>1. PastContexts' /\ ExclusiveLife'
    BY <1>3, PastFrame, ExclusiveFrame DEF RefreshListAdb, Live, InFlight
  <2> QED
    BY <1>3, <2>1
    DEF RefreshListAdb, PastContexts, Lifecycle, Shutdown, Cleared, Live, InFlight,
         StaleWorkIsCancelled, GenerationIdentifiesTarget, IsStale, Bound, BeingSwept
<1>4. ASSUME NEW t \in Threads, RefreshListFastboot(t), UNCHANGED <<registryVars, opVars>>
    PROVE IInv'
  <2>1. PastContexts' /\ ExclusiveLife'
    BY <1>4, PastFrame, ExclusiveFrame DEF RefreshListFastboot, Live, InFlight
  <2> QED
    BY <1>4, <2>1
    DEF RefreshListFastboot, PastContexts, Lifecycle, Shutdown, Cleared, Live, InFlight,
         StaleWorkIsCancelled, GenerationIdentifiesTarget, IsStale, Bound, BeingSwept
<1>5. ASSUME NEW t \in Threads, RefreshStore(t), UNCHANGED <<registryVars, opVars>> PROVE
    IInv'
  <2>1. PastContexts' /\ ExclusiveLife'
    BY <1>5, PastFrame, ExclusiveFrame DEF RefreshStore, Live, InFlight
  <2> QED
    BY <1>5, <2>1
    DEF RefreshStore, PastContexts, Lifecycle, Shutdown, Cleared, Live, InFlight,
         StaleWorkIsCancelled, GenerationIdentifiesTarget, IsStale, Bound, BeingSwept
<1>6. ASSUME NEW t \in Threads, RefreshPick(t), UNCHANGED <<registryVars, opVars>> PROVE
    IInv'
  <2>1. PastContexts' /\ ExclusiveLife'
    BY <1>6, PastFrame, ExclusiveFrame DEF RefreshPick, Live, InFlight
  <2> QED
    BY <1>6, <2>1
    DEF RefreshPick, PastContexts, Lifecycle, Shutdown, Cleared, Live, InFlight,
         StaleWorkIsCancelled, GenerationIdentifiesTarget, IsStale, Bound, BeingSwept
<1>7. ASSUME NEW t \in Threads, RefreshDetail(t), UNCHANGED <<registryVars, opVars>> PROVE
    IInv'
  <2>1. PastContexts' /\ ExclusiveLife'
    BY <1>7, PastFrame, ExclusiveFrame DEF RefreshDetail, Live, InFlight
  <2> QED
    BY <1>7, <2>1
    DEF RefreshDetail, PastContexts, Lifecycle, Shutdown, Cleared, Live, InFlight,
         StaleWorkIsCancelled, GenerationIdentifiesTarget, IsStale, Bound, BeingSwept
<1>8. ASSUME NEW t \in Threads, RefreshCommit(t), UNCHANGED <<registryVars, opVars>> PROVE
    IInv'
  <2>1. PastContexts' /\ ExclusiveLife'
    BY <1>8, PastFrame, ExclusiveFrame DEF RefreshCommit, Live, InFlight
  <2> QED
    BY <1>8, <2>1
    DEF RefreshCommit, PastContexts, Lifecycle, Shutdown, Cleared, Live, InFlight,
         StaleWorkIsCancelled, GenerationIdentifiesTarget, IsStale, Bound, BeingSwept
<1>9. ASSUME NEW t \in Threads, PostSnapshot(t) PROVE IInv'
  <2>1. PastContexts' /\ ExclusiveLife'
    BY <1>9, PastFrame, ExclusiveFrame DEF PostSnapshot, RefreshSnapshot, Live, InFlight
  <2> QED
    BY <1>9, <2>1
    DEF PostSnapshot, RefreshSnapshot, PastContexts, Lifecycle, Shutdown, Cleared, Live,
        InFlight,
         StaleWorkIsCancelled, GenerationIdentifiesTarget, IsStale, Bound, BeingSwept
<1>10. ASSUME NEW t \in Threads, CollectStale(t) PROVE IInv'
  <2>1. PastContexts' /\ ExclusiveLife'
    BY <1>10, PastFrame, ExclusiveFrame DEF CollectStale, StaleTokens, Live, InFlight
  <2> QED
    BY <1>10, <2>1
    DEF CollectStale, StaleTokens, PastContexts, Lifecycle, Shutdown, Cleared, Live,
        InFlight,
         StaleWorkIsCancelled, GenerationIdentifiesTarget, IsStale, Bound, BeingSwept
<1>11. ASSUME NEW t \in Threads, CancelVictim(t) PROVE IInv'
  <2>1. PastContexts' /\ ExclusiveLife'
    BY <1>11, PastFrame, ExclusiveFrame DEF CancelVictim, Live, InFlight
  <2> QED
    BY <1>11, <2>1
    DEF CancelVictim, PastContexts, Lifecycle, Shutdown, Cleared, Live, InFlight,
         StaleWorkIsCancelled, GenerationIdentifiesTarget, IsStale, Bound, BeingSwept
<1>12. ASSUME NEW t \in Threads, CancelReturns(t) PROVE IInv'
  <2>1. PastContexts' /\ ExclusiveLife'
    BY <1>12, PastFrame, ExclusiveFrame DEF CancelReturns, Live, InFlight
  <2> QED
    BY ZenonT(60), <1>12, <2>1
    DEF CancelReturns, PastContexts, Lifecycle, Shutdown, Cleared, Live, InFlight,
         StaleWorkIsCancelled, GenerationIdentifiesTarget, IsStale, Bound, BeingSwept
<1>13. CASE OpenPicker
  <2>1. PastContexts' /\ ExclusiveLife'
    BY <1>13, PastFrame, ExclusiveFrame DEF OpenPicker, Live, InFlight
  <2> QED
    BY <1>13, <2>1
    DEF OpenPicker, PastContexts, Lifecycle, Shutdown, Cleared, Live, InFlight,
         StaleWorkIsCancelled, GenerationIdentifiesTarget, IsStale, Bound, BeingSwept
<1>14. CASE Choose
  <2>1. PastContexts' /\ ExclusiveLife'
    BY <1>14, PastFrame, ExclusiveFrame DEF Choose, Live, InFlight
  <2> QED
    BY <1>14, <2>1
    DEF Choose, PastContexts, Lifecycle, Shutdown, Cleared, Live, InFlight,
         StaleWorkIsCancelled, GenerationIdentifiesTarget, IsStale, Bound, BeingSwept
<1>15. CASE ChooseScan
  <2>1. PastContexts' /\ ExclusiveLife'
    BY <1>15, PastFrame, ExclusiveFrame DEF ChooseScan, Live, InFlight
  <2> QED
    BY <1>15, <2>1
    DEF ChooseScan, PastContexts, Lifecycle, Shutdown, Cleared, Live, InFlight,
         StaleWorkIsCancelled, GenerationIdentifiesTarget, IsStale, Bound, BeingSwept
<1>16. CASE ChooseReturns
  <2>1. PastContexts' /\ ExclusiveLife'
    BY <1>16, PastFrame, ExclusiveFrame DEF ChooseReturns, Live, InFlight
  <2> QED
    BY <1>16, <2>1
    DEF ChooseReturns, PastContexts, Lifecycle, Shutdown, Cleared, Live, InFlight,
         StaleWorkIsCancelled, GenerationIdentifiesTarget, IsStale, Bound, BeingSwept
<1>17. ASSUME NEW t \in Refreshers, ApplySnapshot(t) PROVE IInv'
  <2>1. PastContexts' /\ ExclusiveLife'
    BY <1>17, PastFrame, ExclusiveFrame DEF ApplySnapshot, Live, InFlight
  <2> QED
    BY <1>17, <2>1
    DEF ApplySnapshot, PastContexts, Lifecycle, Shutdown, Cleared, Live, InFlight,
         StaleWorkIsCancelled, GenerationIdentifiesTarget, IsStale, Bound, BeingSwept
<1>18. CASE Activate
  <2>1. PastContexts' /\ ExclusiveLife'
    BY <1>18, PastFrame, ExclusiveFrame DEF Activate, Live, InFlight
  <2> QED
    BY <1>18, <2>1
    DEF Activate, PastContexts, Lifecycle, Shutdown, Cleared, Live, InFlight,
         StaleWorkIsCancelled, GenerationIdentifiesTarget, IsStale, Bound, BeingSwept
<1>19. CASE LoadProfile
  <2>1. PastContexts' /\ ExclusiveLife'
    BY <1>19, PastFrame, ExclusiveFrame DEF LoadProfile, Live, InFlight
  <2> QED
    BY <1>19, <2>1
    DEF LoadProfile, PastContexts, Lifecycle, Shutdown, Cleared, Live, InFlight,
         StaleWorkIsCancelled, GenerationIdentifiesTarget, IsStale, Bound, BeingSwept
<1>20. CASE LoadProfileFails
  <2>1. PastContexts' /\ ExclusiveLife'
    BY <1>20, PastFrame, ExclusiveFrame DEF LoadProfileFails, Live, InFlight
  <2> QED
    BY <1>20, <2>1
    DEF LoadProfileFails, PastContexts, Lifecycle, Shutdown, Cleared, Live, InFlight,
         StaleWorkIsCancelled, GenerationIdentifiesTarget, IsStale, Bound, BeingSwept
<1>21. CASE SyncProfile
  <2>1. PastContexts' /\ ExclusiveLife'
    BY <1>21, PastFrame, ExclusiveFrame DEF SyncProfile, Live, InFlight
  <2> QED
    BY <1>21, <2>1
    DEF SyncProfile, PastContexts, Lifecycle, Shutdown, Cleared, Live, InFlight,
         StaleWorkIsCancelled, GenerationIdentifiesTarget, IsStale, Bound, BeingSwept
<1>22. CASE SettingsChanged
  <2>1. PastContexts' /\ ExclusiveLife'
    BY <1>22, PastFrame, ExclusiveFrame DEF SettingsChanged, Live, InFlight
  <2> QED
    BY <1>22, <2>1
    DEF SettingsChanged, PastContexts, Lifecycle, Shutdown, Cleared, Live, InFlight,
         StaleWorkIsCancelled, GenerationIdentifiesTarget, IsStale, Bound, BeingSwept
<1>23. CASE ChangeFolders
  <2>1. PastContexts' /\ ExclusiveLife'
    BY <1>23, PastFrame, ExclusiveFrame DEF ChangeFolders, Live, InFlight
  <2> QED
    BY <1>23, <2>1
    DEF ChangeFolders, PastContexts, Lifecycle, Shutdown, Cleared, Live, InFlight,
         StaleWorkIsCancelled, GenerationIdentifiesTarget, IsStale, Bound, BeingSwept
<1>24. CASE BeginReset
  <2>1. PastContexts' /\ ExclusiveLife'
    BY <1>24, PastFrame, ExclusiveFrame DEF BeginReset, Live, InFlight
  <2> QED
    BY <1>24, <2>1
    DEF BeginReset, PastContexts, Lifecycle, Shutdown, Cleared, Live, InFlight,
         StaleWorkIsCancelled, GenerationIdentifiesTarget, IsStale, Bound, BeingSwept
<1>25. CASE ResetSettings
  <2>1. PastContexts' /\ ExclusiveLife'
    BY <1>25, PastFrame, ExclusiveFrame DEF ResetSettings, Live, InFlight
  <2> QED
    BY <1>25, <2>1
    DEF ResetSettings, PastContexts, Lifecycle, Shutdown, Cleared, Live, InFlight,
         StaleWorkIsCancelled, GenerationIdentifiesTarget, IsStale, Bound, BeingSwept
<1>26. ASSUME NEW k \in Kinds, CancelOwner(k) PROVE IInv'
  <2>1. PastContexts' /\ ExclusiveLife'
    BY <1>26, PastFrame, ExclusiveFrame DEF CancelOwner, OwnedTokens, Live, InFlight
  <2> QED
    BY <1>26, <2>1
    DEF CancelOwner, OwnedTokens, PastContexts, Lifecycle, Shutdown, Cleared, Live,
        InFlight,
         StaleWorkIsCancelled, GenerationIdentifiesTarget, IsStale, Bound, BeingSwept
<1>27. ASSUME NEW o \in Ops, Capture(o) PROVE IInv'
  <2>1. PastContexts'
    BY <1>27, ContextGeneration DEF Capture, CapturedContext, PastContexts
  <2>2. ExclusiveLife'
    BY <1>27, ExclusiveFrame DEF Capture, Live, InFlight
  <2>3. Lifecycle' /\ Shutdown'
    BY <1>27 DEF Capture, Lifecycle, Shutdown, Cleared, Live, InFlight
  <2>4. StaleWorkIsCancelled'
    BY <1>27 DEF Capture, Lifecycle, StaleWorkIsCancelled, InFlight, IsStale, Bound,
        BeingSwept
  <2>5. GenerationIdentifiesTarget'
    BY <1>27 DEF Capture, CapturedContext, Lifecycle, GenerationIdentifiesTarget, Bound
  <2> QED
    BY <2>1, <2>2, <2>3, <2>4, <2>5
<1>28. ASSUME NEW o \in Ops, Register(o) PROVE IInv'
  <2>1. PastContexts'
    BY <1>28, PastFrame DEF Register
  <2>2. ExclusiveLife'
    <3>1. CASE opPc' = [opPc EXCEPT ![o] = "done"]
      BY <1>28, <3>1, ExclusiveFrame DEF Register, Live, InFlight
    <3>2. CASE opPc' = [opPc EXCEPT ![o] = "recheck"]
      <4>1. ~Cleared /\ \A q \in registered : GroupsOf(q) \cap GroupsOf(o) = {}
        BY <1>28, <3>2 DEF Register, Conflicts, Shutdown, Cleared
      <4>2. \A q \in Ops \ {o} : opPc'[q] \in Live
                                  => GroupsOf(q) \cap GroupsOf(o) = {}
        BY <4>1, <3>2 DEF Shutdown, Live, InFlight
      <4>3. \A q \in Ops : GroupsOf(q)' = GroupsOf(q)
        BY <1>28 DEF Register, GroupsOf
      <4>4. \A q \in Ops \ {o} : opPc'[q] \in Live => opPc[q] \in Live
        BY <3>2
      <4> QED BY <4>2, <4>3, <4>4 DEF ExclusiveLife, Live, InFlight
    <3> QED BY <1>28, <3>1, <3>2 DEF Register
  <2> QED
    BY <1>28, <2>1, <2>2
    DEF Register, Conflicts, PastContexts, Lifecycle, Shutdown, Cleared, Live, InFlight,
         StaleWorkIsCancelled, GenerationIdentifiesTarget, IsStale, Bound, BeingSwept
<1>29. ASSUME NEW o \in Ops, Recheck(o) PROVE IInv'
  <2>1. PastContexts' /\ ExclusiveLife'
    BY <1>29, PastFrame, ExclusiveFrame DEF Recheck, IsContextCurrent, Live, InFlight
  <2> QED
    BY <1>29, <2>1
    DEF Recheck, IsContextCurrent, PastContexts, Lifecycle, Shutdown, Cleared, Live,
        InFlight,
         StaleWorkIsCancelled, GenerationIdentifiesTarget, IsStale, Bound, BeingSwept
<1>30. ASSUME NEW o \in Ops, StartFails(o) PROVE IInv'
  <2>1. PastContexts' /\ ExclusiveLife'
    BY <1>30, PastFrame, ExclusiveFrame DEF StartFails, IsContextCurrent, Live, InFlight
  <2> QED
    BY <1>30, <2>1
    DEF StartFails, IsContextCurrent, PastContexts, Lifecycle, Shutdown, Cleared, Live,
        InFlight,
         StaleWorkIsCancelled, GenerationIdentifiesTarget, IsStale, Bound, BeingSwept
<1>31. ASSUME NEW o \in Ops, WorkerStart(o) PROVE IInv'
  <2>1. PastContexts' /\ ExclusiveLife'
    BY <1>31, PastFrame, ExclusiveFrame DEF WorkerStart, Live, InFlight
  <2> QED
    BY <1>31, <2>1
    DEF WorkerStart, PastContexts, Lifecycle, Shutdown, Cleared, Live, InFlight,
         StaleWorkIsCancelled, GenerationIdentifiesTarget, IsStale, Bound, BeingSwept
<1>32. ASSUME NEW o \in Ops, WorkerReturns(o) PROVE IInv'
  <2>1. PastContexts' /\ ExclusiveLife'
    BY <1>32, PastFrame, ExclusiveFrame DEF WorkerReturns, Live, InFlight
  <2> QED
    BY <1>32, <2>1
    DEF WorkerReturns, PastContexts, Lifecycle, Shutdown, Cleared, Live, InFlight,
         StaleWorkIsCancelled, GenerationIdentifiesTarget, IsStale, Bound, BeingSwept
<1>33. ASSUME NEW o \in Ops, DeliverResult(o) PROVE IInv'
  <2>1. PastContexts' /\ ExclusiveLife'
    BY <1>33, PastFrame, ExclusiveFrame DEF DeliverResult, Live, InFlight
  <2> QED
    BY <1>33, <2>1
    DEF DeliverResult, PastContexts, Lifecycle, Shutdown, Cleared, Live, InFlight,
         StaleWorkIsCancelled, GenerationIdentifiesTarget, IsStale, Bound, BeingSwept
<1>34. ASSUME NEW o \in Ops, DeliverFinished(o) PROVE IInv'
  <2>1. PastContexts' /\ ExclusiveLife'
    BY <1>34, PastFrame, ExclusiveFrame DEF DeliverFinished, Live, InFlight
  <2> QED
    BY <1>34, <2>1
    DEF DeliverFinished, PastContexts, Lifecycle, Shutdown, Cleared, Live, InFlight,
         StaleWorkIsCancelled, GenerationIdentifiesTarget, IsStale, Bound, BeingSwept
<1>35. ASSUME NEW o \in Ops, FallbackFinished(o) PROVE IInv'
  <2>1. PastContexts' /\ ExclusiveLife'
    BY <1>35, PastFrame, ExclusiveFrame DEF FallbackFinished, Live, InFlight
  <2> QED
    BY <1>35, <2>1
    DEF FallbackFinished, PastContexts, Lifecycle, Shutdown, Cleared, Live, InFlight,
         StaleWorkIsCancelled, GenerationIdentifiesTarget, IsStale, Bound, BeingSwept
<1>36. ASSUME NEW o \in Ops, PoolClear(o) PROVE IInv'
  <2>1. PastContexts' /\ ExclusiveLife'
    BY <1>36, PastFrame, ExclusiveFrame DEF PoolClear, Live, InFlight
  <2> QED
    BY <1>36, <2>1
    DEF PoolClear, PastContexts, Lifecycle, Shutdown, Cleared, Live, InFlight,
         StaleWorkIsCancelled, GenerationIdentifiesTarget, IsStale, Bound, BeingSwept
<1>37. CASE Close
  <2>1. PastContexts' /\ ExclusiveLife'
    BY <1>37, PastFrame, ExclusiveFrame DEF Close, Live, InFlight
  <2> QED
    BY <1>37, <2>1
    DEF Close, PastContexts, Lifecycle, Shutdown, Cleared, Live, InFlight,
         StaleWorkIsCancelled, GenerationIdentifiesTarget, IsStale, Bound, BeingSwept
<1>38. CASE ShutdownClear
  <2>1. PastContexts' /\ ExclusiveLife'
    BY <1>38, PastFrame, ExclusiveFrame DEF ShutdownClear, Live, InFlight
  <2> QED
    BY <1>38, <2>1
    DEF ShutdownClear, PastContexts, Lifecycle, Shutdown, Cleared, Live, InFlight,
         StaleWorkIsCancelled, GenerationIdentifiesTarget, IsStale, Bound, BeingSwept
<1>39. CASE UNCHANGED vars
  <2>1. PastContexts' /\ ExclusiveLife'
    BY <1>39, PastFrame, ExclusiveFrame DEF vars, Live, InFlight
  <2> QED
    BY <1>39, <2>1
    DEF vars, PastContexts, Lifecycle, Shutdown, Cleared, Live, InFlight,
         StaleWorkIsCancelled, GenerationIdentifiesTarget, IsStale, Bound, BeingSwept
<1> QED
  BY <1>1, <1>2, <1>3, <1>4, <1>5, <1>6, <1>7, <1>8, <1>9, <1>10, <1>11, <1>12,
     <1>13, <1>14, <1>15, <1>16, <1>17, <1>18, <1>19, <1>20, <1>21, <1>22, <1>23,
     <1>24, <1>25, <1>26, <1>27, <1>28, <1>29, <1>30, <1>31, <1>32, <1>33, <1>34,
     <1>35, <1>36, <1>37, <1>38, <1>39
  DEF Next, DeviceThread, RunRefresh, Refresh, DeviceHandler, Operation

\* The inductive invariant holds in every state the program reaches.
LEMMA Invariance == Spec => []IInv
BY InvInit, InvNext, PTL DEF Spec

-----------------------------------------------------------------------------
(* What the invariant gives *)

\* The window between capturing a context and registering it, and the sweep that
\* runs outside the manager's lock, lose no cancellation (DeviceManager and
\* OperationRegistry.cancel_stale).
THEOREM NoStaleSurvivor == Spec => []StaleWorkIsCancelled
BY Invariance, PTL DEF IInv

\* is_context_current and active_snapshot may rely on the generation alone.
THEOREM GenerationSafety == Spec => []GenerationIdentifiesTarget
BY Invariance, PTL DEF IInv

\* Conflict groups keep two commands apart from the registration of the one to
\* the end of the other, through cancellation and shutdown.
THEOREM Exclusion == Spec => []ExclusiveExecution
<1>1. IInv => ExclusiveExecution
  BY DEF IInv, ExclusiveLife, ExclusiveExecution, Live, InFlight
<1> QED BY Invariance, <1>1, PTL

\* shutdown's two lock sections and its cancellation loop miss no operation.
THEOREM ShutdownSafety == Spec => []ShutdownCancelsAll
<1>1. IInv => ShutdownCancelsAll
  BY DEF IInv, Shutdown, Lifecycle, ShutdownCancelsAll, Live, Threads
<1> QED BY Invariance, <1>1, PTL

\* A bound context that is not current belongs to an older generation.
LEMMA NotCurrentIsPast ==
  ASSUME IInv, NEW o \in Ops, Bound(o)
  PROVE  /\ ~IsContextCurrent(context[o]) => context[o].generation < generation
         /\ context[o].generation < generation => ~IsContextCurrent(context[o])
<1>1. context[o] \in Context /\ context[o].generation <= generation
  BY DEF IInv, TypeOK, Bound, PastContexts
<1>2. context[o].generation \in Nat /\ generation \in Nat /\ context[o].device \in Device
  BY <1>1 DEF IInv, TypeOK, DeviceTypeOK, Context
<1>3. context[o].generation = generation => IsContextCurrent(context[o])
  BY <1>2, ContextTypes
  DEF IInv, GenerationIdentifiesTarget, IsContextCurrent, Bound
<1>4. IsContextCurrent(context[o]) => context[o].generation = generation
  BY DEF IsContextCurrent, Bound
<1> QED BY <1>1, <1>2, <1>3, <1>4

\* The generation never goes back and a captured context is never replaced.
LEMMA ContextsAreKept ==
  ASSUME IInv, [Next]_vars
  PROVE  /\ generation' \in {generation, generation + 1}
         /\ \A o \in Ops : Bound(o) => context'[o] = context[o]
<1> USE DEF IInv, Lifecycle, AdvanceIf, SetActive, NotifyProfileChanged, InvalidateProfile,
        envVars, settingsVars, managerVars, localVars, deviceVars, registryVars, opVars
<1>1. ASSUME NEW o \in Ops, Capture(o)
      PROVE  generation' = generation /\ \A p \in Ops : Bound(p) => context'[p] = context[p]
  BY <1>1 DEF Capture, Bound, TypeOK
<1>2. CASE context' = context
  <2>1. generation' \in {generation, generation + 1}
    BY <1>2 DEF Next, DeviceThread, RunRefresh, Refresh, DeviceHandler, Operation,
        PlugDevices, Plug, StartRefresh, RefreshBegin, RefreshListAdb,
        RefreshListFastboot, RefreshStore, RefreshPick, RefreshDetail,
        RefreshCommit, PostSnapshot, RefreshSnapshot, CollectStale, CancelVictim,
        CancelReturns, OpenPicker, Choose, ChooseScan, ChooseReturns, ApplySnapshot,
        Activate, LoadProfile, LoadProfileFails, SyncProfile, SettingsChanged,
        ChangeFolders, BeginReset, ResetSettings, CancelOwner, Capture, Register,
        Recheck, StartFails, WorkerStart, WorkerReturns, DeliverResult,
        DeliverFinished, FallbackFinished, PoolClear, Close, ShutdownClear, vars
  <2> QED BY <1>2, <2>1
<1>3. (\E o \in Ops : Capture(o)) \/ context' = context
  BY DEF Next, DeviceThread, RunRefresh, Refresh, DeviceHandler, Operation,
        PlugDevices, Plug, StartRefresh, RefreshBegin, RefreshListAdb,
        RefreshListFastboot, RefreshStore, RefreshPick, RefreshDetail,
        RefreshCommit, PostSnapshot, RefreshSnapshot, CollectStale, CancelVictim,
        CancelReturns, OpenPicker, Choose, ChooseScan, ChooseReturns, ApplySnapshot,
        Activate, LoadProfile, LoadProfileFails, SyncProfile, SettingsChanged,
        ChangeFolders, BeginReset, ResetSettings, CancelOwner, Capture, Register,
        Recheck, StartFails, WorkerStart, WorkerReturns, DeliverResult,
        DeliverFinished, FallbackFinished, PoolClear, Close, ShutdownClear, vars
<1> QED BY <1>1, <1>2, <1>3

\* An operation started for a device never comes back to life, even if the device
\* returns under the same transport and profile.
THEOREM StaleForeverSafety == Spec => StaleForever
<1>1. ASSUME IInv, IInv', [Next]_vars, NEW o \in Ops, Bound(o),
    ~IsContextCurrent(context[o])
      PROVE  ~IsContextCurrent(context[o])'
  <2>1. context[o].generation < generation
    BY <1>1, NotCurrentIsPast
  <2>2. context'[o] = context[o] /\ generation' \in {generation, generation + 1}
    BY <1>1, ContextsAreKept
  <2>3. context[o].generation \in Nat /\ generation \in Nat
    BY <1>1, ContextGeneration DEF IInv, TypeOK, DeviceTypeOK
  <2>4. context'[o] # NoContext /\ context'[o].generation # generation'
    BY <1>1, <2>1, <2>2, <2>3 DEF Bound
  <2> QED BY <2>4 DEF IsContextCurrent
<1>2. IInv /\ IInv' /\ [Next]_vars
        => [\A o \in Ops : Bound(o) /\ ~IsContextCurrent(context[o])
                              => ~IsContextCurrent(context[o])']_vars
  BY <1>1
<1> QED BY Invariance, <1>2, PTL DEF Spec, StaleForever
-----------------------------------------------------------------------------
(* The operations implement the epoch fence *)

\* What a step that concerns one operation does to the fence.
LEMMA StageMove ==
  ASSUME NEW o \in Ops, NEW from, NEW to,
         FenceStage(o) = from, FenceStage(o)' = to,
         \A p \in Ops \ {o} : FenceStage(p)' = FenceStage(p)
  PROVE  /\ [p \in Ops |-> FenceStage(p)][o] = from
         /\ [p \in Ops |-> FenceStage(p)]'
              = [[p \in Ops |-> FenceStage(p)] EXCEPT ![o] = to]
OBVIOUS

\* The initial states are initial states of the fence.
LEMMA FenceInitial == Init => Fence!FenceInit
BY DEF Init, DeviceInit, Fence!FenceInit, FenceStage, Bound

\* Only the steps of an operation and its cancellation move it in the fence.
LEMMA FenceFrame ==
  ASSUME IInv, [Next]_vars
  PROVE  \/ UNCHANGED <<opPc, cancelled, applied, context>>
         \/ /\ UNCHANGED generation
            /\ \/ \E t \in Threads : CancelVictim(t)
               \/ \E o \in Ops : Operation(o)
<1>1. ASSUME NEW t \in Threads, Refresh(t), UNCHANGED <<registryVars, opVars>>
      PROVE  UNCHANGED <<opPc, cancelled, applied, context>>
  BY <1>1 DEF registryVars, opVars
<1>2. CASE \E o \in Ops : Operation(o)
  BY <1>2 DEF Operation, Capture, Register, Recheck, StartFails, WorkerStart, WorkerReturns,
        DeliverResult, DeliverFinished, FallbackFinished, PoolClear, deviceVars, managerVars
<1>3. CASE \E t \in Threads : CancelVictim(t)
  BY <1>3 DEF CancelVictim, deviceVars, managerVars
<1>4. CASE DeviceHandler
  BY <1>4 DEF DeviceHandler, OpenPicker, Choose, ChooseScan, ChooseReturns, ApplySnapshot,
      Activate,
        LoadProfile, LoadProfileFails, SyncProfile, SettingsChanged, ChangeFolders,
            BeginReset,
        ResetSettings, registryVars, opVars
<1>5. CASE UNCHANGED vars
  BY <1>5 DEF vars, registryVars, opVars
<1> QED
  BY <1>1, <1>2, <1>3, <1>4, <1>5
  DEF Next, DeviceThread, RunRefresh, PostSnapshot, CollectStale, CancelReturns,
      StartRefresh,
      PlugDevices, CancelOwner, Close, ShutdownClear, registryVars, opVars

\* Every step of the component is a step of the fence or leaves it as it is.
LEMMA FenceStep ==
  ASSUME IInv, IInv', [Next]_vars
  PROVE  [Fence!FenceNext]_(Fence!fenceVars)
<1> USE DEF Fence!fenceVars
<1>1. CASE UNCHANGED <<opPc, cancelled, applied, context>>
  <2>1. generation' \in {generation, generation + 1}
    BY ContextsAreKept
  <2>2. /\ \A o \in Ops : FenceStage(o)' = FenceStage(o)
        /\ \A o \in Ops : Bound(o)' = Bound(o)
    BY <1>1 DEF FenceStage, Bound
  <2> QED
    BY <1>1, <2>1, <2>2 DEF Fence!FenceNext, Fence!Advance
<1>2. ASSUME NEW t \in Threads, CancelVictim(t), UNCHANGED generation
      PROVE  [Fence!FenceNext]_(Fence!fenceVars)
  <2>1. PICK o \in victims[t] : /\ cancelled' = cancelled \cup {o}
                                /\ UNCHANGED <<opPc, applied, context>>
    BY <1>2 DEF CancelVictim, CancelToken
  <2>2. o \in Ops /\ opPc[o] # "new"
    BY <2>1 DEF IInv, TypeOK, Lifecycle
  <2>3. \A p \in Ops \ {o} : FenceStage(p)' = FenceStage(p)
    BY <2>1 DEF FenceStage
  <2>4. \/ FenceStage(o)' = FenceStage(o)
        \/ FenceStage(o) \in {"open", "live"} /\ FenceStage(o)' = "dropped"
    BY <2>1, <2>2 DEF FenceStage
  <2>. \A p \in Ops : Bound(p)' = Bound(p)
    BY <2>1 DEF Bound
  <2>5. CASE FenceStage(o)' = FenceStage(o)
    BY <1>2, <2>1, <2>3, <2>4, <2>5
  <2>6. CASE FenceStage(o) \in {"open", "live"} /\ FenceStage(o)' = "dropped"
    BY <1>2, <2>1, <2>2, <2>3, <2>4, <2>6, StageMove DEF Fence!FenceNext, Fence!Drop,
        Fence!Move
  <2> QED BY <2>4, <2>5, <2>6
<1>3. ASSUME NEW o \in Ops, Operation(o), UNCHANGED generation
      PROVE  [Fence!FenceNext]_(Fence!fenceVars)
  <2> USE DEF OpGoto
  <2>1. CASE Capture(o)
    <3>1. FenceStage(o) = "idle" /\ FenceStage(o)' = "open"
      BY <2>1 DEF Capture, FenceStage, IInv, TypeOK, Lifecycle
    <3>2. \A p \in Ops \ {o} : FenceStage(p)' = FenceStage(p) /\ context'[p] = context[p]
      BY <2>1 DEF Capture, FenceStage, IInv, TypeOK
    <3>3. context'[o] = NoContext \/ context'[o].generation = generation
      BY <2>1 DEF Capture, CapturedContext, IInv, TypeOK, Lifecycle
    <3> DEFINE epochOf(p) == IF Bound(p) THEN context[p].generation ELSE NoSerial
    <3>4. epochOf(o)' \in {generation, NoSerial}
      BY <3>3 DEF Bound
    <3>5. \A p \in Ops \ {o} : epochOf(p)' = epochOf(p)
      BY <3>2 DEF Bound
    <3>6. [p \in Ops |-> epochOf(p)]' = [[p \in Ops |-> epochOf(p)] EXCEPT ![o] =
        epochOf(o)']
      BY <3>5
    <3> QED
      BY <1>3, <3>1, <3>2, <3>4, <3>6, StageMove DEF Fence!FenceNext, Fence!Open, Fence!Move
  <2>2. ASSUME ~Capture(o) PROVE [Fence!FenceNext]_(Fence!fenceVars)
    <3>1. UNCHANGED context
      BY <1>3, <2>2 DEF Operation, Register, Recheck, StartFails, WorkerStart,
          WorkerReturns,
            DeliverResult, DeliverFinished, FallbackFinished, PoolClear, registryVars
    <3>2. \A p \in Ops : Bound(p)' = Bound(p)
      BY <3>1 DEF Bound
    <3>3. \A p \in Ops \ {o} : FenceStage(p)' = FenceStage(p)
      BY <1>3, <2>2 DEF Operation, Register, Recheck, StartFails, Withdraw, WorkerStart,
          WorkerReturns,
            DeliverResult, DeliverFinished, FallbackFinished, PoolClear, registryVars,
            CancelToken, FinishToken, FenceStage, IInv, TypeOK
    <3>4. \/ FenceStage(o)' = FenceStage(o)
          \/ FenceStage(o) \in {"open", "live"} /\ FenceStage(o)' = "dropped"
          \/ FenceStage(o) = "open" /\ FenceStage(o)' = "live" /\
              IsContextCurrent(context[o])
          \/ FenceStage(o) = "live" /\ FenceStage(o)' = "applied" /\
              IsContextCurrent(context[o])
      BY <1>3, <2>2 DEF Operation, Register, Recheck, StartFails, Withdraw, WorkerStart,
          WorkerReturns,
            DeliverResult, DeliverFinished, FallbackFinished, PoolClear, registryVars,
                CallbackIsCurrent,
            CancelToken, FinishToken, FenceStage, IInv, TypeOK, OpLabels, Lifecycle
    <3>5. IsContextCurrent(context[o]) => context[o] = NoContext \/ context[o].generation
        = generation
      BY DEF IsContextCurrent
    <3>6. CASE FenceStage(o)' = FenceStage(o)
      BY <1>3, <3>1, <3>2, <3>3, <3>6
    <3>7. CASE FenceStage(o) \in {"open", "live"} /\ FenceStage(o)' = "dropped"
      BY <1>3, <3>1, <3>2, <3>3, <3>7, StageMove DEF Fence!FenceNext, Fence!Drop, Fence!Move
    <3>8. CASE FenceStage(o) = "open" /\ FenceStage(o)' = "live" /\
        IsContextCurrent(context[o])
      BY <1>3, <3>1, <3>2, <3>3, <3>5, <3>8, StageMove
      DEF Fence!FenceNext, Fence!Begin, Fence!InEpoch, Fence!Move, Bound
    <3>9. CASE FenceStage(o) = "live" /\ FenceStage(o)' = "applied" /\
        IsContextCurrent(context[o])
      BY <1>3, <3>1, <3>2, <3>3, <3>5, <3>9, StageMove
      DEF Fence!FenceNext, Fence!Apply, Fence!InEpoch, Fence!Move, Bound
    <3> QED BY <3>4, <3>6, <3>7, <3>8, <3>9
  <2> QED BY <2>1, <2>2
<1> QED BY <1>1, <1>2, <1>3, FenceFrame

\* Whatever the interleaving, a result is presented only in the generation its
\* operation was started under (is_context_current at the start of the worker and
\* in _operation_callback_is_current).
THEOREM FenceRefinement == Spec => FencedResults
<1>1. IInv /\ IInv' /\ [Next]_vars => [Fence!FenceNext]_(Fence!fenceVars)
  BY FenceStep
<1> QED BY FenceInitial, Invariance, <1>1, PTL DEF Spec, FencedResults, Fence!FenceSpec
=============================================================================
