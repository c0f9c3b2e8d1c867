-------------------------- MODULE AccessLeaseProofs --------------------------
(***************************************************************************)
(* Proofs about AccessLease, for any workers and any bound: the safety     *)
(* invariants and the action property that the run access_modes checks.    *)
(* They follow from IInv, the inductive invariant; its parts say how far   *)
(* a change of the mode has got on the Qt thread (UiInv), what the event   *)
(* and the cache of the manager vouch for (EventInv), what a worker's      *)
(* lease still says about the mode (LeaseInv, TokenInv), and what a worker *)
(* has established when it stands somewhere (WorkInv, LateInv).            *)
(***************************************************************************)
EXTENDS AccessLease, TLAPS

Active(w)  == pc[w] \notin {"new", "applied", "dropped"}
Started(w) == Active(w) /\ pc[w] \notin {"captured", "start", "failed"}

\* The window and the settings agree unless a profile is being opened; what a change may
\* still add is within the bound.
UiInv ==
  /\ uiPc \in {"idle", "cancel", "swap", "fire"} => selected = known
  /\ uiPc \in {"load", "notify"} => generation <= MaxChanges
  /\ uiPc \in {"notify", "sweep"} /\ selected # known => modes < MaxChanges
  /\ uiPc = "fire" => swapped < event

\* Only replaced events are set, and the cache was filled under the current one.
EventInv ==
  /\ \A e \in fired : e < event
  /\ cached # NoStatus => cachedUnder = event

\* A lease of the current event is one of this mode, or its backend gives it away until
\* the event is replaced.
LeaseInv == \A w \in Workers : Active(w) =>
  /\ lease[w].event <= event
  /\ lease[w].event = event =>
       \/ mode[w] = modes /\ lease[w].backend = known
       \/ uiPc \in {"cancel", "swap"} /\ lease[w].backend # selected

\* Who got past the first check is of this mode or cancelled.
TokenInv == \A w \in Workers :
  Started(w) /\ w \notin cancelled /\ uiPc # "cancel" => mode[w] = modes

\* An identity was verified under the worker's own lease once the lease has been found
\* current after it; whoever is about to set its event has replaced it.
WorkInv == \A w \in Workers :
  /\ pc[w] = "fire" => lease[w].event < event
  /\ pc[w] = "probed" => lease[w].event <= verified[w] /\ verified[w] <= event
  /\ pc[w] \in {"cache", "recheck", "ready", "premode", "postevent", "postmode"}
       => verified[w] = lease[w].event
  /\ pc[w] = "run" /\ client[w] # "direct" => verified[w] = lease[w].event
  /\ pc[w] \in {"ready", "premode", "postevent", "postmode"}
       => client[w] \in {"root", "shizuku"}

\* A command that started on a cancelled lease leads nowhere through a prepared client.
LateInv == \A w \in late :
  /\ lease[w].event \in fired
  /\ \/ pc[w] \in {"postevent", "invalidate", "fire", "failed"}
     \/ pc[w] \in {"run", "returned"} /\ client[w] = "direct"

IInv == TypeOK /\ UiInv /\ EventInv /\ LeaseInv /\ TokenInv /\ WorkInv /\ LateInv


\* The types, and the bounds on the mode changes and the generation.
LEMMA TypeNext == IInv /\ [Next]_vars => TypeOK'
<1> SUFFICES ASSUME IInv, [Next]_vars PROVE TypeOK'
  OBVIOUS
<1> USE LeaseBoundAssumption DEF IInv, TypeOK, UiInv, WorkInv, Backends, Labels, Clients,
   NoLease, Status, NoStatus,
    Working, Local, UiGoto, Goto, Withdrawn, deviceVars, modeVars, eventVars,
    managerVars, grantVars, workVars
<1>1. CASE SelectBackend BY <1>1 DEF SelectBackend, MayChange
<1>2. CASE OpenProfile BY <1>2 DEF OpenProfile, MayChange, Backends
<1>3. CASE LoadProfile BY <1>3 DEF LoadProfile, Backends
<1>4. CASE NotifyProfile BY <1>4 DEF NotifyProfile
<1>5. CASE SweepProfile BY <1>5 DEF SweepProfile, Stale
<1>6. CASE NoticeConnection BY <1>6 DEF NoticeConnection
<1>7. CASE CancelPrivilegeOperations BY <1>7 DEF CancelPrivilegeOperations
<1>8. CASE ResetSwap BY <1>8 DEF ResetSwap
<1>9. CASE ResetFire BY <1>9 DEF ResetFire
<1>10. CASE DeviceChanges BY <1>10 DEF DeviceChanges, MayChange
<1>11. CASE CancelStale BY <1>11 DEF CancelStale, Stale
<1>12. ASSUME NEW w \in Workers, Capture(w)
    PROVE TypeOK'
  BY <1>12 DEF Capture
<1>13. ASSUME NEW w \in Workers, Register(w)
    PROVE TypeOK'
  BY SMTT(60), <1>13 DEF Register
<1>14. ASSUME NEW w \in Workers, UserCancels(w)
    PROVE TypeOK'
  BY <1>14 DEF UserCancels
<1>15. ASSUME NEW w \in Workers, Deliver(w)
    PROVE TypeOK'
  BY <1>15 DEF Deliver, Registered
<1>16. ASSUME NEW w \in Workers, Start(w)
    PROVE TypeOK'
  BY <1>16 DEF Start
<1>17. ASSUME NEW w \in Workers, Probe(w)
    PROVE TypeOK'
  <2> SUFFICES /\ pc' \in [Workers -> Labels]
               /\ status' \in [Workers -> Status \cup {NoStatus}]
               /\ client' \in [Workers -> Clients]
               /\ verified' \in [Workers -> Nat]
               /\ late' = late
               /\ \A v \in Workers : pc'[v] = "run" => client'[v] # "none"
    BY <1>17 DEF Probe
  <2>1. ASSUME NEW available \in BOOLEAN, NEW kind \in Clients,
               Establish(w, available, kind, event)
        PROVE  /\ pc' \in [Workers -> Labels]
               /\ status' \in [Workers -> Status \cup {NoStatus}]
               /\ client' \in [Workers -> Clients]
               /\ verified' \in [Workers -> Nat]
               /\ late' = late
               /\ \A v \in Workers : pc'[v] = "run" => client'[v] # "none"
    <3>1. [backend |-> lease[w].backend, generation |-> ctx[w], available |-> available]
            \in Status
      BY DEF Status
    <3>2. status' \in [Workers -> Status \cup {NoStatus}]
      BY <2>1, <3>1 DEF Establish
    <3> QED BY <2>1, <3>2 DEF Establish
  <2>2. CASE ProbeStandard(w) BY <2>1, <2>2 DEF ProbeStandard
  <2>3. CASE ProbeRoot(w) BY <2>1, <2>3 DEF ProbeRoot
  <2>4. CASE RootUnsupported(w) BY <2>4 DEF RootUnsupported
  <2>5. CASE ProbeShizuku(w) BY <2>1, <2>5 DEF ProbeShizuku
  <2>6. CASE ReuseStatus(w) BY <2>6 DEF ReuseStatus
  <2>7. CASE ProbeRaises(w) BY <2>7 DEF ProbeRaises
  <2> QED BY <1>17, <2>2, <2>3, <2>4, <2>5, <2>6, <2>7 DEF Probe
<1>18. ASSUME NEW w \in Workers, Examine(w)
    PROVE TypeOK'
  BY <1>18 DEF Examine
<1>19. ASSUME NEW w \in Workers, Cache(w)
    PROVE TypeOK'
  BY <1>19 DEF Cache, AfterCache
<1>20. ASSUME NEW w \in Workers, Recheck(w)
    PROVE TypeOK'
  BY <1>20 DEF Recheck
<1>21. ASSUME NEW w \in Workers, Invalidate(w)
    PROVE TypeOK'
  BY <1>21 DEF Invalidate
<1>22. ASSUME NEW w \in Workers, Fire(w)
    PROVE TypeOK'
  <2>1. lease[w].event \in 0..event
    BY <1>22 DEF Fire
  <2> QED BY ZenonT(60), <1>22, <2>1 DEF Fire
<1>23. ASSUME NEW w \in Workers, PreEvent(w)
    PROVE TypeOK'
  BY <1>23 DEF PreEvent
<1>24. ASSUME NEW w \in Workers, PreMode(w)
    PROVE TypeOK'
  BY <1>24 DEF PreMode
<1>25. ASSUME NEW w \in Workers, Run(w)
    PROVE TypeOK'
  BY <1>25 DEF Run
<1>26. ASSUME NEW w \in Workers, PostEvent(w)
    PROVE TypeOK'
  BY <1>26 DEF PostEvent
<1>27. ASSUME NEW w \in Workers, PostMode(w)
    PROVE TypeOK'
  BY <1>27 DEF PostMode
<1>28. CASE UNCHANGED vars BY <1>28 DEF vars
<1> QED
  BY <1>1, <1>2, <1>3, <1>4, <1>5, <1>6, <1>7, <1>8, <1>9, <1>10, <1>11, <1>12, <1>13,
     <1>14, <1>15, <1>16, <1>17, <1>18, <1>19, <1>20, <1>21, <1>22, <1>23, <1>24, <1>25,
     <1>26, <1>27, <1>28 DEF Next, Switch, Work

\* Only the Qt thread changes the mode; a refresh may change the device beside it.
LEMMA UiNext == IInv /\ [Next]_vars => UiInv'
<1> SUFFICES ASSUME IInv, [Next]_vars PROVE UiInv'
  OBVIOUS
<1> USE LeaseBoundAssumption DEF IInv, TypeOK, UiInv,
    Working, Local, UiGoto, Goto, Withdrawn, deviceVars, modeVars, eventVars,
    managerVars, grantVars, workVars
<1>1. CASE SelectBackend BY <1>1 DEF SelectBackend, MayChange
<1>2. CASE OpenProfile BY <1>2 DEF OpenProfile, MayChange, Backends
<1>3. CASE LoadProfile BY <1>3 DEF LoadProfile, Backends, MayChange
<1>4. CASE NotifyProfile BY <1>4 DEF NotifyProfile
<1>5. CASE SweepProfile BY <1>5 DEF SweepProfile, Stale
<1>6. CASE NoticeConnection BY <1>6 DEF NoticeConnection
<1>7. CASE CancelPrivilegeOperations BY <1>7 DEF CancelPrivilegeOperations
<1>8. CASE ResetSwap BY <1>8 DEF ResetSwap
<1>9. CASE ResetFire BY <1>9 DEF ResetFire
<1>10. CASE DeviceChanges BY <1>10 DEF DeviceChanges, MayChange
<1>11. CASE CancelStale BY <1>11 DEF CancelStale, Stale
<1>12. ASSUME NEW w \in Workers, Capture(w)
    PROVE UiInv'
  BY <1>12 DEF Capture
<1>13. ASSUME NEW w \in Workers, Register(w)
    PROVE UiInv'
  BY <1>13 DEF Register
<1>14. ASSUME NEW w \in Workers, UserCancels(w)
    PROVE UiInv'
  BY <1>14 DEF UserCancels
<1>15. ASSUME NEW w \in Workers, Deliver(w)
    PROVE UiInv'
  BY <1>15 DEF Deliver, Registered
<1>16. ASSUME NEW w \in Workers, Start(w)
    PROVE UiInv'
  BY <1>16 DEF Start
<1>17. ASSUME NEW w \in Workers, Probe(w)
    PROVE UiInv'
  BY <1>17 DEF Probe, ProbeStandard, ProbeRoot, RootUnsupported, ProbeShizuku, ReuseStatus,
     ProbeRaises, Establish, Status
<1>18. ASSUME NEW w \in Workers, Examine(w)
    PROVE UiInv'
  BY <1>18 DEF Examine
<1>19. ASSUME NEW w \in Workers, Cache(w)
    PROVE UiInv'
  BY <1>19 DEF Cache, AfterCache
<1>20. ASSUME NEW w \in Workers, Recheck(w)
    PROVE UiInv'
  BY <1>20 DEF Recheck
<1>21. ASSUME NEW w \in Workers, Invalidate(w)
    PROVE UiInv'
  BY <1>21 DEF Invalidate
<1>22. ASSUME NEW w \in Workers, Fire(w)
    PROVE UiInv'
  BY <1>22 DEF Fire
<1>23. ASSUME NEW w \in Workers, PreEvent(w)
    PROVE UiInv'
  BY <1>23 DEF PreEvent
<1>24. ASSUME NEW w \in Workers, PreMode(w)
    PROVE UiInv'
  BY <1>24 DEF PreMode
<1>25. ASSUME NEW w \in Workers, Run(w)
    PROVE UiInv'
  BY <1>25 DEF Run
<1>26. ASSUME NEW w \in Workers, PostEvent(w)
    PROVE UiInv'
  BY <1>26 DEF PostEvent
<1>27. ASSUME NEW w \in Workers, PostMode(w)
    PROVE UiInv'
  BY <1>27 DEF PostMode
<1>28. CASE UNCHANGED vars BY <1>28 DEF vars
<1> QED
  BY <1>1, <1>2, <1>3, <1>4, <1>5, <1>6, <1>7, <1>8, <1>9, <1>10, <1>11, <1>12, <1>13,
     <1>14, <1>15, <1>16, <1>17, <1>18, <1>19, <1>20, <1>21, <1>22, <1>23, <1>24, <1>25,
     <1>26, <1>27, <1>28 DEF Next, Switch, Work

\* An event is set after it has been replaced, by reset and by _reset_if_lease_current alike.
LEMMA EventNext == IInv /\ [Next]_vars => EventInv'
<1> SUFFICES ASSUME IInv, [Next]_vars PROVE EventInv'
  OBVIOUS
<1> USE DEF IInv, TypeOK, UiInv, EventInv, WorkInv,
    Working, Local, UiGoto, Goto, Withdrawn, deviceVars, modeVars, eventVars,
    managerVars, grantVars, workVars
<1>1. CASE SelectBackend BY <1>1 DEF SelectBackend, MayChange
<1>2. CASE OpenProfile BY <1>2 DEF OpenProfile, MayChange, Backends
<1>3. CASE LoadProfile BY <1>3 DEF LoadProfile, Backends
<1>4. CASE NotifyProfile BY <1>4 DEF NotifyProfile
<1>5. CASE SweepProfile BY <1>5 DEF SweepProfile, Stale
<1>6. CASE NoticeConnection BY <1>6 DEF NoticeConnection
<1>7. CASE CancelPrivilegeOperations BY <1>7 DEF CancelPrivilegeOperations
<1>8. CASE ResetSwap BY <1>8 DEF ResetSwap
<1>9. CASE ResetFire BY <1>9 DEF ResetFire
<1>10. CASE DeviceChanges BY <1>10 DEF DeviceChanges, MayChange
<1>11. CASE CancelStale BY <1>11 DEF CancelStale, Stale
<1>12. ASSUME NEW w \in Workers, Capture(w)
    PROVE EventInv'
  BY <1>12 DEF Capture
<1>13. ASSUME NEW w \in Workers, Register(w)
    PROVE EventInv'
  BY <1>13 DEF Register
<1>14. ASSUME NEW w \in Workers, UserCancels(w)
    PROVE EventInv'
  BY <1>14 DEF UserCancels
<1>15. ASSUME NEW w \in Workers, Deliver(w)
    PROVE EventInv'
  BY <1>15 DEF Deliver, Registered
<1>16. ASSUME NEW w \in Workers, Start(w)
    PROVE EventInv'
  BY <1>16 DEF Start
<1>17. ASSUME NEW w \in Workers, Probe(w)
    PROVE EventInv'
  BY <1>17 DEF Probe, ProbeStandard, ProbeRoot, RootUnsupported, ProbeShizuku, ReuseStatus,
     ProbeRaises, Establish, Status
<1>18. ASSUME NEW w \in Workers, Examine(w)
    PROVE EventInv'
  BY <1>18 DEF Examine
<1>19. ASSUME NEW w \in Workers, Cache(w)
    PROVE EventInv'
  BY <1>19 DEF Cache, AfterCache, Cacheable, StatusCurrent
<1>20. ASSUME NEW w \in Workers, Recheck(w)
    PROVE EventInv'
  BY <1>20 DEF Recheck
<1>21. ASSUME NEW w \in Workers, Invalidate(w)
    PROVE EventInv'
  BY <1>21 DEF Invalidate, LeaseCurrent
<1>22. ASSUME NEW w \in Workers, Fire(w)
    PROVE EventInv'
  BY <1>22 DEF Fire
<1>23. ASSUME NEW w \in Workers, PreEvent(w)
    PROVE EventInv'
  BY <1>23 DEF PreEvent
<1>24. ASSUME NEW w \in Workers, PreMode(w)
    PROVE EventInv'
  BY <1>24 DEF PreMode
<1>25. ASSUME NEW w \in Workers, Run(w)
    PROVE EventInv'
  BY <1>25 DEF Run
<1>26. ASSUME NEW w \in Workers, PostEvent(w)
    PROVE EventInv'
  BY <1>26 DEF PostEvent
<1>27. ASSUME NEW w \in Workers, PostMode(w)
    PROVE EventInv'
  BY <1>27 DEF PostMode
<1>28. CASE UNCHANGED vars BY <1>28 DEF vars
<1> QED
  BY <1>1, <1>2, <1>3, <1>4, <1>5, <1>6, <1>7, <1>8, <1>9, <1>10, <1>11, <1>12, <1>13,
     <1>14, <1>15, <1>16, <1>17, <1>18, <1>19, <1>20, <1>21, <1>22, <1>23, <1>24, <1>25,
     <1>26, <1>27, <1>28 DEF Next, Switch, Work

\* The mode is saved before the event is replaced, and nothing is captured in between.
LEMMA LeaseNext == IInv /\ [Next]_vars => LeaseInv'
<1> SUFFICES ASSUME IInv, [Next]_vars PROVE LeaseInv'
  OBVIOUS
<1> USE DEF IInv, TypeOK, UiInv, LeaseInv, Active,
    Working, Local, UiGoto, Goto, Withdrawn, deviceVars, modeVars, eventVars,
    managerVars, grantVars, workVars
<1>1. CASE SelectBackend BY <1>1 DEF SelectBackend, MayChange
<1>2. CASE OpenProfile BY <1>2 DEF OpenProfile, MayChange, Backends
<1>3. CASE LoadProfile BY <1>3 DEF LoadProfile, Backends
<1>4. CASE NotifyProfile BY <1>4 DEF NotifyProfile
<1>5. CASE SweepProfile BY <1>5 DEF SweepProfile, Stale
<1>6. CASE NoticeConnection BY <1>6 DEF NoticeConnection
<1>7. CASE CancelPrivilegeOperations BY <1>7 DEF CancelPrivilegeOperations
<1>8. CASE ResetSwap BY <1>8 DEF ResetSwap
<1>9. CASE ResetFire BY <1>9 DEF ResetFire
<1>10. CASE DeviceChanges BY <1>10 DEF DeviceChanges, MayChange
<1>11. CASE CancelStale BY <1>11 DEF CancelStale, Stale
<1>12. ASSUME NEW w \in Workers, Capture(w)
    PROVE LeaseInv'
  BY <1>12 DEF Capture
<1>13. ASSUME NEW w \in Workers, Register(w)
    PROVE LeaseInv'
  BY <1>13 DEF Register
<1>14. ASSUME NEW w \in Workers, UserCancels(w)
    PROVE LeaseInv'
  BY <1>14 DEF UserCancels
<1>15. ASSUME NEW w \in Workers, Deliver(w)
    PROVE LeaseInv'
  BY <1>15 DEF Deliver, Registered
<1>16. ASSUME NEW w \in Workers, Start(w)
    PROVE LeaseInv'
  BY <1>16 DEF Start
<1>17. ASSUME NEW w \in Workers, Probe(w)
    PROVE LeaseInv'
  BY <1>17 DEF Probe, ProbeStandard, ProbeRoot, RootUnsupported, ProbeShizuku, ReuseStatus,
     ProbeRaises, Establish, Status
<1>18. ASSUME NEW w \in Workers, Examine(w)
    PROVE LeaseInv'
  BY <1>18 DEF Examine
<1>19. ASSUME NEW w \in Workers, Cache(w)
    PROVE LeaseInv'
  BY <1>19 DEF Cache, AfterCache
<1>20. ASSUME NEW w \in Workers, Recheck(w)
    PROVE LeaseInv'
  BY <1>20 DEF Recheck
<1>21. ASSUME NEW w \in Workers, Invalidate(w)
    PROVE LeaseInv'
  BY <1>21 DEF Invalidate, LeaseCurrent
<1>22. ASSUME NEW w \in Workers, Fire(w)
    PROVE LeaseInv'
  BY <1>22 DEF Fire
<1>23. ASSUME NEW w \in Workers, PreEvent(w)
    PROVE LeaseInv'
  BY <1>23 DEF PreEvent
<1>24. ASSUME NEW w \in Workers, PreMode(w)
    PROVE LeaseInv'
  BY <1>24 DEF PreMode
<1>25. ASSUME NEW w \in Workers, Run(w)
    PROVE LeaseInv'
  BY <1>25 DEF Run
<1>26. ASSUME NEW w \in Workers, PostEvent(w)
    PROVE LeaseInv'
  BY <1>26 DEF PostEvent
<1>27. ASSUME NEW w \in Workers, PostMode(w)
    PROVE LeaseInv'
  BY <1>27 DEF PostMode
<1>28. CASE UNCHANGED vars BY <1>28 DEF vars
<1> QED
  BY <1>1, <1>2, <1>3, <1>4, <1>5, <1>6, <1>7, <1>8, <1>9, <1>10, <1>11, <1>12, <1>13,
     <1>14, <1>15, <1>16, <1>17, <1>18, <1>19, <1>20, <1>21, <1>22, <1>23, <1>24, <1>25,
     <1>26, <1>27, <1>28 DEF Next, Switch, Work

\* Who had passed the first check when the mode changed is cancelled before reset.
LEMMA TokenNext == IInv /\ [Next]_vars => TokenInv'
<1> SUFFICES ASSUME IInv, [Next]_vars PROVE TokenInv'
  OBVIOUS
<1> USE DEF IInv, TypeOK, UiInv, LeaseInv, TokenInv, Active, Started,
    Working, Local, UiGoto, Goto, Withdrawn, deviceVars, modeVars, eventVars,
    managerVars, grantVars, workVars
<1>1. CASE SelectBackend BY <1>1 DEF SelectBackend, MayChange, Registered
<1>2. CASE OpenProfile BY <1>2 DEF OpenProfile, MayChange, Backends
<1>3. CASE LoadProfile BY <1>3 DEF LoadProfile, Backends
<1>4. CASE NotifyProfile BY <1>4 DEF NotifyProfile
<1>5. CASE SweepProfile BY <1>5 DEF SweepProfile, Stale, Registered
<1>6. CASE NoticeConnection BY <1>6 DEF NoticeConnection
<1>7. CASE CancelPrivilegeOperations BY <1>7 DEF CancelPrivilegeOperations, Registered
<1>8. CASE ResetSwap BY <1>8 DEF ResetSwap
<1>9. CASE ResetFire BY <1>9 DEF ResetFire
<1>10. CASE DeviceChanges BY <1>10 DEF DeviceChanges, MayChange
<1>11. CASE CancelStale BY <1>11 DEF CancelStale, Stale
<1>12. ASSUME NEW w \in Workers, Capture(w)
    PROVE TokenInv'
  BY <1>12 DEF Capture
<1>13. ASSUME NEW w \in Workers, Register(w)
    PROVE TokenInv'
  BY <1>13 DEF Register
<1>14. ASSUME NEW w \in Workers, UserCancels(w)
    PROVE TokenInv'
  BY <1>14 DEF UserCancels
<1>15. ASSUME NEW w \in Workers, Deliver(w)
    PROVE TokenInv'
  BY <1>15 DEF Deliver, Registered
<1>16. ASSUME NEW w \in Workers, Start(w)
    PROVE TokenInv'
  BY <1>16 DEF Start, LeaseCurrent
<1>17. ASSUME NEW w \in Workers, Probe(w)
    PROVE TokenInv'
  BY <1>17 DEF Probe, ProbeStandard, ProbeRoot, RootUnsupported, ProbeShizuku, ReuseStatus,
     ProbeRaises, Establish, Status
<1>18. ASSUME NEW w \in Workers, Examine(w)
    PROVE TokenInv'
  BY <1>18 DEF Examine
<1>19. ASSUME NEW w \in Workers, Cache(w)
    PROVE TokenInv'
  BY <1>19 DEF Cache, AfterCache
<1>20. ASSUME NEW w \in Workers, Recheck(w)
    PROVE TokenInv'
  BY <1>20 DEF Recheck
<1>21. ASSUME NEW w \in Workers, Invalidate(w)
    PROVE TokenInv'
  BY <1>21 DEF Invalidate
<1>22. ASSUME NEW w \in Workers, Fire(w)
    PROVE TokenInv'
  BY <1>22 DEF Fire
<1>23. ASSUME NEW w \in Workers, PreEvent(w)
    PROVE TokenInv'
  BY <1>23 DEF PreEvent
<1>24. ASSUME NEW w \in Workers, PreMode(w)
    PROVE TokenInv'
  BY <1>24 DEF PreMode
<1>25. ASSUME NEW w \in Workers, Run(w)
    PROVE TokenInv'
  BY <1>25 DEF Run
<1>26. ASSUME NEW w \in Workers, PostEvent(w)
    PROVE TokenInv'
  BY <1>26 DEF PostEvent
<1>27. ASSUME NEW w \in Workers, PostMode(w)
    PROVE TokenInv'
  BY <1>27 DEF PostMode
<1>28. CASE UNCHANGED vars BY <1>28 DEF vars
<1> QED
  BY <1>1, <1>2, <1>3, <1>4, <1>5, <1>6, <1>7, <1>8, <1>9, <1>10, <1>11, <1>12, <1>13,
     <1>14, <1>15, <1>16, <1>17, <1>18, <1>19, <1>20, <1>21, <1>22, <1>23, <1>24, <1>25,
     <1>26, <1>27, <1>28 DEF Next, Switch, Work

\* Each check of prepare_adb and run_shell, in the order the worker meets them.
LEMMA WorkNext == IInv /\ [Next]_vars => WorkInv'
<1> SUFFICES ASSUME IInv, [Next]_vars PROVE WorkInv'
  OBVIOUS
<1> USE DEF IInv, TypeOK, EventInv, LeaseInv, WorkInv, Active, Clients,
    Working, Local, UiGoto, Goto, Withdrawn, deviceVars, modeVars, eventVars,
    managerVars, grantVars, workVars
<1>1. CASE SelectBackend BY <1>1 DEF SelectBackend, MayChange
<1>2. CASE OpenProfile BY <1>2 DEF OpenProfile, MayChange, Backends
<1>3. CASE LoadProfile BY <1>3 DEF LoadProfile, Backends
<1>4. CASE NotifyProfile BY <1>4 DEF NotifyProfile
<1>5. CASE SweepProfile BY <1>5 DEF SweepProfile, Stale
<1>6. CASE NoticeConnection BY <1>6 DEF NoticeConnection
<1>7. CASE CancelPrivilegeOperations BY <1>7 DEF CancelPrivilegeOperations
<1>8. CASE ResetSwap BY <1>8 DEF ResetSwap
<1>9. CASE ResetFire BY <1>9 DEF ResetFire
<1>10. CASE DeviceChanges BY <1>10 DEF DeviceChanges, MayChange
<1>11. CASE CancelStale BY <1>11 DEF CancelStale, Stale
<1>12. ASSUME NEW w \in Workers, Capture(w)
    PROVE WorkInv'
  BY <1>12 DEF Capture
<1>13. ASSUME NEW w \in Workers, Register(w)
    PROVE WorkInv'
  BY <1>13 DEF Register
<1>14. ASSUME NEW w \in Workers, UserCancels(w)
    PROVE WorkInv'
  BY <1>14 DEF UserCancels
<1>15. ASSUME NEW w \in Workers, Deliver(w)
    PROVE WorkInv'
  BY <1>15 DEF Deliver, Registered
<1>16. ASSUME NEW w \in Workers, Start(w)
    PROVE WorkInv'
  BY <1>16 DEF Start
<1>17. ASSUME NEW w \in Workers, Probe(w)
    PROVE WorkInv'
  <2>1. ASSUME NEW available, NEW kind, Establish(w, available, kind, event)
        PROVE  WorkInv'
    BY <1>17, <2>1 DEF Probe, Establish
  <2>2. CASE ProbeStandard(w) BY <2>1, <2>2 DEF ProbeStandard
  <2>3. CASE ProbeRoot(w) BY <2>1, <2>3 DEF ProbeRoot
  <2>4. CASE RootUnsupported(w) BY <1>17, <2>4 DEF Probe, RootUnsupported
  <2>5. CASE ProbeShizuku(w) BY <2>1, <2>5 DEF ProbeShizuku
  <2>6. CASE ReuseStatus(w)
    <3>1. cachedUnder = event
      BY <2>6 DEF ReuseStatus, CachedStatus, NoStatus
    <3> QED BY <1>17, <2>6, <3>1 DEF Probe, ReuseStatus
  <2>7. CASE ProbeRaises(w) BY <1>17, <2>7 DEF Probe, ProbeRaises
  <2> QED BY <1>17, <2>2, <2>3, <2>4, <2>5, <2>6, <2>7 DEF Probe
<1>18. ASSUME NEW w \in Workers, Examine(w)
    PROVE WorkInv'
  <2>1. CASE LeaseCurrent(w)
    <3>1. verified[w] = lease[w].event
      BY <1>18, <2>1 DEF Examine, LeaseCurrent
    <3> QED BY <1>18, <3>1 DEF Examine
  <2>2. CASE ~LeaseCurrent(w)
    <3>1. Goto(w, "failed") /\ UNCHANGED <<lease, event, client, verified>>
      BY <1>18, <2>2 DEF Examine
    <3> QED BY <3>1
  <2> QED BY <2>1, <2>2
<1>19. ASSUME NEW w \in Workers, Cache(w)
    PROVE WorkInv'
  BY <1>19 DEF Cache, AfterCache
<1>20. ASSUME NEW w \in Workers, Recheck(w)
    PROVE WorkInv'
  BY <1>20 DEF Recheck, LeaseCurrent
<1>21. ASSUME NEW w \in Workers, Invalidate(w)
    PROVE WorkInv'
  BY <1>21 DEF Invalidate, LeaseCurrent
<1>22. ASSUME NEW w \in Workers, Fire(w)
    PROVE WorkInv'
  BY <1>22 DEF Fire
<1>23. ASSUME NEW w \in Workers, PreEvent(w)
    PROVE WorkInv'
  BY <1>23 DEF PreEvent
<1>24. ASSUME NEW w \in Workers, PreMode(w)
    PROVE WorkInv'
  BY <1>24 DEF PreMode
<1>25. ASSUME NEW w \in Workers, Run(w)
    PROVE WorkInv'
  BY <1>25 DEF Run
<1>26. ASSUME NEW w \in Workers, PostEvent(w)
    PROVE WorkInv'
  BY <1>26 DEF PostEvent
<1>27. ASSUME NEW w \in Workers, PostMode(w)
    PROVE WorkInv'
  BY <1>27 DEF PostMode
<1>28. CASE UNCHANGED vars BY <1>28 DEF vars
<1> QED
  BY <1>1, <1>2, <1>3, <1>4, <1>5, <1>6, <1>7, <1>8, <1>9, <1>10, <1>11, <1>12, <1>13,
     <1>14, <1>15, <1>16, <1>17, <1>18, <1>19, <1>20, <1>21, <1>22, <1>23, <1>24, <1>25,
     <1>26, <1>27, <1>28 DEF Next, Switch, Work

\* What can still follow a command that started on a cancelled lease.
LEMMA LateNext == IInv /\ [Next]_vars => LateInv'
<1> SUFFICES ASSUME IInv, [Next]_vars PROVE LateInv'
  OBVIOUS
<1> USE DEF IInv, TypeOK, WorkInv, LateInv,
    Working, Local, UiGoto, Goto, Withdrawn, deviceVars, modeVars, eventVars,
    managerVars, grantVars, workVars
<1>1. CASE SelectBackend BY <1>1 DEF SelectBackend, MayChange
<1>2. CASE OpenProfile BY <1>2 DEF OpenProfile, MayChange, Backends
<1>3. CASE LoadProfile BY <1>3 DEF LoadProfile, Backends
<1>4. CASE NotifyProfile BY <1>4 DEF NotifyProfile
<1>5. CASE SweepProfile BY <1>5 DEF SweepProfile, Stale
<1>6. CASE NoticeConnection BY <1>6 DEF NoticeConnection
<1>7. CASE CancelPrivilegeOperations BY <1>7 DEF CancelPrivilegeOperations
<1>8. CASE ResetSwap BY <1>8 DEF ResetSwap
<1>9. CASE ResetFire BY <1>9 DEF ResetFire
<1>10. CASE DeviceChanges BY <1>10 DEF DeviceChanges, MayChange
<1>11. CASE CancelStale BY <1>11 DEF CancelStale, Stale
<1>12. ASSUME NEW w \in Workers, Capture(w)
    PROVE LateInv'
  BY <1>12 DEF Capture
<1>13. ASSUME NEW w \in Workers, Register(w)
    PROVE LateInv'
  BY <1>13 DEF Register
<1>14. ASSUME NEW w \in Workers, UserCancels(w)
    PROVE LateInv'
  BY <1>14 DEF UserCancels
<1>15. ASSUME NEW w \in Workers, Deliver(w)
    PROVE LateInv'
  BY <1>15 DEF Deliver, Registered
<1>16. ASSUME NEW w \in Workers, Start(w)
    PROVE LateInv'
  BY <1>16 DEF Start, LeaseCurrent
<1>17. ASSUME NEW w \in Workers, Probe(w)
    PROVE LateInv'
  BY ZenonT(60), <1>17
  DEF Probe, ProbeStandard, ProbeRoot, RootUnsupported, ProbeShizuku, ReuseStatus,
     ProbeRaises, Establish, Status
<1>18. ASSUME NEW w \in Workers, Examine(w)
    PROVE LateInv'
  BY <1>18 DEF Examine, LeaseCurrent, Cancelled
<1>19. ASSUME NEW w \in Workers, Cache(w)
    PROVE LateInv'
  BY <1>19 DEF Cache, AfterCache
<1>20. ASSUME NEW w \in Workers, Recheck(w)
    PROVE LateInv'
  BY <1>20 DEF Recheck, LeaseCurrent
<1>21. ASSUME NEW w \in Workers, Invalidate(w)
    PROVE LateInv'
  BY <1>21 DEF Invalidate
<1>22. ASSUME NEW w \in Workers, Fire(w)
    PROVE LateInv'
  BY <1>22 DEF Fire
<1>23. ASSUME NEW w \in Workers, PreEvent(w)
    PROVE LateInv'
  BY <1>23 DEF PreEvent
<1>24. ASSUME NEW w \in Workers, PreMode(w)
    PROVE LateInv'
  BY <1>24 DEF PreMode, Cancelled
<1>25. ASSUME NEW w \in Workers, Run(w)
    PROVE LateInv'
  BY <1>25 DEF Run, Cancelled
<1>26. ASSUME NEW w \in Workers, PostEvent(w)
    PROVE LateInv'
  BY <1>26 DEF PostEvent
<1>27. ASSUME NEW w \in Workers, PostMode(w)
    PROVE LateInv'
  BY <1>27 DEF PostMode
<1>28. CASE UNCHANGED vars BY <1>28 DEF vars
<1> QED
  BY <1>1, <1>2, <1>3, <1>4, <1>5, <1>6, <1>7, <1>8, <1>9, <1>10, <1>11, <1>12, <1>13,
     <1>14, <1>15, <1>16, <1>17, <1>18, <1>19, <1>20, <1>21, <1>22, <1>23, <1>24, <1>25,
     <1>26, <1>27, <1>28 DEF Next, Switch, Work

-----------------------------------------------------------------------------
(* The theorems *)

\* The strengthened invariant: the window's place in a change of the mode, the manager's
\* event and cache, and every worker's lease, token and identity agree.
THEOREM LeaseInvariance == Spec => []IInv
<1>1. Init => IInv
  <2> SUFFICES ASSUME Init PROVE IInv
    OBVIOUS
  <2>1. lease \in [Workers -> [backend: Backends, event: Nat]]
    BY DEF Init, NoLease, Backends
  <2>2. TypeOK
    <3>1. uiPc \in {"idle", "load", "notify", "sweep", "cancel", "swap", "fire"}
          /\ pc \in [Workers -> Labels] /\ client \in [Workers -> Clients]
      BY DEF Init, Labels, Clients
    <3>2. sweep \in BOOLEAN
      BY Zenon DEF Init
    <3> QED BY <2>1, <3>1, <3>2, LeaseBoundAssumption DEF Init, TypeOK
  <2>3. UiInv /\ EventInv
    BY LeaseBoundAssumption DEF Init, UiInv, EventInv
  <2>4. LeaseInv /\ TokenInv
    BY DEF Init, LeaseInv, TokenInv, Active, Started
  <2>5. WorkInv /\ LateInv
    BY DEF Init, WorkInv, LateInv
  <2> QED BY <2>2, <2>3, <2>4, <2>5 DEF IInv
<1>2. IInv /\ [Next]_vars => IInv'
  BY TypeNext, UiNext, EventNext, LeaseNext, TokenNext, WorkNext, LateNext DEF IInv
<1> QED BY <1>1, <1>2, PTL DEF Spec

\* The variables of the access component keep their types, and no operation comes to run a
\* command without the client prepare_adb gave it.
THEOREM LeaseTypes == Spec => []TypeOK
BY LeaseInvariance, PTL DEF IInv

\* cancel_privilege_operations reaches whatever the change of the mode must stop: a
\* result that may still be applied is of the selected mode.
THEOREM ModeSafety == Spec => []ResultsAreOfThisMode
<1>1. IInv => ResultsAreOfThisMode
  BY DEF IInv, TokenInv, Active, Started, ResultsAreOfThisMode
<1> QED BY <1>1, LeaseInvariance, PTL

\* The checks of run_shell before and after a command: one that starts on a cancelled
\* lease yields nothing through a prepared client.
THEOREM LateCommandSafety == Spec => []CancelledLeaseYieldsNothing
<1>1. IInv => CancelledLeaseYieldsNothing
  BY DEF IInv, LateInv, CancelledLeaseYieldsNothing
<1> QED BY <1>1, LeaseInvariance, PTL

\* A prepared client is given out only on an identity verified under its own lease, even
\* when prepare_adb has taken it from the cache.
THEOREM IdentitySafety == Spec => []IdentityIsOfOwnLease
<1>1. IInv => IdentityIsOfOwnLease
  BY DEF IInv, WorkInv, IdentityIsOfOwnLease
<1> QED BY <1>1, LeaseInvariance, PTL

\* _cache_if_current and reset: the cached status is one of the current event.
THEOREM CacheSafety == Spec => []CacheIsOfThisLease
<1>1. IInv => CacheIsOfThisLease
  BY DEF IInv, EventInv, CacheIsOfThisLease
<1> QED BY <1>1, LeaseInvariance, PTL

\* reset and _reset_if_lease_current set the event they have replaced, never the new one.
THEOREM FreshLeaseSafety == Spec => []FreshLeaseIsLive
<1>1. IInv => FreshLeaseIsLive
  BY DEF IInv, TypeOK, EventInv, FreshLeaseIsLive
<1> QED BY <1>1, LeaseInvariance, PTL

\* A worker goes to set the event only where its own lease is found current.
LEMMA OnlyInvalidateFires ==
  ASSUME IInv, [Next]_vars, NEW w \in Workers, pc[w] = "invalidate", pc'[w] = "fire"
  PROVE  LeaseCurrent(w)
<1> USE DEF IInv, TypeOK, Goto, Working, Local, managerVars, grantVars
<1>1. CASE Switch
  BY <1>1 DEF Switch, SelectBackend, OpenProfile, LoadProfile, NotifyProfile, SweepProfile,
     NoticeConnection, CancelPrivilegeOperations, ResetSwap, ResetFire
<1>2. CASE DeviceChanges \/ CancelStale
  BY <1>2 DEF DeviceChanges, CancelStale
<1>3. ASSUME NEW v \in Workers, Work(v), v # w
      PROVE  pc'[w] = pc[w]
  BY <1>3 DEF Work, Capture, Register, UserCancels, Deliver, Start, Probe, ProbeStandard,
     ProbeRoot, RootUnsupported, ProbeShizuku, ReuseStatus, ProbeRaises, Establish, Examine,
     Cache, Recheck, Invalidate, Fire, PreEvent, PreMode, Run, PostEvent, PostMode
<1>4. CASE Work(w)
  BY <1>4 DEF Work, Capture, Register, UserCancels, Deliver, Start, Probe, Examine, Cache,
     Recheck, Invalidate, Fire, PreEvent, PreMode, Run, PostEvent, PostMode, Registered
<1>5. CASE UNCHANGED vars
  BY <1>5 DEF vars
<1> QED BY <1>1, <1>2, <1>3, <1>4, <1>5 DEF Next

\* _reset_if_lease_current: a worker that invalidates the mode is one of that mode.
THEOREM OwnModeSafety == Spec => OnlyOwnModeIsInvalidated
<1>1. ASSUME IInv, [Next]_vars, NEW w \in Workers, pc[w] = "invalidate", pc'[w] = "fire"
      PROVE  mode[w] = modes
  <2>1. LeaseCurrent(w)
    BY <1>1, OnlyInvalidateFires
  <2> QED BY <1>1, <2>1 DEF IInv, LeaseInv, Active, LeaseCurrent
<1>2. IInv /\ [Next]_vars
        => [\A w \in Workers : pc[w] = "invalidate" /\ pc'[w] = "fire" => mode[w] = modes]_vars
  BY <1>1
<1> QED BY LeaseInvariance, <1>2, PTL DEF Spec, OnlyOwnModeIsInvalidated
=============================================================================
