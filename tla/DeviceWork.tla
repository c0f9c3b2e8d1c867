----------------------------- MODULE DeviceWork -----------------------------
(***************************************************************************)
(* What OpenADB does to a device on its worker threads, one component at a *)
(* time: a transfer through adb, the file manager page, the Applications   *)
(* and Backups pages, the access handshakes of the main window, the        *)
(* permission requests on Android, and the calls that install and use the  *)
(* ACBridge helper.  The components share no variable: they meet at the    *)
(* operation registry, whose gate each of them models as far as it looks   *)
(* at it (DeviceOperations has the registry itself).  `part` is the        *)
(* component that works in a behaviour; the others rest in their initial   *)
(* states.                                                                 *)
(***************************************************************************)
EXTENDS AdbTransfer, FileManager, AppWork, AccessWork, PermissionGrant,
        BridgeHelper

VARIABLE part

workVars == <<part, runnerVars, transferVars, files, appVars, access, grantVars, bridgeVars>>

-----------------------------------------------------------------------------
(* The transfers of the instance: to the PC or to Android, a file, a folder *)
(* or a folder of many files, to a path that adb push may not write; over a *)
(* wireless connection or not; with the runner closed meanwhile or not; and *)
(* how many things may fail.                                                *)

Moved(p, d, m, pr) == [pull |-> p, dir |-> d, many |-> m, protected |-> pr]
Planned(es, w, c, n) == [entries |-> es, wireless |-> w, closes |-> c, faults |-> n]

NoPlan == Planned(<<>>, FALSE, FALSE, 0)

Plans ==
  {Planned(<<Moved(TRUE, FALSE, FALSE, FALSE), Moved(TRUE, TRUE, FALSE, FALSE)>>,
           FALSE, FALSE, 2),
   Planned(<<Moved(TRUE, TRUE, TRUE, FALSE)>>, FALSE, FALSE, 3),
   Planned(<<Moved(FALSE, FALSE, FALSE, FALSE)>>, TRUE, TRUE, 2),
   Planned(<<Moved(FALSE, FALSE, FALSE, TRUE)>>, TRUE, FALSE, 2),
   Planned(<<Moved(FALSE, TRUE, FALSE, FALSE)>>, FALSE, FALSE, 2),
   Planned(<<Moved(FALSE, TRUE, TRUE, FALSE)>>, FALSE, TRUE, 1)}

(* File manager pages without a device, with one that comes and goes, and   *)
(* with one that another takes the place of; the last is left in its mode.  *)
Pages ==
  {FreshFiles(FALSE, TRUE), FreshFiles(TRUE, TRUE),
   [FreshFiles(TRUE, FALSE) EXCEPT !.lease = MaxModes]}

(* The sessions of AppsInit; one that begins with a cached list has already *)
(* spent a request.                                                         *)
Sessions ==
  \/ apps = FreshApps({}, TRUE) /\ disk = FreshDisk({})
  \/ apps = [FreshApps(Serials, TRUE) EXCEPT !.asked = 1] /\ disk = FreshDisk({})
  \/ apps = [FreshApps(Serials, FALSE) EXCEPT !.asked = 1] /\ disk = FreshDisk(Packages)

(* The main window without a device, or with one that is used through Root. *)
Windows ==
  {FreshAccess("standard"), FreshAccess("shizuku"), Connect(FreshAccess("root"), TRUE)}

(* A phone without the helper, with an older one, and with one that only    *)
(* looks like the bundled one.                                              *)
Phones == {FreshPhone("absent", "missing"), FreshPhone("older", "there"),
           FreshPhone("lookalike", "disabled")}

Init ==
  /\ part \in {"transfer", "files", "apps", "access", "grant", "bridge"}
  /\ plan \in IF part = "transfer" THEN Plans ELSE {NoPlan}
  /\ RunnerInit /\ TransferInit /\ faults = plan.faults
  /\ files \in IF part = "files" THEN Pages ELSE {FreshFiles(FALSE, FALSE)}
  /\ IF part = "apps" THEN Sessions ELSE apps = FreshApps({}, TRUE) /\ disk = FreshDisk({})
  /\ access \in IF part = "access" THEN Windows ELSE {FreshAccess("standard")}
  /\ GrantInit
  /\ bridgeCalls = [c \in Callers |-> NoCall]
  /\ phone \in IF part = "bridge" THEN Phones ELSE {FreshPhone("absent", "missing")}

TransferWork ==
  /\ part = "transfer" /\ TransferNext
  /\ UNCHANGED <<part, files, appVars, access, grantVars, bridgeVars>>
FilesWork ==
  /\ part = "files" /\ FilesNext
  /\ UNCHANGED <<part, runnerVars, transferVars, appVars, access, grantVars, bridgeVars>>
AppsWork ==
  /\ part = "apps" /\ AppsNext
  /\ UNCHANGED <<part, runnerVars, transferVars, files, access, grantVars, bridgeVars>>
HandshakeWork ==
  /\ part = "access" /\ AccessNext
  /\ UNCHANGED <<part, runnerVars, transferVars, files, appVars, grantVars, bridgeVars>>
GrantWork ==
  /\ part = "grant" /\ GrantNext
  /\ UNCHANGED <<part, runnerVars, transferVars, files, appVars, access, bridgeVars>>
BridgeWork ==
  /\ part = "bridge" /\ BridgeNext
  /\ UNCHANGED <<part, runnerVars, transferVars, files, appVars, access, grantVars>>

Next ==
  TransferWork \/ FilesWork \/ AppsWork \/ HandshakeWork \/ GrantWork \/ BridgeWork

Spec == Init /\ [][Next]_workVars

\* The fairness of each component, for the behaviours in which it works: timers fire,
\* shells on the device and the waits of the computer come to an end.  A worker of the
\* file manager ends and its signals are delivered: its slot, in which PageWork always
\* has a next step, stays in no phase for ever.
Fairness ==
  /\ WF_<<runnerVars, transferVars>>(part = "transfer" /\ Strategy)
  /\ WF_<<runnerVars, transferVars>>(part = "transfer" /\ \E f \in AllFiles : RemoteMove(f))
  /\ \A s \in Slots, p \in {"running", "result", "error", "finished"} :
       []<>(files.work[s].phase # p)
  /\ WF_access(part = "access" /\ StartShizuku)
  /\ WF_access(part = "access" /\ RunRecheck)
  /\ WF_access(part = "access" /\ CheckDrain)
  /\ WF_access(part = "access" /\ RetryUpdate)
  /\ WF_access(part = "access" /\ ResumeUpdate)
  /\ WF_access(part = "access" /\ ReleaseUpdate)
  /\ WF_access(part = "access" /\ Dispatch)
  /\ WF_access(part = "access" /\ AccessWorkers)
  /\ WF_grantVars(part = "grant" /\ Asking)
  /\ \A t \in Tokens : /\ WF_grantVars(part = "grant" /\ OrphanExpires(t))
                       /\ WF_grantVars(part = "grant" /\ DestroyHost(t))
  /\ \A c \in Callers : WF_bridgeVars(part = "bridge" /\ Calling(c))

FairSpec == Spec /\ Fairness

-----------------------------------------------------------------------------
TypeOK ==
  /\ RunnerTypeOK /\ TransferTypeOK /\ FilesTypeOK /\ AppsTypeOK /\ AccessTypeOK /\ GrantTypeOK
  /\ BridgeTypeOK

\* The page in front does not wait for a refresh that nothing stands in the way of: the
\* Applications page needs a mode that works, and work of the user goes first.
PageIsServed ==
  access.page \in access.wanted =>
    access.feature # "none" \/ (access.page = "apps" /\ ~Usable(access))

\* The component that works has nothing left that somebody waits for.
Settled ==
  /\ part = "transfer" => verdict # "running"
  /\ part = "files"    => ~files.running
  /\ part = "access"   => (access.adb => ~PagesBusy(access) /\ PageIsServed)
  /\ part = "grant"    => /\ asker.at = "idle"
                         /\ \A t \in Tokens : bridge.host[t] \notin {"live", "closing"}
  /\ part = "bridge"   => \A c \in Callers : bridgeCalls[c].at \in {"idle", "done"}

\* The orders of events after which the code waits for ever: see LeftRaised of
\* AccessWork, and the orphan timer of PermissionHostActivity whose only run could not
\* commit.
Stranded == (part = "access" /\ LeftRaised) \/ (part = "grant" /\ bridge.stranded)

\* Whatever fails or is cancelled, the work ends and the user may go on: a transfer
\* gets its verdict, the transfer buttons and the device pages are enabled again and a
\* refresh that was put off is made ("eventual resumption", docs/DEVICE_LAB_MATRIX.md), a
\* permission request ends and its task leaves the screen.
WorkEnds == <>Stranded \/ []<>Settled

=============================================================================
