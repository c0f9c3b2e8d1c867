------------------------------- MODULE AppWork -------------------------------
(***************************************************************************)
(* The Applications page (apps_page.py, apps_data_workflow.py,             *)
(* apps_action_workflow.py), the Backups page, and the coordinators that   *)
(* do their work on a worker thread.  Handlers run on the GUI thread in    *)
(* one piece, except that a confirmation dialog runs the event loop: what  *)
(* happens while it is open comes before what follows it.  A worker of     *)
(* these pages holds the gate "acbridge-maintenance:<serial>", so a device *)
(* has at most one.                                                        *)
(***************************************************************************)
EXTENDS Naturals, FiniteSets

CONSTANTS
  Packages,    \* the applications of a device
  MaxTargets,  \* bound: generations of the active device
  MaxRequests  \* bound: what the user and the main window ask of the two pages

ASSUME AppWorkBounds == MaxTargets \in Nat \ {0} /\ MaxRequests \in Nat /\ IsFiniteSet(Packages)

VARIABLES
  apps,  \* the active device, both pages, and the operations they registered
  disk   \* what is installed, and the backup folders of the two profiles

appVars == <<apps, disk>>

Serials == {"A", "B"}
Backups == [root : Serials, app : Packages, status : {"complete", "failed", "partial"}]

NoWork == [kind |-> "none", gen |-> 0, phase |-> "none", cancelled |-> FALSE, own |-> FALSE,
           what |-> "none", chosen |-> "none", left |-> {}, step |-> "none"]
NoTask == [phase |-> "none", cancelled |-> FALSE, own |-> FALSE, found |-> {}]
NoWish == [what |-> "none", chosen |-> "none", of |-> {}]

\* A session that starts on device A, with or without a cached list of a device.
FreshApps(cached, careful) ==
  [serial |-> "A", gen |-> 1, up |-> TRUE, careful |-> careful, cached |-> cached, asked |-> 0,
   rows |-> IF "A" \in cached THEN "A" ELSE "none",
   view |-> [serial |-> IF "A" \in cached THEN "A" ELSE "none", gen |-> 0], pending |-> 0,
   again |-> FALSE, privilege |-> FALSE, wish |-> NoWish,
   work |-> [s \in Serials |-> NoWork],
   listed |-> {}, scan |-> [s \in Serials |-> NoTask], remove |-> [s \in Serials |-> NoTask],
   scanAgain |-> FALSE]

\* An earlier session may have left backups of A.
FreshDisk(kept) ==
  [installed |-> [s \in Serials |-> Packages], dropped |-> {},
   store |-> {[root |-> "A", app |-> app, status |-> "complete"] : app \in kept}]

AppsTypeOK ==
  /\ apps.serial \in Serials /\ apps.gen \in 1 .. MaxTargets
  /\ apps.asked \in 0 .. MaxRequests
  /\ apps.cached \subseteq Serials /\ apps.rows \in Serials \cup {"none"}
  /\ apps.view.gen \in 0 .. MaxTargets /\ apps.pending \in 0 .. MaxTargets
  /\ apps.wish.what \in {"none", "uninstall", "disable", "clear", "restore", "delete"}
  /\ \A s \in Serials : LET t == apps.work[s]
                        IN  /\ t.kind \in {"none", "list", "assets", "bulk", "restore"}
                            /\ t.phase \in {"none", "running", "result", "error", "finished"}
  /\ apps.listed \subseteq Backups /\ disk.store \subseteq Backups
  /\ \A s \in Serials : disk.installed[s] \subseteq Packages

OfTarget(q, g)   == q.up /\ g = q.gen
Owns(q, kinds)   == \E s \in Serials : q.work[s].own /\ q.work[s].kind \in kinds
Task(tasks)      == \E s \in Serials : tasks[s].own
PageBusy(q)      == Owns(q, {"list", "assets", "bulk"})
VaultBusy(q)     == Owns(q, {"restore"}) \/ Task(q.remove) \/ Task(q.scan)
Applies(q, s)    == ~q.work[s].cancelled /\ OfTarget(q, q.work[s].gen)
ViewFits(q)      == q.view.serial = q.serial /\ q.view.gen \in {0, q.gen}
Quits(s, how)    == [apps EXCEPT !.work[s].phase = how]

\* AppsController.register_operation: it needs the device and its gate.
CanRegister(q) == q.up /\ q.work[q.serial].kind = "none"

Admit(q, t) ==
  [q EXCEPT !.work[q.serial] = [t EXCEPT !.gen = q.gen, !.phase = "running", !.own = TRUE]]

Enter(q, kind) == Admit(q, [NoWork EXCEPT !.kind = kind])

-----------------------------------------------------------------------------
(* Lists, cached or read again, and what is missing in them *)

\* The list of the last time, shown at once, of the device if one is there.
ShowCached(q) ==
  IF q.serial \notin q.cached THEN q
  ELSE [q EXCEPT !.rows = q.serial,
                 !.view = [serial |-> q.serial, gen |-> IF q.up THEN q.gen ELSE 0]]

RefreshApps(q) ==
  IF PageBusy(q) THEN q
  ELSE LET shown == ShowCached([q EXCEPT !.pending = 0])
       IN  IF CanRegister(shown) THEN Enter(shown, "list") ELSE shown

\* _maybe_start_privilege_backend_refresh: when the workers of the old mode are gone.
PrivilegeRefresh(q) ==
  IF q.privilege /\ q.up /\ ~PageBusy(q) THEN RefreshApps([q EXCEPT !.privilege = FALSE])
  ELSE q

Free(q, s) == [q EXCEPT !.work[s] = NoWork]

\* The rows wait in "pending" until the list has given the gate back.
AppsLoaded(q, s) ==
  IF ~Applies(q, s) THEN q
  ELSE [q EXCEPT !.rows = s, !.view = [serial |-> s, gen |-> q.gen],
                 !.pending = q.gen, !.cached = @ \cup {s}]

LoadFailed(q, s) == IF Applies(q, s) THEN [q EXCEPT !.pending = 0] ELSE q

LoadFinished(q, s, missing) ==
  IF ~q.work[s].own THEN Free(q, s)
  ELSE LET p == PrivilegeRefresh([Free(q, s) EXCEPT !.pending = 0])
       IN  IF /\ missing /\ ~q.work[s].cancelled
              /\ q.pending = q.work[s].gen /\ OfTarget(q, q.pending) /\ CanRegister(p)
           THEN Enter(p, "assets") ELSE p

AssetsFinished(q, s) ==
  IF q.work[s].own THEN PrivilegeRefresh(Free(q, s)) ELSE Free(q, s)

\* What a list or a worker for labels, icons and sizes brings home.
ReadingEnds(s) ==
  /\ apps.work[s].kind \in {"list", "assets"} /\ apps.work[s].phase = "running"
  /\ \E how \in {"result", "error"} : apps' = Quits(s, how)
  /\ UNCHANGED disk

\* What is asked counts towards the bound.
Asks == apps.asked < MaxRequests
Asked == [apps EXCEPT !.asked = @ + 1]

PressRefresh ==
  /\ apps.wish = NoWish /\ Asks
  /\ apps' = RefreshApps(Asked)
  /\ UNCHANGED disk

\* _refresh_device_feature of the main window, after a change of the access mode.
RequestRefresh ==
  /\ ~apps.privilege /\ Asks
  /\ apps' = PrivilegeRefresh([Asked EXCEPT !.privilege = TRUE])
  /\ UNCHANGED disk

\* The File Manager in front has the passive workers of this page stopped.
StopPassive ==
  /\ Asks
  /\ \E s \in Serials :
       /\ apps.work[s].kind \in {"list", "assets"} /\ ~apps.work[s].cancelled
       /\ apps' = [Asked EXCEPT !.work[s].cancelled = TRUE]
  /\ UNCHANGED disk

-----------------------------------------------------------------------------
(* The Backups page *)

\* A scan of the same folder that still runs, cancelled or not, refuses another.
RefreshBackups(q) ==
  IF Task(q.scan) \/ q.scan[q.serial].phase # "none" THEN q
  ELSE [q EXCEPT !.scan[q.serial] = [NoTask EXCEPT !.phase = "running", !.own = TRUE]]

PressScan ==
  /\ apps.wish = NoWish /\ ~VaultBusy(apps) /\ Asks
  /\ apps' = RefreshBackups(Asked)
  /\ UNCHANGED disk

\* Mutant: a folder whose backup is still being written is listed too.
ScanEverything(s) ==
  /\ apps.scan[s].phase = "running"
  /\ apps' = [apps EXCEPT !.scan[s].phase = "result",
                          !.scan[s].found = {b \in disk.store : b.root = s}]
  /\ UNCHANGED disk

\* BackupManager.scan_backups skips the folders named ".partial-".
ScanBackups(s) ==
  /\ apps.scan[s].phase = "running"
  /\ apps' = [apps EXCEPT !.scan[s].phase = "result",
                          !.scan[s].found = IF apps.scan[s].cancelled THEN {}
                            ELSE {b \in disk.store : b.root = s /\ b.status # "partial"}]
  /\ UNCHANGED disk

\* _can_apply_local_operation: the folder must still be that of the profile.
Scanned(s) ==
  /\ apps.scan[s].phase = "result"
  /\ apps' = [apps EXCEPT !.scan[s].phase = "finished",
                          !.listed = IF ~apps.scan[s].cancelled /\ s = apps.serial
                                     THEN apps.scan[s].found ELSE @]
  /\ UNCHANGED disk

ScanReturns(s) ==
  /\ apps.scan[s].phase = "finished"
  /\ apps' = [apps EXCEPT !.scan[s] = NoTask]
  /\ UNCHANGED disk

\* delete_local_backup: the folder of the profile at the time of the answer, the
\* backup within it, the profile still current.
Remove(s) ==
  /\ apps.remove[s].phase = "running"
  /\ LET refused == apps.remove[s].cancelled \/ s # apps.serial
                    \/ \E b \in apps.remove[s].found : b.root # s
     IN  \/ refused /\ UNCHANGED disk
         \/ /\ ~refused
            /\ disk' = [disk EXCEPT !.store = @ \ apps.remove[s].found,
                                    !.dropped = @ \cup apps.remove[s].found]
         \/ ~refused /\ UNCHANGED disk
  /\ \E how \in {"result", "error"} :
       /\ how = "result" <=> disk' # disk
       /\ apps' = [apps EXCEPT !.remove[s].phase = how]

Removed(s) ==
  /\ apps.remove[s].phase \in {"result", "error"}
  /\ apps' = [apps EXCEPT !.remove[s].phase = "finished",
                          !.scanAgain = @ \/ /\ apps.remove[s].phase = "result"
                                             /\ ~apps.remove[s].cancelled /\ s = apps.serial]
  /\ UNCHANGED disk

\* _action_finished, for a removal and for a restoration.
VaultRests(q, own, cancelled, current) ==
  IF ~own THEN q
  ELSE LET idle == [q EXCEPT !.scanAgain = FALSE]
       IN  IF q.scanAgain /\ current /\ ~cancelled THEN RefreshBackups(idle) ELSE idle

RemoveFinished(s) ==
  /\ apps.remove[s].phase = "finished"
  /\ apps' = VaultRests([apps EXCEPT !.remove[s] = NoTask], apps.remove[s].own,
                        apps.remove[s].cancelled, s = apps.serial)
  /\ UNCHANGED disk

-----------------------------------------------------------------------------
(* Actions the user asks for *)

\* _prepare_bulk_operation: the context is captured now, and the list on display must
\* be its list.
PrepareBulk(q, what, chosen, packages) ==
  IF ~(CanRegister(q) /\ ViewFits(q)) THEN q
  ELSE Admit([q EXCEPT !.again = FALSE],
             [NoWork EXCEPT !.kind = "bulk", !.what = what, !.chosen = chosen,
                            !.left = packages, !.step = "begin"])

\* Backup and install-existing start at once; the others ask first.
AskBulk ==
  /\ apps.wish = NoWish /\ Asks
  /\ ~PageBusy(apps) /\ apps.up /\ apps.rows # "none"
  /\ \E packages \in SUBSET Packages \ {{}} :
       \/ \E what \in {"backup", "install"} :
            apps' = PrepareBulk(Asked, what, apps.rows, packages)
       \/ \E what \in {"uninstall", "disable"} :
            apps' = [Asked EXCEPT !.wish = [what |-> what, chosen |-> apps.rows, of |-> packages]]
  /\ UNCHANGED disk

AskClear ==
  /\ apps.wish = NoWish /\ ~PageBusy(apps) /\ Asks
  /\ apps' = [Asked EXCEPT !.wish = [what |-> "clear", chosen |-> apps.serial, of |-> {}]]
  /\ UNCHANGED disk

AskBackup ==
  /\ apps.wish = NoWish /\ ~VaultBusy(apps) /\ Asks
  /\ \E b \in apps.listed, what \in {"restore", "delete"} :
       /\ what = "restore" => apps.up
       /\ apps' = [Asked EXCEPT !.wish = [what |-> what, chosen |-> b.root, of |-> {b}]]
  /\ UNCHANGED disk

\* restore_selected: the backup must lie in the folder of the captured device.
PrepareRestore(q, w) ==
  IF ~CanRegister(q) \/ w.chosen # q.serial THEN q
  ELSE Admit([q EXCEPT !.scanAgain = FALSE],
             [NoWork EXCEPT !.kind = "restore", !.chosen = w.chosen, !.left = w.of,
                            !.step = "begin"])

PrepareDelete(q, w) ==
  IF q.remove[q.serial].phase # "none" THEN q
  ELSE [q EXCEPT !.scanAgain = FALSE,
                 !.remove[q.serial] = [NoTask EXCEPT !.phase = "running", !.own = TRUE,
                                                     !.found = w.of]]

\* clear_apps_cache asks for the folders again after the dialog.
ClearCache(q, w) ==
  IF w.chosen # q.serial THEN q ELSE [q EXCEPT !.cached = @ \ {w.chosen}]

AnswerDialog ==
  /\ apps.wish # NoWish
  /\ LET q == [apps EXCEPT !.wish = NoWish]
         w == apps.wish
     IN  \/ apps' = q
         \/ /\ w.what \in {"uninstall", "disable"}
            /\ apps' = PrepareBulk(q, w.what, w.chosen, w.of)
         \/ w.what = "restore" /\ apps' = PrepareRestore(q, w)
         \/ w.what = "delete" /\ apps' = PrepareDelete(q, w)
         \/ w.what = "clear" /\ apps' = ClearCache(q, w)
  /\ UNCHANGED disk

-----------------------------------------------------------------------------
(* AppOperationCoordinator, BackupManager and BackupOperationCoordinator *)

Step(s, label) == [apps EXCEPT !.work[s].step = label]
Stops(s)       == apps.work[s].cancelled
Steps(s, label) == /\ apps.work[s].kind \in {"bulk", "restore"}
                   /\ apps.work[s].phase = "running" /\ apps.work[s].step = label

\* _continue: a cancellation ends the work, a stale context is an error.
Goes(s, label) ==
  apps' = IF Stops(s) THEN Quits(s, "result")
          ELSE IF ~OfTarget(apps, apps.work[s].gen) THEN Quits(s, "error")
          ELSE Step(s, label)

\* The privileged shell is prepared once for the whole workflow.
BulkBegins(s) ==
  /\ Steps(s, "begin")
  /\ \/ Goes(s, IF apps.work[s].kind = "bulk" THEN "next" ELSE "act")
     \/ apps' = Quits(s, "error")
  /\ UNCHANGED disk

\* The application at hand is one of those that are left.
NextApp(s) ==
  /\ Steps(s, "next")
  /\ LET t    == apps.work[s]
         save == t.what = "backup" \/ (t.what = "uninstall" /\ apps.careful)
     IN  IF t.left = {} THEN apps' = Quits(s, "result")
         ELSE Goes(s, IF save THEN "backup" ELSE "act")
  /\ UNCHANGED disk

Skip(s, app) ==
  IF Stops(s) THEN Quits(s, "result")
  ELSE [apps EXCEPT !.work[s].step = "next", !.work[s].left = @ \ {app}]

First(t) == CHOOSE app \in t.left : TRUE

Draft(s) == [root |-> s, app |-> First(apps.work[s]), status |-> "partial"]

\* _discard_partial_backup: a folder that cannot be removed stays, under its own name.
DiscardDraft(s) == disk' \in {disk, [disk EXCEPT !.store = @ \ {Draft(s)}]}

\* A private folder is made for the APKs; without a path there is nothing to copy.
CreatePartial(s) ==
  /\ Steps(s, "backup")
  /\ \/ apps' = Skip(s, First(apps.work[s])) /\ UNCHANGED disk
     \/ /\ ~Stops(s)
        /\ apps' = Step(s, "pull")
        /\ disk' = [disk EXCEPT !.store = @ \cup {Draft(s)}]

\* Every split APK is pulled.  One that fails leaves a folder that says "failed"; a
\* cancellation discards the folder.
PullApks(s) ==
  /\ Steps(s, "pull")
  /\ IF Stops(s)
     THEN apps' = Quits(s, "result") /\ DiscardDraft(s)
     ELSE /\ \E label \in {"publish", "publishFailed"} : apps' = Step(s, label)
          /\ UNCHANGED disk

\* Mutant: any published folder counts as a backup.
PublishAny(s) ==
  /\ Steps(s, "publish") \/ Steps(s, "publishFailed")
  /\ LET d == Draft(s)
         status == IF Steps(s, "publish") THEN "complete" ELSE "failed"
     IN  IF Stops(s)
         THEN /\ apps' = Quits(s, "result")
              /\ disk' = [disk EXCEPT !.store = @ \ {d}]
         ELSE /\ disk' = [disk EXCEPT !.store = (@ \ {d}) \cup {[d EXCEPT !.status = status]}]
              /\ apps' = IF apps.work[s].what = "uninstall" THEN Step(s, "check")
                         ELSE Skip(s, d.app)

\* The folder gets its final name, with the metadata that tell how it went.  An error
\* of the file system on the way ends the worker.
PublishBackup(s) ==
  /\ Steps(s, "publish") \/ Steps(s, "publishFailed")
  /\ \/ /\ ~Stops(s)
        /\ LET d == Draft(s)
               status == IF Steps(s, "publish") THEN "complete" ELSE "failed"
           IN  /\ disk' = [disk EXCEPT !.store = (@ \ {d}) \cup {[d EXCEPT !.status = status]}]
               /\ apps' = IF apps.work[s].what = "uninstall" /\ status = "complete"
                          THEN Step(s, "check") ELSE Skip(s, d.app)
     \/ apps' = Quits(s, IF Stops(s) THEN "result" ELSE "error") /\ DiscardDraft(s)

\* Between the backup and the removal the target is checked again.
CheckTarget(s) ==
  /\ Steps(s, "check")
  /\ Goes(s, "act")
  /\ UNCHANGED disk

\* The package command, on the captured device whatever is connected by now.
PackageCommand(s) ==
  /\ Steps(s, "act") /\ apps.work[s].kind = "bulk"
  /\ LET app == First(apps.work[s])
     IN  /\ \/ /\ apps.work[s].what = "uninstall"
               /\ disk' = [disk EXCEPT !.installed[s] = @ \ {app}]
            \/ /\ apps.work[s].what = "install"
               /\ disk' = [disk EXCEPT !.installed[s] = @ \cup {app}]
            \/ UNCHANGED disk
         /\ apps' = Skip(s, app)

\* Whether the backup is still there, and whole, shows when its files are opened.
RestoreCommand(s) ==
  /\ Steps(s, "act") /\ apps.work[s].kind = "restore"
  /\ \/ /\ apps.work[s].left \subseteq disk.store
        /\ disk' = [disk EXCEPT !.installed[s] = @ \cup {b.app : b \in apps.work[s].left}]
     \/ UNCHANGED disk
  /\ apps' = Quits(s, "result")

\* _bulk_operation_done asks for a new list; the others only tell.
BulkDone(q, s) ==
  IF Applies(q, s) /\ q.work[s].kind = "bulk" /\ q.work[s].what # "backup"
  THEN [q EXCEPT !.again = TRUE] ELSE q

BulkFinished(q, s) ==
  IF ~q.work[s].own THEN Free(q, s)
  ELSE LET idle == PrivilegeRefresh([Free(q, s) EXCEPT !.again = FALSE])
       IN  IF q.again /\ OfTarget(q, q.work[s].gen) /\ ~q.work[s].cancelled
           THEN RefreshApps(idle) ELSE idle

Deliver(s) ==
  LET t == apps.work[s]
      q == IF t.phase = "result"
           THEN (IF t.kind = "list" THEN AppsLoaded(apps, s)
                 ELSE IF t.kind = "assets" THEN apps ELSE BulkDone(apps, s))
           ELSE (IF t.kind = "list" THEN LoadFailed(apps, s) ELSE apps)
  IN  /\ t.phase \in {"result", "error"}
      /\ apps' = [q EXCEPT !.work[s].phase = "finished"]
      /\ UNCHANGED disk

WorkFinished(s) ==
  /\ apps.work[s].phase = "finished"
  /\ LET kind == apps.work[s].kind
     IN  \/ kind = "list" /\ \E missing \in BOOLEAN : apps' = LoadFinished(apps, s, missing)
         \/ kind = "assets" /\ apps' = AssetsFinished(apps, s)
         \/ kind = "bulk" /\ apps' = BulkFinished(apps, s)
         \/ /\ kind = "restore"
            /\ apps' = VaultRests(Free(apps, s), apps.work[s].own, apps.work[s].cancelled,
                                  OfTarget(apps, apps.work[s].gen))
  /\ UNCHANGED disk

-----------------------------------------------------------------------------
(* The device *)

\* reset_for_device_profile of both pages: their operations are cancelled and no
\* longer theirs, and the lists are empty.
ResetPages(q) ==
  [q EXCEPT !.rows = "none", !.view = [serial |-> "none", gen |-> 0], !.pending = 0,
            !.again = FALSE, !.privilege = FALSE, !.listed = {}, !.scanAgain = FALSE,
            !.work = [s \in Serials |-> IF q.work[s].kind = "none" THEN NoWork
                                        ELSE [q.work[s] EXCEPT !.cancelled = TRUE, !.own = FALSE]],
            !.scan = [s \in Serials |-> IF q.scan[s].phase = "none" THEN NoTask
                                        ELSE [q.scan[s] EXCEPT !.cancelled = TRUE, !.own = FALSE]],
            !.remove = [s \in Serials |-> IF q.remove[s].phase = "none" THEN NoTask
                                          ELSE [q.remove[s] EXCEPT !.cancelled = TRUE,
                                                                   !.own = FALSE]]]

\* cancel_stale of the registry.
Stale(q) ==
  [q EXCEPT !.work = [s \in Serials |-> IF q.work[s].kind = "none" THEN NoWork
                                        ELSE [q.work[s] EXCEPT !.cancelled = TRUE]]]

\* The device goes, comes back, or another one takes its place: only then the profile
\* changes.  The page in front reads its list again.
SwitchDevice ==
  /\ apps.gen < MaxTargets
  /\ \E serial \in Serials, up \in BOOLEAN, shown \in {"apps", "backups", "other"} :
       /\ up \/ (serial = apps.serial /\ apps.up)
       /\ LET changed == serial # apps.serial
              moved == [Stale(apps) EXCEPT !.gen = @ + 1, !.up = up]
              q     == IF changed THEN [ResetPages(moved) EXCEPT !.serial = serial] ELSE moved
          IN  apps' = IF shown = "apps" /\ up /\ (changed \/ q.rows = "none") THEN RefreshApps(q)
                      ELSE IF shown = "backups" /\ changed THEN RefreshBackups(q)
                      ELSE q
  /\ UNCHANGED disk

AppWorker(s) ==
  \/ ReadingEnds(s) \/ BulkBegins(s) \/ NextApp(s) \/ CreatePartial(s) \/ PullApks(s)
  \/ PublishBackup(s) \/ CheckTarget(s) \/ PackageCommand(s) \/ RestoreCommand(s)
  \/ Deliver(s) \/ WorkFinished(s)

VaultWorker(s) ==
  ScanBackups(s) \/ Scanned(s) \/ ScanReturns(s) \/ Remove(s) \/ Removed(s) \/ RemoveFinished(s)

AppsNext ==
  \/ \E s \in Serials : AppWorker(s) \/ VaultWorker(s)
  \/ PressRefresh \/ RequestRefresh \/ StopPassive \/ PressScan
  \/ AskBulk \/ AskClear \/ AskBackup \/ AnswerDialog
  \/ SwitchDevice

\* A first session, and one that continues an earlier one.
AppsInit ==
  \/ apps = FreshApps({}, TRUE) /\ disk = FreshDisk({})
  \/ apps = FreshApps(Serials, TRUE) /\ disk = FreshDisk({})
  \/ apps = FreshApps(Serials, FALSE) /\ disk = FreshDisk(Packages)

-----------------------------------------------------------------------------
(* Properties *)

\* With "require backup before uninstall" an application is only removed from a device
\* when a complete backup of it was published in the folder of that device, whatever
\* failed, was cancelled or was reconnected meanwhile (AppOperationCoordinator.uninstall).
\* What the user deletes from the folder is the user's.
UninstalledAppsHaveBackups ==
  apps.careful =>
    \A s \in Serials, app \in Packages :
      app \notin disk.installed[s] =>
        [root |-> s, app |-> app, status |-> "complete"] \in disk.store \cup disk.dropped

\* The Backups page shows the folders of the current profile and none that is still
\* being written, and what it restores it restores to the device of that profile
\* (scan_backups, _can_apply_local_operation, _require_backup_in_profile).
BackupsStayInTheirProfile ==
  /\ \A b \in apps.listed : b.root = apps.serial /\ b.status # "partial"
  /\ \A s \in Serials : apps.work[s].kind = "restore" => apps.work[s].chosen = s

\* docs/ARCHITECTURE.md: "Device-changing sequences revalidate their context between
\* steps."  What the user has chosen and confirmed on one device is not done to the
\* device that took its place while the dialog was open.
ConfirmedTargetIsKept ==
  \A s \in Serials : apps.work[s].kind = "bulk" => apps.work[s].chosen = s

AppsSpec == AppsInit /\ [][AppsNext]_appVars
==============================================================================
