----------------------------- MODULE FileManager -----------------------------
(***************************************************************************)
(* file_manager_page.py with file_manager_listings.py, file_manager_-      *)
(* actions.py and the controllers behind them.  Every handler runs on the  *)
(* GUI thread in one piece and calls others, so the page is one record and *)
(* a handler is an operator from a page to the page it leaves.  Workers    *)
(* run beside it: a listing and a storage scan, which are passive, and one *)
(* file action and one transfer, which the user confirmed.  All of them    *)
(* pass the gate "acbridge-maintenance:<serial>" of the registry.          *)
(***************************************************************************)
EXTENDS Naturals, FiniteSets

CONSTANTS
  MaxDevices,  \* bound: generations of the active device
  MaxModes     \* bound: access modes selected one after the other

ASSUME FileManagerBounds == MaxDevices \in Nat \ {0} /\ MaxModes \in Nat \ {0}

VARIABLE files

Folders == {"a", "b"}
Slots   == {"listing", "storage", "action", "transfer"}
Passive == {"listing", "storage"}

NoToken == [phase |-> "none", ctx |-> 0, lease |-> 0, path |-> "none", cancelled |-> FALSE,
            fresh |-> FALSE, requested |-> FALSE, refresh |-> FALSE]
NoView  == [ctx |-> 0, path |-> "none", lease |-> 0]
NoStart == [what |-> "none", ctx |-> 0]
NoOther == [kind |-> "none", ctx |-> 0]

\* What the user may ask for, whether its lease is of the access mode, and whether the
\* Android folder is read again afterwards.
Wishes      == {"pull", "push", "p2p", "delete", "install"}
Transfers   == {"pull", "push", "p2p"}
Leased(w)   == w \notin {"p2p", "install"}
Rereads(w)  == w \in {"push", "p2p", "delete"}

\* A page without a device, or with one whose mode is usable.
FreshFiles(connected, sameSerial) ==
  [dev |-> 1, up |-> connected, usable |-> connected, lease |-> 1, same |-> sameSerial,
   path |-> "a", view |-> NoView, volumes |-> 0,
   work |-> [s \in Slots |-> NoToken],
   again |-> [s \in Passive |-> FALSE], deferred |-> FALSE, privilege |-> FALSE,
   waiting |-> NoStart, action |-> NoStart, running |-> FALSE, prompt |-> NoStart,
   held |-> [s \in Passive |-> FALSE], heldFor |-> 0, other |-> NoOther]

FilesTypeOK ==
  /\ files.dev \in 0 .. MaxDevices /\ files.lease \in 0 .. MaxModes
  /\ {files.up, files.usable, files.deferred, files.privilege, files.running} \subseteq BOOLEAN
  /\ files.path \in Folders /\ files.volumes \in 0 .. MaxDevices
  /\ files.view.ctx \in 0 .. MaxDevices /\ files.heldFor \in 0 .. MaxDevices
  /\ \A s \in Slots : files.work[s].phase \in {"none", "running", "result", "error", "finished"}
  /\ files.waiting.what \in Transfers \cup {"none"}
  /\ files.action.what \in {"delete", "install", "none"}
  /\ files.prompt.what \in Wishes \cup {"none"}
  /\ files.other.kind \in {"none", "apps", "stopping", "maintenance"}

Current(q, c)    == q.up /\ c = q.dev
SameSerial(q, c, d) == q.same \/ c = d
Busy(q, s)       == q.work[s].phase # "none"
Backend(q)       == q.up /\ q.usable
ViewIsCurrent(q) == q.view.ctx # 0 /\ Current(q, q.view.ctx) /\ q.view.path = q.path
OperationIsCurrent(q, s) == Current(q, q.work[s].ctx) /\ ~q.work[s].cancelled

\* _maintenance_blockers: who owns the gate of this device.
Blocked(q, c) ==
  \/ \E s \in Slots : Busy(q, s) /\ SameSerial(q, q.work[s].ctx, c)
  \/ q.other.kind # "none" /\ SameSerial(q, q.other.ctx, c)

\* _active_passive_listing_tokens
PassiveTokens(q, c) == {s \in Passive : Busy(q, s) /\ q.work[s].ctx = c}

Cancel(q, slots) ==
  [q EXCEPT !.work = [s \in Slots |-> IF s \in slots /\ Busy(q, s)
                                      THEN [q.work[s] EXCEPT !.cancelled = TRUE]
                                      ELSE q.work[s]]]

\* FileListingController.invalidate_android: what is being read is of no use any more.
Outdate(q) ==
  [q EXCEPT !.work = [s \in Slots |-> IF s \in Passive THEN [q.work[s] EXCEPT !.fresh = FALSE]
                                      ELSE q.work[s]]]

Register(q, s, w, c) ==
  [q EXCEPT !.work[s] = [phase |-> "running", ctx |-> c, lease |-> IF Leased(w) THEN q.lease ELSE 0,
                         path |-> q.path, cancelled |-> FALSE, fresh |-> s \in Passive,
                         requested |-> s \in Passive, refresh |-> Rereads(w)]]

ClearHeld(q)    == [q EXCEPT !.heldFor = 0, !.held = [s \in Passive |-> FALSE]]
ClearWaiting(q) == IF Busy(q, "transfer") THEN q ELSE [q EXCEPT !.running = FALSE]

\* _cancel_pending_transfer_start
DropWaiting(q, privilegeOnly) ==
  IF q.waiting = NoStart \/ (privilegeOnly /\ q.waiting.what = "p2p") THEN q
  ELSE ClearWaiting([q EXCEPT !.waiting = NoStart, !.deferred = FALSE])

\* invalidate_stale_device_view
InvalidateStale(q) ==
  LET held    == IF q.heldFor # 0 /\ ~Current(q, q.heldFor) THEN ClearHeld(q) ELSE q
      rows    == q.view.ctx # 0 /\ ~ViewIsCurrent(q)
      volumes == q.volumes # 0 /\ ~Current(q, q.volumes)
      asked   == \E s \in Passive : q.work[s].requested /\ ~Current(q, q.work[s].ctx)
      shown   == [held EXCEPT !.view = IF rows THEN NoView ELSE @,
                              !.volumes = IF volumes THEN 0 ELSE @]
  IN IF rows \/ volumes \/ asked
     THEN Outdate([DropWaiting(shown, FALSE) EXCEPT !.action = NoStart])
     ELSE shown

\* _defer_passive_refresh_after_maintenance: the scan waits for the gate on a timer;
\* work of the Applications page that nobody waits for is asked to stop.
Defer(q, s) ==
  [q EXCEPT !.held[s] = TRUE, !.heldFor = q.dev,
            !.other.kind = IF @ = "apps" /\ SameSerial(q, q.other.ctx, q.dev)
                           THEN "stopping" ELSE @]

\* _capture_device_operation for a passive scan.
Scan(q, s) == IF Blocked(q, q.dev) THEN Defer(q, s) ELSE Register(q, s, "scan", q.dev)

\* What the next scan of a kind must wait for, if anything.
PutOff(q, s) ==
  IF q.running THEN [q EXCEPT !.deferred = TRUE] ELSE [q EXCEPT !.again[s] = TRUE]

\* FileManagerListings.refresh_android_storage_roots
RefreshStorage(p) ==
  LET q == InvalidateStale(p) IN
  IF ~Backend(q) THEN [q EXCEPT !.volumes = 0]
  ELSE IF q.running \/ Busy(q, "storage") \/ Busy(q, "listing") THEN PutOff(q, "storage")
  ELSE LET r == Scan(q, "storage") IN
       IF Busy(r, "storage") /\ q.volumes # q.dev THEN [r EXCEPT !.volumes = 0] ELSE r

\* FileManagerListings.refresh_android
RefreshAndroid(p) ==
  LET q == InvalidateStale(p) IN
  IF ~Backend(q) THEN [q EXCEPT !.view = NoView]
  ELSE IF q.running \/ Busy(q, "storage") \/ Busy(q, "listing") THEN PutOff(q, "listing")
  ELSE LET r == Scan(q, "listing") IN
       IF Busy(r, "listing") /\ ~ViewIsCurrent(q) THEN [r EXCEPT !.view = NoView] ELSE r

RefreshAll(q) == RefreshAndroid(RefreshStorage(InvalidateStale(q)))

\* _maybe_start_privilege_backend_refresh
PrivilegeRefreshIsDue(q) ==
  /\ q.privilege /\ q.up
  /\ \A s \in Slots : ~(Busy(q, s) /\ q.work[s].lease # 0)
  /\ ~Busy(q, "listing") /\ ~Busy(q, "storage")
MaybeRefresh(q) ==
  IF PrivilegeRefreshIsDue(q) THEN RefreshAll([q EXCEPT !.privilege = FALSE]) ELSE q

-----------------------------------------------------------------------------
(* Confirmed work: it has priority over passive scans and waits for them *)

CanCapture(q, c) == Current(q, c) /\ ~Blocked(q, c)

\* _start_prepared_transfer
StartTransfer(q, w) ==
  [Register(q, "transfer", w.what, w.ctx) EXCEPT !.waiting = NoStart, !.running = TRUE]

\* _start_or_defer_transfer
StartOrDeferTransfer(q, w) ==
  LET scans == PassiveTokens(q, w.ctx) IN
  IF scans = {} THEN IF CanCapture(q, w.ctx) THEN StartTransfer(q, w) ELSE q
  ELSE IF q.waiting # NoStart THEN q
  ELSE Cancel([q EXCEPT !.waiting = w, !.running = TRUE,
                        !.again = [s \in Passive |-> FALSE]], scans)

\* FileManagerActions._start_android
StartAction(q, w) ==
  LET scans == PassiveTokens(q, w.ctx) IN
  IF q.running THEN q
  ELSE IF scans = {} THEN IF CanCapture(q, w.ctx) THEN Register(q, "action", w.what, w.ctx) ELSE q
  ELSE IF q.action # NoStart THEN q
  ELSE Cancel([q EXCEPT !.action = w, !.again = [s \in Passive |-> FALSE]], scans)

\* A waiting start whose scans have drained.
MayStart(q, w) == w # NoStart /\ PassiveTokens(q, w.ctx) = {}

\* What a waiting transfer leaves behind when it can not be started after all.
TransferGivenUp(q) ==
  [ClearWaiting([q EXCEPT !.waiting = NoStart]) EXCEPT
     !.again = [s \in Passive |-> s = "listing" \/ @[s] \/ ~Current(q, q.waiting.ctx)]]
ActionGivenUp(q) ==
  [q EXCEPT !.action = NoStart,
            !.again = IF Current(q, q.action.ctx) THEN [s \in Passive |-> s = "listing"]
                      ELSE [s \in Passive |-> TRUE]]

\* The common end of android_refresh_finished and android_storage_refresh_finished:
\* a waiting transfer comes first, then a waiting action, then the scans.
AfterPrivilege(q) ==
  IF PrivilegeRefreshIsDue(q) THEN MaybeRefresh(q)
  ELSE IF q.again["storage"] THEN RefreshStorage([q EXCEPT !.again["storage"] = FALSE])
  ELSE IF q.again["listing"] THEN RefreshAndroid([q EXCEPT !.again["listing"] = FALSE])
  ELSE q
AfterTransfer(q) ==
  IF ~MayStart(q, q.action) THEN AfterPrivilege(q)
  ELSE IF ~Current(q, q.action.ctx) \/ q.running \/ Blocked(q, q.action.ctx)
       THEN AfterPrivilege(ActionGivenUp(q))
  ELSE Register([q EXCEPT !.action = NoStart, !.again = [s \in Passive |-> FALSE]],
                "action", q.action.what, q.action.ctx)
AfterScan(q) ==
  IF ~MayStart(q, q.waiting) THEN AfterTransfer(q)
  ELSE IF CanCapture(q, q.waiting.ctx) THEN StartTransfer(q, q.waiting)
  ELSE AfterTransfer(TransferGivenUp(q))

-----------------------------------------------------------------------------
(* Workers *)

\* Whether a worker still finds what it was started with: its token, its request, its
\* device and the access mode it has leased.
Lives(q, s) ==
  /\ OperationIsCurrent(q, s)
  /\ s \in Passive => q.work[s].fresh
  /\ q.work[s].lease # 0 => q.work[s].lease = q.lease

\* load_android_files, load_storage_volumes, execute_android, the transfer's run: the
\* last check is at the end; whatever comes later is the page's business.
Work(s) ==
  /\ files.work[s].phase = "running"
  /\ \/ /\ Lives(files, s) \/ s = "transfer"
        /\ files' = [files EXCEPT !.work[s].phase = "result"]
     \/ files' = [files EXCEPT !.work[s].phase = "error"]

\* Mutant: the rows are shown although the request has been outdated.
ItemsLoadedLate ==
  LET t == files.work["listing"] IN
  /\ t.phase = "result"
  /\ files' = [files EXCEPT !.work["listing"].phase = "finished",
                            !.view = IF t.path = files.path
                                     THEN [ctx |-> t.ctx, path |-> t.path, lease |-> t.lease]
                                     ELSE @]

\* android_items_loaded
ItemsLoaded ==
  LET t == files.work["listing"] IN
  /\ t.phase = "result"
  /\ files' = [files EXCEPT !.work["listing"].phase = "finished",
                            !.view = IF /\ OperationIsCurrent(files, "listing")
                                        /\ t.fresh /\ t.path = files.path
                                     THEN [ctx |-> t.ctx, path |-> t.path, lease |-> t.lease]
                                     ELSE @]

\* android_storage_roots_loaded
VolumesLoaded ==
  LET t == files.work["storage"] IN
  /\ t.phase = "result"
  /\ files' = [files EXCEPT !.work["storage"].phase = "finished",
                            !.volumes = IF OperationIsCurrent(files, "storage") /\ t.fresh
                                        THEN t.ctx ELSE @]

\* _transfer_done and _android_done: only a result that still matters is followed by
\* the refresh its operation asked for.
ResultShown(s) ==
  /\ s \in {"action", "transfer"} /\ files.work[s].phase = "result"
  /\ files' = [files EXCEPT !.work[s].phase = "finished",
                            !.work[s].refresh = /\ @
                                                /\ Current(files, files.work[s].ctx)
                                                /\ s = "action" => ~files.work[s].cancelled]

\* The error handlers only tell the user.
ErrorShown(s) ==
  /\ files.work[s].phase = "error"
  /\ files' = [files EXCEPT !.work[s].phase = "finished", !.work[s].refresh = FALSE]

Released(q, s) == [q EXCEPT !.work[s] = NoToken]

ScanFinished(s) ==
  /\ s \in Passive /\ files.work[s].phase = "finished"
  /\ files' = AfterScan(Released(files, s))

\* FileManagerActions._android_finished
ActionFinished ==
  LET t == files.work["action"]
      q == Released(files, "action")
  IN /\ t.phase = "finished"
     /\ files' = MaybeRefresh(IF t.refresh /\ Current(q, t.ctx) THEN RefreshAndroid(q) ELSE q)

\* _transfer_worker_finished
TransferFinished ==
  LET t     == files.work["transfer"]
      freed == [Released(files, "transfer") EXCEPT !.running = FALSE, !.deferred = FALSE]
      owed  == IF files.deferred THEN RefreshAndroid(RefreshStorage(freed)) ELSE freed
  IN /\ t.phase = "finished"
     /\ files' = IF ~Current(files, t.ctx) THEN owed
                 ELSE MaybeRefresh(IF t.refresh THEN RefreshAndroid(owed) ELSE owed)

\* _retry_refresh_after_maintenance; the page may be hidden by now.
RetryHeld ==
  /\ files.heldFor # 0
  /\ \/ files' = ClearHeld(files)
     \/ /\ Current(files, files.heldFor) /\ ~Blocked(files, files.heldFor)
        /\ LET q == ClearHeld(files) IN
           files' = IF files.held["storage"]
                    THEN RefreshStorage([q EXCEPT !.again["listing"] = @ \/ files.held["listing"]])
                    ELSE RefreshAndroid(q)

-----------------------------------------------------------------------------
(* The user and the main window *)

\* pull_paths, push_paths and the file actions: rows or a folder are chosen, the device
\* is captured with them, and a dialog asks for confirmation.
UploadGate(q) ==
  \/ ViewIsCurrent(q)
  \/ \E s \in Passive : /\ Busy(q, s) /\ OperationIsCurrent(q, s) /\ q.work[s].fresh
                        /\ IF s = "listing" THEN q.work[s].path = q.path
                           ELSE q.again["listing"]

\* Mutant: a file action may be waiting already.
CanStartAny(q, what) == ~q.running \/ what \notin Transfers

\* _can_start_transfer, _start_android's first test
CanStart(q, what) ==
  /\ ~q.running
  /\ what \in Transfers => q.action = NoStart
  /\ what \notin Transfers => ~Busy(q, "action")

Ask(what) ==
  /\ files.prompt = NoStart /\ CanStart(files, what)
  /\ IF what = "p2p" THEN files.up ELSE Backend(files)
  /\ IF what \in {"push", "p2p", "install"} THEN UploadGate(files) ELSE ViewIsCurrent(files)
  /\ files' = [files EXCEPT !.prompt = [what |-> what, ctx |-> files.dev]]

Answer(yes) ==
  LET w == files.prompt
      q == [files EXCEPT !.prompt = NoStart]
  IN /\ w # NoStart
     /\ files' = IF ~yes THEN q
                 ELSE IF w.what \in Transfers THEN StartOrDeferTransfer(q, w)
                 ELSE StartAction(q, w)

\* FileManagerListings.navigate_android
NavigateAndroid(folder) ==
  /\ files.prompt = NoStart /\ folder # files.path
  /\ LET left  == [Cancel(files, {"listing"}) EXCEPT
                     !.view = NoView, !.path = folder,
                     !.again["listing"] = @ \/ Busy(files, "listing")]
     IN files' = RefreshAndroid([left EXCEPT !.work["listing"].fresh = FALSE])

RefreshPressed == files.prompt = NoStart /\ files' = RefreshAll(files)

\* _cancel_transfer
CancelPressed ==
  /\ Busy(files, "transfer") /\ ~files.work["transfer"].cancelled
  /\ files' = Cancel(files, {"transfer"})

\* The manager publishes another device, or none, and cancels what belongs to the one
\* before; the window then invalidates the page and, when it is in front, refreshes it.
DeviceChanges ==
  /\ files.dev < MaxDevices
  /\ \E connected, shown \in BOOLEAN :
       LET q == [Cancel(files, Slots) EXCEPT !.dev = @ + 1, !.up = connected,
                                             !.usable = connected]
       IN files' = IF shown THEN RefreshAll(InvalidateStale(q)) ELSE InvalidateStale(q)

LeasedSlots(q) == {s \in Slots : q.work[s].lease # 0}

\* cancel_privilege_operations, then invalidate_privilege_backend_view.
ModeChanges ==
  /\ files.lease < MaxModes /\ files.up
  /\ \E verified \in BOOLEAN :
       LET q == Outdate(Cancel(DropWaiting(ClearHeld(files), TRUE), LeasedSlots(files)))
       IN files' = [q EXCEPT !.lease = @ + 1, !.usable = verified, !.action = NoStart,
                             !.again = [s \in Passive |-> FALSE],
                             !.work = [s \in Slots |-> [q.work[s] EXCEPT !.requested = FALSE]],
                             !.view = NoView, !.volumes = 0]

\* request_privilege_backend_refresh, once the window finds the new mode usable.
ModeVerified ==
  /\ files.up /\ (files.privilege => ~files.usable)
  /\ files' = MaybeRefresh([files EXCEPT !.usable = TRUE, !.privilege = TRUE])

\* Another page's worker takes the gate, and leaves it.
OtherStarts ==
  /\ files.up /\ ~Blocked(files, files.dev) /\ files.other = NoOther
  /\ \E k \in {"apps", "maintenance"} :
       files' = [files EXCEPT !.other = [kind |-> k, ctx |-> files.dev]]
OtherEnds == files.other # NoOther /\ files' = [files EXCEPT !.other = NoOther]

\* A worker, and the signals it leaves.
PageWork(s) ==
  \/ Work(s) \/ ErrorShown(s) \/ ResultShown(s) \/ ScanFinished(s)
  \/ s = "listing" /\ ItemsLoaded
  \/ s = "storage" /\ VolumesLoaded
  \/ s = "action" /\ ActionFinished
  \/ s = "transfer" /\ TransferFinished
FileUser ==
  \/ \E w \in Wishes : Ask(w)
  \/ \E yes \in BOOLEAN : Answer(yes)
  \/ \E f \in Folders : NavigateAndroid(f)
  \/ RefreshPressed \/ CancelPressed
FileWorld == DeviceChanges \/ ModeChanges \/ ModeVerified \/ OtherStarts \/ OtherEnds

FilesNext == (\E s \in Slots : PageWork(s)) \/ RetryHeld \/ FileUser \/ FileWorld

\* A page that opens without a device, or with one, in any mode the session has reached.
FilesInit ==
  \E connected, sameSerial \in BOOLEAN, lease \in 1 .. MaxModes :
    files = [FreshFiles(connected, sameSerial) EXCEPT !.lease = lease]

FilesSpec == FilesInit /\ [][FilesNext]_files

\* The rows of the folder and device the page shows were read with the access mode that
\* is selected now, however late the reader of an earlier one comes back.
RowsAreOfThisMode == ViewIsCurrent(files) => files.view.lease = files.lease

\* Confirmed work that waits does so for a scan of its own device that is still to
\* finish, and will be woken by it; never two confirmed operations wait together; and the
\* transfer buttons are off exactly while a transfer waits or runs.
WaitingWorkIsWoken ==
  /\ files.waiting # NoStart => PassiveTokens(files, files.waiting.ctx) # {}
  /\ files.action # NoStart => PassiveTokens(files, files.action.ctx) # {}
  /\ files.waiting = NoStart \/ files.action = NoStart
  /\ files.running <=> files.waiting # NoStart \/ Busy(files, "transfer")
===============================================================================
