------------------------------ MODULE AccessWork ------------------------------
(***************************************************************************)
(* The part of main_window.py that brings a device into the access mode    *)
(* the user selected: the update of ACBridge on each new connection, the   *)
(* automatic Shizuku handshake, the check of Root, the barrier that keeps  *)
(* the device pages disabled while workers of the outgoing mode drain, and *)
(* the refreshes that wait for all of it.  Handlers call each other on the *)
(* GUI thread and hand over through single-shot timers, which are flags    *)
(* here.  The device keeps its serial, so that all work on it shares the   *)
(* gate "acbridge-maintenance:<serial>" over its generations.              *)
(***************************************************************************)
EXTENDS Naturals

CONSTANT MaxInputs  \* bound: reconnections, selections of a mode and checks asked for

ASSUME AccessWorkBounds == MaxInputs \in Nat

VARIABLE access

AccessModes == {"standard", "root", "shizuku"}

\* Pages that read the device again: "apps" stands for the File Manager too, which
\* waits for the same things, "backups" for the page that reads only local files.
Features == {"apps", "backups"}

NoUpdate == [phase |-> "none", gen |-> 0, cancelled |-> FALSE, how |-> "none"]
NoCheck  == [phase |-> "none", kind |-> "none", gen |-> 0, lease |-> 0, cancelled |-> FALSE,
             how |-> "none"]

\* The window before any device is there.
FreshAccess(mode) ==
  [gen |-> 1, adb |-> FALSE, mode |-> mode, lease |-> 0, page |-> "apps", wanted |-> {},
   update |-> NoUpdate, updated |-> 0, retry |-> 0, next |-> 0, tries |-> 0, resume |-> 0,
   release |-> FALSE,
   shizuku |-> 0, starts |-> 0, inflight |-> 0, done |-> 0, attempts |-> 0,
   check |-> NoCheck, recheck |-> FALSE, recheckTimer |-> FALSE, drainTimer |-> FALSE,
   waits |-> FALSE, dispatch |-> "none", cached |-> "none", feature |-> "none",
   autoBusy |-> FALSE, barrierBusy |-> FALSE, updateBusy |-> FALSE,
   presses |-> 0]

AccessTypeOK ==
  /\ access.gen \in 1 .. MaxInputs + 1 /\ access.lease \in 0 .. MaxInputs
  /\ access.presses \in 0 .. MaxInputs
  /\ access.mode \in AccessModes /\ access.wanted \subseteq Features
  /\ access.page \in Features \cup {"other"}
  /\ access.update.phase \in {"none", "running", "result", "finished"}
  /\ access.check.phase \in {"none", "running", "result", "finished"}
  /\ access.feature \in {"none", "leased", "plain", "blocker"}
  /\ access.tries \in 0 .. 3 /\ access.attempts \in 0 .. 2
  /\ access.cached \in {"none", "ready", "denied"}

Inputs            == access.gen - 1 + access.lease + access.presses
UpdatePending(q)  == q.update.phase # "none" \/ q.retry # 0 \/ q.next # 0
ShizukuPending(q) == \/ q.shizuku # 0 \/ q.starts # 0 \/ q.inflight # 0
                     \/ q.check.kind = "automatic"
Draining(q)       == q.feature = "blocker"
Conflict(q)       == q.update.phase # "none" \/ q.feature # "none"
Usable(q)         == q.adb /\ (q.mode = "shizuku" => q.cached = "ready")
PagesBusy(q)      == q.autoBusy \/ q.barrierBusy \/ q.updateBusy

-----------------------------------------------------------------------------
(* Refreshes of the page in front *)

\* What keeps a queued refresh of a page waiting, apart from work on the device.
FeatureWaits(q, f) ==
  \/ f \notin q.wanted \/ q.page # f
  \/ ShizukuPending(q) \/ UpdatePending(q) \/ q.waits
  \/ f = "apps" /\ ~Usable(q)

\* _refresh_device_feature, and what the page makes of it.
RefreshFeature(q, f) ==
  IF f # "apps" THEN q
  ELSE IF ~Usable(q) THEN [q EXCEPT !.wanted = @ \cup {f}]
  ELSE IF Conflict(q) \/ q.check.phase # "none" THEN q
  ELSE [q EXCEPT !.feature = "leased"]

\* _resume_feature_refresh_after_acbridge, where conflict tells whether other work has
\* the gate of the device.
ResumeUnless(q, conflict) ==
  IF FeatureWaits(q, q.page) THEN q
  ELSE IF q.page = "apps" /\ conflict THEN [q EXCEPT !.drainTimer = TRUE]
  ELSE [q EXCEPT !.dispatch = q.page]

ResumeFeatures(q) == ResumeUnless(q, Conflict(q))

DispatchFeature(q, f) ==
  IF FeatureWaits(q, f) THEN q
  ELSE IF f = "apps" /\ Conflict(q) THEN [q EXCEPT !.drainTimer = TRUE]
  ELSE RefreshFeature([q EXCEPT !.wanted = @ \ {f}], f)

-----------------------------------------------------------------------------
(* The recheck of the selected mode *)

\* _clear_pending_automatic_shizuku, of one connection or of any.
ClearShizuku(q) == [q EXCEPT !.shizuku = 0, !.starts = 0]

ClearShizukuOf(q, key) ==
  IF q.shizuku \notin {0, key} /\ q.starts # key THEN q
  ELSE [q EXCEPT !.shizuku = IF @ = key THEN 0 ELSE @, !.starts = IF @ = key THEN 0 ELSE @]

\* _schedule_automatic_shizuku_handshake: one per connection.
ScheduleShizuku(q, defer) ==
  IF q.done = q.gen
  THEN IF q.check.kind = "automatic" /\ ~q.check.cancelled /\ q.inflight = q.gen
       THEN [q EXCEPT !.recheck = FALSE]
       ELSE [ClearShizukuOf(q, q.gen) EXCEPT !.recheck = FALSE]
  ELSE [q EXCEPT !.shizuku = q.gen, !.recheck = TRUE, !.autoBusy = TRUE,
                 !.starts = IF defer \/ UpdatePending(q) THEN @ ELSE q.gen]

\* _schedule_privilege_recheck
ScheduleRecheck(q, defer) ==
  IF q.mode = "standard" \/ ~q.adb THEN ClearShizuku([q EXCEPT !.recheck = FALSE])
  ELSE IF q.mode = "shizuku" THEN ScheduleShizuku(q, defer)
  ELSE [q EXCEPT !.recheck = TRUE, !.recheckTimer = TRUE]

\* _resume_privilege_recheck_after_acbridge
ResumeRecheck(q) ==
  IF ~q.recheck THEN q
  ELSE ScheduleRecheck(IF q.mode = "root" /\ q.adb
                       THEN [q EXCEPT !.waits = TRUE, !.barrierBusy = TRUE] ELSE q, FALSE)

\* _start_privilege_operation
CanCheck(q) == q.check.phase = "none" /\ ~Conflict(q)

StartCheck(q, kind) ==
  [q EXCEPT !.check = [NoCheck EXCEPT !.phase = "running", !.kind = kind, !.gen = q.gen,
                                      !.lease = q.lease]]

\* _start_automatic_shizuku_handshake, when its timer fires.
StartShizuku ==
  /\ access.starts # 0
  /\ LET key == access.starts
         q   == [access EXCEPT !.starts = 0]
         due == [q EXCEPT !.autoBusy = TRUE, !.shizuku = 0, !.recheck = FALSE,
                          !.inflight = key, !.attempts = @ + 1]
         busy == [q EXCEPT !.recheck = TRUE, !.autoBusy = TRUE, !.starts = key]
     IN  access' =
           IF q.shizuku # key \/ q.mode # "shizuku" \/ key # q.gen
           THEN [q EXCEPT !.shizuku = IF @ = key THEN 0 ELSE @]
           ELSE IF UpdatePending(q) THEN q
           ELSE IF Conflict(q) THEN busy
           ELSE IF CanCheck(q) THEN StartCheck(due, "automatic")
           ELSE IF q.done = key
           THEN ResumeFeatures([q EXCEPT !.shizuku = 0, !.recheck = TRUE, !.inflight = 0,
                                         !.autoBusy = FALSE])
           ELSE [busy EXCEPT !.inflight = 0]

\* _run_queued_privilege_recheck
RunRecheck ==
  /\ access.recheckTimer
  /\ LET q == [access EXCEPT !.recheckTimer = FALSE]
         again == [q EXCEPT !.barrierBusy = TRUE, !.recheckTimer = TRUE]
     IN  access' =
           IF ~q.recheck THEN q
           ELSE IF q.mode = "shizuku" THEN ScheduleRecheck(q, FALSE)
           ELSE IF Conflict(q) THEN again
           ELSE IF CanCheck(q)
           THEN StartCheck([q EXCEPT !.recheck = FALSE, !.barrierBusy = @ \/ q.waits], "check")
           ELSE again

\* _run_privilege_transition_drain_check
CheckDrain ==
  /\ access.drainTimer
  /\ LET q == [access EXCEPT !.drainTimer = FALSE]
     IN  access' =
           IF q.check.phase # "none" \/ Draining(q) THEN access
           ELSE IF q.recheck
           THEN IF Conflict(q) THEN [access EXCEPT !.barrierBusy = TRUE]
                ELSE ScheduleRecheck(q, FALSE)
           ELSE ResumeFeatures([q EXCEPT !.waits = FALSE, !.barrierBusy = FALSE,
                                         !.autoBusy = FALSE])

-----------------------------------------------------------------------------
(* The update of ACBridge *)

\* _queue_acbridge_update_retry
QueueRetry(q, g) == IF q.retry = g THEN q ELSE [q EXCEPT !.updateBusy = TRUE, !.retry = g]

\* What _schedule_acbridge_update answers.
Schedules(q, g) == g = q.gen /\ (q.update.phase # "none" \/ q.updated # g)

\* Mutant: the attempts of a connection are not counted.
ScheduleUncounted(q, g) ==
  IF ~Schedules(q, g) THEN q
  ELSE IF q.update.phase # "none"
  THEN [q EXCEPT !.updateBusy = TRUE, !.next = IF q.update.gen = g THEN @ ELSE g]
  ELSE IF q.check.phase # "none" \/ q.feature # "none"
  THEN QueueRetry([q EXCEPT !.updateBusy = TRUE], g)
  ELSE [q EXCEPT !.updateBusy = TRUE, !.updated = g, !.retry = 0,
                 !.update = [NoUpdate EXCEPT !.phase = "running", !.gen = g]]

ScheduleUpdate(q, g) ==
  IF ~Schedules(q, g) THEN q
  ELSE IF q.update.phase # "none"
  THEN [q EXCEPT !.updateBusy = TRUE, !.next = IF q.update.gen = g THEN @ ELSE g]
  ELSE IF q.check.phase # "none" \/ q.feature # "none"
  THEN QueueRetry([q EXCEPT !.updateBusy = TRUE], g)
  ELSE [q EXCEPT !.updateBusy = TRUE, !.updated = g, !.retry = 0, !.tries = @ + 1,
                 !.update = [NoUpdate EXCEPT !.phase = "running", !.gen = g]]

RetryUpdate ==
  /\ access.retry # 0
  /\ LET g == access.retry
         q == [access EXCEPT !.retry = 0]
     IN  access' = IF g # q.gen THEN [q EXCEPT !.release = TRUE]
                   ELSE IF Schedules(q, g) THEN ScheduleUpdate(q, g)
                   ELSE [ResumeRecheck(q) EXCEPT !.release = TRUE]

\* update_if_outdated on the worker: nothing to do, another version, or not yet.
UpdateEnds ==
  /\ access.update.phase = "running"
  /\ \E how \in {"fine", "changed", "failed"} :
       access' = [access EXCEPT !.update.phase = "result", !.update.how = how]

\* _invalidate_privilege_status
Invalidate(q) ==
  LET r == [q EXCEPT !.cached = "none", !.done = IF q.mode = "shizuku" THEN 0 ELSE @,
                     !.attempts = IF q.mode = "shizuku" THEN 0 ELSE @]
  IN  IF q.mode = "standard" THEN r
      ELSE [ScheduleRecheck([r EXCEPT !.recheck = TRUE], FALSE) EXCEPT !.recheck = TRUE]

UpdateDelivered ==
  /\ access.update.phase = "result"
  /\ LET q == [access EXCEPT !.update.phase = "finished"]
         u == access.update
         current == ~u.cancelled /\ u.gen = q.gen
     IN  access' = IF current /\ u.how = "failed" /\ q.tries < 3
                   THEN QueueRetry([q EXCEPT !.updated = IF @ = u.gen THEN 0 ELSE @], u.gen)
                   ELSE IF current /\ u.how = "changed" THEN Invalidate(q)
                   ELSE q

\* Its slot runs before the one that gives the gate back.
UpdateFinished ==
  /\ access.update.phase = "finished"
  /\ LET q == [access EXCEPT !.update = NoUpdate, !.next = 0]
     IN  access' = IF access.next # 0 /\ access.next = q.gen
                   THEN [q EXCEPT !.resume = access.next]
                   ELSE IF q.retry # 0 THEN q
                   ELSE [ResumeUnless(ResumeRecheck(q), TRUE) EXCEPT !.release = TRUE]

\* _resume_acbridge_update: the update of the connection that came meanwhile.
ResumeUpdate ==
  /\ access.resume # 0
  /\ LET g == access.resume
         q == [access EXCEPT !.resume = 0]
     IN  access' = IF Schedules(q, g) THEN ScheduleUpdate(q, g) ELSE ResumeRecheck(q)

ReleaseUpdate ==
  /\ access.release
  /\ access' = [access EXCEPT !.release = FALSE,
                              !.updateBusy = IF UpdatePending(access) THEN @ ELSE FALSE]

-----------------------------------------------------------------------------
(* The privilege worker *)

\* A status is stored by the worker, while its lease and its device are current.
CheckEnds ==
  /\ access.check.phase = "running"
  /\ \E how \in {"ready", "denied", "error"} :
       LET c == access.check
           stored == /\ how # "error" /\ ~c.cancelled
                     /\ c.gen = access.gen /\ c.lease = access.lease
       IN  access' = [access EXCEPT !.check.phase = "result",
                                    !.check.how = IF stored THEN how ELSE "error",
                                    !.cached = IF stored THEN how ELSE @]

\* _privilege_operation_result: an answer of the handshake settles this connection.
CheckDelivered ==
  /\ access.check.phase = "result"
  /\ LET q == [access EXCEPT !.check.phase = "finished"]
         c == access.check
     IN  access' = IF /\ ~c.cancelled /\ c.gen = q.gen /\ c.how # "error"
                      /\ c.kind = "automatic" /\ q.inflight = c.gen
                   THEN [q EXCEPT !.inflight = 0, !.done = c.gen, !.attempts = 0,
                                  !.recheck = FALSE]
                   ELSE q

\* Mutant: a handshake without an answer is tried again every time.
HandshakeRepeats(q) ==
  IF q.check.kind # "automatic" \/ q.inflight # q.check.gen THEN q
  ELSE IF q.mode # "shizuku" \/ q.check.gen # q.gen THEN [q EXCEPT !.inflight = 0]
  ELSE [q EXCEPT !.inflight = 0, !.shizuku = q.gen, !.recheck = TRUE, !.starts = q.gen]

\* A handshake without an answer is tried once more, then given up.
HandshakeEnds(q) ==
  IF q.check.kind # "automatic" \/ q.inflight # q.check.gen THEN q
  ELSE IF q.mode # "shizuku" \/ q.check.gen # q.gen THEN [q EXCEPT !.inflight = 0]
  ELSE IF q.attempts < 2
  THEN [q EXCEPT !.inflight = 0, !.shizuku = q.gen, !.recheck = TRUE, !.starts = q.gen]
  ELSE [q EXCEPT !.inflight = 0, !.done = q.gen, !.attempts = 0, !.recheck = FALSE]

\* The last part of _privilege_operation_finished: are the pages free again?
BarrierEnds(q, automatic) ==
  IF automatic \/ q.waits
  THEN IF \/ ShizukuPending(q) \/ q.drainTimer \/ Draining(q)
          \/ q.waits /\ (q.recheck \/ q.recheckTimer)
       THEN [q EXCEPT !.autoBusy = @ \/ ShizukuPending(q), !.barrierBusy = @ \/ q.waits]
       ELSE ResumeFeatures([q EXCEPT !.waits = FALSE, !.barrierBusy = FALSE,
                                     !.autoBusy = FALSE])
  ELSE IF q.wanted # {} /\ Usable(q) THEN ResumeFeatures(q)
  ELSE q

CheckFinished ==
  /\ access.check.phase = "finished"
  /\ LET q == [HandshakeEnds(access) EXCEPT !.check = NoCheck, !.drainTimer = Draining(access)]
         r == IF q.recheck /\ ~Draining(q) THEN ScheduleRecheck(q, FALSE) ELSE q
     IN  access' = BarrierEnds(r, access.check.kind = "automatic")

-----------------------------------------------------------------------------
(* The device, the mode, the pages *)

\* _on_device_refreshed for another connection (gen is its generation), or for none.
Connect(p, adb) ==
  LET new     == [p EXCEPT !.adb = adb, !.tries = 0,
                           !.update.cancelled = @ \/ p.update.phase # "none",
                           !.check.cancelled = @ \/ p.check.phase # "none"]
      pending == adb /\ Schedules(new, new.gen)
      q       == IF adb THEN ScheduleUpdate(new, new.gen) ELSE new
      drain   == q.check.phase # "none" \/ Draining(q) \/ (q.drainTimer /\ q.waits)
      reset   == [q EXCEPT !.done = 0, !.attempts = 0, !.cached = "none",
                           !.waits = drain, !.barrierBusy = drain]
      r       == IF adb /\ q.mode # "standard" THEN ScheduleRecheck(reset, pending)
                 ELSE [ClearShizuku(reset) EXCEPT
                         !.recheck = FALSE,
                         !.inflight = IF drain THEN @ ELSE 0,
                         !.autoBusy = IF drain THEN @ ELSE FALSE]
  IN  IF ~adb \/ r.page # "apps" THEN r
      ELSE IF pending \/ ShizukuPending(r) THEN [r EXCEPT !.wanted = @ \cup {"apps"}]
      ELSE RefreshFeature(r, "apps")

Reconnect ==
  /\ Inputs < MaxInputs
  /\ \E adb \in BOOLEAN : /\ adb \/ access.adb
                          /\ access' = Connect([access EXCEPT !.gen = @ + 1], adb)

\* _on_device_refreshed for the connection that is known.
PollConnection ==
  /\ access.adb
  /\ access' = ScheduleUpdate(access, access.gen)

\* _settings_changed in another mode, where drain tells whether work of the outgoing
\* mode is still there.
Switched(shown, drain) ==
  LET gated == IF drain THEN [shown EXCEPT !.waits = TRUE, !.barrierBusy = TRUE,
                                           !.drainTimer = TRUE] ELSE shown
      q     == IF shown.mode = "shizuku" THEN gated
               ELSE [ClearShizuku(gated) EXCEPT !.recheck = FALSE,
                       !.inflight = IF drain THEN @ ELSE 0,
                       !.autoBusy = IF drain THEN @ ELSE FALSE]
      check == [q EXCEPT !.waits = TRUE, !.barrierBusy = TRUE]
  IN  IF q.adb /\ q.mode # "standard"
      THEN IF drain THEN [check EXCEPT !.recheck = TRUE] ELSE ScheduleRecheck(check, FALSE)
      ELSE IF drain THEN q
      ELSE ResumeFeatures([ClearShizuku(q) EXCEPT !.recheck = FALSE, !.inflight = 0,
                             !.waits = FALSE, !.barrierBusy = FALSE, !.autoBusy = FALSE])

\* The workers of the outgoing mode are cancelled and their statuses forgotten.
InMode(mode) ==
  [access EXCEPT !.mode = mode, !.lease = @ + 1,
                 !.feature = IF @ = "leased" THEN "blocker" ELSE @,
                 !.wanted = IF access.adb THEN @ \cup {"apps"} ELSE @ \ {"apps"},
                 !.check.cancelled = @ \/ access.check.phase # "none",
                 !.cached = "none", !.done = 0, !.attempts = 0]

\* Mutant: the pages wait for the privilege worker alone.
SelectModeAtOnce ==
  /\ Inputs < MaxInputs
  /\ \E mode \in AccessModes \ {access.mode} :
       LET shown == InMode(mode) IN access' = Switched(shown, shown.check.phase # "none")

SelectMode ==
  /\ Inputs < MaxInputs
  /\ \E mode \in AccessModes \ {access.mode} :
       LET shown == InMode(mode)
       IN  access' = Switched(shown, shown.check.phase # "none" \/ Draining(shown))

\* _on_page_changed
OpenPage ==
  \E page \in (Features \cup {"other"}) \ {access.page} :
    LET q == [access EXCEPT !.page = page]
    IN  access' = IF page = "other" THEN q
                  ELSE IF ShizukuPending(q) \/ UpdatePending(q) \/ q.waits
                  THEN [q EXCEPT !.wanted = @ \cup {page}]
                  ELSE IF page \in q.wanted THEN DispatchFeature(q, page)
                  ELSE IF page = "apps" /\ Usable(q) THEN RefreshFeature(q, page)
                  ELSE q

Dispatch ==
  /\ access.dispatch # "none"
  /\ access' = DispatchFeature([access EXCEPT !.dispatch = "none"], access.dispatch)

\* Work the user starts on an enabled page, with the lease of the mode or, for a
\* direct transfer, without one.
UseFeature ==
  /\ ~PagesBusy(access) /\ access.adb
  /\ access.feature = "none" /\ CanCheck(access)
  /\ \E kind \in {"leased", "plain"} : access' = [access EXCEPT !.feature = kind]

FeatureEnds ==
  /\ access.feature # "none"
  /\ access' = [access EXCEPT !.feature = "none"]

\* "Check access" of the settings page.
PressCheck ==
  /\ access.adb /\ CanCheck(access)
  /\ ~access.barrierBusy /\ ~access.autoBusy
  /\ Inputs < MaxInputs
  /\ access' = StartCheck([access EXCEPT !.presses = @ + 1], "manual")

AccessTimers ==
  \/ StartShizuku \/ RunRecheck \/ CheckDrain \/ RetryUpdate \/ ResumeUpdate
  \/ ReleaseUpdate \/ Dispatch

AccessWorkers ==
  \/ UpdateEnds \/ UpdateDelivered \/ UpdateFinished
  \/ CheckEnds \/ CheckDelivered \/ CheckFinished \/ FeatureEnds

AccessNext ==
  \/ AccessTimers \/ AccessWorkers
  \/ Reconnect \/ PollConnection \/ SelectMode \/ OpenPage \/ UseFeature \/ PressCheck

\* The window opens without a device, or finds one at once.
AccessInit ==
  \E mode \in AccessModes :
    access \in {FreshAccess(mode), Connect(FreshAccess(mode), TRUE)}
AccessSpec == AccessInit /\ [][AccessNext]_access

-----------------------------------------------------------------------------
(* Properties *)

\* "Gate every privilege entry point while an old backend drains": the device pages
\* are disabled while a worker of the outgoing mode or the automatic handshake of this
\* connection still runs, so that no page can race it.
PagesWaitForTheMode ==
  /\ Draining(access) /\ access.adb => PagesBusy(access)
  /\ (access.check.kind = "automatic" /\ access.check.phase = "running"
      /\ ~access.check.cancelled) => PagesBusy(access)

\* The two orders after which nobody enables the pages: a check ends before a retry of
\* the recheck is due; a recheck that an update put off runs between two of its attempts.
LeftRaised ==
  /\ access.check.phase = "finished"
  /\ \/ access.recheckTimer
     \/ /\ access.barrierBusy \/ access.autoBusy
        /\ ~access.waits /\ access.check.kind # "automatic"
==============================================================================
