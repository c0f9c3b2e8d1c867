----------------------------- MODULE PagesProofs -----------------------------
(***************************************************************************)
(* Proofs about the three page models AccessWork, AppWork and FileManager, *)
(* each on its own: for any number of reconnections and selections, and    *)
(* for any devices, applications, backups and folders.                     *)
(*                                                                         *)
(* The handlers of a page are long, and most of what they call moves only  *)
(* flags and timers.  So each part first says which changes no property    *)
(* can see (Keeps, Quiet, Alike), shows that such changes compose and keep *)
(* the invariant, and places every helper of the page among them.  What    *)
(* remains are the steps the properties are about: a check that starts or  *)
(* ends, an application that is removed, work that is woken.               *)
(*                                                                         *)
(* The properties are not inductive.  Pages stay disabled only because the *)
(* two flags that disable them are never lowered early (BusyInv).  An      *)
(* uninstall has its backup only because the label behind the backup step  *)
(* is reached with one (WorkInv), and a list of backups is of its profile  *)
(* only because the result of a scan was (ScanInv).  Waiting work is woken *)
(* only because no dialog, action or transfer overlaps it (ButtonInv).     *)
(***************************************************************************)
EXTENDS AccessWork, AppWork, FileManager, TLAPS

-----------------------------------------------------------------------------
\* AccessWork.  The records `access` ranges over.
Updates ==
  [phase : {"none", "running", "result", "finished"}, gen : Nat, cancelled : BOOLEAN,
   how : {"none", "fine", "changed", "failed"}]
Checks ==
  [phase : {"none", "running", "result", "finished"},
   kind : {"none", "automatic", "check", "manual"}, gen : Nat, lease : Nat,
   cancelled : BOOLEAN, how : {"none", "ready", "denied", "error"}]
FeatureWork == {"none", "leased", "plain", "blocker"}
Shown == Features \cup {"other"}
Dispatches == Features \cup {"none"}
Cached == {"none", "ready", "denied"}

AccessStates ==
  [gen : Nat \ {0}, adb : BOOLEAN, mode : AccessModes, lease : Nat, page : Shown,
   wanted : SUBSET Features, update : Updates, updated : Nat, retry : Nat, next : Nat,
   tries : Nat, resume : Nat, release : BOOLEAN, shizuku : Nat, starts : Nat,
   inflight : Nat, done : Nat, attempts : Nat, check : Checks, recheck : BOOLEAN,
   recheckTimer : BOOLEAN, drainTimer : BOOLEAN, waits : BOOLEAN, dispatch : Dispatches,
   cached : Cached, feature : FeatureWork, autoBusy : BOOLEAN, barrierBusy : BOOLEAN,
   updateBusy : BOOLEAN, presses : Nat]

\* The automatic handshake of a connection is under way.
AutoRuns(q) ==
  q.check.kind = "automatic" /\ q.check.phase = "running" /\ ~q.check.cancelled

\* What disables the pages is raised as long as it has to be: `barrierBusy` while a
\* worker of the outgoing mode drains, `autoBusy` while the automatic handshake runs.
\* The last conjunct is why nobody lowers `autoBusy` too early: a connection whose
\* handshake is done has no start of one on record.
BusyInv(q) ==
  /\ Draining(q) /\ q.adb => q.barrierBusy
  /\ AutoRuns(q) => q.autoBusy
  /\ AutoRuns(q) /\ q.done = q.gen => q.starts # q.gen

\* The inductive invariant of AccessWork.
AccessInv == access \in AccessStates /\ BusyInv(access)

\* What the helpers of a handler may change: never the connection, the mode or the
\* check, and a raised flag stays raised.
Keeps(q, r) ==
  /\ r.gen = q.gen /\ r.adb = q.adb /\ r.mode = q.mode /\ r.check = q.check
  /\ r.done = q.done
  /\ r.feature = "blocker" => q.feature = "blocker"
  /\ q.barrierBusy => r.barrierBusy
  /\ q.autoBusy => r.autoBusy
  /\ r.starts = q.starts \/ r.starts = 0 \/ (r.starts = q.gen /\ q.done # q.gen)

\* A helper that keeps this much keeps the invariant.
LEMMA KeepsInv ==
  ASSUME NEW q \in AccessStates, NEW r \in AccessStates, BusyInv(q), Keeps(q, r)
  PROVE  BusyInv(r)
<1>1. q.gen # 0
  BY DEF AccessStates
<1> QED BY <1>1 DEF BusyInv, Keeps, AutoRuns, Draining

\* Helpers may be composed.
LEMMA KeepsTrans ==
  ASSUME NEW q \in AccessStates, NEW r \in AccessStates, NEW s \in AccessStates,
         Keeps(q, r), Keeps(r, s)
  PROVE  Keeps(q, s)
  BY DEF Keeps

\* _resume_feature_refresh_after_acbridge, with and without work on the gate.
LEMMA ResumeUnlessKeeps ==
  ASSUME NEW q \in AccessStates, NEW conflict \in BOOLEAN
  PROVE  ResumeUnless(q, conflict) \in AccessStates /\ Keeps(q, ResumeUnless(q, conflict))
<1>0. q.page \in Shown
  BY DEF AccessStates
<1>1. CASE FeatureWaits(q, q.page)
  BY <1>1 DEF ResumeUnless, Keeps
<1>2. CASE ~FeatureWaits(q, q.page) /\ q.page = "apps" /\ conflict
  BY ZenonT(60), <1>2 DEF ResumeUnless, Keeps, AccessStates
<1>3. CASE ~FeatureWaits(q, q.page) /\ ~(q.page = "apps" /\ conflict)
  <2>1. q.page \in Dispatches
    BY <1>3 DEF FeatureWaits, AccessStates, Dispatches
  <2> QED BY <1>3, <2>1 DEF ResumeUnless, Keeps, AccessStates
<1> QED BY <1>1, <1>2, <1>3

LEMMA ResumeFeaturesKeeps ==
  ASSUME NEW q \in AccessStates
  PROVE  ResumeFeatures(q) \in AccessStates /\ Keeps(q, ResumeFeatures(q))
<1>1. Conflict(q) \in BOOLEAN
  BY DEF Conflict
<1> QED BY <1>1, ResumeUnlessKeeps DEF ResumeFeatures

\* The refresh of a page that needs the mode.
LEMMA RefreshFeatureKeeps ==
  ASSUME NEW q \in AccessStates, NEW f \in Features
  PROVE  RefreshFeature(q, f) \in AccessStates /\ Keeps(q, RefreshFeature(q, f))
<1> DEFINE w == q.wanted \cup {f}
<1>1. w \in SUBSET Features /\ "leased" \in FeatureWork
  BY DEF AccessStates, FeatureWork
<1>2. RefreshFeature(q, f) \in {q, [q EXCEPT !.wanted = w], [q EXCEPT !.feature = "leased"]}
  BY DEF RefreshFeature
<1> HIDE DEF w
<1>3. /\ [q EXCEPT !.wanted = w] \in AccessStates /\ Keeps(q, [q EXCEPT !.wanted = w])
  BY <1>1 DEF Keeps, AccessStates
<1>4. /\ [q EXCEPT !.feature = "leased"] \in AccessStates
      /\ Keeps(q, [q EXCEPT !.feature = "leased"])
  BY <1>1 DEF Keeps, AccessStates
<1>5. Keeps(q, q)
  BY DEF Keeps
<1> QED BY <1>2, <1>3, <1>4, <1>5

\* A page asked for while the mode is not verified waits for it.
LEMMA DispatchFeatureKeeps ==
  ASSUME NEW q \in AccessStates, NEW f \in Features
  PROVE  DispatchFeature(q, f) \in AccessStates /\ Keeps(q, DispatchFeature(q, f))
<1>1. CASE FeatureWaits(q, f)
  BY <1>1 DEF DispatchFeature, Keeps
<1>2. CASE ~FeatureWaits(q, f) /\ f = "apps" /\ Conflict(q)
  BY ZenonT(60), <1>2 DEF DispatchFeature, Keeps, AccessStates
<1>3. CASE ~FeatureWaits(q, f) /\ ~(f = "apps" /\ Conflict(q))
  <2> DEFINE w == q.wanted \ {f}
             r == [q EXCEPT !.wanted = w]
  <2>1. w \in SUBSET Features
    BY DEF AccessStates
  <2>2. DispatchFeature(q, f) = RefreshFeature(r, f)
    BY <1>3 DEF DispatchFeature
  <2> HIDE DEF w
  <2>3. r \in AccessStates /\ Keeps(q, r)
    BY <2>1 DEF Keeps, AccessStates
  <2> HIDE DEF r
  <2> QED BY <2>2, <2>3, RefreshFeatureKeeps, KeepsTrans
<1> QED BY <1>1, <1>2, <1>3

\* A start of the Shizuku handshake that is taken back.
LEMMA ClearShizukuKeeps ==
  ASSUME NEW q \in AccessStates
  PROVE  /\ ClearShizuku(q) \in AccessStates /\ Keeps(q, ClearShizuku(q))
         /\ \A key \in Nat : /\ ClearShizukuOf(q, key) \in AccessStates
                             /\ Keeps(q, ClearShizukuOf(q, key))
<1>1. ClearShizuku(q) \in AccessStates /\ Keeps(q, ClearShizuku(q))
  BY ZenonT(60) DEF ClearShizuku, Keeps, AccessStates
<1>2. ASSUME NEW key \in Nat
      PROVE  ClearShizukuOf(q, key) \in AccessStates /\ Keeps(q, ClearShizukuOf(q, key))
  <2> DEFINE s == IF q.shizuku = key THEN 0 ELSE q.shizuku
             t == IF q.starts = key THEN 0 ELSE q.starts
  <2>1. s \in Nat /\ t \in Nat /\ t \in {0, q.starts}
    BY DEF AccessStates
  <2>2. ClearShizukuOf(q, key) \in {q, [q EXCEPT !.shizuku = s, !.starts = t]}
    BY DEF ClearShizukuOf
  <2> HIDE DEF s, t
  <2>3. /\ [q EXCEPT !.shizuku = s, !.starts = t] \in AccessStates
        /\ Keeps(q, [q EXCEPT !.shizuku = s, !.starts = t])
    BY ZenonT(60), <2>1 DEF Keeps, AccessStates
  <2>4. Keeps(q, q)
    BY DEF Keeps
  <2> QED BY <2>2, <2>3, <2>4
<1> QED BY <1>1, <1>2

\* A start of the handshake is planned once for a connection.
LEMMA ScheduleShizukuKeeps ==
  ASSUME NEW q \in AccessStates, NEW defer \in BOOLEAN
  PROVE  ScheduleShizuku(q, defer) \in AccessStates /\ Keeps(q, ScheduleShizuku(q, defer))
<1>0. q.gen \in Nat
  BY DEF AccessStates
<1>1. CASE q.done = q.gen
  <2> DEFINE r == ClearShizukuOf(q, q.gen)
  <2>1. r \in AccessStates /\ Keeps(q, r)
    BY <1>0, ClearShizukuKeeps
  <2>2. ScheduleShizuku(q, defer) \in
          {[q EXCEPT !.recheck = FALSE], [r EXCEPT !.recheck = FALSE]}
    BY <1>1 DEF ScheduleShizuku
  <2> HIDE DEF r
  <2>3. [q EXCEPT !.recheck = FALSE] \in AccessStates /\ Keeps(q, [q EXCEPT !.recheck = FALSE])
    BY ZenonT(60) DEF Keeps, AccessStates
  <2>4. [r EXCEPT !.recheck = FALSE] \in AccessStates /\ Keeps(r, [r EXCEPT !.recheck = FALSE])
    BY ZenonT(60), <2>1 DEF Keeps, AccessStates
  <2> QED BY <2>1, <2>2, <2>3, <2>4, KeepsTrans
<1>2. CASE q.done # q.gen
  <2> DEFINE t == IF defer \/ UpdatePending(q) THEN q.starts ELSE q.gen
  <2>1. t \in Nat /\ t \in {q.starts, q.gen}
    BY DEF AccessStates
  <2>2. ScheduleShizuku(q, defer) =
          [q EXCEPT !.shizuku = q.gen, !.recheck = TRUE, !.autoBusy = TRUE, !.starts = t]
    BY <1>2 DEF ScheduleShizuku, AccessStates
  <2> DEFINE r == ScheduleShizuku(q, defer)
  <2> HIDE DEF t
  <2>3. r \in AccessStates
    <3>1. \A g \in Nat, n \in Nat :
            [q EXCEPT !.shizuku = g, !.recheck = TRUE, !.autoBusy = TRUE, !.starts = n]
              \in AccessStates
      BY ZenonT(60) DEF AccessStates
    <3> QED BY <1>0, <2>1, <2>2, <3>1
  <2>4. /\ r.gen = q.gen /\ r.adb = q.adb /\ r.mode = q.mode /\ r.check = q.check
        /\ r.done = q.done /\ r.feature = q.feature /\ r.barrierBusy = q.barrierBusy
        /\ r.autoBusy = TRUE /\ r.starts = t
    BY <2>2 DEF AccessStates
  <2> HIDE DEF r
  <2>5. Keeps(q, r)
    BY <1>2, <2>1, <2>4 DEF Keeps
  <2> QED BY <2>3, <2>5 DEF r
<1> QED BY <1>1, <1>2

\* A recheck is planned, or put off.
LEMMA ScheduleRecheckKeeps ==
  ASSUME NEW q \in AccessStates, NEW defer \in BOOLEAN
  PROVE  ScheduleRecheck(q, defer) \in AccessStates /\ Keeps(q, ScheduleRecheck(q, defer))
<1>1. CASE q.mode = "standard" \/ ~q.adb
  <2> DEFINE r == [q EXCEPT !.recheck = FALSE]
  <2>1. r \in AccessStates /\ Keeps(q, r)
    BY ZenonT(60) DEF Keeps, AccessStates
  <2>2. ScheduleRecheck(q, defer) = ClearShizuku(r)
    BY <1>1 DEF ScheduleRecheck
  <2> HIDE DEF r
  <2> QED BY <2>1, <2>2, ClearShizukuKeeps, KeepsTrans
<1>2. CASE ~(q.mode = "standard" \/ ~q.adb) /\ q.mode = "shizuku"
  BY <1>2, ScheduleShizukuKeeps DEF ScheduleRecheck
<1>3. CASE ~(q.mode = "standard" \/ ~q.adb) /\ q.mode # "shizuku"
  BY ZenonT(60), <1>3 DEF ScheduleRecheck, Keeps, AccessStates
<1> QED BY <1>1, <1>2, <1>3

\* A recheck that was put off is resumed.
LEMMA ResumeRecheckKeeps ==
  ASSUME NEW q \in AccessStates
  PROVE  ResumeRecheck(q) \in AccessStates /\ Keeps(q, ResumeRecheck(q))
<1>1. CASE ~q.recheck
  BY <1>1 DEF ResumeRecheck, Keeps
<1>2. CASE q.recheck
  <2> DEFINE r == IF q.mode = "root" /\ q.adb
                  THEN [q EXCEPT !.waits = TRUE, !.barrierBusy = TRUE] ELSE q
  <2>1. r \in AccessStates /\ Keeps(q, r)
    BY ZenonT(60) DEF Keeps, AccessStates
  <2>2. ResumeRecheck(q) = ScheduleRecheck(r, FALSE)
    BY <1>2 DEF ResumeRecheck
  <2> HIDE DEF r
  <2> QED BY <2>1, <2>2, ScheduleRecheckKeeps, KeepsTrans
<1> QED BY <1>1, <1>2

\* A retry of the update is queued.
LEMMA QueueRetryKeeps ==
  ASSUME NEW q \in AccessStates, NEW g \in Nat
  PROVE  QueueRetry(q, g) \in AccessStates /\ Keeps(q, QueueRetry(q, g))
  BY ZenonT(60) DEF QueueRetry, Keeps, AccessStates

\* The update of the ACBridge is scheduled.
LEMMA ScheduleUpdateKeeps ==
  ASSUME NEW q \in AccessStates, NEW g \in Nat
  PROVE  ScheduleUpdate(q, g) \in AccessStates /\ Keeps(q, ScheduleUpdate(q, g))
<1>1. CASE ~Schedules(q, g)
  BY <1>1 DEF ScheduleUpdate, Keeps
<1>2. CASE Schedules(q, g) /\ q.update.phase # "none"
  <2> DEFINE n == IF q.update.gen = g THEN q.next ELSE g
  <2>1. n \in Nat
    BY DEF AccessStates
  <2>2. ScheduleUpdate(q, g) = [q EXCEPT !.updateBusy = TRUE, !.next = n]
    BY <1>2 DEF ScheduleUpdate, AccessStates
  <2> HIDE DEF n
  <2> QED BY ZenonT(60), <2>1, <2>2 DEF Keeps, AccessStates
<1>3. CASE /\ Schedules(q, g) /\ q.update.phase = "none"
           /\ q.check.phase # "none" \/ q.feature # "none"
  <2> DEFINE r == [q EXCEPT !.updateBusy = TRUE]
  <2>1. r \in AccessStates /\ Keeps(q, r)
    BY ZenonT(60) DEF Keeps, AccessStates
  <2>2. ScheduleUpdate(q, g) = QueueRetry(r, g)
    BY <1>3 DEF ScheduleUpdate
  <2> HIDE DEF r
  <2> QED BY <2>1, <2>2, QueueRetryKeeps, KeepsTrans
<1>4. CASE /\ Schedules(q, g) /\ q.update.phase = "none"
           /\ ~(q.check.phase # "none" \/ q.feature # "none")
  <2> DEFINE n == q.tries + 1
             u == [NoUpdate EXCEPT !.phase = "running", !.gen = g]
  <2>0. u \in Updates
    BY DEF NoUpdate, Updates
  <2>1. n \in Nat /\ u \in Updates
    <3>1. q.tries \in Nat
      BY DEF AccessStates
    <3> QED BY <2>0, <3>1
  <2>2. ScheduleUpdate(q, g) = [q EXCEPT !.updateBusy = TRUE, !.updated = g, !.retry = 0,
                                         !.tries = n, !.update = u]
    BY <1>4 DEF ScheduleUpdate, AccessStates
  <2> HIDE DEF n, u
  <2> DEFINE r == [q EXCEPT !.updateBusy = TRUE, !.updated = g, !.retry = 0,
                            !.tries = n, !.update = u]
  <2>3. r \in AccessStates
    BY ZenonT(60), <2>1 DEF AccessStates
  <2>4. Keeps(q, r)
    BY DEF Keeps, AccessStates
  <2> QED BY <2>2, <2>3, <2>4
<1> QED BY <1>1, <1>2, <1>3, <1>4

\* The handshake of a connection may be due again; the one that runs goes on.
LEMMA InvalidateKeeps ==
  ASSUME NEW q \in AccessStates, BusyInv(q)
  PROVE  Invalidate(q) \in AccessStates /\ BusyInv(Invalidate(q))
<1> DEFINE d == IF q.mode = "shizuku" THEN 0 ELSE q.done
           a == IF q.mode = "shizuku" THEN 0 ELSE q.attempts
           r == [q EXCEPT !.cached = "none", !.done = d, !.attempts = a]
           s == [r EXCEPT !.recheck = TRUE]
           t == ScheduleRecheck(s, FALSE)
<1>1. d \in Nat /\ a \in Nat /\ (d = q.done \/ d = 0) /\ q.gen # 0
  BY DEF AccessStates
<1>2. /\ Invalidate(q) = IF q.mode = "standard" THEN r ELSE [t EXCEPT !.recheck = TRUE]
  BY DEF Invalidate, AccessStates
<1> HIDE DEF d, a
<1>3. r \in AccessStates
  BY ZenonT(60), <1>1 DEF AccessStates, Cached
<1>4. BusyInv(r)
  <2>1. /\ r.check = q.check /\ r.feature = q.feature /\ r.adb = q.adb /\ r.gen = q.gen
        /\ r.barrierBusy = q.barrierBusy /\ r.autoBusy = q.autoBusy /\ r.starts = q.starts
        /\ r.done = d
    BY DEF AccessStates
  <2> HIDE DEF r
  <2> QED BY <1>1, <2>1 DEF BusyInv, AutoRuns, Draining
<1> HIDE DEF r
<1>5. s \in AccessStates /\ Keeps(r, s)
  BY ZenonT(60), <1>3 DEF AccessStates, Keeps
<1> HIDE DEF s
<1>6. t \in AccessStates /\ Keeps(s, t)
  BY <1>5, ScheduleRecheckKeeps
<1> HIDE DEF t
<1>7. [t EXCEPT !.recheck = TRUE] \in AccessStates /\ Keeps(t, [t EXCEPT !.recheck = TRUE])
  BY ZenonT(60), <1>6 DEF AccessStates, Keeps
<1>8. BusyInv(s)
  BY <1>3, <1>4, <1>5, KeepsInv
<1>9. BusyInv(t)
  BY <1>5, <1>6, <1>8, KeepsInv
<1>10. BusyInv([t EXCEPT !.recheck = TRUE])
  BY <1>6, <1>7, <1>9, KeepsInv
<1> QED BY <1>2, <1>3, <1>4, <1>7, <1>10

\* A check starts, of any of the three kinds.
LEMMA StartCheckType ==
  ASSUME NEW q \in AccessStates, NEW kind \in {"automatic", "check", "manual"}
  PROVE  /\ StartCheck(q, kind) \in AccessStates
         /\ StartCheck(q, kind).check.kind = kind
         /\ \A r : r = StartCheck(q, kind) =>
              /\ r.gen = q.gen /\ r.adb = q.adb /\ r.feature = q.feature /\ r.done = q.done
              /\ r.barrierBusy = q.barrierBusy /\ r.autoBusy = q.autoBusy
              /\ r.starts = q.starts
<1> DEFINE c == [NoCheck EXCEPT !.phase = "running", !.kind = kind, !.gen = q.gen,
                                !.lease = q.lease]
<1>1. c \in Checks /\ c.kind = kind
  BY DEF AccessStates, NoCheck, Checks
<1>2. StartCheck(q, kind) = [q EXCEPT !.check = c]
  BY DEF StartCheck
<1> HIDE DEF c
<1> QED BY <1>1, <1>2 DEF AccessStates

\* No automatic handshake runs, and a drain is shown.
Resting(q) == ~AutoRuns(q) /\ (Draining(q) /\ q.adb => q.barrierBusy)

\* From a state where no handshake runs the helpers lead to such a state.
LEMMA RestingInv ==
  ASSUME NEW q \in AccessStates, NEW r \in AccessStates, Resting(q), Keeps(q, r)
  PROVE  Resting(r) /\ BusyInv(r) /\ BusyInv(q)
  BY DEF Resting, Keeps, BusyInv, AutoRuns, Draining

\* The automatic handshake starts: the pages are disabled before its worker runs.
LEMMA StartShizukuKeeps ==
  ASSUME AccessInv, StartShizuku
  PROVE  AccessInv'
<1> DEFINE key == access.starts
           q   == [access EXCEPT !.starts = 0]
           n   == access.attempts + 1
           due == [q EXCEPT !.autoBusy = TRUE, !.shizuku = 0, !.recheck = FALSE,
                            !.inflight = key, !.attempts = n]
           busy == [q EXCEPT !.recheck = TRUE, !.autoBusy = TRUE, !.starts = key]
           z    == IF access.shizuku = key THEN 0 ELSE access.shizuku
           c    == access'
<1>a. access \in AccessStates /\ BusyInv(access) /\ key # 0 /\ key \in Nat
  BY DEF AccessInv, StartShizuku, AccessStates
<1>b. n \in Nat /\ z \in Nat
  BY <1>a DEF AccessStates
<1>1. q \in AccessStates /\ Keeps(access, q)
  BY <1>a DEF AccessStates, Keeps
<1>q. /\ q.gen = access.gen /\ q.adb = access.adb /\ q.check = access.check
      /\ q.done = access.done /\ q.feature = access.feature /\ q.shizuku = access.shizuku
      /\ q.barrierBusy = access.barrierBusy /\ q.autoBusy = access.autoBusy
      /\ q.attempts = access.attempts
  BY <1>a DEF AccessStates
<1>i. BusyInv(q)
  BY <1>a, <1>1, KeepsInv
<1>2. CASE q.shizuku # key \/ q.mode # "shizuku" \/ key # q.gen
  <2>1. c = [q EXCEPT !.shizuku = z]
    BY <1>2, <1>q DEF StartShizuku
  <2> HIDE DEF z, q
  <2>2. c \in AccessStates /\ Keeps(q, c)
    BY <1>1, <1>b, <2>1 DEF AccessStates, Keeps
  <2> QED BY <1>1, <1>i, <2>2, KeepsInv DEF AccessInv
<1>3. CASE ~(q.shizuku # key \/ q.mode # "shizuku" \/ key # q.gen)
  <2>g. key = access.gen
    BY <1>3, <1>q
  <2>0. BusyInv(q) /\ q \in AccessStates
    BY <1>1, <1>i
  <2>1. CASE UpdatePending(q)
    <3>1. c = q
      BY <1>3, <2>1 DEF StartShizuku
    <3> QED BY <3>1, <2>0 DEF AccessInv
  <2>b. /\ busy \in AccessStates /\ Keeps(access, busy)
        /\ [busy EXCEPT !.inflight = 0] \in AccessStates
        /\ Keeps(access, [busy EXCEPT !.inflight = 0])
    BY ZenonT(60), <1>a, <1>1, <2>g DEF AccessStates, Keeps
  <2>2. CASE ~UpdatePending(q) /\ Conflict(q)
    <3>1. c = busy
      BY <1>3, <2>2 DEF StartShizuku
    <3> HIDE DEF busy
    <3> QED BY <3>1, <1>a, <2>b, KeepsInv DEF AccessInv
  <2>3. CASE ~UpdatePending(q) /\ ~Conflict(q) /\ CanCheck(q)
    <3>1. c = StartCheck(due, "automatic")
      BY <1>3, <2>3, <1>q DEF StartShizuku
    <3>2. due \in AccessStates
      BY ZenonT(60), <1>1, <1>a, <1>b DEF AccessStates
    <3>3. /\ due.feature = access.feature /\ due.autoBusy = TRUE /\ due.starts = 0
          /\ due.gen = access.gen
      BY <1>a DEF AccessStates
    <3>4. access.feature = "none" /\ access.gen # 0
      BY <2>3, <1>q, <1>a DEF Conflict, AccessStates
    <3> HIDE DEF due, c
    <3>5. /\ c \in AccessStates /\ c.feature = "none" /\ c.autoBusy /\ c.starts = 0
          /\ c.gen # 0
      BY <3>1, <3>2, <3>3, <3>4, StartCheckType
    <3> QED BY <3>5 DEF AccessInv, BusyInv, Draining, c
  <2>4. CASE ~UpdatePending(q) /\ ~Conflict(q) /\ ~CanCheck(q) /\ q.done = key
    <3> DEFINE w == [q EXCEPT !.shizuku = 0, !.recheck = TRUE, !.inflight = 0,
                              !.autoBusy = FALSE]
    <3>1. c = ResumeFeatures(w)
      BY <1>3, <2>4 DEF StartShizuku
    <3>2. w \in AccessStates
      BY ZenonT(60), <1>1 DEF AccessStates
    <3>3. /\ w.check = access.check /\ w.feature = access.feature /\ w.adb = access.adb
          /\ w.barrierBusy = access.barrierBusy
      BY <1>a DEF AccessStates
    <3>4. ~AutoRuns(access)
      BY <1>a, <2>4, <2>g, <1>q DEF BusyInv
    <3> HIDE DEF w, c
    <3>5. Resting(w)
      BY <1>a, <3>3, <3>4 DEF Resting, AutoRuns, Draining, BusyInv
    <3>6. c \in AccessStates /\ BusyInv(c)
      BY <3>1, <3>2, <3>5, ResumeFeaturesKeeps, RestingInv
    <3> QED BY <3>6 DEF AccessInv, c
  <2>5. CASE ~UpdatePending(q) /\ ~Conflict(q) /\ ~CanCheck(q) /\ q.done # key
    <3>1. c = [busy EXCEPT !.inflight = 0]
      BY <1>3, <2>5 DEF StartShizuku
    <3> HIDE DEF busy
    <3> QED BY <3>1, <1>a, <2>b, KeepsInv DEF AccessInv
  <2> QED BY <2>1, <2>2, <2>3, <2>4, <2>5
<1> QED BY <1>2, <1>3

\* A step that keeps this much, as a step of the model.
LEMMA KeptSteps ==
  ASSUME AccessInv, NEW c \in AccessStates, access' = c, Keeps(access, c)
  PROVE  AccessInv'
<1>1. BusyInv(c)
  BY KeepsInv DEF AccessInv
<1> QED BY <1>1 DEF AccessInv

\* The timer of the recheck.
LEMMA RunRecheckKeeps ==
  ASSUME AccessInv, RunRecheck
  PROVE  AccessInv'
<1> DEFINE q == [access EXCEPT !.recheckTimer = FALSE]
           again == [q EXCEPT !.barrierBusy = TRUE, !.recheckTimer = TRUE]
           b == q.barrierBusy \/ q.waits
           go == [q EXCEPT !.recheck = FALSE, !.barrierBusy = b]
           c == access'
<1>a. access \in AccessStates /\ BusyInv(access)
  BY DEF AccessInv
<1>1. q \in AccessStates /\ Keeps(access, q)
  BY ZenonT(60), <1>a DEF AccessStates, Keeps
<1>2. again \in AccessStates /\ Keeps(access, again)
  BY ZenonT(60), <1>a DEF AccessStates, Keeps
<1>3. b \in BOOLEAN
  BY <1>1 DEF AccessStates
<1>4. \/ c \in {q, again, ScheduleRecheck(q, FALSE)}
      \/ CanCheck(q) /\ c = StartCheck(go, "check")
  BY DEF RunRecheck
<1> HIDE DEF q, again, b
<1>5. CASE c = q
  BY <1>1, <1>5, KeptSteps
<1>6. CASE c = again
  BY <1>2, <1>6, KeptSteps
<1>7. CASE c = ScheduleRecheck(q, FALSE)
  BY <1>a, <1>1, <1>7, ScheduleRecheckKeeps, KeepsTrans, KeptSteps
<1>8. CASE CanCheck(q) /\ c = StartCheck(go, "check")
  <2>1. go \in AccessStates /\ go.feature = q.feature
    BY ZenonT(60), <1>1, <1>3 DEF AccessStates
  <2>2. q.feature = "none"
    BY <1>8 DEF CanCheck, Conflict
  <2> HIDE DEF go, c
  <2>3. c \in AccessStates /\ c.feature = "none" /\ c.check.kind = "check"
    BY <1>8, <2>1, <2>2, StartCheckType
  <2> QED BY <2>3 DEF AccessInv, BusyInv, Draining, AutoRuns, c
<1> QED BY <1>4, <1>5, <1>6, <1>7, <1>8

\* The timer that waits for the outgoing worker.
LEMMA CheckDrainKeeps ==
  ASSUME AccessInv, CheckDrain
  PROVE  AccessInv'
<1> DEFINE q == [access EXCEPT !.drainTimer = FALSE]
           b == [access EXCEPT !.barrierBusy = TRUE]
           w == [q EXCEPT !.waits = FALSE, !.barrierBusy = FALSE, !.autoBusy = FALSE]
           c == access'
<1>a. access \in AccessStates /\ BusyInv(access)
  BY DEF AccessInv
<1>1. q \in AccessStates /\ Keeps(access, q)
  BY ZenonT(60), <1>a DEF AccessStates, Keeps
<1>2. b \in AccessStates /\ Keeps(access, b)
  BY ZenonT(60), <1>a DEF AccessStates, Keeps
<1>3. \/ c \in {access, b, ScheduleRecheck(q, FALSE)}
      \/ c = ResumeFeatures(w) /\ ~(q.check.phase # "none" \/ Draining(q))
  BY DEF CheckDrain
<1>4. CASE c = access
  BY <1>4, <1>a DEF AccessInv
<1>5. CASE c = b
  <2> HIDE DEF b
  <2> QED BY <1>2, <1>5, KeptSteps
<1>6. CASE c = ScheduleRecheck(q, FALSE)
  <2> HIDE DEF q
  <2> QED BY <1>a, <1>1, <1>6, ScheduleRecheckKeeps, KeepsTrans, KeptSteps
<1>7. CASE c = ResumeFeatures(w) /\ ~(q.check.phase # "none" \/ Draining(q))
  <2>1. w \in AccessStates /\ w.check = q.check /\ w.feature = q.feature
    BY ZenonT(60), <1>1 DEF AccessStates
  <2> HIDE DEF w, c
  <2>2. Resting(w)
    BY <1>7, <2>1 DEF Resting, AutoRuns, Draining
  <2>3. c \in AccessStates /\ BusyInv(c)
    BY <1>7, <2>1, <2>2, ResumeFeaturesKeeps, RestingInv
  <2> QED BY <2>3 DEF AccessInv, c
<1> QED BY <1>3, <1>4, <1>5, <1>6, <1>7

\* The steps of the ACBridge update.
LEMMA UpdateStepsKeep ==
  ASSUME AccessInv,
         \/ RetryUpdate \/ UpdateEnds \/ UpdateDelivered \/ UpdateFinished
         \/ ResumeUpdate \/ ReleaseUpdate
  PROVE  AccessInv'
<1> DEFINE c == access'
<1>a. access \in AccessStates /\ BusyInv(access)
  BY DEF AccessInv
<1>n. access.retry \in Nat /\ access.resume \in Nat /\ access.next \in Nat
      /\ access.update \in Updates /\ access.gen \in Nat
  BY <1>a DEF AccessStates
<1>1. CASE RetryUpdate
  <2> DEFINE g == access.retry
             q == [access EXCEPT !.retry = 0]
             r == ResumeRecheck(q)
  <2>1. q \in AccessStates /\ Keeps(access, q)
    BY <1>a DEF AccessStates, Keeps
  <2>2. c \in {[q EXCEPT !.release = TRUE], ScheduleUpdate(q, g), [r EXCEPT !.release = TRUE]}
    BY <1>1 DEF RetryUpdate
  <2> HIDE DEF q, c
  <2>3. r \in AccessStates /\ Keeps(q, r)
    BY <2>1, ResumeRecheckKeeps
  <2> HIDE DEF r
  <2>4. /\ [q EXCEPT !.release = TRUE] \in AccessStates
        /\ [r EXCEPT !.release = TRUE] \in AccessStates
        /\ Keeps(q, [q EXCEPT !.release = TRUE]) /\ Keeps(r, [r EXCEPT !.release = TRUE])
    BY ZenonT(60), <2>1, <2>3 DEF AccessStates, Keeps
  <2>5. ScheduleUpdate(q, g) \in AccessStates /\ Keeps(q, ScheduleUpdate(q, g))
    BY <1>n, <2>1, ScheduleUpdateKeeps
  <2>6. c \in AccessStates /\ (Keeps(q, c) \/ Keeps(r, c))
    BY <2>2, <2>4, <2>5
  <2>7. Keeps(access, c)
    BY <1>a, <2>1, <2>3, <2>6, KeepsTrans
  <2> QED BY <2>6, <2>7, KeptSteps DEF c
<1>2. CASE UpdateEnds
  <2>1. PICK how \in {"fine", "changed", "failed"} :
          c = [access EXCEPT !.update = [access.update EXCEPT !.phase = "result", !.how = how]]
    BY ZenonT(60), <1>2, <1>a DEF UpdateEnds, AccessStates
  <2> DEFINE u == [access.update EXCEPT !.phase = "result", !.how = how]
  <2>2. u \in Updates
    BY <1>n DEF Updates
  <2>3. c = [access EXCEPT !.update = u]
    BY <2>1
  <2> HIDE DEF u
  <2>4. c \in AccessStates /\ Keeps(access, c)
    BY <1>a, <2>2, <2>3 DEF AccessStates, Keeps
  <2> QED BY <2>4, KeptSteps
<1>3. CASE UpdateDelivered
  <2> DEFINE u == [access.update EXCEPT !.phase = "finished"]
             q == [access EXCEPT !.update = u]
             g == access.update.gen
             d == IF q.updated = g THEN 0 ELSE q.updated
             r == [q EXCEPT !.updated = d]
  <2>1. u \in Updates /\ g \in Nat
    BY <1>n DEF Updates
  <2>2. c \in {q, QueueRetry(r, g), Invalidate(q)}
    <3>1. q = [access EXCEPT !.update.phase = "finished"]
      BY <1>a DEF AccessStates
    <3>2. r = [q EXCEPT !.updated = IF @ = g THEN 0 ELSE @]
      BY <1>a DEF AccessStates
    <3> QED BY <1>3, <3>1, <3>2 DEF UpdateDelivered
  <2> HIDE DEF u
  <2>3. q \in AccessStates /\ Keeps(access, q)
    BY <1>a, <2>1 DEF AccessStates, Keeps
  <2>4. d \in Nat
    BY <2>3 DEF AccessStates
  <2> HIDE DEF q, d, c, g
  <2>5. r \in AccessStates /\ Keeps(q, r)
    BY <2>3, <2>4 DEF AccessStates, Keeps
  <2> HIDE DEF r
  <2>6. CASE c = q
    BY <2>3, <2>6, KeptSteps DEF c
  <2>7. CASE c = QueueRetry(r, g)
    <3>1. c \in AccessStates /\ Keeps(r, c)
      BY <2>1, <2>5, <2>7, QueueRetryKeeps
    <3>2. Keeps(access, c)
      BY <1>a, <2>3, <2>5, <3>1, KeepsTrans
    <3> QED BY <3>1, <3>2, KeptSteps DEF c
  <2>8. CASE c = Invalidate(q)
    <3>1. BusyInv(q)
      BY <1>a, <2>3, KeepsInv
    <3>2. c \in AccessStates /\ BusyInv(c)
      BY <2>3, <2>8, <3>1, InvalidateKeeps
    <3> QED BY <3>2 DEF AccessInv, c
  <2> QED BY <2>2, <2>6, <2>7, <2>8
<1>4. CASE UpdateFinished
  <2> DEFINE q == [access EXCEPT !.update = NoUpdate, !.next = 0]
             n == access.next
             r == ResumeRecheck(q)
             f == ResumeUnless(r, TRUE)
  <2>0. NoUpdate \in Updates
    BY DEF NoUpdate, Updates
  <2>1. q \in AccessStates /\ Keeps(access, q)
    BY ZenonT(60), <1>a, <2>0 DEF AccessStates, Keeps
  <2>2. c \in {q, [q EXCEPT !.resume = n], [f EXCEPT !.release = TRUE]}
    BY <1>4 DEF UpdateFinished
  <2> HIDE DEF q, c, n
  <2>3. r \in AccessStates /\ Keeps(q, r)
    BY <2>1, ResumeRecheckKeeps
  <2> HIDE DEF r
  <2>4. f \in AccessStates /\ Keeps(r, f)
    BY <2>3, ResumeUnlessKeeps
  <2> HIDE DEF f
  <2>5. [q EXCEPT !.resume = n] \in AccessStates /\ Keeps(q, [q EXCEPT !.resume = n])
    BY <1>n, <2>1 DEF AccessStates, Keeps, n
  <2>6. [f EXCEPT !.release = TRUE] \in AccessStates /\ Keeps(f, [f EXCEPT !.release = TRUE])
    BY ZenonT(60), <2>4 DEF AccessStates, Keeps
  <2>7. Keeps(access, r) /\ Keeps(access, f)
    BY <1>a, <2>1, <2>3, <2>4, KeepsTrans
  <2>8. c \in AccessStates /\ Keeps(access, c)
    BY <1>a, <2>1, <2>2, <2>3, <2>4, <2>5, <2>6, <2>7, KeepsTrans
  <2> QED BY <2>8, KeptSteps DEF c
<1>5. CASE ResumeUpdate
  <2> DEFINE g == access.resume
             q == [access EXCEPT !.resume = 0]
  <2>1. q \in AccessStates /\ Keeps(access, q)
    BY <1>a DEF AccessStates, Keeps
  <2>2. c \in {ScheduleUpdate(q, g), ResumeRecheck(q)}
    BY <1>5 DEF ResumeUpdate
  <2> HIDE DEF q, c
  <2>3. c \in AccessStates /\ Keeps(q, c)
    BY <1>n, <2>1, <2>2, ScheduleUpdateKeeps, ResumeRecheckKeeps
  <2>4. Keeps(access, c)
    BY <1>a, <2>1, <2>3, KeepsTrans
  <2> QED BY <2>3, <2>4, KeptSteps DEF c
<1>6. CASE ReleaseUpdate
  <2> DEFINE b == IF UpdatePending(access) THEN access.updateBusy ELSE FALSE
  <2>1. b \in BOOLEAN
    BY <1>a DEF AccessStates
  <2>2. c = [access EXCEPT !.release = FALSE, !.updateBusy = b]
    BY <1>6, <1>a DEF ReleaseUpdate, AccessStates
  <2> HIDE DEF b
  <2>3. c \in AccessStates /\ Keeps(access, c)
    BY ZenonT(60), <1>a, <2>1, <2>2 DEF AccessStates, Keeps
  <2> QED BY <2>3, KeptSteps
<1> QED BY <1>1, <1>2, <1>3, <1>4, <1>5, <1>6

\* The worker of a check ends, and its answer is delivered.
LEMMA CheckStepsKeep ==
  ASSUME AccessInv, CheckEnds \/ CheckDelivered
  PROVE  AccessInv'
<1> DEFINE c == access'
<1>a. access \in AccessStates /\ BusyInv(access)
  BY DEF AccessInv
<1>n. access.check \in Checks /\ access.check.gen \in Nat
  BY <1>a DEF AccessStates, Checks
<1>1. CASE CheckEnds
  <2>1. PICK how \in {"ready", "denied", "error"}, stored \in BOOLEAN :
          c = [access EXCEPT !.check.phase = "result",
                             !.check.how = IF stored THEN how ELSE "error",
                             !.cached = IF stored THEN how ELSE @]
          /\ (stored => how # "error")
    <3>1. PICK how \in {"ready", "denied", "error"} :
            LET k == access.check
                stored == /\ how # "error" /\ ~k.cancelled
                          /\ k.gen = access.gen /\ k.lease = access.lease
            IN  access' = [access EXCEPT !.check.phase = "result",
                                         !.check.how = IF stored THEN how ELSE "error",
                                         !.cached = IF stored THEN how ELSE @]
      BY <1>1 DEF CheckEnds
    <3> DEFINE stored == /\ how # "error" /\ ~access.check.cancelled
                         /\ access.check.gen = access.gen /\ access.check.lease = access.lease
    <3>2. stored \in BOOLEAN /\ (stored => how # "error")
      OBVIOUS
    <3>3. c = [access EXCEPT !.check.phase = "result",
                             !.check.how = IF stored THEN how ELSE "error",
                             !.cached = IF stored THEN how ELSE @]
      BY <3>1
    <3> HIDE DEF stored, c
    <3> QED BY <3>2, <3>3
  <2> DEFINE h == IF stored THEN how ELSE "error"
             k == [access.check EXCEPT !.phase = "result", !.how = h]
             v == IF stored THEN how ELSE access.cached
  <2>2. k \in Checks /\ k.phase = "result" /\ v \in Cached
    BY <1>a, <1>n, <2>1 DEF Checks, Cached, AccessStates
  <2>3. c = [access EXCEPT !.check = k, !.cached = v]
    BY <1>a, <2>1 DEF AccessStates
  <2> HIDE DEF k, v
  <2>4. /\ c \in AccessStates /\ c.check = k /\ c.feature = access.feature
        /\ c.adb = access.adb /\ c.barrierBusy = access.barrierBusy
    BY ZenonT(60), <1>a, <2>2, <2>3 DEF AccessStates
  <2> HIDE DEF c
  <2>5. BusyInv(c)
    BY <1>a, <2>2, <2>4 DEF BusyInv, AutoRuns, Draining
  <2> QED BY <2>4, <2>5 DEF AccessInv, c
<1>2. CASE CheckDelivered
  <2> DEFINE k == [access.check EXCEPT !.phase = "finished"]
             g == access.check.gen
             q == [access EXCEPT !.check = k]
             r == [q EXCEPT !.inflight = 0, !.done = g, !.attempts = 0, !.recheck = FALSE]
  <2>1. k \in Checks /\ k.phase = "finished"
    BY <1>n DEF Checks
  <2>2. c \in {q, r}
    <3>1. q = [access EXCEPT !.check.phase = "finished"]
      BY <1>a DEF AccessStates
    <3> QED BY <1>2, <3>1 DEF CheckDelivered
  <2> HIDE DEF k, g
  <2>3. q \in AccessStates /\ r \in AccessStates
    BY ZenonT(60), <1>a, <1>n, <2>1 DEF AccessStates, g
  <2>4. /\ q.check = k /\ q.feature = access.feature /\ q.adb = access.adb
        /\ q.barrierBusy = access.barrierBusy
        /\ r.check = k /\ r.feature = access.feature /\ r.adb = access.adb
        /\ r.barrierBusy = access.barrierBusy
    BY <1>a DEF AccessStates
  <2> HIDE DEF c, q, r
  <2>5. BusyInv(c)
    BY <1>a, <2>1, <2>2, <2>4 DEF BusyInv, AutoRuns, Draining
  <2> QED BY <2>2, <2>3, <2>5 DEF AccessInv, c
<1> QED BY <1>1, <1>2

\* What the end of an automatic handshake leaves.
LEMMA HandshakeEndsType ==
  ASSUME NEW q \in AccessStates
  PROVE  /\ HandshakeEnds(q) \in AccessStates
         /\ HandshakeEnds(q).feature = q.feature /\ HandshakeEnds(q).adb = q.adb
         /\ HandshakeEnds(q).barrierBusy = q.barrierBusy
<1> DEFINE a == [q EXCEPT !.inflight = 0]
           b == [q EXCEPT !.inflight = 0, !.shizuku = q.gen, !.recheck = TRUE,
                          !.starts = q.gen]
           d == [q EXCEPT !.inflight = 0, !.done = q.gen, !.attempts = 0, !.recheck = FALSE]
<1>1. HandshakeEnds(q) \in {q, a, b, d}
  BY DEF HandshakeEnds
<1>2. q.gen \in Nat
  BY DEF AccessStates
<1>3. a \in AccessStates /\ b \in AccessStates /\ d \in AccessStates
  BY ZenonT(60), <1>2 DEF AccessStates
<1>4. /\ a.feature = q.feature /\ a.adb = q.adb /\ a.barrierBusy = q.barrierBusy
      /\ b.feature = q.feature /\ b.adb = q.adb /\ b.barrierBusy = q.barrierBusy
      /\ d.feature = q.feature /\ d.adb = q.adb /\ d.barrierBusy = q.barrierBusy
  BY DEF AccessStates
<1> HIDE DEF a, b, d
<1> QED BY <1>1, <1>3, <1>4

\* The pages are enabled when a check ends, unless a drain or a new handshake keeps
\* them disabled.
LEMMA BarrierEndsRests ==
  ASSUME NEW q \in AccessStates, NEW automatic \in BOOLEAN, Resting(q)
  PROVE  BarrierEnds(q, automatic) \in AccessStates /\ BusyInv(BarrierEnds(q, automatic))
<1> DEFINE c == BarrierEnds(q, automatic)
           a == q.autoBusy \/ ShizukuPending(q)
           b == q.barrierBusy \/ q.waits
           p == [q EXCEPT !.autoBusy = a, !.barrierBusy = b]
           w == [q EXCEPT !.waits = FALSE, !.barrierBusy = FALSE, !.autoBusy = FALSE]
<1> SUFFICES c \in AccessStates /\ BusyInv(c)
  OBVIOUS
<1>1. CASE automatic \/ q.waits
  <2>1. CASE \/ ShizukuPending(q) \/ q.drainTimer \/ Draining(q)
             \/ q.waits /\ (q.recheck \/ q.recheckTimer)
    <3>1. c = p
      BY <1>1, <2>1 DEF BarrierEnds, AccessStates
    <3>2. a \in BOOLEAN /\ b \in BOOLEAN /\ (q.autoBusy => a) /\ (q.barrierBusy => b)
      BY DEF AccessStates
    <3> HIDE DEF a, b, c
    <3>3. p \in AccessStates /\ Keeps(q, p)
      BY ZenonT(60), <3>2 DEF AccessStates, Keeps
    <3> HIDE DEF p
    <3> QED BY <3>1, <3>3, RestingInv
  <2>2. CASE ~(\/ ShizukuPending(q) \/ q.drainTimer \/ Draining(q)
               \/ q.waits /\ (q.recheck \/ q.recheckTimer))
    <3>1. c = ResumeFeatures(w)
      BY <1>1, <2>2 DEF BarrierEnds
    <3>2. w \in AccessStates /\ w.check = q.check /\ w.feature = q.feature
      BY ZenonT(60) DEF AccessStates
    <3>3. ~Draining(q)
      BY <2>2
    <3> HIDE DEF w, c
    <3>4. Resting(w)
      BY <3>2, <3>3 DEF Resting, AutoRuns, Draining
    <3> QED BY <3>1, <3>2, <3>4, ResumeFeaturesKeeps, RestingInv
  <2> QED BY <2>1, <2>2
<1>2. CASE ~(automatic \/ q.waits)
  <2>1. c \in {q, ResumeFeatures(q)}
    BY <1>2 DEF BarrierEnds
  <2>2. Keeps(q, q)
    BY DEF Keeps
  <2> HIDE DEF c
  <2> QED BY <2>1, <2>2, ResumeFeaturesKeeps, RestingInv
<1> QED BY <1>1, <1>2

\* The thread of a check is gone.
LEMMA CheckFinishedKeeps ==
  ASSUME AccessInv, CheckFinished
  PROVE  AccessInv'
<1> DEFINE h == HandshakeEnds(access)
           d == Draining(access)
           q == [h EXCEPT !.check = NoCheck, !.drainTimer = d]
           r == IF q.recheck /\ ~Draining(q) THEN ScheduleRecheck(q, FALSE) ELSE q
           m == access.check.kind = "automatic"
           c == access'
<1>a. access \in AccessStates /\ BusyInv(access)
  BY DEF AccessInv
<1>1. c = BarrierEnds(r, m)
  BY DEF CheckFinished
<1>2. /\ h \in AccessStates /\ h.feature = access.feature /\ h.adb = access.adb
      /\ h.barrierBusy = access.barrierBusy
  BY <1>a, HandshakeEndsType
<1>3. NoCheck \in Checks /\ NoCheck.phase = "none" /\ d \in BOOLEAN /\ m \in BOOLEAN
  BY DEF NoCheck, Checks, Draining
<1> HIDE DEF h, d, m
<1>4. /\ q \in AccessStates /\ q.check = NoCheck /\ q.feature = access.feature
      /\ q.adb = access.adb /\ q.barrierBusy = access.barrierBusy
  BY ZenonT(60), <1>2, <1>3 DEF AccessStates
<1> HIDE DEF q
<1>5. Resting(q)
  BY <1>a, <1>3, <1>4 DEF Resting, BusyInv, AutoRuns, Draining
<1>6. r \in AccessStates /\ Resting(r)
  <2>1. Keeps(q, q)
    BY DEF Keeps
  <2>2. r \in AccessStates /\ Keeps(q, r)
    BY <1>4, <2>1, ScheduleRecheckKeeps
  <2> HIDE DEF r
  <2> QED BY <1>4, <1>5, <2>2, RestingInv
<1> HIDE DEF r
<1>7. c \in AccessStates /\ BusyInv(c)
  BY <1>1, <1>3, <1>6, BarrierEndsRests
<1> QED BY <1>7 DEF AccessInv

\* Another connection: its generation is new, and the check of the old one is
\* cancelled.
LEMMA ConnectRests ==
  ASSUME NEW p \in AccessStates, NEW adb \in BOOLEAN
  PROVE  Connect(p, adb) \in AccessStates /\ BusyInv(Connect(p, adb))
<1> DEFINE u == [p.update EXCEPT !.cancelled = @ \/ p.update.phase # "none"]
           k == [p.check EXCEPT !.cancelled = @ \/ p.check.phase # "none"]
           new == [p EXCEPT !.adb = adb, !.tries = 0,
                            !.update.cancelled = @ \/ p.update.phase # "none",
                            !.check.cancelled = @ \/ p.check.phase # "none"]
           pending == adb /\ Schedules(new, new.gen)
           q == IF adb THEN ScheduleUpdate(new, new.gen) ELSE new
           drain == q.check.phase # "none" \/ Draining(q) \/ (q.drainTimer /\ q.waits)
           reset == [q EXCEPT !.done = 0, !.attempts = 0, !.cached = "none",
                              !.waits = drain, !.barrierBusy = drain]
           cl == ClearShizuku(reset)
           i == IF drain THEN cl.inflight ELSE 0
           b == IF drain THEN cl.autoBusy ELSE FALSE
           r == IF adb /\ q.mode # "standard" THEN ScheduleRecheck(reset, pending)
                ELSE [cl EXCEPT !.recheck = FALSE, !.inflight = i, !.autoBusy = b]
           w == [r EXCEPT !.wanted = r.wanted \cup {"apps"}]
           c == Connect(p, adb)
<1> SUFFICES c \in AccessStates /\ BusyInv(c)
  OBVIOUS
<1>0. p.update \in Updates /\ p.check \in Checks
  BY DEF AccessStates
<1>1. /\ u \in Updates /\ k \in Checks
      /\ k.phase # "none" => k.cancelled
  <2>1. (p.update.cancelled \/ p.update.phase # "none") \in BOOLEAN
    OBVIOUS
  <2>2. (p.check.cancelled \/ p.check.phase # "none") \in BOOLEAN
    OBVIOUS
  <2>3. u \in Updates
    BY <1>0, <2>1 DEF Updates
  <2>4. k \in Checks
    BY <1>0, <2>2 DEF Checks
  <2>5. k.phase # "none" => k.cancelled
    BY Zenon, <1>0 DEF Checks
  <2> QED BY <2>3, <2>4, <2>5
<1>2. c = IF ~adb \/ r.page # "apps" THEN r
          ELSE IF pending \/ ShizukuPending(r) THEN w ELSE RefreshFeature(r, "apps")
  BY ZenonT(60) DEF Connect
<1>n. new = [p EXCEPT !.adb = adb, !.tries = 0, !.update = u, !.check = k]
  BY DEF AccessStates
<1> HIDE DEF u, k, c, new
<1>3. new \in AccessStates /\ new.check = k
  BY ZenonT(60), <1>1, <1>n DEF AccessStates
<1>4. new.gen \in Nat
  BY <1>3 DEF AccessStates
<1>5. q \in AccessStates /\ q.check = k
  BY <1>3, <1>4, ScheduleUpdateKeeps DEF Keeps
<1>p. pending \in BOOLEAN /\ drain \in BOOLEAN
  BY DEF Schedules
<1> HIDE DEF q, pending
<1>6. /\ Draining(q) => drain
  OBVIOUS
<1> HIDE DEF drain
<1>7. /\ reset \in AccessStates /\ reset.check = k /\ reset.feature = q.feature
      /\ reset.barrierBusy = drain
  BY ZenonT(60), <1>5, <1>p DEF AccessStates, Cached
<1> HIDE DEF reset
<1>8. Resting(reset)
  BY <1>1, <1>6, <1>7 DEF Resting, AutoRuns, Draining
<1>9. cl \in AccessStates /\ Resting(cl)
  BY <1>7, <1>8, ClearShizukuKeeps, RestingInv
<1> HIDE DEF cl
<1>10. i \in Nat /\ b \in BOOLEAN
  BY <1>9 DEF AccessStates
<1> HIDE DEF i, b
<1>11. r \in AccessStates /\ Resting(r)
  <2>1. CASE adb /\ q.mode # "standard"
    <3>1. r = ScheduleRecheck(reset, pending)
      BY <2>1
    <3> HIDE DEF r
    <3> QED BY <1>7, <1>8, <1>p, <3>1, ScheduleRecheckKeeps, RestingInv
  <2>2. CASE ~(adb /\ q.mode # "standard")
    <3>1. r = [cl EXCEPT !.recheck = FALSE, !.inflight = i, !.autoBusy = b]
      BY <2>2
    <3> HIDE DEF r
    <3>2. /\ r \in AccessStates /\ r.check = cl.check /\ r.feature = cl.feature
          /\ r.adb = cl.adb /\ r.barrierBusy = cl.barrierBusy
      BY ZenonT(60), <1>9, <1>10, <3>1 DEF AccessStates
    <3> QED BY <1>9, <3>2 DEF Resting, AutoRuns, Draining
  <2> QED BY <2>1, <2>2
<1> HIDE DEF r
<1>12. w \in AccessStates /\ Keeps(r, w)
  <2>1. r.wanted \cup {"apps"} \in SUBSET Features
    BY <1>11 DEF AccessStates, Features
  <2> QED BY <1>11, <2>1 DEF AccessStates, Keeps
<1>13. "apps" \in Features
  BY DEF Features
<1> HIDE DEF w
<1>14. RefreshFeature(r, "apps") \in AccessStates /\ Keeps(r, RefreshFeature(r, "apps"))
  BY <1>11, <1>13, RefreshFeatureKeeps
<1>15. Keeps(r, r)
  BY DEF Keeps
<1>16. c \in AccessStates /\ Keeps(r, c)
  BY <1>2, <1>11, <1>12, <1>14, <1>15
<1> QED BY <1>11, <1>16, RestingInv

\* Another mode is shown: the running check is cancelled.
LEMMA InModeRests ==
  ASSUME AccessInv, NEW mode \in AccessModes
  PROVE  LET s == InMode(mode)
         IN  s \in AccessStates /\ ~AutoRuns(s)
<1> DEFINE s == InMode(mode)
           l == access.lease + 1
           f == IF access.feature = "leased" THEN "blocker" ELSE access.feature
           w == IF access.adb THEN access.wanted \cup {"apps"} ELSE access.wanted \ {"apps"}
           k == [access.check EXCEPT !.cancelled = @ \/ access.check.phase # "none"]
<1>a. access \in AccessStates
  BY DEF AccessInv
<1>1. access.check \in Checks /\ access.lease \in Nat /\ access.wanted \subseteq Features
      /\ access.feature \in FeatureWork
  BY <1>a DEF AccessStates
<1>2. l \in Nat /\ f \in FeatureWork /\ w \in SUBSET Features
  BY <1>1 DEF FeatureWork, Features
<1>3. k \in Checks
  <2>1. (access.check.cancelled \/ access.check.phase # "none") \in BOOLEAN
    OBVIOUS
  <2> QED BY <1>1, <2>1 DEF Checks
<1>4. k.phase # "none" => k.cancelled
  BY <1>1 DEF Checks
<1>5. s = [access EXCEPT !.mode = mode, !.lease = l, !.feature = f, !.wanted = w,
                         !.check = k, !.cached = "none", !.done = 0, !.attempts = 0]
  BY <1>a DEF InMode, AccessStates
<1> HIDE DEF l, f, w, k, s
<1>6. s \in AccessStates /\ s.check = k
  BY ZenonT(60), <1>a, <1>2, <1>3, <1>5 DEF AccessStates, Cached
<1> QED BY <1>4, <1>6 DEF AutoRuns, s

\* The rest of the switch: the pages are disabled for a worker of the outgoing mode.
LEMMA SwitchedRests ==
  ASSUME NEW shown \in AccessStates, NEW drain \in BOOLEAN,
         ~AutoRuns(shown), Draining(shown) => drain
  PROVE  Switched(shown, drain) \in AccessStates /\ BusyInv(Switched(shown, drain))
<1> DEFINE gated == IF drain THEN [shown EXCEPT !.waits = TRUE, !.barrierBusy = TRUE,
                                                !.drainTimer = TRUE] ELSE shown
           cl == ClearShizuku(gated)
           i == IF drain THEN cl.inflight ELSE 0
           b == IF drain THEN cl.autoBusy ELSE FALSE
           p == [cl EXCEPT !.recheck = FALSE, !.inflight = i, !.autoBusy = b]
           q == IF shown.mode = "shizuku" THEN gated ELSE p
           check == [q EXCEPT !.waits = TRUE, !.barrierBusy = TRUE]
           again == [check EXCEPT !.recheck = TRUE]
           cq == ClearShizuku(q)
           w == [cq EXCEPT !.recheck = FALSE, !.inflight = 0,
                           !.waits = FALSE, !.barrierBusy = FALSE, !.autoBusy = FALSE]
           c == Switched(shown, drain)
<1> SUFFICES c \in AccessStates /\ BusyInv(c)
  OBVIOUS
<1>1. c = IF q.adb /\ q.mode # "standard"
          THEN IF drain THEN again ELSE ScheduleRecheck(check, FALSE)
          ELSE IF drain THEN q ELSE ResumeFeatures(w)
  BY DEF Switched
<1> HIDE DEF c
<1>2. /\ gated \in AccessStates /\ gated.check = shown.check /\ gated.feature = shown.feature
      /\ drain => gated.barrierBusy
  BY ZenonT(60) DEF AccessStates
<1> HIDE DEF gated
<1>3. Resting(gated)
  BY <1>2 DEF Resting, AutoRuns, Draining
<1>4. cl \in AccessStates /\ Resting(cl) /\ Keeps(gated, cl)
  BY <1>2, <1>3, ClearShizukuKeeps, RestingInv
<1> HIDE DEF cl
<1>5. i \in Nat /\ b \in BOOLEAN
  BY <1>4 DEF AccessStates
<1> HIDE DEF i, b
<1>6. /\ p \in AccessStates /\ p.check = cl.check /\ p.feature = cl.feature
      /\ p.adb = cl.adb /\ p.barrierBusy = cl.barrierBusy
  BY ZenonT(60), <1>4, <1>5 DEF AccessStates
<1> HIDE DEF p
<1>7. Resting(p) /\ (Draining(p) => Draining(shown))
  BY <1>2, <1>4, <1>6 DEF Resting, AutoRuns, Draining, Keeps
<1>8. q \in AccessStates /\ Resting(q) /\ (Draining(q) => drain)
  BY <1>2, <1>3, <1>6, <1>7 DEF Draining
<1> HIDE DEF q
<1>9. check \in AccessStates /\ Keeps(q, check)
  BY ZenonT(60), <1>8 DEF AccessStates, Keeps
<1> HIDE DEF check
<1>10. again \in AccessStates /\ Keeps(check, again)
  BY ZenonT(60), <1>9 DEF AccessStates, Keeps
<1>11. Resting(check)
  BY <1>8, <1>9, RestingInv
<1> HIDE DEF again
<1>12. CASE q.adb /\ q.mode # "standard"
  BY <1>1, <1>9, <1>10, <1>11, <1>12, ScheduleRecheckKeeps, RestingInv
<1>13. CASE ~(q.adb /\ q.mode # "standard") /\ drain
  <2>1. Keeps(q, q)
    BY DEF Keeps
  <2> QED BY <1>1, <1>8, <1>13, <2>1, RestingInv
<1>14. CASE ~(q.adb /\ q.mode # "standard") /\ ~drain
  <2>1. c = ResumeFeatures(w)
    BY <1>1, <1>14
  <2>2. cq \in AccessStates /\ Resting(cq) /\ Keeps(q, cq)
    BY <1>8, ClearShizukuKeeps, RestingInv
  <2>3. ~Draining(cq)
    BY <1>8, <1>14, <2>2 DEF Keeps, Draining
  <2> HIDE DEF cq
  <2>4. w \in AccessStates /\ w.check = cq.check /\ w.feature = cq.feature
    BY ZenonT(60), <2>2 DEF AccessStates
  <2> HIDE DEF w
  <2>5. Resting(w)
    BY <2>2, <2>3, <2>4 DEF Resting, AutoRuns, Draining
  <2> QED BY <2>1, <2>4, <2>5, ResumeFeaturesKeeps, RestingInv
<1> QED BY <1>12, <1>13, <1>14

\* The steps of the window.
LEMMA WindowStepsKeep ==
  ASSUME AccessInv, Reconnect \/ PollConnection \/ SelectMode
  PROVE  AccessInv'
<1>a. access \in AccessStates /\ access.gen \in Nat
  BY DEF AccessInv, AccessStates
<1>1. CASE Reconnect
  <2> DEFINE g == access.gen + 1
             p == [access EXCEPT !.gen = g]
  <2>1. g \in Nat \ {0}
    BY <1>a
  <2>2. PICK adb \in BOOLEAN : access' = Connect(p, adb)
    BY <1>1, <1>a DEF Reconnect, AccessStates
  <2> HIDE DEF g
  <2>3. p \in AccessStates
    BY <1>a, <2>1 DEF AccessStates
  <2> HIDE DEF p
  <2> QED BY <2>2, <2>3, ConnectRests DEF AccessInv
<1>2. CASE PollConnection
  <2> DEFINE c == ScheduleUpdate(access, access.gen)
  <2>1. c \in AccessStates /\ Keeps(access, c)
    BY <1>a, ScheduleUpdateKeeps
  <2>2. access' = c
    BY <1>2 DEF PollConnection
  <2> HIDE DEF c
  <2> QED BY <2>1, <2>2, KeptSteps
<1>3. CASE SelectMode
  <2>1. PICK mode \in AccessModes :
          access' = Switched(InMode(mode),
                             InMode(mode).check.phase # "none" \/ Draining(InMode(mode)))
    BY <1>3 DEF SelectMode
  <2> DEFINE s == InMode(mode)
             d == s.check.phase # "none" \/ Draining(s)
  <2>2. s \in AccessStates /\ ~AutoRuns(s)
    BY InModeRests
  <2>3. d \in BOOLEAN /\ (Draining(s) => d)
    OBVIOUS
  <2>4. access' = Switched(s, d)
    BY <2>1
  <2> HIDE DEF s, d
  <2> QED BY <2>2, <2>3, <2>4, SwitchedRests DEF AccessInv
<1> QED BY <1>1, <1>2, <1>3

\* The steps of the pages.
LEMMA PageStepsKeep ==
  ASSUME AccessInv, OpenPage \/ Dispatch \/ UseFeature \/ FeatureEnds \/ PressCheck
  PROVE  AccessInv'
<1> DEFINE c == access'
<1>a. access \in AccessStates /\ BusyInv(access)
  BY DEF AccessInv
<1>1. CASE OpenPage
  <2>1. PICK page \in Shown :
          LET q == [access EXCEPT !.page = page]
          IN  c = IF page = "other" THEN q
                  ELSE IF ShizukuPending(q) \/ UpdatePending(q) \/ q.waits
                  THEN [q EXCEPT !.wanted = @ \cup {page}]
                  ELSE IF page \in q.wanted THEN DispatchFeature(q, page)
                  ELSE IF page = "apps" /\ Usable(q) THEN RefreshFeature(q, page)
                  ELSE q
    BY <1>1 DEF OpenPage, Shown
  <2> DEFINE q == [access EXCEPT !.page = page]
             w == q.wanted \cup {page}
             v == [q EXCEPT !.wanted = w]
  <2>2. \/ c = q
        \/ page # "other" /\ c \in {v, DispatchFeature(q, page), RefreshFeature(q, page)}
    BY <2>1
  <2>3. q \in AccessStates /\ Keeps(access, q)
    BY <1>a DEF AccessStates, Keeps
  <2> HIDE DEF q, c
  <2>4. CASE c = q
    BY <2>3, <2>4, KeptSteps DEF c
  <2>5. CASE page # "other" /\ c \in {v, DispatchFeature(q, page), RefreshFeature(q, page)}
    <3>1. page \in Features
      BY <2>5 DEF Shown
    <3>2. w \in SUBSET Features
      BY <2>3, <3>1 DEF AccessStates
    <3> HIDE DEF w
    <3>3. v \in AccessStates /\ Keeps(q, v)
      BY <2>3, <3>2 DEF AccessStates, Keeps
    <3> HIDE DEF v
    <3>4. c \in AccessStates /\ Keeps(q, c)
      BY <2>3, <2>5, <3>1, <3>3, DispatchFeatureKeeps, RefreshFeatureKeeps
    <3>5. Keeps(access, c)
      BY <1>a, <2>3, <3>4, KeepsTrans
    <3> QED BY <3>4, <3>5, KeptSteps DEF c
  <2> QED BY <2>2, <2>4, <2>5
<1>2. CASE Dispatch
  <2> DEFINE q == [access EXCEPT !.dispatch = "none"]
             f == access.dispatch
  <2>1. c = DispatchFeature(q, f) /\ f \in Features
    BY <1>2, <1>a DEF Dispatch, AccessStates, Dispatches
  <2>2. q \in AccessStates /\ Keeps(access, q)
    BY <1>a DEF AccessStates, Keeps, Dispatches
  <2> HIDE DEF q, f, c
  <2>3. c \in AccessStates /\ Keeps(q, c)
    BY <2>1, <2>2, DispatchFeatureKeeps
  <2>4. Keeps(access, c)
    BY <1>a, <2>2, <2>3, KeepsTrans
  <2> QED BY <2>3, <2>4, KeptSteps DEF c
<1>3. CASE UseFeature \/ FeatureEnds
  <2>1. PICK f \in {"leased", "plain", "none"} : c = [access EXCEPT !.feature = f]
    BY <1>3 DEF UseFeature, FeatureEnds
  <2>2. c \in AccessStates /\ Keeps(access, c)
    BY <1>a, <2>1 DEF AccessStates, Keeps, FeatureWork
  <2> QED BY <2>2, KeptSteps
<1>4. CASE PressCheck
  <2> DEFINE n == access.presses + 1
             q == [access EXCEPT !.presses = n]
  <2>1. n \in Nat
    <3>1. access.presses \in Nat
      BY <1>a DEF AccessStates
    <3> QED BY <3>1
  <2>2. c = StartCheck(q, "manual") /\ access.feature = "none"
    BY <1>4, <1>a DEF PressCheck, CanCheck, Conflict, AccessStates
  <2> HIDE DEF n
  <2>3. q \in AccessStates /\ q.feature = access.feature
    BY <1>a, <2>1 DEF AccessStates
  <2> HIDE DEF q, c
  <2>4. c \in AccessStates /\ c.feature = "none" /\ c.check.kind = "manual"
    BY <2>2, <2>3, StartCheckType
  <2> QED BY <2>4 DEF AccessInv, BusyInv, Draining, AutoRuns, c
<1> QED BY <1>1, <1>2, <1>3, <1>4

\* The invariant holds in every reachable state of the access-mode work of the window.
THEOREM AccessInvariance == AccessSpec => []AccessInv
<1>1. AccessInit => AccessInv
  <2> SUFFICES ASSUME AccessInit PROVE AccessInv
    OBVIOUS
  <2>1. PICK mode \in AccessModes :
          access \in {FreshAccess(mode), Connect(FreshAccess(mode), TRUE)}
    BY DEF AccessInit
  <2> DEFINE f == FreshAccess(mode)
  <2>2. NoUpdate \in Updates /\ NoCheck \in Checks
    BY DEF NoUpdate, NoCheck, Updates, Checks
  <2>3. f \in AccessStates
    BY <2>2 DEF FreshAccess, AccessStates, Shown, Features, Dispatches, Cached, FeatureWork
  <2>4. f.feature = "none" /\ f.check = NoCheck
    BY DEF FreshAccess
  <2> HIDE DEF f
  <2>5. BusyInv(f)
    BY <2>4 DEF BusyInv, AutoRuns, Draining, NoCheck
  <2>6. Connect(f, TRUE) \in AccessStates /\ BusyInv(Connect(f, TRUE))
    BY <2>3, ConnectRests
  <2> QED BY <2>1, <2>3, <2>5, <2>6 DEF AccessInv, f
<1>2. AccessInv /\ [AccessNext]_access => AccessInv'
  <2> SUFFICES ASSUME AccessInv, [AccessNext]_access PROVE AccessInv'
    OBVIOUS
  <2>1. CASE AccessTimers
    BY <2>1, StartShizukuKeeps, RunRecheckKeeps, CheckDrainKeeps, UpdateStepsKeep,
       PageStepsKeep DEF AccessTimers
  <2>2. CASE AccessWorkers
    BY <2>2, UpdateStepsKeep, CheckStepsKeep, CheckFinishedKeeps, PageStepsKeep
       DEF AccessWorkers
  <2>3. CASE Reconnect \/ PollConnection \/ SelectMode
    BY <2>3, WindowStepsKeep
  <2>4. CASE OpenPage \/ UseFeature \/ PressCheck
    BY <2>4, PageStepsKeep
  <2>5. CASE UNCHANGED access
    BY <2>5 DEF AccessInv, BusyInv, AutoRuns, Draining
  <2> QED BY <2>1, <2>2, <2>3, <2>4, <2>5 DEF AccessNext
<1> QED BY <1>1, <1>2, PTL DEF AccessSpec

\* No page is enabled while a worker of the outgoing mode or the automatic handshake of
\* this connection still runs (the gate of main_window.py over every entry point that
\* needs the mode), for any number of reconnections, selections and checks.
THEOREM BarrierSafety == AccessSpec => []PagesWaitForTheMode
<1>1. AccessInv => PagesWaitForTheMode
  BY DEF AccessInv, BusyInv, AutoRuns, PagesWaitForTheMode, PagesBusy
<1> QED BY <1>1, AccessInvariance, PTL

-----------------------------------------------------------------------------
\* AppWork.  The records the variables range over.
Kinds  == {"none", "list", "assets", "bulk", "restore"}
Phases == {"none", "running", "result", "error", "finished"}
Orders == {"none", "backup", "install", "uninstall", "disable"}
Labels ==
  {"none", "begin", "next", "backup", "pull", "publish", "publishFailed", "check", "act"}
Things == SUBSET (Packages \cup Backups)
Asking == {"none", "uninstall", "disable", "clear", "restore", "delete"}

Works ==
  [kind : Kinds, gen : Nat, phase : Phases, cancelled : BOOLEAN, own : BOOLEAN,
   what : Orders, chosen : Serials \cup {"none"}, left : Things, step : Labels]
VaultTasks == [phase : Phases, cancelled : BOOLEAN, own : BOOLEAN, found : SUBSET Backups]
WishesOf   == [what : Asking, chosen : Serials \cup {"none"}, of : Things]
Views      == [serial : Serials \cup {"none"}, gen : Nat]

AppStates ==
  [serial : Serials, gen : Nat, up : BOOLEAN, careful : BOOLEAN, cached : SUBSET Serials,
   asked : Nat, rows : Serials \cup {"none"}, view : Views, pending : Nat, again : BOOLEAN,
   privilege : BOOLEAN, wish : WishesOf, work : [Serials -> Works],
   listed : SUBSET Backups, scan : [Serials -> VaultTasks], remove : [Serials -> VaultTasks],
   scanAgain : BOOLEAN]
DiskStates ==
  [installed : [Serials -> SUBSET Packages], dropped : SUBSET Backups, store : SUBSET Backups]

\* A backup of app in the folder of s, once it is published; and that it is, or was
\* until the user deleted it.
Complete(s, app) == [root |-> s, app |-> app, status |-> "complete"]
Saved(d, s, app) == Complete(s, app) \in d.store \cup d.dropped

\* What the confirmed work of a device may rely on: it is about applications, or about
\* backups of that device; it stands at an application as long as its label says so;
\* and with `careful` on, an uninstall that has got past the backup has one.
WorkInv(q, d, s) ==
  LET t == q.work[s]
  IN  /\ t.kind = "bulk" => t.left \subseteq Packages
      /\ t.kind = "bulk" /\ t.step \notin {"none", "begin", "next"} => t.left # {}
      /\ t.kind = "restore" =>
           t.chosen = s /\ t.left \subseteq Backups /\ t.step \in {"begin", "act"}
      /\ q.careful /\ t.kind = "bulk" /\ t.what = "uninstall" /\ t.step \in {"check", "act"}
           => Saved(d, s, First(t))

\* A scan brings the published folders of the profile it was started for.
ScanInv(q, s) ==
  q.scan[s].phase = "result" => \A b \in q.scan[s].found : b.root = s /\ b.status # "partial"

\* So does the list of the Backups page.
ListInv(q) == \A b \in q.listed : b.root = q.serial /\ b.status # "partial"

\* What a dialog asks about is of the kind it asks about.
WishInv(w) ==
  /\ w.what \in {"uninstall", "disable"} => w.of \subseteq Packages
  /\ w.what \in {"restore", "delete"} => w.of \subseteq Backups

\* UninstalledAppsHaveBackups, of any pages and disk.
RemovalInv(q, d) ==
  q.careful =>
    \A s \in Serials, app \in Packages : app \notin d.installed[s] => Saved(d, s, app)

\* The parts together.
PagesInv(q, d) ==
  /\ \A s \in Serials : WorkInv(q, d, s) /\ ScanInv(q, s)
  /\ ListInv(q)
  /\ WishInv(q.wish)
  /\ RemovalInv(q, d)

\* The inductive invariant of AppWork.
AppsInv == apps \in AppStates /\ disk \in DiskStates /\ PagesInv(apps, disk)

\* A result of a scan is the one there was.
SameScan(t, u) == u.phase = "result" => t.phase = "result" /\ u.found = t.found

\* The confirmed work is where it was.
SameWork(t, u) ==
  /\ u.kind = t.kind /\ u.what = t.what /\ u.chosen = t.chosen /\ u.left = t.left
  /\ u.step = t.step

\* What a handler does that neither confirms nor advances anything: no work of its kind
\* appears, no list of backups but an empty one, and no wish but the one there was.
Quiet(q, r) ==
  /\ r.careful = q.careful
  /\ r.listed = {} \/ (r.listed = q.listed /\ r.serial = q.serial)
  /\ r.wish = NoWish \/ r.wish = q.wish
  /\ \A s \in Serials :
       /\ r.work[s].kind \in {"bulk", "restore"} => SameWork(q.work[s], r.work[s])
       /\ SameScan(q.scan[s], r.scan[s])

\* Such a handler keeps the invariant.
LEMMA QuietInv ==
  ASSUME NEW q \in AppStates, NEW r \in AppStates, NEW d \in DiskStates,
         PagesInv(q, d), Quiet(q, r)
  PROVE  PagesInv(r, d)
<1>1. ASSUME NEW s \in Serials PROVE WorkInv(r, d, s)
  <2>1. CASE r.work[s].kind \in {"bulk", "restore"}
    <3>1. SameWork(q.work[s], r.work[s]) /\ WorkInv(q, d, s) /\ r.careful = q.careful
      BY <2>1 DEF Quiet, PagesInv
    <3>2. First(r.work[s]) = First(q.work[s])
      BY <3>1 DEF First, SameWork
    <3> QED BY <3>1, <3>2 DEF WorkInv, SameWork
  <2>2. CASE r.work[s].kind \notin {"bulk", "restore"}
    BY <2>2 DEF WorkInv
  <2> QED BY <2>1, <2>2
<1>2. ASSUME NEW s \in Serials PROVE ScanInv(r, s)
  BY DEF ScanInv, PagesInv, Quiet, SameScan
<1>3. ListInv(r)
  BY DEF ListInv, PagesInv, Quiet
<1>4. WishInv(r.wish)
  BY DEF WishInv, PagesInv, Quiet, NoWish
<1>5. RemovalInv(r, d)
  BY DEF RemovalInv, PagesInv, Quiet
<1> QED BY <1>1, <1>2, <1>3, <1>4, <1>5 DEF PagesInv

\* Quiet handlers may be composed.
LEMMA QuietTrans ==
  ASSUME NEW q \in AppStates, NEW r \in AppStates, NEW u \in AppStates,
         Quiet(q, r), Quiet(r, u)
  PROVE  Quiet(q, u)
<1>1. ASSUME NEW s \in Serials, u.work[s].kind \in {"bulk", "restore"}
      PROVE  SameWork(q.work[s], u.work[s])
  <2>1. SameWork(r.work[s], u.work[s])
    BY <1>1 DEF Quiet
  <2>2. SameWork(q.work[s], r.work[s])
    BY <1>1, <2>1 DEF Quiet, SameWork, SameScan
  <2> QED BY <2>1, <2>2 DEF SameWork
<1>2. ASSUME NEW s \in Serials PROVE SameScan(q.scan[s], u.scan[s])
  BY DEF Quiet, SameScan
<1> QED BY <1>1, <1>2 DEF Quiet, SameScan

\* To do nothing is quiet.
LEMMA QuietRefl ==
  ASSUME NEW q \in AppStates
  PROVE  Quiet(q, q)
  BY DEF Quiet, SameWork, SameScan

\* The blank records.
LEMMA Blank ==
  NoWork \in Works /\ NoTask \in VaultTasks /\ NoWish \in WishesOf
  BY DEF NoWork, NoTask, NoWish, Works, VaultTasks, WishesOf, Kinds, Phases, Orders, Labels,
         Things, Asking

\* One record of `work` replaced.
LEMMA WorkReplaced ==
  ASSUME NEW q \in AppStates, NEW s \in Serials, NEW t \in Works
  PROVE  /\ [q EXCEPT !.work[s] = t] \in AppStates
         /\ [q EXCEPT !.work[s] = t].work[s] = t
         /\ \A z \in Serials : z # s => [q EXCEPT !.work[s] = t].work[z] = q.work[z]
         /\ [q EXCEPT !.work[s] = t].careful = q.careful
         /\ [q EXCEPT !.work[s] = t].scan = q.scan
         /\ [q EXCEPT !.work[s] = t].wish = q.wish
         /\ [q EXCEPT !.work[s] = t].serial = q.serial
         /\ [q EXCEPT !.work[s] = t].listed = q.listed
  BY DEF AppStates

\* It is quiet when the record is about the same confirmed work.
LEMMA WorkReplacedQuiet ==
  ASSUME NEW q \in AppStates, NEW s \in Serials, NEW t \in Works,
         t.kind \in {"bulk", "restore"} => SameWork(q.work[s], t)
  PROVE  /\ [q EXCEPT !.work[s] = t] \in AppStates
         /\ Quiet(q, [q EXCEPT !.work[s] = t])
<1> DEFINE r == [q EXCEPT !.work[s] = t]
<1>1. /\ r \in AppStates /\ r.work[s] = t /\ r.careful = q.careful /\ r.scan = q.scan
      /\ r.wish = q.wish /\ r.serial = q.serial /\ r.listed = q.listed
      /\ \A z \in Serials : z # s => r.work[z] = q.work[z]
  BY WorkReplaced
<1> HIDE DEF r
<1>2. ASSUME NEW z \in Serials, r.work[z].kind \in {"bulk", "restore"}
      PROVE  SameWork(q.work[z], r.work[z])
  BY <1>1, <1>2 DEF SameWork
<1>3. Quiet(q, r)
  BY <1>1, <1>2 DEF Quiet, SameScan
<1> QED BY <1>1, <1>3 DEF r

\* A reading operation is registered.
LEMMA EnterQuiet ==
  ASSUME NEW q \in AppStates, NEW kind \in {"list", "assets"}
  PROVE  Enter(q, kind) \in AppStates /\ Quiet(q, Enter(q, kind))
<1> DEFINE t == [[NoWork EXCEPT !.kind = kind]
                   EXCEPT !.gen = q.gen, !.phase = "running", !.own = TRUE]
<1>1. t \in Works /\ t.kind = kind /\ q.serial \in Serials
  BY Blank DEF Works, NoWork, AppStates, Kinds, Phases
<1>2. Enter(q, kind) = [q EXCEPT !.work[q.serial] = t]
  BY DEF Enter, Admit
<1> HIDE DEF t
<1> QED BY <1>1, <1>2, WorkReplacedQuiet

\* The operation of a device is unregistered.
LEMMA FreeQuiet ==
  ASSUME NEW q \in AppStates, NEW s \in Serials
  PROVE  Free(q, s) \in AppStates /\ Quiet(q, Free(q, s))
<1>1. NoWork \in Works /\ NoWork.kind \notin {"bulk", "restore"}
  BY Blank DEF NoWork
<1> QED BY <1>1, WorkReplacedQuiet DEF Free

\* The rows of the cache are shown.
LEMMA ShowCachedQuiet ==
  ASSUME NEW q \in AppStates
  PROVE  ShowCached(q) \in AppStates /\ Quiet(q, ShowCached(q))
<1> DEFINE v == [serial |-> q.serial, gen |-> IF q.up THEN q.gen ELSE 0]
           r == [q EXCEPT !.rows = q.serial, !.view = v]
<1>1. v \in Views /\ q.serial \in Serials
  BY DEF Views, AppStates
<1>2. ShowCached(q) \in {q, r}
  BY DEF ShowCached
<1> HIDE DEF v
<1>3. r \in AppStates /\ Quiet(q, r)
  BY <1>1 DEF AppStates, Quiet, SameWork, SameScan
<1> QED BY <1>2, <1>3, QuietRefl

\* refresh_apps, with all it may start or put off.
LEMMA RefreshAppsQuiet ==
  ASSUME NEW q \in AppStates
  PROVE  RefreshApps(q) \in AppStates /\ Quiet(q, RefreshApps(q))
<1> DEFINE p == [q EXCEPT !.pending = 0]
           c == ShowCached(p)
<1>1. p \in AppStates /\ Quiet(q, p)
  BY DEF AppStates, Quiet, SameWork, SameScan
<1>2. RefreshApps(q) \in {q, c, Enter(c, "list")}
  BY DEF RefreshApps
<1> HIDE DEF p
<1>3. c \in AppStates /\ Quiet(p, c)
  BY <1>1, ShowCachedQuiet
<1> HIDE DEF c
<1>4. Enter(c, "list") \in AppStates /\ Quiet(c, Enter(c, "list"))
  BY <1>3, EnterQuiet
<1>5. Quiet(q, c)
  BY <1>1, <1>3, QuietTrans
<1>6. Quiet(q, Enter(c, "list"))
  BY <1>3, <1>4, <1>5, QuietTrans
<1> QED BY <1>2, <1>3, <1>4, <1>5, <1>6, QuietRefl

\* The refresh a verified mode brings.
LEMMA PrivilegeRefreshQuiet ==
  ASSUME NEW q \in AppStates
  PROVE  PrivilegeRefresh(q) \in AppStates /\ Quiet(q, PrivilegeRefresh(q))
<1> DEFINE p == [q EXCEPT !.privilege = FALSE]
<1>1. p \in AppStates /\ Quiet(q, p)
  BY DEF AppStates, Quiet, SameWork, SameScan
<1>2. PrivilegeRefresh(q) \in {q, RefreshApps(p)}
  BY DEF PrivilegeRefresh
<1> HIDE DEF p
<1>3. RefreshApps(p) \in AppStates /\ Quiet(p, RefreshApps(p))
  BY <1>1, RefreshAppsQuiet
<1>4. Quiet(q, RefreshApps(p))
  BY <1>1, <1>3, QuietTrans
<1> QED BY <1>2, <1>3, <1>4, QuietRefl

\* The thread of a list is gone.
LEMMA LoadFinishedQuiet ==
  ASSUME NEW q \in AppStates, NEW s \in Serials, NEW missing \in BOOLEAN
  PROVE  LoadFinished(q, s, missing) \in AppStates /\ Quiet(q, LoadFinished(q, s, missing))
<1> DEFINE f == Free(q, s)
           g == [f EXCEPT !.pending = 0]
           p == PrivilegeRefresh(g)
<1>1. LoadFinished(q, s, missing) \in {f, p, Enter(p, "assets")}
  BY DEF LoadFinished
<1>2. f \in AppStates /\ Quiet(q, f)
  BY FreeQuiet
<1> HIDE DEF f
<1>3. g \in AppStates /\ Quiet(f, g)
  BY <1>2 DEF AppStates, Quiet, SameWork, SameScan
<1> HIDE DEF g
<1>4. p \in AppStates /\ Quiet(g, p)
  BY <1>3, PrivilegeRefreshQuiet
<1> HIDE DEF p
<1>5. Enter(p, "assets") \in AppStates /\ Quiet(p, Enter(p, "assets"))
  BY <1>4, EnterQuiet
<1>6. Quiet(q, g)
  BY <1>2, <1>3, QuietTrans
<1>7. Quiet(q, p)
  BY <1>3, <1>4, <1>6, QuietTrans
<1>8. Quiet(q, Enter(p, "assets"))
  BY <1>4, <1>5, <1>7, QuietTrans
<1> QED BY <1>1, <1>2, <1>4, <1>5, <1>7, <1>8

\* The thread of the icons and labels is gone.
LEMMA AssetsFinishedQuiet ==
  ASSUME NEW q \in AppStates, NEW s \in Serials
  PROVE  AssetsFinished(q, s) \in AppStates /\ Quiet(q, AssetsFinished(q, s))
<1> DEFINE f == Free(q, s)
<1>1. AssetsFinished(q, s) \in {f, PrivilegeRefresh(f)}
  BY DEF AssetsFinished
<1>2. f \in AppStates /\ Quiet(q, f)
  BY FreeQuiet
<1> HIDE DEF f
<1>3. PrivilegeRefresh(f) \in AppStates /\ Quiet(f, PrivilegeRefresh(f))
  BY <1>2, PrivilegeRefreshQuiet
<1> QED BY <1>1, <1>2, <1>3, QuietTrans

\* The thread of a bulk action is gone.
LEMMA BulkFinishedQuiet ==
  ASSUME NEW q \in AppStates, NEW s \in Serials
  PROVE  BulkFinished(q, s) \in AppStates /\ Quiet(q, BulkFinished(q, s))
<1> DEFINE f == Free(q, s)
           g == [f EXCEPT !.again = FALSE]
           p == PrivilegeRefresh(g)
<1>1. BulkFinished(q, s) \in {f, p, RefreshApps(p)}
  BY DEF BulkFinished
<1>2. f \in AppStates /\ Quiet(q, f)
  BY FreeQuiet
<1> HIDE DEF f
<1>3. g \in AppStates /\ Quiet(f, g)
  BY <1>2 DEF AppStates, Quiet, SameWork, SameScan
<1> HIDE DEF g
<1>4. p \in AppStates /\ Quiet(g, p)
  BY <1>3, PrivilegeRefreshQuiet
<1> HIDE DEF p
<1>5. RefreshApps(p) \in AppStates /\ Quiet(p, RefreshApps(p))
  BY <1>4, RefreshAppsQuiet
<1>6. Quiet(q, g)
  BY <1>2, <1>3, QuietTrans
<1>7. Quiet(q, p)
  BY <1>3, <1>4, <1>6, QuietTrans
<1>8. Quiet(q, RefreshApps(p))
  BY <1>4, <1>5, <1>7, QuietTrans
<1> QED BY <1>1, <1>2, <1>4, <1>5, <1>7, <1>8

\* The Backups page asks for a scan.
LEMMA RefreshBackupsQuiet ==
  ASSUME NEW q \in AppStates
  PROVE  RefreshBackups(q) \in AppStates /\ Quiet(q, RefreshBackups(q))
<1> DEFINE t == [NoTask EXCEPT !.phase = "running", !.own = TRUE]
           r == [q EXCEPT !.scan[q.serial] = t]
<1>1. t \in VaultTasks /\ t.phase = "running" /\ q.serial \in Serials
  BY Blank DEF VaultTasks, NoTask, AppStates, Phases
<1>2. RefreshBackups(q) \in {q, r}
  BY DEF RefreshBackups
<1> HIDE DEF t
<1>3. r \in AppStates /\ Quiet(q, r)
  BY <1>1 DEF AppStates, Quiet, SameWork, SameScan
<1> QED BY <1>2, <1>3, QuietRefl

\* A scan or a deletion is over; a scan that was put off follows.
LEMMA VaultRestsQuiet ==
  ASSUME NEW q \in AppStates, NEW own, NEW cancelled, NEW current
  PROVE  /\ VaultRests(q, own, cancelled, current) \in AppStates
         /\ Quiet(q, VaultRests(q, own, cancelled, current))
<1> DEFINE i == [q EXCEPT !.scanAgain = FALSE]
<1>1. VaultRests(q, own, cancelled, current) \in {q, i, RefreshBackups(i)}
  BY DEF VaultRests
<1>2. i \in AppStates /\ Quiet(q, i)
  BY DEF AppStates, Quiet, SameWork, SameScan
<1> HIDE DEF i
<1>3. RefreshBackups(i) \in AppStates /\ Quiet(i, RefreshBackups(i))
  BY <1>2, RefreshBackupsQuiet
<1>4. Quiet(q, RefreshBackups(i))
  BY <1>2, <1>3, QuietTrans
<1> QED BY <1>1, <1>2, <1>3, <1>4, QuietRefl

\* A quiet handler, as a step of the model.
LEMMA QuietStep ==
  ASSUME AppsInv, NEW r \in AppStates, Quiet(apps, r), apps' = r, UNCHANGED disk
  PROVE  AppsInv'
<1>1. PagesInv(r, disk)
  BY QuietInv DEF AppsInv
<1>2. disk' = disk
  OBVIOUS
<1> QED BY <1>1, <1>2 DEF AppsInv

\* The work of a device ends as its record stands.
LEMMA QuitsQuiet ==
  ASSUME AppsInv, NEW s \in Serials, NEW how \in Phases
  PROVE  Quits(s, how) \in AppStates /\ Quiet(apps, Quits(s, how))
<1> DEFINE t == [apps.work[s] EXCEPT !.phase = how]
<1>1. apps \in AppStates /\ apps.work[s] \in Works
  BY DEF AppsInv, AppStates
<1>2. t \in Works /\ SameWork(apps.work[s], t)
  BY <1>1 DEF Works, SameWork
<1>3. Quits(s, how) = [apps EXCEPT !.work[s] = t]
  BY <1>1 DEF Quits, AppStates
<1> HIDE DEF t
<1> QED BY <1>1, <1>2, <1>3, WorkReplacedQuiet

\* A question to the user is counted.
LEMMA AskedQuiet ==
  ASSUME AppsInv
  PROVE  apps \in AppStates /\ Asked \in AppStates /\ Quiet(apps, Asked)
<1>1. apps \in AppStates /\ apps.asked + 1 \in Nat
  BY DEF AppsInv, AppStates
<1> QED BY <1>1 DEF Asked, AppStates, Quiet, SameWork, SameScan

\* The worker of a list or of the icons ends.
LEMMA ReadingStep ==
  ASSUME AppsInv, NEW s \in Serials, ReadingEnds(s)
  PROVE  AppsInv'
<1>1. PICK how \in {"result", "error"} : apps' = Quits(s, how)
  BY DEF ReadingEnds
<1>2. Quits(s, how) \in AppStates /\ Quiet(apps, Quits(s, how))
  BY QuitsQuiet DEF Phases
<1>3. UNCHANGED disk
  BY DEF ReadingEnds
<1> QED BY <1>1, <1>2, <1>3, QuietStep

\* A refresh is asked for.
LEMMA AppsPressStep ==
  ASSUME AppsInv, PressRefresh \/ RequestRefresh \/ PressScan
  PROVE  AppsInv'
<1> DEFINE a == Asked
           p == [a EXCEPT !.privilege = TRUE]
<1>1. a \in AppStates /\ Quiet(apps, a) /\ apps \in AppStates
  BY AskedQuiet
<1>2. UNCHANGED disk
  BY DEF PressRefresh, RequestRefresh, PressScan
<1>3. apps' \in {RefreshApps(a), PrivilegeRefresh(p), RefreshBackups(a)}
  BY DEF PressRefresh, RequestRefresh, PressScan
<1> HIDE DEF a
<1>4. p \in AppStates /\ Quiet(a, p)
  BY <1>1 DEF AppStates, Quiet, SameWork, SameScan
<1> HIDE DEF p
<1>5. Quiet(apps, p)
  BY <1>1, <1>4, QuietTrans
<1>6. RefreshApps(a) \in AppStates /\ Quiet(a, RefreshApps(a))
  BY <1>1, RefreshAppsQuiet
<1>7. PrivilegeRefresh(p) \in AppStates /\ Quiet(p, PrivilegeRefresh(p))
  BY <1>4, PrivilegeRefreshQuiet
<1>8. RefreshBackups(a) \in AppStates /\ Quiet(a, RefreshBackups(a))
  BY <1>1, RefreshBackupsQuiet
<1>9. apps' \in AppStates /\ Quiet(apps, apps')
  BY <1>1, <1>3, <1>4, <1>5, <1>6, <1>7, <1>8, QuietTrans
<1> QED BY <1>2, <1>9, QuietStep

\* The reading operations are stopped.
LEMMA StopStep ==
  ASSUME AppsInv, StopPassive
  PROVE  AppsInv'
<1> DEFINE a == Asked
<1>1. PICK s \in Serials : apps' = [a EXCEPT !.work[s].cancelled = TRUE]
  BY DEF StopPassive
<1>2. a \in AppStates /\ Quiet(apps, a) /\ apps \in AppStates
  BY AskedQuiet
<1> HIDE DEF a
<1> DEFINE t == [a.work[s] EXCEPT !.cancelled = TRUE]
<1>7. a.work[s] \in Works
  BY <1>2 DEF AppStates
<1>3. t \in Works /\ SameWork(a.work[s], t)
  BY <1>7 DEF Works, SameWork
<1>4. apps' = [a EXCEPT !.work[s] = t]
  BY <1>1, <1>2 DEF AppStates
<1> HIDE DEF t
<1>5. apps' \in AppStates /\ Quiet(a, apps')
  BY <1>2, <1>3, <1>4, WorkReplacedQuiet
<1>6. Quiet(apps, apps') /\ UNCHANGED disk
  BY <1>2, <1>5, QuietTrans DEF StopPassive
<1> QED BY <1>5, <1>6, QuietStep

\* A result or an error is delivered.
LEMMA DeliverStep ==
  ASSUME AppsInv, NEW s \in Serials, Deliver(s)
  PROVE  AppsInv'
<1> DEFINE loaded == [apps EXCEPT !.rows = s, !.view = [serial |-> s, gen |-> apps.gen],
                                  !.pending = apps.gen, !.cached = @ \cup {s}]
<1>1. PICK q \in {apps, loaded, [apps EXCEPT !.pending = 0], [apps EXCEPT !.again = TRUE]} :
        apps' = [q EXCEPT !.work[s].phase = "finished"]
  BY DEF Deliver, AppsLoaded, LoadFailed, BulkDone
<1>2. apps \in AppStates
  BY DEF AppsInv
<1>3. [serial |-> s, gen |-> apps.gen] \in Views
  BY <1>2 DEF AppStates, Views
<1>4. q \in AppStates /\ Quiet(apps, q)
  <2>1. CASE q = loaded
    <3> DEFINE v == [serial |-> s, gen |-> apps.gen]
               k == apps.cached \cup {s}
    <3>1. v \in Views /\ k \in SUBSET Serials
      BY <1>2, <1>3 DEF AppStates
    <3>2. q = [apps EXCEPT !.rows = s, !.view = v, !.pending = apps.gen, !.cached = k]
      BY <2>1
    <3> HIDE DEF v, k, loaded
    <3> QED BY <1>2, <3>1, <3>2 DEF AppStates, Quiet, SameWork, SameScan
  <2> HIDE DEF loaded
  <2>2. CASE q = apps
    BY <1>2, <2>2, QuietRefl
  <2>3. CASE q = [apps EXCEPT !.pending = 0]
    BY <1>2, <2>3 DEF AppStates, Quiet, SameWork, SameScan
  <2>4. CASE q = [apps EXCEPT !.again = TRUE]
    BY <1>2, <2>4 DEF AppStates, Quiet, SameWork, SameScan
  <2> QED BY <2>1, <2>2, <2>3, <2>4
<1> DEFINE t == [q.work[s] EXCEPT !.phase = "finished"]
<1>5. t \in Works /\ SameWork(q.work[s], t)
  BY <1>4 DEF Works, SameWork, AppStates, Phases
<1>6. apps' = [q EXCEPT !.work[s] = t]
  BY <1>1, <1>4 DEF AppStates
<1> HIDE DEF t
<1>7. apps' \in AppStates /\ Quiet(q, apps')
  BY SMTT(30), <1>4, <1>5, <1>6, WorkReplacedQuiet
<1>8. Quiet(apps, apps') /\ UNCHANGED disk
  BY <1>2, <1>4, <1>7, QuietTrans DEF Deliver
<1> QED BY <1>7, <1>8, QuietStep

\* The thread of an operation is gone.
LEMMA FinishedStep ==
  ASSUME AppsInv, NEW s \in Serials, WorkFinished(s)
  PROVE  AppsInv'
<1> DEFINE f == Free(apps, s)
           own == apps.work[s].own
           cancelled == apps.work[s].cancelled
           current == OfTarget(apps, apps.work[s].gen)
<1>1. apps \in AppStates
  BY DEF AppsInv
<1>2. \/ \E missing \in BOOLEAN : apps' = LoadFinished(apps, s, missing)
      \/ apps' = AssetsFinished(apps, s)
      \/ apps' = BulkFinished(apps, s)
      \/ apps' = VaultRests(f, own, cancelled, current)
  BY DEF WorkFinished
<1>3. f \in AppStates /\ Quiet(apps, f)
  BY <1>1, FreeQuiet
<1> HIDE DEF f, own, cancelled, current
<1>4. /\ VaultRests(f, own, cancelled, current) \in AppStates
      /\ Quiet(f, VaultRests(f, own, cancelled, current))
  BY <1>3, VaultRestsQuiet
<1>5. Quiet(apps, VaultRests(f, own, cancelled, current))
  BY <1>1, <1>3, <1>4, QuietTrans
<1>6. apps' \in AppStates /\ Quiet(apps, apps')
  BY <1>1, <1>2, <1>4, <1>5, LoadFinishedQuiet, AssetsFinishedQuiet, BulkFinishedQuiet
<1> QED BY <1>6, QuietStep DEF WorkFinished

\* The scan of the backups.
LEMMA ScanStep ==
  ASSUME AppsInv, NEW s \in Serials,
         ScanBackups(s) \/ Scanned(s) \/ ScanReturns(s) \/ Removed(s)
  PROVE  AppsInv'
<1>1. apps \in AppStates /\ disk \in DiskStates /\ PagesInv(apps, disk) /\ disk' = disk
  BY DEF AppsInv, ScanBackups, Scanned, ScanReturns, Removed
<1>2. CASE ScanBackups(s)
  <2> DEFINE found == IF apps.scan[s].cancelled THEN {}
                      ELSE {b \in disk.store : b.root = s /\ b.status # "partial"}
             r == [apps EXCEPT !.scan[s].phase = "result", !.scan[s].found = found]
  <2>1. apps' = r
    BY <1>2 DEF ScanBackups
  <2>2. found \in SUBSET Backups /\ \A b \in found : b.root = s /\ b.status # "partial"
    BY <1>1 DEF DiskStates
  <2> HIDE DEF found
  <2> DEFINE t == [apps.scan[s] EXCEPT !.phase = "result", !.found = found]
  <2>7. apps.scan[s] \in VaultTasks
    BY <1>1 DEF AppStates
  <2>8. t \in VaultTasks
    BY <2>2, <2>7 DEF VaultTasks, Phases
  <2>9. r = [apps EXCEPT !.scan[s] = t]
    BY <1>1 DEF AppStates
  <2>3. r \in AppStates
    <3> HIDE DEF r, t
    <3> QED BY <1>1, <2>8, <2>9 DEF AppStates
  <2>4. /\ r.careful = apps.careful /\ r.listed = apps.listed /\ r.serial = apps.serial
        /\ r.wish = apps.wish /\ r.work = apps.work
        /\ \A z \in Serials : z # s => r.scan[z] = apps.scan[z]
        /\ r.scan[s].found = found
    BY <1>1 DEF AppStates, VaultTasks
  <2> HIDE DEF r
  <2>5. \A z \in Serials : ScanInv(r, z)
    BY <1>1, <2>2, <2>4 DEF ScanInv, PagesInv
  <2>6. PagesInv(r, disk)
    BY <1>1, <2>4, <2>5 DEF PagesInv, WorkInv, ListInv, RemovalInv
  <2> QED BY <1>1, <2>1, <2>3, <2>6 DEF AppsInv
<1>3. CASE Scanned(s)
  <2> DEFINE r == apps'
  <2>1. r = [apps EXCEPT !.scan[s].phase = "finished",
                         !.listed = IF ~apps.scan[s].cancelled /\ s = apps.serial
                                     THEN apps.scan[s].found ELSE @]
    BY <1>3 DEF Scanned
  <2>2. apps.scan[s].found \in SUBSET Backups /\ apps.scan[s].phase = "result"
    BY <1>1, <1>3 DEF AppStates, VaultTasks, Scanned
  <2>3. r \in AppStates
    <3> DEFINE t == [apps.scan[s] EXCEPT !.phase = "finished"]
               l == IF ~apps.scan[s].cancelled /\ s = apps.serial
                    THEN apps.scan[s].found ELSE apps.listed
    <3>1. t \in VaultTasks
      <4>1. apps.scan[s] \in VaultTasks
        BY <1>1 DEF AppStates
      <4> QED BY <4>1 DEF VaultTasks, Phases
    <3>2. l \in SUBSET Backups
      BY <1>1, <2>2 DEF AppStates
    <3>3. r = [apps EXCEPT !.scan[s] = t, !.listed = l]
      BY <1>1, <2>1 DEF AppStates
    <3> HIDE DEF r, t, l
    <3> QED BY <1>1, <3>1, <3>2, <3>3 DEF AppStates
  <2>4. /\ r.careful = apps.careful /\ r.serial = apps.serial
        /\ r.wish = apps.wish /\ r.work = apps.work
        /\ \A z \in Serials : z # s => r.scan[z] = apps.scan[z]
        /\ r.scan[s].phase = "finished"
        /\ r.listed = apps.listed \/ (s = apps.serial /\ r.listed = apps.scan[s].found)
    BY <1>1, <2>1 DEF AppStates, VaultTasks
  <2> HIDE DEF r
  <2>5. \A z \in Serials : ScanInv(r, z)
    BY <1>1, <2>4 DEF ScanInv, PagesInv
  <2>6. ListInv(r)
    BY <1>1, <2>2, <2>4 DEF ListInv, PagesInv, ScanInv
  <2>7. PagesInv(r, disk)
    BY <1>1, <2>4, <2>5, <2>6 DEF PagesInv, WorkInv, RemovalInv
  <2>8. apps' = r
    BY DEF r
  <2> QED BY <1>1, <2>3, <2>7, <2>8 DEF AppsInv
<1>4. CASE ScanReturns(s)
  <2> DEFINE r == [apps EXCEPT !.scan[s] = NoTask]
  <2>1. apps' = r
    BY <1>4 DEF ScanReturns
  <2>2. NoTask \in VaultTasks /\ NoTask.phase = "none"
    BY Blank DEF NoTask
  <2>3. r \in AppStates /\ Quiet(apps, r)
    BY <1>1, <2>2 DEF AppStates, Quiet, SameWork, SameScan
  <2> QED BY <1>1, <2>1, <2>3, QuietStep
<1>5. CASE Removed(s)
  <2> DEFINE b == apps.scanAgain \/ /\ apps.remove[s].phase = "result"
                                    /\ ~apps.remove[s].cancelled /\ s = apps.serial
             r == [apps EXCEPT !.remove[s].phase = "finished", !.scanAgain = b]
  <2>1. apps' = r
    BY <1>5 DEF Removed
  <2>2. b \in BOOLEAN
    BY <1>1 DEF AppStates
  <2> HIDE DEF b
  <2> DEFINE t == [apps.remove[s] EXCEPT !.phase = "finished"]
  <2>4. t \in VaultTasks
    <3>1. apps.remove[s] \in VaultTasks
      BY <1>1 DEF AppStates
    <3> QED BY <3>1 DEF VaultTasks, Phases
  <2>5. r = [apps EXCEPT !.remove[s] = t, !.scanAgain = b]
    BY <1>1 DEF AppStates
  <2>3. r \in AppStates /\ Quiet(apps, r)
    <3> HIDE DEF r, t
    <3> QED BY <1>1, <2>2, <2>4, <2>5 DEF AppStates, Quiet, SameWork, SameScan
  <2> QED BY <1>1, <2>1, <2>3, QuietStep
<1> QED BY <1>2, <1>3, <1>4, <1>5

\* The thread of a deletion is gone.
LEMMA RemoveFinishedStep ==
  ASSUME AppsInv, NEW s \in Serials, RemoveFinished(s)
  PROVE  AppsInv'
<1> DEFINE f == [apps EXCEPT !.remove[s] = NoTask]
           own == apps.remove[s].own
           cancelled == apps.remove[s].cancelled
           current == s = apps.serial
<1>1. apps \in AppStates /\ NoTask \in VaultTasks
  BY Blank DEF AppsInv
<1>2. apps' = VaultRests(f, own, cancelled, current) /\ UNCHANGED disk
  BY DEF RemoveFinished
<1>3. f \in AppStates /\ Quiet(apps, f)
  BY <1>1 DEF AppStates, Quiet, SameWork, SameScan
<1> HIDE DEF f, own, cancelled, current
<1>4. apps' \in AppStates /\ Quiet(f, apps')
  BY <1>2, <1>3, VaultRestsQuiet
<1>5. Quiet(apps, apps')
  BY <1>1, <1>3, <1>4, QuietTrans
<1> QED BY <1>2, <1>4, <1>5, QuietStep

\* The pages of another device: what ran is cancelled and disowned, the list of backups
\* emptied.
LEMMA ResetQuiet ==
  ASSUME NEW q \in AppStates
  PROVE  /\ Stale(q) \in AppStates /\ Quiet(q, Stale(q))
         /\ ResetPages(q) \in AppStates /\ Quiet(q, ResetPages(q))
         /\ ResetPages(q).listed = {}
<1> DEFINE w == [z \in Serials |-> IF q.work[z].kind = "none" THEN NoWork
                                   ELSE [q.work[z] EXCEPT !.cancelled = TRUE]]
           v == [z \in Serials |-> IF q.work[z].kind = "none" THEN NoWork
                                   ELSE [q.work[z] EXCEPT !.cancelled = TRUE, !.own = FALSE]]
           c == [z \in Serials |-> IF q.scan[z].phase = "none" THEN NoTask
                                   ELSE [q.scan[z] EXCEPT !.cancelled = TRUE, !.own = FALSE]]
           m == [z \in Serials |-> IF q.remove[z].phase = "none" THEN NoTask
                                   ELSE [q.remove[z] EXCEPT !.cancelled = TRUE,
                                                            !.own = FALSE]]
           x == [serial |-> "none", gen |-> 0]
<1>1. w \in [Serials -> Works] /\ v \in [Serials -> Works]
  BY ZenonT(60), Blank DEF AppStates, Works
<1>2. c \in [Serials -> VaultTasks] /\ m \in [Serials -> VaultTasks] /\ x \in Views
  BY ZenonT(60), Blank DEF AppStates, VaultTasks, Views
<1>3. \A z \in Serials : /\ w[z].kind \in {"bulk", "restore"} => SameWork(q.work[z], w[z])
                         /\ v[z].kind \in {"bulk", "restore"} => SameWork(q.work[z], v[z])
  BY DEF SameWork, NoWork, AppStates, Works
<1>5. /\ Stale(q) = [q EXCEPT !.work = w]
      /\ ResetPages(q) =
           [q EXCEPT !.rows = "none", !.view = x, !.pending = 0, !.again = FALSE,
                     !.privilege = FALSE, !.listed = {}, !.scanAgain = FALSE, !.work = v,
                     !.scan = c, !.remove = m]
  BY DEF Stale, ResetPages
<1>9. \A z \in Serials : SameScan(q.scan[z], c[z])
  BY DEF SameScan, NoTask, AppStates, VaultTasks
<1> HIDE DEF w, v, m, x, c
<1>6. Stale(q) \in AppStates /\ Quiet(q, Stale(q))
  BY <1>1, <1>3, <1>5 DEF AppStates, Quiet, SameScan
<1>7. ResetPages(q) \in AppStates
  <2> DEFINE r == [q EXCEPT !.rows = "none", !.view = x, !.pending = 0, !.again = FALSE,
                            !.privilege = FALSE, !.listed = {}, !.scanAgain = FALSE]
  <2>1. r \in AppStates
    <3>1. {} \in SUBSET Backups
      OBVIOUS
    <3> QED BY <1>2, <3>1 DEF AppStates
  <2>2. ResetPages(q) = [r EXCEPT !.work = v, !.scan = c, !.remove = m]
    BY <1>5 DEF AppStates
  <2> HIDE DEF r
  <2> QED BY ZenonT(60), <1>1, <1>2, <2>1, <2>2 DEF AppStates
<1>8. /\ ResetPages(q).careful = q.careful /\ ResetPages(q).listed = {}
      /\ ResetPages(q).wish = q.wish /\ ResetPages(q).work = v /\ ResetPages(q).scan = c
  BY <1>5 DEF AppStates
<1> QED BY <1>3, <1>6, <1>7, <1>8, <1>9 DEF Quiet

\* Another device, or the same one again.
LEMMA SwitchStep ==
  ASSUME AppsInv, SwitchDevice
  PROVE  AppsInv'
<1>1. PICK serial \in Serials, up \in BOOLEAN, shown \in {"apps", "backups", "other"} :
        LET changed == serial # apps.serial
            moved == [Stale(apps) EXCEPT !.gen = @ + 1, !.up = up]
            q     == IF changed THEN [ResetPages(moved) EXCEPT !.serial = serial] ELSE moved
        IN  apps' = IF shown = "apps" /\ up /\ (changed \/ q.rows = "none") THEN RefreshApps(q)
                    ELSE IF shown = "backups" /\ changed THEN RefreshBackups(q)
                    ELSE q
  BY ZenonT(60) DEF SwitchDevice
<1> DEFINE l == Stale(apps)
           m == [l EXCEPT !.gen = @ + 1, !.up = up]
           z == ResetPages(m)
           q == IF serial # apps.serial THEN [z EXCEPT !.serial = serial] ELSE m
<1>2. apps' \in {RefreshApps(q), RefreshBackups(q), q}
  BY <1>1
<1>3. apps \in AppStates /\ l \in AppStates /\ Quiet(apps, l)
  BY ResetQuiet DEF AppsInv
<1> HIDE DEF l
<1>4. m \in AppStates /\ Quiet(l, m)
  <2> DEFINE n == l.gen + 1
  <2>1. n \in Nat /\ m = [l EXCEPT !.gen = n, !.up = up]
    BY <1>3 DEF AppStates
  <2> HIDE DEF n, m
  <2> QED BY <1>3, <2>1 DEF AppStates, Quiet, SameWork, SameScan
<1> HIDE DEF m
<1>5. z \in AppStates /\ Quiet(m, z) /\ z.listed = {}
  BY <1>4, ResetQuiet
<1>6. Quiet(apps, m)
  BY <1>3, <1>4, QuietTrans
<1>7. Quiet(apps, z)
  BY <1>3, <1>4, <1>5, <1>6, QuietTrans
<1> HIDE DEF z
<1>8. /\ [z EXCEPT !.serial = serial] \in AppStates
      /\ Quiet(z, [z EXCEPT !.serial = serial])
  BY <1>5 DEF AppStates, Quiet, SameWork, SameScan
<1>9. Quiet(apps, [z EXCEPT !.serial = serial])
  BY <1>3, <1>5, <1>7, <1>8, QuietTrans
<1>10. q \in AppStates /\ Quiet(apps, q)
  BY <1>4, <1>6, <1>8, <1>9
<1> HIDE DEF q
<1>11. RefreshApps(q) \in AppStates /\ Quiet(apps, RefreshApps(q))
  BY <1>3, <1>10, RefreshAppsQuiet, QuietTrans
<1>12. RefreshBackups(q) \in AppStates /\ Quiet(apps, RefreshBackups(q))
  BY <1>3, <1>10, RefreshBackupsQuiet, QuietTrans
<1>13. apps' \in AppStates /\ Quiet(apps, apps')
  BY <1>2, <1>10, <1>11, <1>12
<1> QED BY <1>13, QuietStep DEF SwitchDevice

\* No backup is lost from d to e: what was complete still is, or the user deleted it.
Richer(d, e) == \A s \in Serials, app \in Packages : Saved(d, s, app) => Saved(e, s, app)

\* A step of confirmed work: one record replaced, and no backup lost.
LEMMA AppsWorkStep ==
  ASSUME NEW q \in AppStates, NEW d \in DiskStates, PagesInv(q, d),
         NEW e \in DiskStates, Richer(d, e), RemovalInv(q, e),
         NEW s \in Serials, NEW t \in Works,
         WorkInv([q EXCEPT !.work[s] = t], e, s)
  PROVE  [q EXCEPT !.work[s] = t] \in AppStates /\ PagesInv([q EXCEPT !.work[s] = t], e)
<1> DEFINE r == [q EXCEPT !.work[s] = t]
<1>1. /\ r \in AppStates /\ r.careful = q.careful /\ r.scan = q.scan
      /\ r.wish = q.wish /\ r.serial = q.serial /\ r.listed = q.listed
      /\ \A z \in Serials : z # s => r.work[z] = q.work[z]
  BY WorkReplaced
<1>2. WorkInv(r, e, s)
  OBVIOUS
<1> HIDE DEF r
<1>3. ASSUME NEW z \in Serials, z # s
      PROVE  WorkInv(r, e, z)
  <2>1. WorkInv(q, d, z) /\ r.work[z] = q.work[z]
    BY <1>1, <1>3 DEF PagesInv
  <2>2. q.work[z].kind = "bulk" /\ q.work[z].step \in {"check", "act"}
          => First(q.work[z]) \in Packages
    BY <2>1 DEF WorkInv, First
  <2> QED BY <1>1, <2>1, <2>2 DEF WorkInv, Richer
<1>4. \A z \in Serials : ScanInv(r, z)
  BY <1>1 DEF PagesInv, ScanInv
<1>5. ListInv(r) /\ WishInv(r.wish) /\ RemovalInv(r, e)
  BY <1>1 DEF PagesInv, ListInv, WishInv, RemovalInv
<1>6. PagesInv(r, e)
  BY <1>2, <1>3, <1>4, <1>5 DEF PagesInv
<1> QED BY <1>1, <1>6 DEF r

\* What such a step may make of the record: it stands at what is left of the same work.
LEMMA RecordStep ==
  ASSUME AppsInv, NEW s \in Serials, NEW t \in Works, apps' = [apps EXCEPT !.work[s] = t],
         disk' \in DiskStates, Richer(disk, disk'), RemovalInv(apps, disk'),
         t.kind = apps.work[s].kind, t.what = apps.work[s].what,
         t.chosen = apps.work[s].chosen, t.left \subseteq apps.work[s].left,
         t.kind = "bulk" /\ t.step \notin {"none", "begin", "next"} => t.left # {},
         t.kind = "restore" => t.step \in {"begin", "act"},
         apps.careful /\ t.kind = "bulk" /\ t.what = "uninstall" /\ t.step \in {"check", "act"}
           => Saved(disk', s, First(t))
  PROVE  AppsInv'
<1>1. apps \in AppStates /\ disk \in DiskStates /\ PagesInv(apps, disk)
  BY DEF AppsInv
<1>2. apps'.work[s] = t /\ apps'.careful = apps.careful
  BY <1>1, WorkReplaced
<1>3. WorkInv(apps, disk, s)
  BY <1>1 DEF PagesInv
<1>4. WorkInv(apps', disk', s)
  BY <1>2, <1>3 DEF WorkInv
<1>5. apps' \in AppStates /\ PagesInv(apps', disk')
  BY <1>1, <1>4, AppsWorkStep
<1> QED BY <1>5 DEF AppsInv

\* The parts of the invariant that speak of one device.
LEMMA AppFacts ==
  ASSUME AppsInv, NEW s \in Serials
  PROVE  /\ apps \in AppStates /\ disk \in DiskStates /\ apps.work[s] \in Works
         /\ WorkInv(apps, disk, s) /\ RemovalInv(apps, disk) /\ Richer(disk, disk)
         /\ apps.careful \in BOOLEAN
  BY DEF AppsInv, AppStates, PagesInv, Richer

\* A step to another label.
LEMMA StepRecord ==
  ASSUME AppsInv, NEW s \in Serials, NEW label \in Labels
  PROVE  /\ Step(s, label) = [apps EXCEPT !.work[s] = [apps.work[s] EXCEPT !.step = label]]
         /\ [apps.work[s] EXCEPT !.step = label] \in Works
<1>1. apps \in AppStates /\ apps.work[s] \in Works
  BY AppFacts
<1> QED BY <1>1 DEF Step, AppStates, Works

\* A label that does not yet promise a backup, or keeps a promise.
LEMMA LabelStep ==
  ASSUME AppsInv, NEW s \in Serials, NEW label \in Labels, apps' = Step(s, label),
         disk' \in DiskStates, Richer(disk, disk'), RemovalInv(apps, disk'),
         apps.work[s].kind = "bulk" /\ label \notin {"none", "begin", "next"}
           => apps.work[s].left # {},
         apps.work[s].kind = "restore" => label \in {"begin", "act"},
         (apps.careful /\ apps.work[s].kind = "bulk" /\ apps.work[s].what = "uninstall"
          /\ label \in {"check", "act"})
           => Saved(disk', s, First(apps.work[s]))
  PROVE  AppsInv'
<1> DEFINE t == [apps.work[s] EXCEPT !.step = label]
<1>1. apps' = [apps EXCEPT !.work[s] = t] /\ t \in Works
  BY StepRecord
<1>2. apps.work[s] \in Works
  BY AppFacts
<1>3. /\ t.kind = apps.work[s].kind /\ t.what = apps.work[s].what /\ t.step = label
      /\ t.chosen = apps.work[s].chosen /\ t.left = apps.work[s].left
  BY <1>2 DEF Works
<1>4. First(t) = First(apps.work[s])
  BY <1>3 DEF First
<1> HIDE DEF t
<1> QED BY <1>1, <1>3, <1>4, RecordStep

\* Work that ends, with its record as it is.
LEMMA QuitStep ==
  ASSUME AppsInv, NEW s \in Serials, NEW how \in Phases, apps' = Quits(s, how),
         disk' \in DiskStates, Richer(disk, disk'), RemovalInv(apps, disk')
  PROVE  AppsInv'
<1> DEFINE t == [apps.work[s] EXCEPT !.phase = how]
<1>1. apps \in AppStates /\ apps.work[s] \in Works
  BY AppFacts
<1>2. apps' = [apps EXCEPT !.work[s] = t] /\ t \in Works
  BY <1>1 DEF AppStates, Works, Quits
<1>3. /\ t.kind = apps.work[s].kind /\ t.what = apps.work[s].what
      /\ t.chosen = apps.work[s].chosen /\ t.left = apps.work[s].left
      /\ t.step = apps.work[s].step
  BY <1>1 DEF Works
<1>4. First(t) = First(apps.work[s])
  BY <1>3 DEF First
<1>5. WorkInv(apps, disk, s)
  BY AppFacts
<1>6. /\ apps.careful /\ t.kind = "bulk" /\ t.what = "uninstall" /\ t.step \in {"check", "act"}
        => Saved(disk, s, First(t)) /\ First(t) \in Packages
  BY <1>3, <1>4, <1>5 DEF WorkInv, First
<1>7. /\ apps.careful /\ t.kind = "bulk" /\ t.what = "uninstall" /\ t.step \in {"check", "act"}
        => Saved(disk', s, First(t))
  BY <1>6 DEF Richer
<1>8. /\ t.kind = "bulk" /\ t.step \notin {"none", "begin", "next"} => t.left # {}
      /\ t.kind = "restore" => t.step \in {"begin", "act"}
  BY <1>3, <1>5 DEF WorkInv
<1> HIDE DEF t
<1> QED BY <1>2, <1>3, <1>7, <1>8, RecordStep

\* The application at hand is done with, or the work was cancelled.
LEMMA SkipStep ==
  ASSUME AppsInv, NEW s \in Serials, NEW app, apps' = Skip(s, app), apps.work[s].kind = "bulk",
         disk' \in DiskStates, Richer(disk, disk'), RemovalInv(apps, disk')
  PROVE  AppsInv'
<1>1. CASE Stops(s)
  BY <1>1, QuitStep DEF Skip, Phases
<1>2. CASE ~Stops(s)
  <2> DEFINE l == apps.work[s].left \ {app}
             t == [apps.work[s] EXCEPT !.step = "next", !.left = l]
  <2>1. apps \in AppStates /\ apps.work[s] \in Works
    BY AppFacts
  <2>2. l \in Things /\ l \subseteq apps.work[s].left
    BY <2>1 DEF Works, Things
  <2>3. apps' = [apps EXCEPT !.work[s] = t]
    BY <1>2, <2>1 DEF AppStates, Skip
  <2> HIDE DEF l
  <2>4. t \in Works
    BY <2>1, <2>2 DEF Works, Labels
  <2>5. /\ t.kind = apps.work[s].kind /\ t.what = apps.work[s].what
        /\ t.chosen = apps.work[s].chosen /\ t.left = l /\ t.step = "next"
    BY <2>1 DEF Works
  <2> HIDE DEF t
  <2> QED BY <2>2, <2>3, <2>4, <2>5, RecordStep
<1> QED BY <1>1, <1>2

\* A label reached only while the device is still the one the work was confirmed for.
LEMMA GoesStep ==
  ASSUME AppsInv, NEW s \in Serials, NEW label \in Labels, Goes(s, label), disk' = disk,
         apps.work[s].kind = "bulk" /\ label \notin {"none", "begin", "next"}
           => apps.work[s].left # {},
         apps.work[s].kind = "restore" => label \in {"begin", "act"},
         (apps.careful /\ apps.work[s].kind = "bulk" /\ apps.work[s].what = "uninstall"
          /\ label \in {"check", "act"})
           => Saved(disk, s, First(apps.work[s]))
  PROVE  AppsInv'
<1>1. disk' \in DiskStates /\ Richer(disk, disk') /\ RemovalInv(apps, disk') /\ disk' = disk
  BY AppFacts DEF Richer
<1>2. apps' \in {Quits(s, "result"), Quits(s, "error"), Step(s, label)}
  BY DEF Goes
<1>3. "result" \in Phases /\ "error" \in Phases
  BY DEF Phases
<1>4. CASE apps' = Quits(s, "result")
  BY <1>1, <1>3, <1>4, QuitStep
<1>5. CASE apps' = Quits(s, "error")
  BY <1>1, <1>3, <1>5, QuitStep
<1>6. CASE apps' = Step(s, label)
  BY <1>1, <1>6, LabelStep
<1> QED BY <1>2, <1>4, <1>5, <1>6

\* The disk as it is.
LEMMA SameDisk ==
  ASSUME AppsInv, disk' = disk
  PROVE  disk' \in DiskStates /\ Richer(disk, disk') /\ RemovalInv(apps, disk') /\ disk' = disk
<1> DEFINE d == disk'
<1>1. d = disk
  OBVIOUS
<1>2. disk \in DiskStates /\ RemovalInv(apps, disk) /\ Richer(disk, disk)
  BY DEF AppsInv, PagesInv, Richer
<1> QED BY <1>1, <1>2

\* The steps of a bulk action between two commands; an uninstall without its backup
\* never reaches the command.
LEMMA PlanStep ==
  ASSUME AppsInv, NEW s \in Serials, BulkBegins(s) \/ NextApp(s) \/ CheckTarget(s)
  PROVE  AppsInv'
<1>1. disk' = disk
  BY DEF BulkBegins, NextApp, CheckTarget
<1>2. apps.work[s] \in Works /\ WorkInv(apps, disk, s)
  BY AppFacts
<1>3. CASE BulkBegins(s)
  <2> DEFINE label == IF apps.work[s].kind = "bulk" THEN "next" ELSE "act"
  <2>1. label \in Labels /\ (apps.work[s].kind = "bulk" => label = "next")
         /\ (apps.work[s].kind = "restore" => label = "act")
    BY DEF Labels
  <2>2. Goes(s, label) \/ apps' = Quits(s, "error")
    BY <1>3 DEF BulkBegins
  <2> HIDE DEF label
  <2>3. CASE Goes(s, label)
    BY <1>1, <2>1, <2>3, GoesStep
  <2>4. CASE apps' = Quits(s, "error")
    BY <1>1, <2>4, SameDisk, QuitStep DEF Phases
  <2> QED BY <2>2, <2>3, <2>4
<1>4. CASE NextApp(s)
  <2> DEFINE save == \/ apps.work[s].what = "backup"
                     \/ apps.work[s].what = "uninstall" /\ apps.careful
             label == IF save THEN "backup" ELSE "act"
  <2>1. CASE apps.work[s].left = {}
    <3>1. apps' = Quits(s, "result")
      BY <1>4, <2>1 DEF NextApp
    <3> QED BY <1>1, <3>1, SameDisk, QuitStep DEF Phases
  <2>2. CASE apps.work[s].left # {}
    <3>1. Goes(s, label)
      BY <1>4, <2>2 DEF NextApp
    <3>2. label \in Labels /\ apps.work[s].kind # "restore"
      BY <1>2, <1>4 DEF Labels, NextApp, Steps, WorkInv
    <3>3. apps.careful /\ apps.work[s].what = "uninstall" => label = "backup"
      OBVIOUS
    <3> HIDE DEF label
    <3> QED BY <1>1, <2>2, <3>1, <3>2, <3>3, GoesStep
  <2> QED BY <2>1, <2>2
<1>5. CASE CheckTarget(s)
  <2>1. apps.work[s].step = "check" /\ Goes(s, "act") /\ "act" \in Labels
    BY <1>5 DEF CheckTarget, Steps, Labels
  <2> QED BY <1>1, <1>2, <2>1, GoesStep DEF WorkInv
<1> QED BY <1>3, <1>4, <1>5

\* Only backup and uninstall reach these labels; a draft is no backup.
LEMMA DraftFacts ==
  ASSUME AppsInv, NEW s \in Serials, apps.work[s].kind = "bulk", apps.work[s].left # {}
  PROVE  /\ Draft(s) \in Backups
         /\ Draft(s).root = s /\ Draft(s).app = First(apps.work[s])
         /\ First(apps.work[s]) \in apps.work[s].left
         /\ First(apps.work[s]) \in Packages
         /\ \A z, app : Complete(z, app) # Draft(s)
<1>1. apps.work[s].left \subseteq Packages
  BY AppFacts DEF WorkInv
<1>2. First(apps.work[s]) \in apps.work[s].left
  BY DEF First
<1> QED BY <1>1, <1>2 DEF Draft, Backups, Complete

\* The folder of a backup is created, filled and published: a complete backup is only
\* ever replaced by a complete one.
LEMMA FolderStep ==
  ASSUME AppsInv, NEW s \in Serials, CreatePartial(s) \/ PullApks(s) \/ PublishBackup(s)
  PROVE  AppsInv'
<1> DEFINE t == apps.work[s]
           b == Draft(s)
<1>1. apps \in AppStates /\ disk \in DiskStates /\ t \in Works /\ WorkInv(apps, disk, s)
      /\ RemovalInv(apps, disk)
  BY AppFacts
<1>2. t.kind = "bulk" /\ t.left # {}
  BY <1>1 DEF CreatePartial, PullApks, PublishBackup, Steps, WorkInv
<1>3. /\ b \in Backups /\ b.root = s /\ b.app = First(t)
      /\ \A z, app : Complete(z, app) # b
  BY <1>2, DraftFacts
<1>4. ASSUME NEW d \in DiskStates, d.installed = disk.installed, d.dropped = disk.dropped,
             NEW added \in SUBSET Backups,
             \/ d.store = disk.store \cup added
             \/ d.store = (disk.store \ {b}) \cup added
      PROVE  Richer(disk, d) /\ RemovalInv(apps, d)
  <2>1. \A z, app : Saved(disk, z, app) => Saved(d, z, app)
    BY <1>3, <1>4 DEF Saved
  <2> QED BY <1>1, <1>4, <2>1 DEF Richer, RemovalInv
<1>5. {"result", "error"} \subseteq Phases /\ {} \in SUBSET Backups
  BY DEF Phases
<1>6. CASE /\ disk' = disk
           /\ apps' \in {Skip(s, First(t)), Step(s, "publish"), Step(s, "publishFailed")}
  <2>1. disk' \in DiskStates /\ Richer(disk, disk') /\ RemovalInv(apps, disk')
    BY <1>6, SameDisk
  <2>2. CASE apps' = Skip(s, First(t))
    BY <1>2, <2>1, <2>2, SkipStep
  <2>3. "publish" \in Labels /\ "publishFailed" \in Labels
    BY DEF Labels
  <2>4. CASE apps' = Step(s, "publish")
    BY <1>2, <2>1, <2>3, <2>4, LabelStep
  <2>5. CASE apps' = Step(s, "publishFailed")
    BY <1>2, <2>1, <2>3, <2>5, LabelStep
  <2> QED BY <1>6, <2>2, <2>4, <2>5
<1>7. CASE disk' = [disk EXCEPT !.store = @ \cup {b}] /\ apps' = Step(s, "pull")
  <2>1. disk' \in DiskStates
    BY <1>1, <1>3, <1>7 DEF DiskStates
  <2>2. /\ disk'.installed = disk.installed /\ disk'.dropped = disk.dropped
        /\ disk'.store = disk.store \cup {b}
    BY <1>1, <1>7 DEF DiskStates
  <2>3. {b} \in SUBSET Backups
    BY <1>3
  <2>4. Richer(disk, disk') /\ RemovalInv(apps, disk')
    BY <1>4, <2>1, <2>2, <2>3
  <2>5. "pull" \in Labels
    BY DEF Labels
  <2> QED BY <1>2, <1>7, <2>1, <2>4, <2>5, LabelStep
<1>8. ASSUME DiscardDraft(s), NEW how \in {"result", "error"}, apps' = Quits(s, how)
      PROVE  AppsInv'
  <2>4. disk' = disk \/ disk' = [disk EXCEPT !.store = @ \ {b}]
    BY <1>8 DEF DiscardDraft
  <2>1. disk' \in DiskStates
    BY <1>1, <2>4 DEF DiskStates
  <2>2. /\ disk'.installed = disk.installed /\ disk'.dropped = disk.dropped
        /\ \/ disk'.store = disk.store \cup {}
           \/ disk'.store = (disk.store \ {b}) \cup {}
    BY <1>1, <2>4 DEF DiskStates
  <2>3. Richer(disk, disk') /\ RemovalInv(apps, disk')
    BY <1>4, <1>5, <2>1, <2>2
  <2> QED BY <1>5, <1>8, <2>1, <2>3, QuitStep
<1>9. ASSUME NEW status \in {"complete", "failed"},
             disk' = [disk EXCEPT !.store = (@ \ {b}) \cup {[b EXCEPT !.status = status]}],
             apps' = IF t.what = "uninstall" /\ status = "complete"
                     THEN Step(s, "check") ELSE Skip(s, b.app)
      PROVE  AppsInv'
  <2> DEFINE f == [b EXCEPT !.status = status]
  <2>1. f \in Backups /\ f.root = s /\ f.app = First(t) /\ f.status = status
    BY <1>3 DEF Backups
  <2>2. status = "complete" => f = Complete(s, First(t))
    BY <2>1 DEF Backups, Complete
  <2>3. disk' = [disk EXCEPT !.store = (@ \ {b}) \cup {f}]
    BY <1>9
  <2> HIDE DEF f
  <2>4. disk' \in DiskStates
    BY <1>1, <2>1, <2>3 DEF DiskStates
  <2>5. /\ disk'.installed = disk.installed /\ disk'.dropped = disk.dropped
        /\ disk'.store = (disk.store \ {b}) \cup {f}
    BY <1>1, <2>3 DEF DiskStates
  <2>6. {f} \in SUBSET Backups
    BY <2>1
  <2>7. Richer(disk, disk') /\ RemovalInv(apps, disk')
    BY <1>4, <2>4, <2>5, <2>6
  <2>8. CASE t.what = "uninstall" /\ status = "complete"
    <3>1. Saved(disk', s, First(t))
      BY <2>2, <2>5, <2>8 DEF Saved
    <3>2. "check" \in Labels /\ apps' = Step(s, "check")
      BY <1>9, <2>8 DEF Labels
    <3> QED BY <1>2, <2>4, <2>7, <3>1, <3>2, LabelStep
  <2>9. CASE ~(t.what = "uninstall" /\ status = "complete")
    <3>1. apps' = Skip(s, b.app)
      BY <1>9, <2>9
    <3> QED BY <1>2, <2>4, <2>7, <3>1, SkipStep
  <2> QED BY <2>8, <2>9
<1>10. CASE CreatePartial(s)
  BY <1>6, <1>7, <1>10 DEF CreatePartial
<1>11. CASE PullApks(s)
  BY <1>6, <1>8, <1>11 DEF PullApks
<1>12. CASE PublishBackup(s)
  <2> DEFINE status == IF Steps(s, "publish") THEN "complete" ELSE "failed"
  <2>1. \/ DiscardDraft(s) /\ \E how \in {"result", "error"} : apps' = Quits(s, how)
        \/ /\ disk' = [disk EXCEPT !.store = (@ \ {b}) \cup {[b EXCEPT !.status = status]}]
           /\ apps' = IF t.what = "uninstall" /\ status = "complete"
                      THEN Step(s, "check") ELSE Skip(s, b.app)
    BY <1>12 DEF PublishBackup
  <2>2. status \in {"complete", "failed"}
    OBVIOUS
  <2> HIDE DEF status, b, t
  <2> QED BY <1>8, <1>9, <2>1, <2>2
<1> QED BY <1>10, <1>11, <1>12

\* An application goes only when the backup it was promised is there.
LEMMA CommandStep ==
  ASSUME AppsInv, NEW s \in Serials, PackageCommand(s) \/ RestoreCommand(s)
  PROVE  AppsInv'
<1> DEFINE t == apps.work[s]
<1>1. apps \in AppStates /\ disk \in DiskStates /\ t \in Works /\ WorkInv(apps, disk, s)
      /\ RemovalInv(apps, disk)
  BY AppFacts
<1>2. ASSUME NEW i \in SUBSET Packages, disk' = [disk EXCEPT !.installed[s] = i],
             \A app \in Packages :
               app \notin i => \/ app \notin disk.installed[s] \/ ~apps.careful
                               \/ Saved(disk, s, app)
      PROVE  disk' \in DiskStates /\ Richer(disk, disk') /\ RemovalInv(apps, disk')
  <2>1. disk' \in DiskStates
    BY <1>1, <1>2 DEF DiskStates
  <2>2. /\ disk'.store = disk.store /\ disk'.dropped = disk.dropped /\ disk'.installed[s] = i
        /\ \A z \in Serials : z # s => disk'.installed[z] = disk.installed[z]
    BY <1>1, <1>2 DEF DiskStates
  <2>3. \A z, app : Saved(disk', z, app) <=> Saved(disk, z, app)
    BY <2>2 DEF Saved
  <2>4. RemovalInv(apps, disk')
    BY <1>1, <1>2, <2>2, <2>3 DEF RemovalInv
  <2> QED BY <2>1, <2>3, <2>4 DEF Richer
<1>3. CASE PackageCommand(s)
  <2> DEFINE app == First(t)
  <2>1. t.kind = "bulk" /\ t.left # {} /\ t.step = "act" /\ apps' = Skip(s, app)
    BY <1>1, <1>3 DEF PackageCommand, Steps, WorkInv
  <2>2. app \in Packages /\ disk.installed[s] \subseteq Packages
    BY <1>1, <2>1, DraftFacts DEF DiskStates
  <2>3. disk' \in DiskStates /\ Richer(disk, disk') /\ RemovalInv(apps, disk')
    <3>1. CASE t.what = "uninstall" /\ disk' = [disk EXCEPT !.installed[s] = @ \ {app}]
      <4> DEFINE i == disk.installed[s] \ {app}
      <4>1. apps.careful => Saved(disk, s, app)
        BY <1>1, <2>1, <3>1 DEF WorkInv
      <4>2. i \in SUBSET Packages /\ disk' = [disk EXCEPT !.installed[s] = i]
        BY <1>1, <2>2, <3>1 DEF DiskStates
      <4> QED BY <1>2, <4>1, <4>2
    <3>2. CASE disk' = [disk EXCEPT !.installed[s] = @ \cup {app}]
      <4> DEFINE i == disk.installed[s] \cup {app}
      <4>1. i \in SUBSET Packages /\ disk' = [disk EXCEPT !.installed[s] = i]
        BY <1>1, <2>2, <3>2 DEF DiskStates
      <4> QED BY <1>2, <4>1
    <3>3. CASE disk' = disk
      BY <3>3, SameDisk
    <3> QED BY <1>3, <3>1, <3>2, <3>3 DEF PackageCommand
  <2> QED BY <2>1, <2>3, SkipStep
<1>4. CASE RestoreCommand(s)
  <2>1. t.kind = "restore" /\ t.left \subseteq Backups /\ apps' = Quits(s, "result")
    BY <1>1, <1>4 DEF RestoreCommand, WorkInv
  <2>2. disk' \in DiskStates /\ Richer(disk, disk') /\ RemovalInv(apps, disk')
    <3>1. CASE disk' = [disk EXCEPT !.installed[s] = @ \cup {b.app : b \in t.left}]
      <4> DEFINE i == disk.installed[s] \cup {b.app : b \in t.left}
      <4>1. i \in SUBSET Packages
        BY <1>1, <2>1 DEF DiskStates, Backups
      <4>2. disk' = [disk EXCEPT !.installed[s] = i]
        BY <1>1, <3>1 DEF DiskStates
      <4> QED BY <1>2, <4>1, <4>2
    <3>2. CASE disk' = disk
      BY <3>2, SameDisk
    <3> QED BY <1>4, <3>1, <3>2 DEF RestoreCommand
  <2> QED BY <2>1, <2>2, QuitStep DEF Phases
<1> QED BY <1>3, <1>4

\* What the user deletes counts as dropped.
LEMMA RemoveStep ==
  ASSUME AppsInv, NEW s \in Serials, Remove(s)
  PROVE  AppsInv'
<1> DEFINE f == apps.remove[s].found
<1>1. apps \in AppStates /\ disk \in DiskStates /\ PagesInv(apps, disk)
      /\ apps.remove[s] \in VaultTasks /\ f \in SUBSET Backups
  BY DEF AppsInv, AppStates, VaultTasks
<1>2. PICK how \in {"result", "error"} : apps' = [apps EXCEPT !.remove[s].phase = how]
  BY DEF Remove
<1> DEFINE t == [apps.remove[s] EXCEPT !.phase = how]
<1>3. t \in VaultTasks /\ apps' = [apps EXCEPT !.remove[s] = t]
  BY <1>1, <1>2 DEF AppStates, VaultTasks, Phases
<1> HIDE DEF t
<1>4. apps' \in AppStates /\ Quiet(apps, apps')
  BY <1>1, <1>3 DEF AppStates, Quiet, SameWork, SameScan
<1>5. \/ disk' = disk
      \/ disk' = [disk EXCEPT !.store = @ \ f, !.dropped = @ \cup f]
  BY DEF Remove
<1> HIDE DEF f
<1>6. CASE disk' = disk
  BY <1>4, <1>6, QuietStep
<1>7. CASE disk' = [disk EXCEPT !.store = @ \ f, !.dropped = @ \cup f]
  <2>1. disk' \in DiskStates
    BY <1>1, <1>7 DEF DiskStates
  <2>2. /\ disk'.store = disk.store \ f /\ disk'.dropped = disk.dropped \cup f
        /\ disk'.installed = disk.installed
    BY <1>1, <1>7 DEF DiskStates
  <2>3. \A z, app : Saved(disk, z, app) => Saved(disk', z, app)
    BY <2>2 DEF Saved
  <2>4. PagesInv(apps', disk)
    BY <1>1, <1>4, QuietInv
  <2>5. PagesInv(apps', disk')
    BY <2>2, <2>3, <2>4 DEF PagesInv, WorkInv, RemovalInv
  <2> QED BY <1>4, <2>1, <2>5 DEF AppsInv
<1> QED BY <1>5, <1>6, <1>7

\* A dialog opens: the wish is remembered with what it is about.
LEMMA WishStep ==
  ASSUME AppsInv, NEW w \in WishesOf, WishInv(w), apps' = [Asked EXCEPT !.wish = w],
         disk' = disk
  PROVE  AppsInv'
<1> DEFINE a == Asked
<1>1. a \in AppStates /\ Quiet(apps, a) /\ disk \in DiskStates /\ apps \in AppStates
      /\ PagesInv(apps, disk)
  BY AskedQuiet DEF AppsInv
<1>2. PagesInv(a, disk)
  BY <1>1, QuietInv
<1> HIDE DEF a
<1> DEFINE r == [a EXCEPT !.wish = w]
<1>3. /\ r \in AppStates /\ r.wish = w /\ r.careful = a.careful /\ r.listed = a.listed
      /\ r.work = a.work /\ r.scan = a.scan /\ r.serial = a.serial
  BY <1>1 DEF AppStates
<1>4. apps' = r
  BY DEF a
<1> HIDE DEF r
<1>5. PagesInv(r, disk)
  BY <1>2, <1>3 DEF PagesInv, WorkInv, ScanInv, ListInv, RemovalInv
<1> QED BY <1>1, <1>3, <1>4, <1>5 DEF AppsInv

\* A confirmed action starts, of the applications it was asked for.
LEMMA PrepareBulkInv ==
  ASSUME NEW q \in AppStates, NEW d \in DiskStates, PagesInv(q, d), NEW what \in Orders,
         NEW chosen \in Serials \cup {"none"}, NEW packages \in SUBSET Packages
  PROVE  /\ PrepareBulk(q, what, chosen, packages) \in AppStates
         /\ PagesInv(PrepareBulk(q, what, chosen, packages), d)
<1> DEFINE u == [NoWork EXCEPT !.kind = "bulk", !.what = what, !.chosen = chosen,
                               !.left = packages, !.step = "begin"]
           t == [u EXCEPT !.gen = q.gen, !.phase = "running", !.own = TRUE]
           a == [q EXCEPT !.again = FALSE]
           r == [a EXCEPT !.work[q.serial] = t]
<1>1. packages \in Things /\ q.gen \in Nat
  BY DEF Things, AppStates
<1>2. u \in Works /\ u.kind = "bulk" /\ u.left = packages /\ u.step = "begin"
  BY <1>1, Blank DEF Works, NoWork, Kinds, Labels
<1>3. t \in Works /\ t.kind = "bulk" /\ t.left = packages /\ t.step = "begin"
  <2> HIDE DEF u
  <2> QED BY <1>1, <1>2 DEF Works, Phases
<1>4. /\ a \in AppStates /\ Quiet(q, a) /\ a.serial = q.serial /\ a.gen = q.gen
      /\ q.serial \in Serials
  BY DEF AppStates, Quiet, SameWork, SameScan
<1>5. PagesInv(a, d)
  BY <1>4, QuietInv
<1>6. PrepareBulk(q, what, chosen, packages) \in {q, r}
  BY <1>4 DEF PrepareBulk, Admit
<1> HIDE DEF t, a
<1>7. WorkInv(r, d, q.serial)
  <2>1. r.work[q.serial] = t
    BY <1>4 DEF AppStates
  <2> HIDE DEF r
  <2> QED BY <1>3, <2>1 DEF WorkInv
<1>8. Richer(d, d) /\ RemovalInv(a, d)
  BY <1>5 DEF Richer, PagesInv
<1>9. r \in AppStates /\ PagesInv(r, d)
  BY <1>3, <1>4, <1>5, <1>7, <1>8, AppsWorkStep
<1> HIDE DEF r
<1> QED BY <1>6, <1>9

\* A confirmed restore starts, for the device of the profile only
\* (_require_backup_in_profile).
LEMMA PrepareRestoreInv ==
  ASSUME NEW q \in AppStates, NEW d \in DiskStates, PagesInv(q, d), NEW w \in WishesOf,
         w.of \subseteq Backups
  PROVE  PrepareRestore(q, w) \in AppStates /\ PagesInv(PrepareRestore(q, w), d)
<1> DEFINE u == [NoWork EXCEPT !.kind = "restore", !.chosen = w.chosen, !.left = w.of,
                               !.step = "begin"]
           t == [u EXCEPT !.gen = q.gen, !.phase = "running", !.own = TRUE]
           a == [q EXCEPT !.scanAgain = FALSE]
           r == [a EXCEPT !.work[q.serial] = t]
<1>1. /\ w.of \in Things /\ w.of \subseteq Backups /\ q.gen \in Nat
      /\ w.chosen \in Serials \cup {"none"}
  BY DEF Things, AppStates, WishesOf
<1>2. /\ u \in Works /\ u.kind = "restore" /\ u.left = w.of /\ u.step = "begin"
      /\ u.chosen = w.chosen
  BY <1>1, Blank DEF Works, NoWork, Kinds, Labels
<1>3. /\ t \in Works /\ t.kind = "restore" /\ t.left = w.of /\ t.step = "begin"
      /\ t.chosen = w.chosen
  <2> HIDE DEF u
  <2> QED BY <1>1, <1>2 DEF Works, Phases
<1>4. /\ a \in AppStates /\ Quiet(q, a) /\ a.serial = q.serial /\ a.gen = q.gen
      /\ q.serial \in Serials
  BY DEF AppStates, Quiet, SameWork, SameScan
<1>5. PagesInv(a, d)
  BY <1>4, QuietInv
<1>6. \/ PrepareRestore(q, w) = q
      \/ PrepareRestore(q, w) = r /\ w.chosen = q.serial
  BY <1>4 DEF PrepareRestore, Admit
<1> HIDE DEF t, a
<1>7. ASSUME w.chosen = q.serial PROVE WorkInv(r, d, q.serial)
  <2>1. r.work[q.serial] = t
    BY <1>4 DEF AppStates
  <2> HIDE DEF r
  <2> QED BY <1>1, <1>3, <1>7, <2>1 DEF WorkInv
<1>8. Richer(d, d) /\ RemovalInv(a, d)
  BY <1>5 DEF Richer, PagesInv
<1>9. ASSUME w.chosen = q.serial PROVE r \in AppStates /\ PagesInv(r, d)
  BY <1>3, <1>4, <1>5, <1>7, <1>8, <1>9, AppsWorkStep
<1> HIDE DEF r
<1> QED BY <1>6, <1>9

\* The user asks for an action.
LEMMA AppsAskStep ==
  ASSUME AppsInv, AskBulk \/ AskClear \/ AskBackup
  PROVE  AppsInv'
<1>1. apps \in AppStates /\ disk' = disk /\ PagesInv(apps, disk) /\ disk \in DiskStates
  BY DEF AppsInv, AskBulk, AskClear, AskBackup
<1>2. Asked \in AppStates /\ PagesInv(Asked, disk)
  BY <1>1, AskedQuiet, QuietInv
<1>3. CASE AskBulk
  <2>1. PICK packages \in SUBSET Packages :
          \/ \E what \in {"backup", "install"} :
               apps' = PrepareBulk(Asked, what, apps.rows, packages)
          \/ \E what \in {"uninstall", "disable"} :
               apps' = [Asked EXCEPT !.wish =
                          [what |-> what, chosen |-> apps.rows, of |-> packages]]
    BY <1>3 DEF AskBulk
  <2>2. apps.rows \in Serials \cup {"none"} /\ packages \in Things
    BY <1>1 DEF AppStates, Things
  <2>3. ASSUME NEW what \in {"backup", "install"},
               apps' = PrepareBulk(Asked, what, apps.rows, packages)
        PROVE  AppsInv'
    <3>1. what \in Orders
      BY DEF Orders
    <3>2. apps' \in AppStates /\ PagesInv(apps', disk)
      BY <1>1, <1>2, <2>2, <2>3, <3>1, PrepareBulkInv
    <3> QED BY <1>1, <3>2 DEF AppsInv
  <2>4. ASSUME NEW what \in {"uninstall", "disable"},
               apps' = [Asked EXCEPT !.wish =
                          [what |-> what, chosen |-> apps.rows, of |-> packages]]
        PROVE  AppsInv'
    <3> DEFINE w == [what |-> what, chosen |-> apps.rows, of |-> packages]
    <3>1. w \in WishesOf /\ WishInv(w)
      BY <2>2 DEF WishesOf, WishInv, Asking
    <3> HIDE DEF w
    <3>2. apps' = [Asked EXCEPT !.wish = w]
      BY <2>4 DEF w
    <3> QED BY <1>1, <3>1, <3>2, WishStep
  <2> QED BY <2>1, <2>3, <2>4
<1>4. CASE AskClear
  <2> DEFINE w == [what |-> "clear", chosen |-> apps.serial, of |-> {}]
  <2>1. w \in WishesOf /\ WishInv(w)
    <3>1. {} \in Things /\ apps.serial \in Serials
      BY <1>1 DEF Things, AppStates
    <3> QED BY <3>1 DEF WishesOf, WishInv, Asking
  <2>2. apps' = [Asked EXCEPT !.wish = w]
    BY <1>4 DEF AskClear
  <2> HIDE DEF w
  <2> QED BY <1>1, <2>1, <2>2, WishStep
<1>5. CASE AskBackup
  <2>1. PICK b \in apps.listed, what \in {"restore", "delete"} :
          apps' = [Asked EXCEPT !.wish = [what |-> what, chosen |-> b.root, of |-> {b}]]
    BY <1>5 DEF AskBackup
  <2> DEFINE w == [what |-> what, chosen |-> b.root, of |-> {b}]
  <2>2. b \in Backups
    BY <1>1 DEF AppStates
  <2>3. b.root \in Serials /\ {b} \in Things
    BY <2>2 DEF Backups, Things
  <2>4. w \in WishesOf /\ WishInv(w)
    BY <2>2, <2>3 DEF WishesOf, WishInv, Asking
  <2>5. apps' = [Asked EXCEPT !.wish = w]
    BY <2>1
  <2> HIDE DEF w
  <2> QED BY <1>1, <2>4, <2>5, WishStep
<1> QED BY <1>3, <1>4, <1>5

\* The user answers.
LEMMA AppsAnswerStep ==
  ASSUME AppsInv, AnswerDialog
  PROVE  AppsInv'
<1> DEFINE q == [apps EXCEPT !.wish = NoWish]
           w == apps.wish
<1>1. apps \in AppStates /\ disk' = disk /\ PagesInv(apps, disk) /\ disk \in DiskStates
  BY DEF AppsInv, AnswerDialog
<1>2. w \in WishesOf /\ WishInv(w) /\ w.chosen \in Serials \cup {"none"} /\ w.what \in Asking
  BY <1>1 DEF AppStates, PagesInv, WishesOf
<1>3. q \in AppStates /\ Quiet(apps, q) /\ q.serial = apps.serial
  BY <1>1, Blank DEF AppStates, Quiet, SameWork, SameScan
<1>4. PagesInv(q, disk)
  BY <1>1, <1>3, QuietInv
<1>5. \/ apps' = q
      \/ w.what \in {"uninstall", "disable"} /\ apps' = PrepareBulk(q, w.what, w.chosen, w.of)
      \/ w.what = "restore" /\ apps' = PrepareRestore(q, w)
      \/ w.what = "delete" /\ apps' = PrepareDelete(q, w)
      \/ w.what = "clear" /\ apps' = ClearCache(q, w)
  BY DEF AnswerDialog
<1> HIDE DEF q, w
<1>6. CASE w.what \in {"uninstall", "disable"} /\ apps' = PrepareBulk(q, w.what, w.chosen, w.of)
  <2>1. w.what \in Orders /\ w.of \in SUBSET Packages
    BY <1>2, <1>6 DEF Orders, WishInv
  <2>2. apps' \in AppStates /\ PagesInv(apps', disk)
    BY <1>1, <1>2, <1>3, <1>4, <1>6, <2>1, PrepareBulkInv
  <2> QED BY <1>1, <2>2 DEF AppsInv
<1>7. CASE w.what = "restore" /\ apps' = PrepareRestore(q, w)
  <2>1. w.of \subseteq Backups
    BY <1>2, <1>7 DEF WishInv
  <2>2. apps' \in AppStates /\ PagesInv(apps', disk)
    BY <1>1, <1>2, <1>3, <1>4, <1>7, <2>1, PrepareRestoreInv
  <2> QED BY <1>1, <2>2 DEF AppsInv
<1>8. CASE apps' = q
  BY <1>1, <1>3, <1>8, QuietStep
<1>9. CASE w.what = "delete" /\ apps' = PrepareDelete(q, w)
  <2> DEFINE t == [NoTask EXCEPT !.phase = "running", !.own = TRUE, !.found = w.of]
             r == [q EXCEPT !.scanAgain = FALSE, !.remove[q.serial] = t]
  <2>1. w.of \in SUBSET Backups /\ q.serial \in Serials
    BY <1>2, <1>3, <1>9 DEF WishInv, AppStates
  <2>2. t \in VaultTasks
    BY <2>1, Blank DEF NoTask, VaultTasks, Phases
  <2>3. apps' \in {q, r}
    BY <1>9 DEF PrepareDelete
  <2> HIDE DEF t
  <2>4. r \in AppStates /\ Quiet(q, r)
    BY <1>3, <2>1, <2>2 DEF AppStates, Quiet, SameWork, SameScan
  <2> HIDE DEF r
  <2>5. apps' \in AppStates /\ Quiet(apps, apps')
    BY <1>1, <1>3, <2>3, <2>4, QuietTrans
  <2> QED BY <1>1, <2>5, QuietStep
<1>10. CASE w.what = "clear" /\ apps' = ClearCache(q, w)
  <2> DEFINE k == q.cached \ {w.chosen}
             r == [q EXCEPT !.cached = k]
  <2>1. k \in SUBSET Serials
    BY <1>3 DEF AppStates
  <2>2. apps' \in {q, r}
    BY <1>10 DEF ClearCache
  <2> HIDE DEF k
  <2>3. r \in AppStates /\ Quiet(q, r)
    BY <1>3, <2>1 DEF AppStates, Quiet, SameWork, SameScan
  <2> HIDE DEF r
  <2>4. apps' \in AppStates /\ Quiet(apps, apps')
    BY <1>1, <1>3, <2>2, <2>3, QuietTrans
  <2> QED BY <1>1, <2>4, QuietStep
<1> QED BY <1>5, <1>6, <1>7, <1>8, <1>9, <1>10

\* The pages before anything was done.
LEMMA FreshAppsInv ==
  ASSUME NEW cached \in SUBSET Serials, NEW careful \in BOOLEAN
  PROVE  LET q == FreshApps(cached, careful)
         IN  /\ q \in AppStates /\ q.careful = careful /\ q.listed = {} /\ q.wish = NoWish
             /\ \A s \in Serials : q.work[s] = NoWork /\ q.scan[s] = NoTask
<1> DEFINE v == [serial |-> IF "A" \in cached THEN "A" ELSE "none", gen |-> 0]
           r == IF "A" \in cached THEN "A" ELSE "none"
           w == [s \in Serials |-> NoWork]
           k == [s \in Serials |-> NoTask]
<1>1. v \in Views /\ r \in Serials \cup {"none"} /\ "A" \in Serials
  BY DEF Views, Serials
<1>2. w \in [Serials -> Works] /\ k \in [Serials -> VaultTasks]
  BY Blank
<1>3. FreshApps(cached, careful) =
        [serial |-> "A", gen |-> 1, up |-> TRUE, careful |-> careful, cached |-> cached,
         asked |-> 0, rows |-> r, view |-> v, pending |-> 0, again |-> FALSE,
         privilege |-> FALSE, wish |-> NoWish, work |-> w, listed |-> {}, scan |-> k,
         remove |-> k, scanAgain |-> FALSE]
  BY DEF FreshApps
<1>4. \A s \in Serials : w[s] = NoWork /\ k[s] = NoTask
  OBVIOUS
<1> HIDE DEF v, r, w, k
<1>5. FreshApps(cached, careful) \in AppStates
  BY <1>1, <1>2, <1>3, Blank DEF AppStates
<1> QED BY <1>3, <1>4, <1>5

\* The initial states.
LEMMA AppsInitInv ==
  ASSUME AppsInit
  PROVE  AppsInv
<1>1. PICK cached \in SUBSET Serials, careful \in BOOLEAN, kept \in SUBSET Packages :
        apps = FreshApps(cached, careful) /\ disk = FreshDisk(kept)
  BY DEF AppsInit
<1>2. /\ apps \in AppStates /\ apps.listed = {} /\ apps.wish = NoWish
      /\ \A s \in Serials : apps.work[s] = NoWork /\ apps.scan[s] = NoTask
  BY <1>1, FreshAppsInv
<1>3. disk \in DiskStates /\ disk.installed = [s \in Serials |-> Packages]
  BY <1>1 DEF FreshDisk, DiskStates, Backups, Serials
<1>4. \A s \in Serials : WorkInv(apps, disk, s) /\ ScanInv(apps, s)
  BY <1>2 DEF WorkInv, ScanInv, NoWork, NoTask
<1>5. ListInv(apps) /\ WishInv(apps.wish) /\ RemovalInv(apps, disk)
  BY <1>2, <1>3 DEF ListInv, WishInv, RemovalInv, NoWish
<1> QED BY <1>2, <1>3, <1>4, <1>5 DEF AppsInv, PagesInv

\* The invariant holds in every reachable state of the Apps and Backups pages.
THEOREM AppsInvariance == AppsSpec => []AppsInv
<1>1. AppsInit => AppsInv
  BY AppsInitInv
<1>2. AppsInv /\ [AppsNext]_appVars => AppsInv'
  <2> SUFFICES ASSUME AppsInv, [AppsNext]_appVars PROVE AppsInv'
    OBVIOUS
  <2>1. ASSUME NEW s \in Serials, AppWorker(s) PROVE AppsInv'
    BY <2>1, ReadingStep, PlanStep, FolderStep, CommandStep, DeliverStep, FinishedStep
       DEF AppWorker
  <2>2. ASSUME NEW s \in Serials, VaultWorker(s) PROVE AppsInv'
    BY <2>2, ScanStep, RemoveStep, RemoveFinishedStep DEF VaultWorker
  <2>3. CASE PressRefresh \/ RequestRefresh \/ PressScan
    BY <2>3, AppsPressStep
  <2>4. CASE AskBulk \/ AskClear \/ AskBackup
    BY <2>4, AppsAskStep
  <2>5. CASE UNCHANGED appVars
    <3>1. apps' = apps /\ disk' = disk
      BY <2>5 DEF appVars
    <3> QED BY <3>1 DEF AppsInv, PagesInv, WorkInv, ScanInv, ListInv, WishInv, RemovalInv
  <2> QED BY <2>1, <2>2, <2>3, <2>4, <2>5, StopStep, AppsAnswerStep, SwitchStep DEF AppsNext
<1> QED BY <1>1, <1>2, PTL DEF AppsSpec

\* With "require backup before uninstall" an application is only removed when a
\* complete backup of it was published in the folder of its device
\* (AppOperationCoordinator.uninstall), for any devices, applications and backups.
THEOREM BackupSafety == AppsSpec => []UninstalledAppsHaveBackups
<1>1. AppsInv => UninstalledAppsHaveBackups
  BY DEF AppsInv, PagesInv, RemovalInv, UninstalledAppsHaveBackups, Saved, Complete
<1> QED BY AppsInvariance, <1>1, PTL

\* The Backups page lists published folders of the current profile only, and restores
\* go to the device of that profile (scan_backups, _can_apply_local_operation,
\* _require_backup_in_profile).
THEOREM ProfileSafety == AppsSpec => []BackupsStayInTheirProfile
<1>1. AppsInv => BackupsStayInTheirProfile
  BY DEF AppsInv, PagesInv, ListInv, WorkInv, BackupsStayInTheirProfile
<1> QED BY AppsInvariance, <1>1, PTL

-----------------------------------------------------------------------------
\* FileManager.  The records `files` ranges over.
TokenPhases == {"none", "running", "result", "error", "finished"}
Paths       == Folders \cup {"none"}
FileTokens  ==
  [phase : TokenPhases, ctx : Nat, lease : Nat, path : Paths, cancelled : BOOLEAN,
   fresh : BOOLEAN, requested : BOOLEAN, refresh : BOOLEAN]
FileViews   == [ctx : Nat, path : Paths, lease : Nat]
FileStarts  == [what : Wishes, ctx : Nat] \cup {NoStart}
TransferStarts == [what : Transfers, ctx : Nat] \cup {NoStart}
OtherWork   == [kind : {"none", "apps", "stopping", "maintenance"}, ctx : Nat]

FileStates ==
  [dev : Nat, up : BOOLEAN, usable : BOOLEAN, lease : Nat, same : BOOLEAN, path : Folders,
   view : FileViews, volumes : Nat, work : [Slots -> FileTokens],
   again : [Passive -> BOOLEAN], deferred : BOOLEAN, privilege : BOOLEAN,
   waiting : TransferStarts, action : FileStarts, running : BOOLEAN, prompt : FileStarts,
   held : [Passive -> BOOLEAN], heldFor : Nat, other : OtherWork]

\* A reader of the page is registered for the connection c.
Reads(q, c) == \E s \in Passive : Busy(q, s) /\ q.work[s].ctx = c

\* Rows that are shown, and a listing still believed, are of the mode selected now.
RowsInv(q) ==
  /\ q.view.ctx # 0 => q.view.lease = q.lease
  /\ q.work["listing"].fresh => q.work["listing"].lease = q.lease

\* Work that waits has a reader of its connection to wake it.
WakeInv(q) ==
  /\ q.waiting # NoStart => Reads(q, q.waiting.ctx)
  /\ q.action # NoStart => Reads(q, q.action.ctx)

\* One confirmed operation at a time: a transfer and an action never wait together, no
\* dialog is open over a transfer, and `running` tells when there is one.
ButtonInv(q) ==
  /\ q.waiting = NoStart \/ q.action = NoStart
  /\ q.waiting = NoStart \/ ~Busy(q, "transfer")
  /\ q.running <=> q.waiting # NoStart \/ Busy(q, "transfer")
  /\ q.prompt # NoStart => ~q.running
  /\ q.prompt.what \in Transfers => q.action = NoStart

\* The parts together.
PageInv(q) == RowsInv(q) /\ WakeInv(q) /\ ButtonInv(q)

\* The inductive invariant of FileManager.
FilesInv   == files \in FileStates /\ PageInv(files)

\* The same of any record q, for the handlers that pass through several.
Good(q) == q \in FileStates /\ PageInv(q)

\* A step that loses no reader and starts nothing.
Alike(q, r) ==
  /\ r.lease = q.lease /\ r.prompt = q.prompt /\ r.running = q.running
  /\ r.waiting = q.waiting /\ r.action \in {q.action, NoStart}
  /\ r.view = q.view \/ r.view.ctx = 0
  /\ \A s \in Slots : /\ r.work[s].phase = "none" <=> q.work[s].phase = "none"
                      /\ r.work[s].ctx = q.work[s].ctx /\ r.work[s].lease = q.work[s].lease
                      /\ r.work[s].fresh => q.work[s].fresh

\* It keeps the invariant.
LEMMA AlikeKeeps ==
  ASSUME NEW q \in FileStates, NEW r \in FileStates, PageInv(q), Alike(q, r)
  PROVE  Good(r)
<1>1. \A c : Reads(q, c) => Reads(r, c)
  BY DEF Reads, Busy, Alike, Passive, Slots
<1>2. RowsInv(r)
  BY DEF PageInv, RowsInv, Alike, Slots
<1>3. WakeInv(r)
  BY <1>1 DEF PageInv, WakeInv, Alike
<1>4. ButtonInv(r)
  BY DEF PageInv, ButtonInv, Alike, Busy, Slots
<1> QED BY <1>2, <1>3, <1>4 DEF Good, PageInv

\* The blank records.
LEMMA BlankPage ==
  /\ NoToken \in FileTokens /\ NoView \in FileViews /\ NoStart \in FileStarts
  /\ NoStart \in TransferStarts /\ NoOther \in OtherWork
  /\ [s \in Passive |-> FALSE] \in [Passive -> BOOLEAN]
  BY DEF NoToken, NoView, NoStart, NoOther, FileTokens, FileViews, FileStarts, TransferStarts,
         OtherWork, TokenPhases, Paths

\* Operations are cancelled; their threads stay registered until they end.
LEMMA CancelGood ==
  ASSUME NEW q, Good(q), NEW slots \in SUBSET Slots
  PROVE  Good(Cancel(q, slots)) /\ Alike(q, Cancel(q, slots))
<1> DEFINE w == [s \in Slots |-> IF s \in slots /\ Busy(q, s)
                                 THEN [q.work[s] EXCEPT !.cancelled = TRUE] ELSE q.work[s]]
<1>1. q \in FileStates /\ PageInv(q)
  BY DEF Good
<1>2. w \in [Slots -> FileTokens]
  BY ZenonT(60), <1>1 DEF FileStates, FileTokens
<1>3. Cancel(q, slots) = [q EXCEPT !.work = w]
  BY DEF Cancel
<1>4. \A s \in Slots : /\ w[s].phase = q.work[s].phase /\ w[s].ctx = q.work[s].ctx
                       /\ w[s].lease = q.work[s].lease /\ w[s].fresh = q.work[s].fresh
  BY <1>1 DEF FileStates, FileTokens
<1> HIDE DEF w
<1>5. Cancel(q, slots) \in FileStates /\ Alike(q, Cancel(q, slots))
  BY <1>1, <1>2, <1>3, <1>4 DEF FileStates, Alike
<1> QED BY <1>1, <1>5, AlikeKeeps

\* The readers under way are no longer believed.
LEMMA OutdateGood ==
  ASSUME NEW q, Good(q)
  PROVE  /\ Good(Outdate(q)) /\ Alike(q, Outdate(q))
         /\ ~Outdate(q).work["listing"].fresh /\ Outdate(q).lease = q.lease
<1> DEFINE w == [s \in Slots |-> IF s \in Passive THEN [q.work[s] EXCEPT !.fresh = FALSE]
                                 ELSE q.work[s]]
<1>1. q \in FileStates /\ PageInv(q)
  BY DEF Good
<1>2. w \in [Slots -> FileTokens]
  BY ZenonT(60), <1>1 DEF FileStates, FileTokens
<1>3. Outdate(q) = [q EXCEPT !.work = w]
  BY DEF Outdate
<1>4. /\ \A s \in Slots : /\ w[s].phase = q.work[s].phase /\ w[s].ctx = q.work[s].ctx
                          /\ w[s].lease = q.work[s].lease
                          /\ w[s].fresh => q.work[s].fresh
      /\ ~w["listing"].fresh
  BY <1>1 DEF FileStates, FileTokens, Slots, Passive
<1> HIDE DEF w
<1>5. Outdate(q) \in FileStates /\ Alike(q, Outdate(q))
  BY <1>1, <1>2, <1>3, <1>4 DEF FileStates, Alike
<1>6. Outdate(q).work = w /\ Outdate(q).lease = q.lease
  BY <1>1, <1>3 DEF FileStates
<1> QED BY <1>1, <1>4, <1>5, <1>6, AlikeKeeps

\* The held requests are dropped.
LEMMA ClearHeldGood ==
  ASSUME NEW q, Good(q)
  PROVE  Good(ClearHeld(q)) /\ Alike(q, ClearHeld(q))
<1> DEFINE h == [s \in Passive |-> FALSE]
<1>1. h \in [Passive -> BOOLEAN] /\ q \in FileStates /\ PageInv(q)
  BY DEF Good
<1>2. ClearHeld(q) = [q EXCEPT !.heldFor = 0, !.held = h]
  BY DEF ClearHeld
<1> HIDE DEF h
<1>3. ClearHeld(q) \in FileStates
  <2> DEFINE r == [q EXCEPT !.heldFor = 0]
  <2>1. r \in FileStates
    BY <1>1 DEF FileStates
  <2>2. ClearHeld(q) = [r EXCEPT !.held = h]
    BY <1>1, <1>2 DEF FileStates
  <2> HIDE DEF r
  <2> QED BY <1>1, <2>1, <2>2 DEF FileStates
<1>4. Alike(q, ClearHeld(q))
  BY <1>1, <1>2 DEF FileStates, Alike
<1> QED BY <1>1, <1>3, <1>4, AlikeKeeps

\* A waiting transfer is given up.
LEMMA ClearWaitingGood ==
  ASSUME NEW q, Good(q)
  PROVE  /\ Good(ClearWaiting([q EXCEPT !.waiting = NoStart]))
         /\ ClearWaiting([q EXCEPT !.waiting = NoStart]).waiting = NoStart
         /\ ClearWaiting([q EXCEPT !.waiting = NoStart]).work = q.work
         /\ ClearWaiting([q EXCEPT !.waiting = NoStart]).lease = q.lease
<1> DEFINE p == [q EXCEPT !.waiting = NoStart]
           r == IF Busy(q, "transfer") THEN p
                ELSE [q EXCEPT !.waiting = NoStart, !.running = FALSE]
<1>1. q \in FileStates /\ PageInv(q) /\ NoStart \in TransferStarts
  BY BlankPage DEF Good
<1>2. ClearWaiting(p) = r
  <2>1. Busy(p, "transfer") <=> Busy(q, "transfer")
    BY <1>1 DEF Busy, FileStates
  <2> QED BY <1>1, <2>1 DEF ClearWaiting
<1>3. r \in FileStates
  BY <1>1 DEF FileStates
<1>4. /\ r.lease = q.lease /\ r.view = q.view /\ r.work = q.work /\ r.action = q.action
      /\ r.prompt = q.prompt /\ r.waiting = NoStart
      /\ r.running = IF Busy(q, "transfer") THEN q.running ELSE FALSE
  BY <1>1 DEF FileStates
<1> HIDE DEF r
<1>5. PageInv(r)
  BY <1>1, <1>4 DEF PageInv, RowsInv, WakeInv, ButtonInv, Reads, Busy
<1> QED BY <1>2, <1>3, <1>4, <1>5 DEF Good

\* The same, or only one that needs the privilege.
LEMMA DropWaitingGood ==
  ASSUME NEW q, Good(q), NEW privilegeOnly \in BOOLEAN
  PROVE  /\ Good(DropWaiting(q, privilegeOnly))
         /\ DropWaiting(q, privilegeOnly).work = q.work
<1> DEFINE d == [q EXCEPT !.deferred = FALSE]
           r == ClearWaiting([d EXCEPT !.waiting = NoStart])
<1>1. q \in FileStates /\ PageInv(q)
  BY DEF Good
<1>2. d \in FileStates /\ Alike(q, d) /\ d.work = q.work
  BY <1>1 DEF FileStates, Alike
<1>3. Good(d)
  BY <1>1, <1>2, AlikeKeeps
<1>4. [q EXCEPT !.waiting = NoStart, !.deferred = FALSE] = [d EXCEPT !.waiting = NoStart]
  BY <1>1 DEF FileStates
<1>5. DropWaiting(q, privilegeOnly) \in {q, r}
  BY <1>4 DEF DropWaiting
<1> HIDE DEF d
<1>6. Good(r) /\ r.work = q.work
  BY <1>2, <1>3, ClearWaitingGood
<1> QED BY <1>5, <1>6

\* A waiting action is given up.
LEMMA ActionDropped ==
  ASSUME NEW q, Good(q)
  PROVE  Good([q EXCEPT !.action = NoStart])
<1>1. q \in FileStates /\ PageInv(q)
  BY DEF Good
<1>2. [q EXCEPT !.action = NoStart] \in FileStates /\ Alike(q, [q EXCEPT !.action = NoStart])
  BY <1>1, BlankPage DEF FileStates, Alike
<1> QED BY <1>1, <1>2, AlikeKeeps

\* Work of another connection is given up.
LEMMA InvalidateGood ==
  ASSUME NEW q, Good(q)
  PROVE  Good(InvalidateStale(q))
<1> DEFINE held == IF q.heldFor # 0 /\ ~Current(q, q.heldFor) THEN ClearHeld(q) ELSE q
           rows == q.view.ctx # 0 /\ ~ViewIsCurrent(q)
           volumes == q.volumes # 0 /\ ~Current(q, q.volumes)
           v == IF rows THEN NoView ELSE held.view
           n == IF volumes THEN 0 ELSE held.volumes
           shown == [held EXCEPT !.view = v, !.volumes = n]
           d == DropWaiting(shown, FALSE)
           r == [d EXCEPT !.action = NoStart]
<1>1. InvalidateStale(q) \in {shown, Outdate(r)}
  BY DEF InvalidateStale
<1>2. Good(held)
  BY ClearHeldGood
<1> HIDE DEF held, rows, volumes
<1>3. held \in FileStates /\ PageInv(held)
  BY <1>2 DEF Good
<1>4. v \in FileViews /\ (v = held.view \/ v.ctx = 0) /\ n \in Nat
  BY <1>3, BlankPage DEF NoView, FileStates
<1> HIDE DEF v, n
<1>5. shown \in FileStates /\ Alike(held, shown)
  BY <1>3, <1>4 DEF FileStates, Alike
<1>6. Good(shown)
  BY <1>3, <1>5, AlikeKeeps
<1> HIDE DEF shown
<1>7. Good(d)
  BY <1>6, DropWaitingGood
<1> HIDE DEF d
<1>8. Good(r)
  BY <1>7, ActionDropped
<1> HIDE DEF r
<1> QED BY <1>1, <1>6, <1>8, OutdateGood

\* A reader of the page starts while none runs.
LEMMA ReaderGood ==
  ASSUME NEW q, Good(q), NEW s \in Passive,
         ~q.running, ~Busy(q, "storage"), ~Busy(q, "listing")
  PROVE  Good(Register(q, s, "scan", q.dev)) /\ Good(Scan(q, s))
<1> DEFINE t == [phase |-> "running", ctx |-> q.dev, lease |-> q.lease, path |-> q.path,
                 cancelled |-> FALSE, fresh |-> TRUE, requested |-> TRUE, refresh |-> FALSE]
           r == [q EXCEPT !.work[s] = t]
<1>1. q \in FileStates /\ PageInv(q) /\ s \in Slots /\ s # "transfer"
  BY DEF Good, Slots, Passive
<1>2. Register(q, s, "scan", q.dev) = r
  <2>1. /\ (s \in Passive) = TRUE /\ Rereads("scan") = FALSE
        /\ (IF Leased("scan") THEN q.lease ELSE 0) = q.lease
    BY DEF Leased, Rereads
  <2> QED BY <2>1 DEF Register
<1>3. t \in FileTokens /\ t.lease = q.lease /\ t.phase = "running"
  BY <1>1 DEF FileTokens, FileStates, TokenPhases, Paths
<1> HIDE DEF t
<1>4. /\ r \in FileStates /\ r.lease = q.lease /\ r.view = q.view /\ r.action = q.action
      /\ r.prompt = q.prompt /\ r.waiting = q.waiting /\ r.running = q.running
      /\ r.work[s] = t /\ \A z \in Slots : z # s => r.work[z] = q.work[z]
  BY <1>1, <1>3 DEF FileStates
<1> HIDE DEF r
<1>5. q.waiting = NoStart /\ q.action = NoStart
  BY <1>1 DEF PageInv, WakeInv, Reads, Passive
<1>6. RowsInv(r)
  BY <1>1, <1>3, <1>4 DEF PageInv, RowsInv, Slots
<1>7. ButtonInv(r)
  BY <1>1, <1>4 DEF PageInv, ButtonInv, Busy, Slots
<1>8. Good(r)
  BY <1>4, <1>5, <1>6, <1>7 DEF Good, PageInv, WakeInv
<1>9. Good(Defer(q, s))
  <2> DEFINE k == IF q.other.kind = "apps" /\ SameSerial(q, q.other.ctx, q.dev)
                  THEN "stopping" ELSE q.other.kind
             d == Defer(q, s)
  <2>1. d = [q EXCEPT !.held[s] = TRUE, !.heldFor = q.dev, !.other.kind = k]
    BY <1>1 DEF Defer
  <2>2. k \in {"none", "apps", "stopping", "maintenance"} /\ q.dev \in Nat
    BY <1>1 DEF FileStates, OtherWork
  <2> HIDE DEF k
  <2> DEFINE o == [q.other EXCEPT !.kind = k]
             h == [q.held EXCEPT ![s] = TRUE]
  <2>4. o \in OtherWork /\ h \in [Passive -> BOOLEAN]
    <3>1. q.other \in OtherWork /\ q.held \in [Passive -> BOOLEAN]
      BY <1>1 DEF FileStates
    <3> QED BY <2>2, <3>1 DEF OtherWork
  <2>5. d = [q EXCEPT !.held = h, !.heldFor = q.dev, !.other = o]
    BY <1>1, <2>1 DEF FileStates
  <2> HIDE DEF o, h, d
  <2>3. d \in FileStates /\ Alike(q, d)
    BY <1>1, <2>2, <2>4, <2>5 DEF FileStates, Alike
  <2> QED BY <1>1, <2>3, AlikeKeeps DEF d
<1> QED BY <1>2, <1>8, <1>9 DEF Scan

\* A reader is put off until the others have ended.
LEMMA PutOffGood ==
  ASSUME NEW q, Good(q), NEW s \in Passive
  PROVE  Good(PutOff(q, s))
<1>1. q \in FileStates /\ PageInv(q)
  BY DEF Good
<1>2. PutOff(q, s) \in FileStates /\ Alike(q, PutOff(q, s))
  BY <1>1 DEF PutOff, FileStates, Alike
<1> QED BY <1>1, <1>2, AlikeKeeps

\* A list that is emptied, or a number of volumes.
LEMMA EmptiedGood ==
  ASSUME NEW q, Good(q)
  PROVE  /\ Good([q EXCEPT !.view = NoView])
         /\ Good([q EXCEPT !.volumes = 0])
         /\ Good([q EXCEPT !.privilege = FALSE])
         /\ \A s \in Passive : Good([q EXCEPT !.again[s] = FALSE])
         /\ \A a \in [Passive -> BOOLEAN] : Good([q EXCEPT !.again = a])
<1>1. q \in FileStates /\ PageInv(q)
  BY DEF Good
<1>2. [q EXCEPT !.view = NoView] \in FileStates /\ Alike(q, [q EXCEPT !.view = NoView])
  <2>1. NoView \in FileViews /\ NoView.ctx = 0
    BY BlankPage DEF NoView
  <2> QED BY <1>1, <2>1 DEF FileStates, Alike
<1>3. [q EXCEPT !.volumes = 0] \in FileStates /\ Alike(q, [q EXCEPT !.volumes = 0])
  BY <1>1 DEF FileStates, Alike
<1>4. [q EXCEPT !.privilege = FALSE] \in FileStates /\ Alike(q, [q EXCEPT !.privilege = FALSE])
  BY <1>1 DEF FileStates, Alike
<1>5. ASSUME NEW s \in Passive
      PROVE  Good([q EXCEPT !.again[s] = FALSE])
  <2>1. [q EXCEPT !.again[s] = FALSE] \in FileStates /\ Alike(q, [q EXCEPT !.again[s] = FALSE])
    BY <1>1 DEF FileStates, Alike
  <2> QED BY <1>1, <2>1, AlikeKeeps
<1>6. ASSUME NEW a \in [Passive -> BOOLEAN]
      PROVE  Good([q EXCEPT !.again = a])
  <2>1. [q EXCEPT !.again = a] \in FileStates /\ Alike(q, [q EXCEPT !.again = a])
    BY <1>1 DEF FileStates, Alike
  <2> QED BY <1>1, <2>1, AlikeKeeps
<1> QED BY <1>1, <1>2, <1>3, <1>4, <1>5, <1>6, AlikeKeeps

\* The volumes, or the folder, are read again.
LEMMA RefreshGood ==
  ASSUME NEW p, Good(p)
  PROVE  Good(RefreshStorage(p)) /\ Good(RefreshAndroid(p))
<1> DEFINE q == InvalidateStale(p)
           a == Scan(q, "storage")
           b == Scan(q, "listing")
           idle == ~(q.running \/ Busy(q, "storage") \/ Busy(q, "listing"))
<1>1. Good(q) /\ "storage" \in Passive /\ "listing" \in Passive
  BY InvalidateGood DEF Passive
<1>2. \/ RefreshStorage(p) \in {[q EXCEPT !.volumes = 0], PutOff(q, "storage")}
      \/ idle /\ RefreshStorage(p) \in {a, [a EXCEPT !.volumes = 0]}
  BY DEF RefreshStorage
<1>3. \/ RefreshAndroid(p) \in {[q EXCEPT !.view = NoView], PutOff(q, "listing")}
      \/ idle /\ RefreshAndroid(p) \in {b, [b EXCEPT !.view = NoView]}
  BY DEF RefreshAndroid
<1> HIDE DEF q
<1>4. idle => Good(a) /\ Good(b)
  BY <1>1, ReaderGood
<1>5. Good([q EXCEPT !.volumes = 0]) /\ Good([q EXCEPT !.view = NoView])
  BY <1>1, EmptiedGood
<1>6. Good(PutOff(q, "storage")) /\ Good(PutOff(q, "listing"))
  BY <1>1, PutOffGood
<1> HIDE DEF a, b, idle
<1>7. idle => Good([a EXCEPT !.volumes = 0]) /\ Good([b EXCEPT !.view = NoView])
  BY <1>4, EmptiedGood
<1> QED BY <1>2, <1>3, <1>4, <1>5, <1>6, <1>7

\* Both; and both when the page is asked for the first time.
LEMMA RefreshAllGood ==
  ASSUME NEW q, Good(q)
  PROVE  Good(RefreshAll(q)) /\ Good(MaybeRefresh(q))
<1>1. ASSUME NEW p, Good(p) PROVE Good(RefreshAll(p))
  <2>1. Good(InvalidateStale(p))
    BY <1>1, InvalidateGood
  <2>2. Good(RefreshStorage(InvalidateStale(p)))
    BY <2>1, RefreshGood
  <2> QED BY <2>2, RefreshGood DEF RefreshAll
<1>2. Good([q EXCEPT !.privilege = FALSE])
  BY EmptiedGood
<1> QED BY <1>1, <1>2 DEF MaybeRefresh

\* The refresh a verified mode brings.
LEMMA AfterPrivilegeGood ==
  ASSUME NEW q, Good(q)
  PROVE  Good(AfterPrivilege(q))
<1>1. Good(MaybeRefresh(q))
  BY RefreshAllGood
<1>2. /\ Good([q EXCEPT !.again["storage"] = FALSE])
      /\ Good([q EXCEPT !.again["listing"] = FALSE])
  BY EmptiedGood DEF Passive
<1>3. /\ Good(RefreshStorage([q EXCEPT !.again["storage"] = FALSE]))
      /\ Good(RefreshAndroid([q EXCEPT !.again["listing"] = FALSE]))
  BY <1>2, RefreshGood
<1> QED BY <1>1, <1>3 DEF AfterPrivilege

\* Confirmed work that starts at once, in a slot of its own.
LEMMA ConfirmedRecord ==
  ASSUME NEW q \in FileStates, NEW s \in {"action", "transfer"},
         NEW what \in Wishes, NEW c \in Nat
  PROVE  \E t \in FileTokens :
           /\ t.phase = "running" /\ ~t.fresh
           /\ Register(q, s, what, c) = [q EXCEPT !.work[s] = t]
<1> DEFINE l == IF Leased(what) THEN q.lease ELSE 0
           t == [phase |-> "running", ctx |-> c, lease |-> l, path |-> q.path,
                 cancelled |-> FALSE, fresh |-> s \in Passive, requested |-> s \in Passive,
                 refresh |-> Rereads(what)]
<1>1. /\ (s \in Passive) = FALSE /\ Rereads(what) \in BOOLEAN /\ l \in Nat
      /\ q.path \in Paths
  BY DEF Passive, Rereads, FileStates, Paths
<1>2. Register(q, s, what, c) = [q EXCEPT !.work[s] = t]
  BY DEF Register
<1> HIDE DEF l
<1>3. t \in FileTokens /\ t.phase = "running" /\ ~t.fresh
  BY <1>1 DEF FileTokens, TokenPhases
<1> HIDE DEF t
<1> QED BY <1>2, <1>3

\* A file action is registered.
LEMMA ActionRegistered ==
  ASSUME NEW q, Good(q), NEW what \in Wishes, NEW c \in Nat
  PROVE  Good(Register(q, "action", what, c))
<1>1. q \in FileStates /\ PageInv(q)
  BY DEF Good
<1>2. PICK t \in FileTokens :
        t.phase = "running" /\ Register(q, "action", what, c) = [q EXCEPT !.work["action"] = t]
  BY <1>1, ConfirmedRecord
<1> DEFINE r == [q EXCEPT !.work["action"] = t]
<1>3. /\ r \in FileStates /\ r.lease = q.lease /\ r.view = q.view /\ r.action = q.action
      /\ r.prompt = q.prompt /\ r.waiting = q.waiting /\ r.running = q.running
      /\ \A z \in Slots : z # "action" => r.work[z] = q.work[z]
  BY <1>1 DEF FileStates, Slots
<1> HIDE DEF r
<1>4. \A z \in Passive : r.work[z] = q.work[z]
  BY <1>3 DEF Passive, Slots
<1>5. r.work["listing"] = q.work["listing"] /\ r.work["transfer"] = q.work["transfer"]
  BY <1>3 DEF Slots
<1>6. PageInv(r)
  BY <1>1, <1>3, <1>4, <1>5 DEF PageInv, RowsInv, WakeInv, ButtonInv, Reads, Busy
<1> QED BY <1>2, <1>3, <1>6 DEF Good, r

\* A transfer starts, the one that waited or one that need not wait.
LEMMA TransferStarted ==
  ASSUME NEW q \in FileStates, RowsInv(q), q.prompt = NoStart,
         q.action = NoStart \/ Reads(q, q.action.ctx),
         NEW w \in TransferStarts, w # NoStart
  PROVE  Good(StartTransfer(q, w))
<1> DEFINE what == w.what
           c == w.ctx
<1>1. what \in Wishes /\ c \in Nat
  BY DEF Transfers, Wishes, TransferStarts
<1>2. PICK t \in FileTokens :
        /\ t.phase = "running"
        /\ Register(q, "transfer", what, c) = [q EXCEPT !.work["transfer"] = t]
  <2> HIDE DEF what, c
  <2> QED BY <1>1, ConfirmedRecord
<1> DEFINE p == [q EXCEPT !.work["transfer"] = t]
           r == [p EXCEPT !.waiting = NoStart, !.running = TRUE]
<1>3. /\ p \in FileStates /\ p.lease = q.lease /\ p.view = q.view /\ p.action = q.action
      /\ p.prompt = q.prompt /\ p.work["transfer"] = t
      /\ \A z \in Slots : z # "transfer" => p.work[z] = q.work[z]
  BY DEF FileStates, Slots
<1>4. StartTransfer(q, w) = r
  BY <1>2 DEF StartTransfer
<1> HIDE DEF p
<1>5. /\ r \in FileStates /\ r.lease = p.lease /\ r.view = p.view /\ r.action = p.action
      /\ r.prompt = p.prompt /\ r.waiting = NoStart /\ r.running = TRUE /\ r.work = p.work
  BY <1>3, BlankPage DEF FileStates
<1> HIDE DEF r
<1>6. \A z \in Passive : r.work[z] = q.work[z]
  BY <1>3, <1>5 DEF Passive, Slots
<1>7. r.work["listing"] = q.work["listing"] /\ r.work["transfer"] = t
  BY <1>3, <1>5 DEF Slots
<1>8. RowsInv(r)
  BY <1>3, <1>5, <1>7 DEF RowsInv
<1>9. WakeInv(r)
  BY <1>3, <1>5, <1>6 DEF WakeInv, Reads, Busy
<1>10. ButtonInv(r)
  BY <1>2, <1>3, <1>5, <1>7 DEF ButtonInv, Busy, NoStart, Transfers
<1> QED BY <1>4, <1>5, <1>8, <1>9, <1>10 DEF Good, PageInv

\* PassiveTokens, in the words of the invariant.
LEMMA PassiveReads ==
  ASSUME NEW q, NEW c
  PROVE  PassiveTokens(q, c) # {} <=> Reads(q, c)
  BY DEF PassiveTokens, Reads

\* A confirmed transfer, asked for while no other is.
LEMMA TransferAsked ==
  ASSUME NEW q, Good(q), NEW w \in TransferStarts, w # NoStart, ~q.running,
         q.prompt = NoStart, q.action = NoStart
  PROVE  Good(StartOrDeferTransfer(q, w))
<1>1. q \in FileStates /\ PageInv(q)
  BY DEF Good
<1> DEFINE again == [s \in Passive |-> FALSE]
           p == [q EXCEPT !.waiting = w, !.running = TRUE, !.again = again]
<1>2. CASE PassiveTokens(q, w.ctx) = {}
  <2>1. Good(StartTransfer(q, w))
    BY <1>1, TransferStarted DEF PageInv
  <2> QED BY <1>2, <2>1 DEF StartOrDeferTransfer
<1>3. CASE PassiveTokens(q, w.ctx) # {}
  <2>1. again \in [Passive -> BOOLEAN]
    OBVIOUS
  <2>2. StartOrDeferTransfer(q, w) \in {q, Cancel(p, PassiveTokens(q, w.ctx))}
    BY <1>3 DEF StartOrDeferTransfer
  <2> HIDE DEF again
  <2>3. p \in FileStates
    BY <1>1, <2>1 DEF FileStates
  <2>4. /\ p.lease = q.lease /\ p.view = q.view /\ p.action = q.action /\ p.prompt = q.prompt
        /\ p.waiting = w /\ p.running = TRUE /\ p.work = q.work
    BY <1>1 DEF FileStates
  <2> HIDE DEF p
  <2>5. Reads(p, w.ctx)
    BY <1>3, <2>4, PassiveReads DEF Reads, Busy
  <2>6. ~Busy(q, "transfer")
    BY <1>1 DEF PageInv, ButtonInv
  <2>7. PageInv(p)
    BY <1>1, <2>4, <2>5, <2>6
    DEF PageInv, RowsInv, WakeInv, ButtonInv, Busy, NoStart, Transfers
  <2>8. PassiveTokens(q, w.ctx) \in SUBSET Slots
    BY DEF PassiveTokens, Passive, Slots
  <2>9. Good(p)
    BY <2>3, <2>7 DEF Good
  <2> QED BY <2>2, <2>8, <2>9, CancelGood
<1> QED BY <1>2, <1>3

\* A confirmed file action.
LEMMA ActionAsked ==
  ASSUME NEW q, Good(q), NEW w \in FileStarts, w # NoStart, q.prompt = NoStart
  PROVE  Good(StartAction(q, w))
<1>1. q \in FileStates /\ PageInv(q) /\ w.ctx \in Nat /\ w.what \in Wishes
  BY DEF Good, FileStarts
<1> DEFINE again == [s \in Passive |-> FALSE]
           p == [q EXCEPT !.action = w, !.again = again]
<1>2. CASE q.running \/ PassiveTokens(q, w.ctx) = {}
  <2>1. Good(Register(q, "action", w.what, w.ctx))
    BY <1>1, ActionRegistered
  <2> QED BY <1>2, <2>1 DEF StartAction
<1>3. CASE ~q.running /\ PassiveTokens(q, w.ctx) # {}
  <2>1. again \in [Passive -> BOOLEAN]
    OBVIOUS
  <2>2. StartAction(q, w) \in {q, Cancel(p, PassiveTokens(q, w.ctx))}
    BY <1>3 DEF StartAction
  <2> HIDE DEF again
  <2>3. p \in FileStates
    BY <1>1, <2>1 DEF FileStates
  <2>4. /\ p.lease = q.lease /\ p.view = q.view /\ p.action = w /\ p.prompt = q.prompt
        /\ p.waiting = q.waiting /\ p.running = q.running /\ p.work = q.work
    BY <1>1 DEF FileStates
  <2> HIDE DEF p
  <2>5. Reads(p, w.ctx)
    BY <1>3, <2>4, PassiveReads DEF Reads, Busy
  <2>6. q.waiting = NoStart
    BY <1>1, <1>3 DEF PageInv, ButtonInv
  <2>7. PageInv(p)
    BY <1>1, <2>4, <2>5, <2>6
    DEF PageInv, RowsInv, WakeInv, ButtonInv, Busy, NoStart, Transfers
  <2>8. PassiveTokens(q, w.ctx) \in SUBSET Slots
    BY DEF PassiveTokens, Passive, Slots
  <2>9. Good(p)
    BY <2>3, <2>7 DEF Good
  <2> QED BY <2>2, <2>8, <2>9, CancelGood
<1> QED BY <1>2, <1>3

\* What is left when the last reader an action waited for has gone.
LEMMA ActionGivenUpGood ==
  ASSUME NEW q \in FileStates, RowsInv(q), ButtonInv(q),
         q.waiting # NoStart => Reads(q, q.waiting.ctx)
  PROVE  Good(ActionGivenUp(q))
<1> DEFINE again == IF Current(q, q.action.ctx) THEN [s \in Passive |-> s = "listing"]
                    ELSE [s \in Passive |-> TRUE]
           r == [q EXCEPT !.action = NoStart, !.again = again]
<1>1. again \in [Passive -> BOOLEAN]
  OBVIOUS
<1>2. ActionGivenUp(q) = r
  BY DEF ActionGivenUp
<1> HIDE DEF again
<1>3. /\ r \in FileStates /\ r.lease = q.lease /\ r.view = q.view /\ r.work = q.work
      /\ r.prompt = q.prompt /\ r.waiting = q.waiting /\ r.running = q.running
      /\ r.action = NoStart
  BY <1>1, BlankPage DEF FileStates
<1> HIDE DEF r
<1>4. PageInv(r)
  BY <1>3 DEF PageInv, RowsInv, WakeInv, ButtonInv, Busy, Reads
<1> QED BY <1>2, <1>3, <1>4 DEF Good

\* What follows a transfer: the folder is read again, and an action may start.
LEMMA AfterTransferGood ==
  ASSUME NEW q \in FileStates, RowsInv(q), ButtonInv(q),
         q.waiting # NoStart => Reads(q, q.waiting.ctx)
  PROVE  Good(AfterTransfer(q))
<1>1. CASE ~MayStart(q, q.action)
  <2>1. Good(q)
    BY <1>1, PassiveReads DEF Good, PageInv, WakeInv, MayStart
  <2> QED BY <1>1, <2>1, AfterPrivilegeGood DEF AfterTransfer
<1>2. CASE MayStart(q, q.action)
  <2> DEFINE again == [s \in Passive |-> FALSE]
             r == [q EXCEPT !.action = NoStart, !.again = again]
  <2>1. AfterTransfer(q) \in {AfterPrivilege(ActionGivenUp(q)),
                              Register(r, "action", q.action.what, q.action.ctx)}
    BY <1>2 DEF AfterTransfer
  <2>2. Good(AfterPrivilege(ActionGivenUp(q)))
    BY ActionGivenUpGood, AfterPrivilegeGood
  <2>3. again \in [Passive -> BOOLEAN]
    OBVIOUS
  <2> HIDE DEF again
  <2>4. /\ r \in FileStates /\ r.lease = q.lease /\ r.view = q.view /\ r.work = q.work
        /\ r.prompt = q.prompt /\ r.waiting = q.waiting /\ r.running = q.running
        /\ r.action = NoStart
    BY <2>3, BlankPage DEF FileStates
  <2> HIDE DEF r
  <2>5. Good(r)
    BY <2>4 DEF Good, PageInv, RowsInv, WakeInv, ButtonInv, Busy, Reads
  <2>6. q.action.ctx \in Nat /\ q.action.what \in Wishes
    BY <1>2 DEF MayStart, FileStates, FileStarts
  <2> QED BY <2>1, <2>2, <2>5, <2>6, ActionRegistered
<1> QED BY <1>1, <1>2

\* What follows a reader: the work that waited for it starts, or is given up with the
\* connection it was for.
LEMMA AfterScanGood ==
  ASSUME NEW q \in FileStates, RowsInv(q), ButtonInv(q)
  PROVE  Good(AfterScan(q))
<1>1. CASE ~MayStart(q, q.waiting)
  <2>1. q.waiting # NoStart => Reads(q, q.waiting.ctx)
    BY <1>1, PassiveReads DEF MayStart
  <2> QED BY <1>1, <2>1, AfterTransferGood DEF AfterScan
<1>2. CASE MayStart(q, q.waiting) /\ CanCapture(q, q.waiting.ctx)
  <2>1. q.waiting \in TransferStarts /\ q.waiting # NoStart
    BY <1>2 DEF MayStart, FileStates
  <2>2. q.action = NoStart /\ q.running
    BY <2>1 DEF ButtonInv
  <2>3. q.prompt = NoStart
    BY <2>2 DEF ButtonInv
  <2>4. Good(StartTransfer(q, q.waiting))
    BY <2>1, <2>2, <2>3, TransferStarted
  <2> QED BY <1>2, <2>4 DEF AfterScan
<1>3. CASE MayStart(q, q.waiting) /\ ~CanCapture(q, q.waiting.ctx)
  <2> DEFINE p == ClearWaiting([q EXCEPT !.waiting = NoStart])
             r == TransferGivenUp(q)
             again == [s \in Passive |->
                         s = "listing" \/ p.again[s] \/ ~Current(q, q.waiting.ctx)]
  <2>1. q.waiting # NoStart
    BY <1>3 DEF MayStart
  <2>2. /\ p \in FileStates /\ p.waiting = NoStart /\ p.work = q.work /\ p.lease = q.lease
        /\ p.view = q.view /\ p.action = q.action /\ p.prompt = q.prompt
        /\ p.running = IF Busy(q, "transfer") THEN q.running ELSE FALSE
    <3> DEFINE o == [q EXCEPT !.waiting = NoStart]
    <3>1. Busy(o, "transfer") <=> Busy(q, "transfer")
      BY DEF Busy, FileStates
    <3>2. p = IF Busy(q, "transfer") THEN o
              ELSE [q EXCEPT !.waiting = NoStart, !.running = FALSE]
      BY <3>1 DEF ClearWaiting, FileStates
    <3> HIDE DEF p
    <3> QED BY <3>2, BlankPage DEF FileStates
  <2>3. r = [p EXCEPT !.again = again]
    BY DEF TransferGivenUp
  <2> HIDE DEF p, r
  <2>4. again \in [Passive -> BOOLEAN]
    <3>1. \A s \in Passive :
            (s = "listing" \/ p.again[s] \/ ~Current(q, q.waiting.ctx)) \in BOOLEAN
      OBVIOUS
    <3> QED BY <3>1
  <2> HIDE DEF again
  <2>5. /\ r \in FileStates /\ r.waiting = NoStart /\ r.work = q.work /\ r.lease = q.lease
        /\ r.view = q.view /\ r.action = q.action /\ r.prompt = q.prompt
        /\ r.running = IF Busy(q, "transfer") THEN q.running ELSE FALSE
    BY <2>2, <2>3, <2>4 DEF FileStates
  <2>6. RowsInv(r) /\ ButtonInv(r)
    BY <2>1, <2>5 DEF RowsInv, ButtonInv, Busy
  <2>7. Good(AfterTransfer(r))
    BY <2>5, <2>6, AfterTransferGood
  <2> QED BY <1>3, <2>7 DEF AfterScan, r
<1> QED BY <1>1, <1>2, <1>3

\* Such handlers, as steps of the model.
LEMMA AlikeStep ==
  ASSUME FilesInv, files' \in FileStates, Alike(files, files')
  PROVE  FilesInv'
<1>1. Good(files')
  BY AlikeKeeps DEF FilesInv
<1> QED BY <1>1 DEF Good, FilesInv

\* The same of a handler whose result is good.
LEMMA GoodStep ==
  ASSUME Good(files')
  PROVE  FilesInv'
  BY DEF Good, FilesInv

\* One record of `work` replaced.
LEMMA TokenReplaced ==
  ASSUME NEW q \in FileStates, NEW s \in Slots, NEW t \in FileTokens
  PROVE  LET r == [q EXCEPT !.work[s] = t]
         IN  /\ r \in FileStates /\ r.lease = q.lease /\ r.view = q.view /\ r.action = q.action
             /\ r.prompt = q.prompt /\ r.waiting = q.waiting /\ r.running = q.running
             /\ r.work[s] = t /\ \A z \in Slots : z # s => r.work[z] = q.work[z]
  BY DEF FileStates

\* The worker of a slot ends; its result or its error is shown.
LEMMA FilesWorkStep ==
  ASSUME FilesInv, NEW s \in Slots, Work(s) \/ ErrorShown(s) \/ ResultShown(s)
  PROVE  FilesInv'
<1>1. files \in FileStates /\ files.work[s] \in FileTokens
  BY SMTT(30) DEF FilesInv, FileStates
<1>2. PICK phase \in {"result", "error", "finished"}, refresh \in BOOLEAN :
        files' = [files EXCEPT !.work[s].phase = phase, !.work[s].refresh = refresh]
  <2>1. CASE Work(s)
    <3> DEFINE b == files.work[s].refresh
    <3>1. b \in BOOLEAN
      BY <1>1 DEF FileTokens
    <3>2. PICK phase \in {"result", "error"} : files' = [files EXCEPT !.work[s].phase = phase]
      BY <2>1 DEF Work
    <3>3. [files.work[s] EXCEPT !.phase = phase]
            = [files.work[s] EXCEPT !.phase = phase, !.refresh = b]
      BY <1>1 DEF FileTokens
    <3>4. files' = [files EXCEPT !.work[s].phase = phase, !.work[s].refresh = b]
      BY <1>1, <3>2, <3>3 DEF FileStates
    <3> QED BY <3>1, <3>4
  <2>2. CASE ErrorShown(s)
    BY <2>2 DEF ErrorShown
  <2>3. CASE ResultShown(s)
    <3> DEFINE b == /\ files.work[s].refresh /\ Current(files, files.work[s].ctx)
                    /\ s = "action" => ~files.work[s].cancelled
    <3>1. b \in BOOLEAN
      OBVIOUS
    <3>2. files' = [files EXCEPT !.work[s].phase = "finished", !.work[s].refresh = b]
      BY <2>3 DEF ResultShown
    <3> QED BY <3>1, <3>2
  <2> QED BY <2>1, <2>2, <2>3
<1>3. files.work[s].phase # "none"
  BY DEF Work, ErrorShown, ResultShown
<1> DEFINE t == [files.work[s] EXCEPT !.phase = phase, !.refresh = refresh]
<1>4. /\ t \in FileTokens /\ t.phase # "none" /\ t.ctx = files.work[s].ctx
      /\ t.lease = files.work[s].lease /\ t.fresh = files.work[s].fresh
  BY <1>1 DEF FileTokens, TokenPhases
<1>5. files' = [files EXCEPT !.work[s] = t]
  BY <1>1, <1>2 DEF FileStates
<1> HIDE DEF t
<1>6. files' \in FileStates /\ Alike(files, files')
  BY <1>1, <1>3, <1>4, <1>5, TokenReplaced DEF Alike
<1> QED BY <1>6, AlikeStep

\* The rows of a folder, or the volumes, are shown: rows only of a listing that is
\* still believed.
LEMMA LoadedStep ==
  ASSUME FilesInv, ItemsLoaded \/ VolumesLoaded
  PROVE  FilesInv'
<1>1. files \in FileStates /\ PageInv(files)
  BY DEF FilesInv
<1>2. ASSUME NEW s \in Passive, files.work[s].phase = "result"
      PROVE  LET t == [files.work[s] EXCEPT !.phase = "finished"]
                 p == [files EXCEPT !.work[s] = t]
             IN  /\ p = [files EXCEPT !.work[s].phase = "finished"]
                 /\ p \in FileStates /\ Alike(files, p) /\ p.lease = files.lease
                 /\ p.view = files.view
  <2> DEFINE t == [files.work[s] EXCEPT !.phase = "finished"]
             p == [files EXCEPT !.work[s] = t]
  <2>1. s \in Slots /\ files.work[s] \in FileTokens
    BY <1>1 DEF FileStates, Passive, Slots
  <2>2. /\ t \in FileTokens /\ t.phase # "none" /\ t.ctx = files.work[s].ctx
        /\ t.lease = files.work[s].lease /\ t.fresh = files.work[s].fresh
    BY <2>1 DEF FileTokens, TokenPhases
  <2>3. p = [files EXCEPT !.work[s].phase = "finished"]
    BY <1>1 DEF FileStates
  <2> HIDE DEF t
  <2>4. p \in FileStates /\ Alike(files, p) /\ p.lease = files.lease /\ p.view = files.view
    BY <1>1, <1>2, <2>1, <2>2, TokenReplaced DEF Alike
  <2> QED BY <2>3, <2>4 DEF t
<1>3. CASE VolumesLoaded
  <2> DEFINE p == [files EXCEPT !.work["storage"].phase = "finished"]
             c == files.work["storage"].ctx
             n == IF OperationIsCurrent(files, "storage") /\ files.work["storage"].fresh
                  THEN c ELSE files.volumes
             r == [p EXCEPT !.volumes = n]
  <2>1. p \in FileStates /\ Alike(files, p)
    BY <1>2, <1>3 DEF VolumesLoaded, Passive
  <2>2. n \in Nat
    BY <1>1 DEF FileStates, FileTokens, Slots
  <2>3. files' = r
    BY <1>3 DEF VolumesLoaded
  <2> HIDE DEF p, n
  <2>4. Good(p)
    BY <1>1, <2>1, AlikeKeeps
  <2>5. r \in FileStates /\ Alike(p, r)
    BY <2>1, <2>2 DEF FileStates, Alike
  <2>6. Good(r)
    BY <2>1, <2>4, <2>5, AlikeKeeps DEF Good
  <2> QED BY <2>3, <2>6, GoodStep
<1>4. CASE ItemsLoaded
  <2> DEFINE p == [files EXCEPT !.work["listing"].phase = "finished"]
             t == files.work["listing"]
             v == IF OperationIsCurrent(files, "listing") /\ t.fresh /\ t.path = files.path
                  THEN [ctx |-> t.ctx, path |-> t.path, lease |-> t.lease] ELSE files.view
             r == [p EXCEPT !.view = v]
  <2>1. p \in FileStates /\ Alike(files, p) /\ p.lease = files.lease
    BY <1>2, <1>4 DEF ItemsLoaded, Passive
  <2>2. t \in FileTokens /\ files.view \in FileViews /\ (t.fresh => t.lease = files.lease)
    BY <1>1 DEF FileStates, Slots, PageInv, RowsInv
  <2>3. v \in FileViews /\ (v.ctx # 0 => v.lease = files.lease)
    BY <1>1, <2>2 DEF FileTokens, FileViews, PageInv, RowsInv
  <2>4. files' = r
    BY <1>4 DEF ItemsLoaded
  <2>5. Good(p)
    BY <1>1, <2>1, AlikeKeeps
  <2> HIDE DEF p, v
  <2>6. /\ r \in FileStates /\ r.lease = p.lease /\ r.view = v /\ r.action = p.action
        /\ r.prompt = p.prompt /\ r.waiting = p.waiting /\ r.running = p.running
        /\ r.work = p.work
    BY <2>1, <2>3 DEF FileStates
  <2> HIDE DEF r
  <2>7. PageInv(r)
    BY <2>1, <2>3, <2>5, <2>6 DEF Good, PageInv, RowsInv, WakeInv, ButtonInv, Reads, Busy
  <2> QED BY <2>4, <2>6, <2>7, GoodStep DEF Good
<1> QED BY <1>3, <1>4

\* An operation is unregistered: for a moment nobody may be left to wake what waits.
LEMMA ReleasedPage ==
  ASSUME NEW q, Good(q), NEW s \in Slots
  PROVE  /\ Released(q, s) \in FileStates /\ RowsInv(Released(q, s))
         /\ s \in Passive => ButtonInv(Released(q, s))
         /\ s = "action" => Good(Released(q, s))
<1> DEFINE r == [q EXCEPT !.work[s] = NoToken]
<1>1. q \in FileStates /\ PageInv(q)
  BY DEF Good
<1>2. /\ r \in FileStates /\ r.lease = q.lease /\ r.view = q.view /\ r.action = q.action
      /\ r.prompt = q.prompt /\ r.waiting = q.waiting /\ r.running = q.running
      /\ r.work[s] = NoToken /\ \A z \in Slots : z # s => r.work[z] = q.work[z]
  BY <1>1, BlankPage, TokenReplaced
<1>3. Released(q, s) = r
  BY DEF Released
<1> HIDE DEF r
<1>4. RowsInv(r)
  BY <1>1, <1>2 DEF PageInv, RowsInv, NoToken, Slots
<1>5. ASSUME s # "transfer" PROVE ButtonInv(r)
  BY <1>1, <1>2, <1>5 DEF PageInv, ButtonInv, Busy, Slots
<1>6. ASSUME s = "action" PROVE WakeInv(r)
  <2>1. \A z \in Passive : r.work[z] = q.work[z]
    BY <1>2, <1>6 DEF Passive, Slots
  <2> QED BY <1>1, <1>2, <2>1 DEF PageInv, WakeInv, Reads, Busy
<1> QED BY <1>2, <1>3, <1>4, <1>5, <1>6 DEF Good, PageInv, Passive

\* The thread of a reader is gone, and wakes what waits.
LEMMA ScanFinishedStep ==
  ASSUME FilesInv, NEW s \in Slots, ScanFinished(s)
  PROVE  FilesInv'
<1>1. Good(files) /\ s \in Passive /\ files' = AfterScan(Released(files, s))
  BY DEF ScanFinished, Good, FilesInv
<1>2. Good(AfterScan(Released(files, s)))
  BY <1>1, ReleasedPage, AfterScanGood
<1> QED BY <1>1, <1>2, GoodStep

\* The thread of a file action is gone.
LEMMA ActionFinishedStep ==
  ASSUME FilesInv, ActionFinished
  PROVE  FilesInv'
<1> DEFINE q == Released(files, "action")
<1>1. Good(files) /\ "action" \in Slots
  BY DEF Good, FilesInv, Slots
<1>2. Good(q)
  BY <1>1, ReleasedPage
<1>3. files' \in {MaybeRefresh(RefreshAndroid(q)), MaybeRefresh(q)}
  BY DEF ActionFinished
<1> HIDE DEF q
<1>4. Good(MaybeRefresh(RefreshAndroid(q))) /\ Good(MaybeRefresh(q))
  BY <1>2, RefreshGood, RefreshAllGood
<1> QED BY <1>3, <1>4, GoodStep

\* The thread of a transfer is gone.
LEMMA TransferFinishedStep ==
  ASSUME FilesInv, TransferFinished
  PROVE  FilesInv'
<1> DEFINE q == Released(files, "transfer")
           freed == [q EXCEPT !.running = FALSE, !.deferred = FALSE]
           owed == IF files.deferred THEN RefreshAndroid(RefreshStorage(freed)) ELSE freed
<1>1. files \in FileStates /\ PageInv(files) /\ Good(files) /\ "transfer" \in Slots
  BY DEF Good, FilesInv, Slots
<1>2. /\ q \in FileStates /\ q.lease = files.lease /\ q.view = files.view
      /\ q.action = files.action /\ q.prompt = files.prompt /\ q.waiting = files.waiting
      /\ q.work["transfer"] = NoToken
      /\ \A z \in Slots : z # "transfer" => q.work[z] = files.work[z]
  BY <1>1, BlankPage, TokenReplaced DEF Released
<1>3. files.waiting = NoStart
  BY <1>1 DEF PageInv, ButtonInv, TransferFinished, Busy
<1>4. files' \in {owed, MaybeRefresh(RefreshAndroid(owed)), MaybeRefresh(owed)}
  BY DEF TransferFinished
<1> HIDE DEF q
<1>5. /\ freed \in FileStates /\ freed.lease = q.lease /\ freed.view = q.view
      /\ freed.action = q.action /\ freed.prompt = q.prompt /\ freed.waiting = q.waiting
      /\ freed.work = q.work /\ freed.running = FALSE
  BY <1>2 DEF FileStates
<1> HIDE DEF freed
<1>6. /\ \A z \in Passive : freed.work[z] = files.work[z]
      /\ freed.work["listing"] = files.work["listing"]
      /\ freed.work["transfer"].phase = "none"
  BY <1>2, <1>5 DEF Passive, Slots, NoToken
<1>7. PageInv(freed)
  BY <1>1, <1>2, <1>3, <1>5, <1>6 DEF PageInv, RowsInv, WakeInv, ButtonInv, Reads, Busy
<1>8. Good(owed)
  BY <1>5, <1>7, RefreshGood DEF Good
<1> HIDE DEF owed
<1>9. Good(MaybeRefresh(RefreshAndroid(owed))) /\ Good(MaybeRefresh(owed))
  BY <1>8, RefreshGood, RefreshAllGood
<1> QED BY <1>4, <1>8, <1>9, GoodStep

\* The requests held during a transfer are retried.
LEMMA HeldStep ==
  ASSUME FilesInv, RetryHeld
  PROVE  FilesInv'
<1> DEFINE q == ClearHeld(files)
           b == q.again["listing"] \/ files.held["listing"]
           r == [q EXCEPT !.again["listing"] = b]
<1>1. files' \in {q, RefreshStorage(r), RefreshAndroid(q)}
  BY DEF RetryHeld
<1>2. Good(files) /\ Good(q)
  BY ClearHeldGood DEF Good, FilesInv
<1>3. b \in BOOLEAN
  BY <1>2 DEF Good, FileStates
<1> HIDE DEF q, b
<1>4. q \in FileStates /\ PageInv(q)
  BY <1>2 DEF Good
<1>5. r \in FileStates /\ Alike(q, r)
  BY <1>3, <1>4 DEF FileStates, Alike
<1>6. Good(r)
  BY <1>4, <1>5, AlikeKeeps
<1> QED BY <1>1, <1>2, <1>6, RefreshGood, GoodStep

\* The user asks for an action or a transfer.
LEMMA FilesAskStep ==
  ASSUME FilesInv, NEW what \in Wishes, Ask(what)
  PROVE  FilesInv'
<1> DEFINE w == [what |-> what, ctx |-> files.dev]
           r == [files EXCEPT !.prompt = w]
<1>1. files \in FileStates /\ PageInv(files) /\ files' = r
  BY DEF FilesInv, Ask
<1>2. w \in FileStarts /\ w # NoStart /\ w.what = what
  BY <1>1 DEF FileStates, FileStarts, NoStart, Wishes
<1> HIDE DEF w
<1>3. /\ r \in FileStates /\ r.lease = files.lease /\ r.view = files.view
      /\ r.action = files.action /\ r.prompt = w /\ r.waiting = files.waiting
      /\ r.running = files.running /\ r.work = files.work
  BY <1>1, <1>2 DEF FileStates
<1> HIDE DEF r
<1>4. ~files.running /\ (what \in Transfers => files.action = NoStart)
  BY DEF Ask, CanStart
<1>5. PageInv(r)
  BY <1>1, <1>2, <1>3, <1>4 DEF PageInv, RowsInv, WakeInv, ButtonInv, Reads, Busy
<1> QED BY <1>1, <1>3, <1>5, GoodStep DEF Good

\* The user answers.
LEMMA FilesAnswerStep ==
  ASSUME FilesInv, NEW yes \in BOOLEAN, Answer(yes)
  PROVE  FilesInv'
<1> DEFINE w == files.prompt
           q == [files EXCEPT !.prompt = NoStart]
<1>1. files \in FileStates /\ PageInv(files) /\ w # NoStart /\ w \in FileStarts
  BY DEF FilesInv, Answer, FileStates
<1>2. \/ files' = q
      \/ w.what \in Transfers /\ files' = StartOrDeferTransfer(q, w)
      \/ files' = StartAction(q, w)
  BY DEF Answer
<1>3. /\ q \in FileStates /\ q.lease = files.lease /\ q.view = files.view
      /\ q.action = files.action /\ q.prompt = NoStart /\ q.waiting = files.waiting
      /\ q.running = files.running /\ q.work = files.work
  BY <1>1, BlankPage DEF FileStates
<1>4. ~q.running /\ (w.what \in Transfers => q.action = NoStart)
  BY <1>1, <1>3 DEF PageInv, ButtonInv
<1> HIDE DEF q
<1>5. PageInv(q)
  BY <1>1, <1>3 DEF PageInv, RowsInv, WakeInv, ButtonInv, Reads, Busy, NoStart, Transfers
<1>6. Good(q)
  BY <1>3, <1>5 DEF Good
<1> HIDE DEF w
<1>7. CASE w.what \in Transfers /\ files' = StartOrDeferTransfer(q, w)
  <2>1. w \in TransferStarts
    BY <1>1, <1>7 DEF TransferStarts, FileStarts
  <2>2. Good(StartOrDeferTransfer(q, w))
    BY <1>1, <1>3, <1>4, <1>6, <1>7, <2>1, TransferAsked
  <2> QED BY <1>7, <2>2, GoodStep
<1>8. CASE files' = StartAction(q, w)
  <2>1. Good(StartAction(q, w))
    BY <1>1, <1>3, <1>6, ActionAsked
  <2> QED BY <1>8, <2>1, GoodStep
<1> QED BY <1>2, <1>6, <1>7, <1>8, GoodStep

\* The buttons, a verified mode, and work of other pages.
LEMMA FilesPressStep ==
  ASSUME FilesInv, RefreshPressed \/ CancelPressed \/ ModeVerified \/ OtherStarts \/ OtherEnds
  PROVE  FilesInv'
<1>1. files \in FileStates /\ PageInv(files) /\ Good(files)
  BY DEF FilesInv, Good
<1>2. CASE RefreshPressed
  BY <1>1, <1>2, RefreshAllGood, GoodStep DEF RefreshPressed
<1>3. CASE CancelPressed
  <2>1. {"transfer"} \in SUBSET Slots
    BY DEF Slots
  <2> QED BY <1>1, <1>3, <2>1, CancelGood, GoodStep DEF CancelPressed
<1>4. CASE ModeVerified
  <2> DEFINE r == [files EXCEPT !.usable = TRUE, !.privilege = TRUE]
  <2>1. r \in FileStates /\ Alike(files, r)
    BY <1>1 DEF FileStates, Alike
  <2>2. Good(r)
    BY <1>1, <2>1, AlikeKeeps
  <2>3. files' = MaybeRefresh(r)
    BY <1>4 DEF ModeVerified
  <2> HIDE DEF r
  <2> QED BY <2>2, <2>3, RefreshAllGood, GoodStep
<1>5. CASE OtherStarts \/ OtherEnds
  <2>1. PICK o \in OtherWork : files' = [files EXCEPT !.other = o]
    <3>1. CASE OtherStarts
      <4>1. PICK k \in {"apps", "maintenance"} :
              files' = [files EXCEPT !.other = [kind |-> k, ctx |-> files.dev]]
        BY <3>1 DEF OtherStarts
      <4>2. [kind |-> k, ctx |-> files.dev] \in OtherWork
        BY <1>1 DEF FileStates, OtherWork
      <4> QED BY <4>1, <4>2
    <3>2. CASE OtherEnds
      BY <3>2, BlankPage DEF OtherEnds
    <3> QED BY <1>5, <3>1, <3>2
  <2>2. files' \in FileStates /\ Alike(files, files')
    BY <1>1, <2>1 DEF FileStates, Alike
  <2> QED BY <2>2, AlikeStep
<1> QED BY <1>2, <1>3, <1>4, <1>5

\* Another folder.
LEMMA NavigateStep ==
  ASSUME FilesInv, NEW folder \in Folders, NavigateAndroid(folder)
  PROVE  FilesInv'
<1> DEFINE c == Cancel(files, {"listing"})
           b == c.again["listing"] \/ Busy(files, "listing")
           l == [c EXCEPT !.view = NoView, !.path = folder, !.again["listing"] = b]
           t == [l.work["listing"] EXCEPT !.fresh = FALSE]
           r == [l EXCEPT !.work["listing"] = t]
<1>1. {"listing"} \in SUBSET Slots /\ "listing" \in Slots
  BY DEF Slots
<1>2. Good(c)
  BY <1>1, CancelGood DEF Good, FilesInv
<1>3. files' = RefreshAndroid([l EXCEPT !.work["listing"].fresh = FALSE])
  BY DEF NavigateAndroid
<1> HIDE DEF c
<1>4. b \in BOOLEAN /\ c \in FileStates /\ PageInv(c)
  BY <1>2 DEF Good, FileStates
<1> HIDE DEF b
<1>5. l \in FileStates
  <2> DEFINE a == [c.again EXCEPT !["listing"] = b]
             k == [c EXCEPT !.path = folder]
  <2>1. a \in [Passive -> BOOLEAN]
    BY <1>4 DEF FileStates
  <2>2. k \in FileStates
    BY <1>4 DEF FileStates
  <2>3. l = [k EXCEPT !.view = NoView, !.again = a]
    BY <1>4 DEF FileStates
  <2> HIDE DEF a, k, l
  <2> QED BY <2>1, <2>2, <2>3, BlankPage DEF FileStates
<1>6. /\ l.lease = c.lease /\ l.prompt = c.prompt /\ l.running = c.running
      /\ l.waiting = c.waiting /\ l.action = c.action /\ l.view = NoView /\ l.work = c.work
  BY <1>4 DEF FileStates
<1>7. Alike(c, l)
  BY <1>6 DEF Alike, NoView
<1>8. Good(l)
  BY <1>4, <1>5, <1>7, AlikeKeeps
<1> HIDE DEF l
<1>9. l.work["listing"] \in FileTokens
  BY <1>1, <1>5 DEF FileStates
<1>10. /\ t \in FileTokens /\ t.phase = l.work["listing"].phase
       /\ t.ctx = l.work["listing"].ctx /\ t.lease = l.work["listing"].lease /\ ~t.fresh
  BY <1>9 DEF FileTokens
<1>11. [l EXCEPT !.work["listing"].fresh = FALSE] = r
  BY <1>5 DEF FileStates
<1> HIDE DEF t
<1>12. r \in FileStates /\ Alike(l, r)
  BY <1>1, <1>5, <1>10, TokenReplaced DEF Alike
<1> HIDE DEF r
<1>13. Good(r)
  BY <1>5, <1>8, <1>12, AlikeKeeps DEF Good
<1> QED BY <1>3, <1>11, <1>13, RefreshGood, GoodStep

\* Another connection: what was confirmed for the old one is given up.
LEMMA DeviceStep ==
  ASSUME FilesInv, DeviceChanges
  PROVE  FilesInv'
<1> DEFINE c == Cancel(files, Slots)
<1>1. PICK connected \in BOOLEAN, shown \in BOOLEAN :
        LET q == [c EXCEPT !.dev = @ + 1, !.up = connected, !.usable = connected]
        IN  files' \in {RefreshAll(InvalidateStale(q)), InvalidateStale(q)}
  BY DEF DeviceChanges
<1>2. Good(c)
  BY CancelGood DEF Good, FilesInv
<1> HIDE DEF c
<1> DEFINE n == c.dev + 1
           q == [c EXCEPT !.dev = n, !.up = connected, !.usable = connected]
<1>3. c \in FileStates /\ PageInv(c) /\ n \in Nat
  BY <1>2 DEF Good, FileStates
<1>4. files' \in {RefreshAll(InvalidateStale(q)), InvalidateStale(q)}
  BY <1>1
<1> HIDE DEF n
<1>5. q \in FileStates /\ Alike(c, q)
  BY <1>3 DEF FileStates, Alike
<1>6. Good(q)
  BY <1>3, <1>5, AlikeKeeps
<1> HIDE DEF q
<1>7. Good(InvalidateStale(q))
  BY <1>6, InvalidateGood
<1> QED BY <1>4, <1>7, RefreshAllGood, GoodStep

\* Another access mode: no reader of the one before is believed.
LEMMA ModeStep ==
  ASSUME FilesInv, ModeChanges
  PROVE  FilesInv'
<1> DEFINE h == ClearHeld(files)
           d == DropWaiting(h, TRUE)
           c == Cancel(d, LeasedSlots(files))
           o == Outdate(c)
<1>1. PICK verified \in BOOLEAN :
        files' = [o EXCEPT !.lease = @ + 1, !.usable = verified, !.action = NoStart,
                           !.again = [s \in Passive |-> FALSE],
                           !.work = [s \in Slots |-> [o.work[s] EXCEPT !.requested = FALSE]],
                           !.view = NoView, !.volumes = 0]
  BY DEF ModeChanges
<1>2. Good(h)
  BY ClearHeldGood DEF Good, FilesInv
<1>3. Good(d)
  BY <1>2, DropWaitingGood
<1>4. LeasedSlots(files) \in SUBSET Slots
  BY DEF LeasedSlots
<1>5. Good(c)
  BY <1>3, <1>4, CancelGood
<1>6. Good(o) /\ ~o.work["listing"].fresh
  BY <1>5, OutdateGood
<1> HIDE DEF o
<1> DEFINE n == o.lease + 1
           a == [s \in Passive |-> FALSE]
           w == [s \in Slots |-> [o.work[s] EXCEPT !.requested = FALSE]]
           p == [o EXCEPT !.usable = verified, !.action = NoStart, !.again = a, !.work = w]
           r == [p EXCEPT !.lease = n, !.view = NoView, !.volumes = 0]
<1>7. o \in FileStates /\ PageInv(o) /\ n \in Nat
  BY <1>6 DEF Good, FileStates
<1>8. a \in [Passive -> BOOLEAN] /\ w \in [Slots -> FileTokens]
  BY ZenonT(60), <1>7 DEF FileStates, FileTokens
<1>9. \A s \in Slots : /\ w[s].phase = o.work[s].phase /\ w[s].ctx = o.work[s].ctx
                       /\ w[s].lease = o.work[s].lease /\ w[s].fresh = o.work[s].fresh
  BY <1>7 DEF FileStates, FileTokens
<1>10. files' = [o EXCEPT !.lease = n, !.usable = verified, !.action = NoStart, !.again = a,
                          !.work = w, !.view = NoView, !.volumes = 0]
  BY <1>1
<1> HIDE DEF a, w, n
<1>11. files' = r
  BY <1>7, <1>10 DEF FileStates
<1>12. p \in FileStates /\ Alike(o, p) /\ p.work = w
  BY <1>7, <1>8, <1>9, BlankPage DEF FileStates, Alike
<1>13. Good(p)
  BY <1>7, <1>12, AlikeKeeps
<1> HIDE DEF p
<1>14. /\ r \in FileStates /\ r.lease = n /\ r.view = NoView /\ r.action = p.action
       /\ r.prompt = p.prompt /\ r.waiting = p.waiting /\ r.running = p.running
       /\ r.work = p.work
  BY <1>7, <1>12, BlankPage DEF FileStates
<1>15. ~r.work["listing"].fresh
  BY <1>6, <1>9, <1>12, <1>14 DEF Slots
<1> HIDE DEF r
<1>16. PageInv(r)
  BY <1>13, <1>14, <1>15 DEF Good, PageInv, RowsInv, WakeInv, ButtonInv, Reads, Busy, NoView
<1> QED BY SMTT(30), <1>11, <1>14, <1>16, GoodStep DEF Good

\* The page before anything was done.
LEMMA FreshFilesGood ==
  ASSUME NEW connected \in BOOLEAN, NEW same \in BOOLEAN
  PROVE  LET q == FreshFiles(connected, same)
         IN  /\ q \in FileStates /\ q.view = NoView /\ q.waiting = NoStart
             /\ q.action = NoStart /\ q.prompt = NoStart /\ q.running = FALSE
             /\ \A s \in Slots : q.work[s] = NoToken
<1> DEFINE w == [s \in Slots |-> NoToken]
           a == [s \in Passive |-> FALSE]
<1>1. /\ w \in [Slots -> FileTokens] /\ a \in [Passive -> BOOLEAN] /\ "a" \in Folders
      /\ \A s \in Slots : w[s] = NoToken
  BY BlankPage DEF Folders
<1>2. FreshFiles(connected, same) =
        [dev |-> 1, up |-> connected, usable |-> connected, lease |-> 1, same |-> same,
         path |-> "a", view |-> NoView, volumes |-> 0, work |-> w, again |-> a,
         deferred |-> FALSE, privilege |-> FALSE, waiting |-> NoStart, action |-> NoStart,
         running |-> FALSE, prompt |-> NoStart, held |-> a, heldFor |-> 0,
         other |-> NoOther]
  BY DEF FreshFiles
<1> HIDE DEF w, a
<1> QED BY <1>1, <1>2, BlankPage DEF FileStates

\* The initial states.
LEMMA FilesInitInv ==
  ASSUME FilesInit
  PROVE  FilesInv
<1>1. PICK connected \in BOOLEAN, same \in BOOLEAN, lease \in 1 .. MaxModes :
        files = [FreshFiles(connected, same) EXCEPT !.lease = lease]
  BY DEF FilesInit
<1> DEFINE q == FreshFiles(connected, same)
<1>2. /\ q \in FileStates /\ q.view = NoView /\ q.waiting = NoStart
      /\ q.action = NoStart /\ q.prompt = NoStart /\ q.running = FALSE
      /\ \A s \in Slots : q.work[s] = NoToken
  BY FreshFilesGood
<1>3. lease \in Nat
  BY FileManagerBounds
<1> HIDE DEF q
<1>4. /\ files \in FileStates /\ files.view = NoView /\ files.waiting = NoStart
      /\ files.action = NoStart /\ files.prompt = NoStart /\ files.running = FALSE
      /\ \A s \in Slots : files.work[s] = NoToken
  BY <1>1, <1>2, <1>3 DEF FileStates, q
<1>5. files.work["listing"] = NoToken /\ files.work["transfer"] = NoToken
  BY <1>4 DEF Slots
<1>6. PageInv(files)
  BY <1>4, <1>5
  DEF PageInv, RowsInv, WakeInv, ButtonInv, Busy, NoView, NoToken, NoStart, Transfers
<1> QED BY <1>4, <1>6 DEF FilesInv

\* The invariant holds in every reachable state of the file manager page.
THEOREM FilesInvariance == FilesSpec => []FilesInv
<1>1. FilesInit => FilesInv
  BY FilesInitInv
<1>2. FilesInv /\ [FilesNext]_files => FilesInv'
  <2> SUFFICES ASSUME FilesInv, [FilesNext]_files PROVE FilesInv'
    OBVIOUS
  <2>1. ASSUME NEW s \in Slots, PageWork(s) PROVE FilesInv'
    BY <2>1, FilesWorkStep, ScanFinishedStep, LoadedStep, ActionFinishedStep, TransferFinishedStep
       DEF PageWork
  <2>2. CASE FileUser
    BY <2>2, FilesAskStep, FilesAnswerStep, NavigateStep, FilesPressStep DEF FileUser
  <2>3. CASE FileWorld
    BY <2>3, DeviceStep, ModeStep, FilesPressStep DEF FileWorld
  <2>4. CASE UNCHANGED files
    BY <2>4 DEF FilesInv, PageInv, RowsInv, WakeInv, ButtonInv, Reads, Busy
  <2> QED BY <2>1, <2>2, <2>3, <2>4, HeldStep DEF FilesNext
<1> QED BY <1>1, <1>2, PTL DEF FilesSpec

\* The rows of the folder and device the page shows were read with the access mode
\* selected now (the generation check of _android_items_loaded), however late an
\* earlier reader comes back.
THEOREM RowSafety == FilesSpec => []RowsAreOfThisMode
<1>1. FilesInv => RowsAreOfThisMode
  BY DEF FilesInv, PageInv, RowsInv, RowsAreOfThisMode, ViewIsCurrent
<1> QED BY FilesInvariance, <1>1, PTL

\* Confirmed work that waits is woken by a reader of its own connection, never two
\* confirmed operations wait together, and the transfer buttons are off exactly while a
\* transfer waits or runs (the pending starts of file_manager_page.py).
THEOREM WakeSafety == FilesSpec => []WaitingWorkIsWoken
<1>1. FilesInv => WaitingWorkIsWoken
  BY PassiveReads DEF FilesInv, PageInv, WakeInv, ButtonInv, WaitingWorkIsWoken
<1> QED BY FilesInvariance, <1>1, PTL
=============================================================================
