------------------------- MODULE SettingsStoreProofs -------------------------
(***************************************************************************)
(* Proofs about SettingsStore, for any devices, directories and modes, and *)
(* any number of operations, crashes and failing writes.                   *)
(*                                                                         *)
(* First, whose settings a file holds.  IInv says that every file, every   *)
(* write that is queued and what is in memory fit the scope they are in,   *)
(* that a job remembers only what fits, and that the copy an activation    *)
(* makes is of a directory of the same device.  ProfilesHoldNoPendingChoice*)
(* is a part of it; BackupsSurvive follows, because a directory is retired *)
(* only while the copy holds whatever backup it holds (CopyInv).           *)
(*                                                                         *)
(* Second, what can be recovered.  LastKnownGood is not inductive: after a *)
(* crash the next start repairs from what it finds, so GoodInv says, as    *)
(* long as nothing was destroyed, what every file holds (Sound), that a    *)
(* write begins only over a good file or with nothing to lose (HeadInv),   *)
(* what the queued writes will make of it (QueueInv, PreparedInv), and     *)
(* that a rollback puts back what was there (SnapshotInv).  One destroyed  *)
(* file then leaves its partner; a second could be that partner, so the    *)
(* theorem assumes that at most one is destroyed, as the program can only  *)
(* promise.                                                                *)
(*                                                                         *)
(* Third, the choice made without a device.  As long as nothing has been   *)
(* destroyed, GoodInv holds for any MaxDamage (HonestInv), and ChoiceInv   *)
(* says that the choice waits, in the file of the application, in what     *)
(* memory and every queued write would put there and in the snapshot of a  *)
(* rollback (ChoiceWaits), until the profile has been saved with it        *)
(* (ProfileTakes), or that it settles (ChoiceSettles).                     *)
(*                                                                         *)
(* Fourth, the rollback of an activation.  As long as nothing has been     *)
(* destroyed, there are files only where there is a directory (TreeInv),   *)
(* profiles are complete (WholeInv), and what the activation found is      *)
(* remembered (BeforeInv).  Until a second failure, every scope is left as *)
(* it was found, by the requests that wait too (Steady), or is put back    *)
(* from the snapshot taken before it was changed (PutBack): RollInv.       *)
(***************************************************************************)
EXTENDS SettingsStore, SequenceTheorems, TLAPS

\* Settings that the profile of a directory may have: without a pending choice, and
\* with the folders of a directory of the same device, or none yet.
Own(dir) ==
  {s \in Setting : /\ s.pending = ""
                   /\ s.home = Unset \/ (s.home \in Dirs /\ Serial(s.home) = Serial(dir))}

Fits(scope, content) ==
  content \in Contents /\ (scope \in Dirs /\ Valid(content) => content \in Own(scope))

FitFiles(scope) == {f \in Files : Fits(scope, f.main) /\ Fits(scope, f.bak)}

\* Requests whose content fits their scope.
Fitting ==
  {r \in Requests : Fits(r.at, r.value) /\ (r.do \in {"backup", "replace"} => Valid(r.value))}

DirsInv == exists \subseteq Dirs /\ holds \subseteq exists

FilesInv == /\ disk \in [Scopes -> Files]
            /\ \A s \in Scopes : disk[s] \in FitFiles(s)
            /\ io \in Seq(Fitting)

MemoryInv ==
  /\ ~running => pc = "idle"
  /\ path \in Scopes
  /\ data \in Setting
  /\ path \in Dirs => data \in Own(path)
  /\ path \in Dirs /\ pc \notin {"merge", "undo"} => data.home # Unset
  /\ pc = "boot" => path = Global
  /\ pc = "merge" => path = job.dir

Jobs == [dir: Dirs \cup {Unset}, pending: Backends \cup {""}, source: Dirs \cup {Unset},
         created: BOOLEAN, committing: BOOLEAN, path: Scopes, data: Setting,
         files: Files, global: Files]

Working == {"pending", "snapshot", "migrate", "open", "merge", "commit", "publish", "retire"}

JobInv ==
  /\ job \in Jobs
  /\ job.files \in FitFiles(job.dir)
  /\ job.path \in Dirs => job.data \in Own(job.path) /\ job.data.home # Unset
  /\ pc \in Working \/ job.files # NoSnapshot => job.dir \in Dirs
  /\ pc \in {"queue", "queued"} => job.pending \in Backends

Copying == {"open", "merge", "commit", "publish", "retire", "undo"}

\* The copy that an activation has made is of a directory of the same device, and the
\* two of them hold its latest backup or neither does.
CopyInv ==
  /\ job.source # Unset => job.created
  /\ pc \notin Copying /\ pc # "undone" => ~job.created
  /\ job.created /\ pc \in Copying =>
       /\ job.dir \in Dirs
       /\ job.source # job.dir
       /\ job.source # Unset => Serial(job.source) = Serial(job.dir)
       /\ job.dir \in holds <=> job.source \in holds

IInv == DirsInv /\ FilesInv /\ MemoryInv /\ JobInv /\ CopyInv

-----------------------------------------------------------------------------
(* Scopes, settings and requests *)

\* Neither the application's scope nor the value for no scope is a profile.
LEMMA Apart == Global \notin Dirs /\ Unset \notin Dirs /\ Unset # Global
BY DEF Global, Unset, Dirs, Places

LEMMA Known == /\ Scopes = Dirs \cup {Global} /\ Values = Setting /\ Defaults = Standard
               /\ Contents = Setting \cup {NoFile, Damaged}
               /\ NoFile \notin Setting /\ Damaged \notin Setting /\ NoFile # Damaged
BY StoreAssumption, FileAssumption DEF AllScopes, Contents

\* The defaults suit every profile.
LEMMA StandardIsOwn == Standard \in Setting /\ \A dir \in Dirs : Standard \in Own(dir)
BY StoreAssumption DEF Standard, Setting, Own, Unset

\* Changing the mode of settings does not change whose they are.
LEMMA ModeKeepsOwner ==
  ASSUME NEW s \in Setting, NEW m \in Backends \cup {""}
  PROVE  /\ WithMode(s, m) \in Setting
         /\ WithMode(s, m).home = s.home
         /\ \A dir \in Dirs : s \in Own(dir) => WithMode(s, m) \in Own(dir)
BY DEF WithMode, Setting, Own

LEMMA HomeIsOwn ==
  ASSUME NEW dir \in Dirs, NEW s \in Own(dir), NEW home \in Dirs, Serial(home) = Serial(dir)
  PROVE  /\ [s EXCEPT !.home = home] \in Own(dir)
         /\ [s EXCEPT !.home = home].home = home
<1>1. home \in AllScopes \cup {Unset}
  BY DEF AllScopes
<1> QED BY <1>1 DEF Own, Setting

\* What is loaded for a profile is its own.
LEMMA LoadedIsOwn ==
  ASSUME NEW scope \in Scopes, NEW content, Fits(scope, content)
  PROVE  /\ Loaded(scope, content) \in Setting
         /\ scope \in Dirs => Loaded(scope, content) \in Own(scope)
<1>1. CASE ~Valid(content)
  BY <1>1, Known, StandardIsOwn DEF Loaded
<1>2. CASE Valid(content) /\ scope = Global
  BY <1>2, Known, Apart DEF Loaded, Valid
<1>3. CASE Valid(content) /\ scope # Global
  <2>1. scope \in Dirs /\ content \in Own(scope) /\ content \in Setting
    BY <1>3, Known DEF Fits, Valid
  <2>2. [content EXCEPT !.pending = ""] \in Own(scope)
    BY <2>1 DEF Own, Setting
  <2>3. Loaded(scope, content) = [content EXCEPT !.pending = ""]
    BY <1>3 DEF Loaded
  <2> QED BY <2>1, <2>2, <2>3 DEF Own
<1> QED BY <1>1, <1>2, <1>3

\* Any settings may be written for the application.
LEMMA GlobalFits == \A content \in Contents : Fits(Global, content)
BY Apart DEF Fits

LEMMA OwnFits ==
  ASSUME NEW dir \in Dirs, NEW s \in Own(dir)
  PROVE  Fits(dir, s) /\ Valid(s) /\ s \in Setting
BY Known DEF Own, Fits, Valid

LEMMA NothingFits == \A scope : Fits(scope, NoFile) /\ Fits(scope, Damaged)
BY Known DEF Fits, Valid

LEMMA RepairIsFitting == \A scope \in Scopes : Repair(scope) \in Fitting
BY NothingFits, Known DEF Repair, Request, Fitting, Requests

LEMMA RebuildIsFitting == \A scope \in Scopes : Request("rebuild", scope, NoFile) \in Fitting
BY NothingFits, Known DEF Request, Fitting, Requests

LEMMA WriteIsFitting ==
  ASSUME NEW scope \in Scopes, NEW content, Fits(scope, content), Valid(content)
  PROVE  /\ Write(scope, content) \in Fitting
         /\ Request("replace", scope, content) \in Fitting
BY DEF Write, Request, Fitting, Requests, Fits

LEMMA SaveIsFitting ==
  ASSUME NEW scope \in Scopes, NEW content, Fits(scope, content), Valid(content)
  PROVE  Save(scope, content) \in Seq(Fitting)
BY RepairIsFitting, WriteIsFitting DEF Save

LEMMA RestoreIsFitting ==
  ASSUME NEW scope \in Scopes, NEW files \in FitFiles(scope)
  PROVE  Restore(scope, files) \in Seq(Fitting)
<1>1. Fits(scope, files.main) /\ Fits(scope, files.bak)
      /\ files.main \in Contents /\ files.bak \in Contents
  BY DEF FitFiles, Files
<1>2. Request("putmain", scope, files.main) \in Fitting
  BY <1>1 DEF Fitting, Request, Requests
<1>3. Request("putbak", scope, files.bak) \in Fitting
  BY <1>1 DEF Fitting, Request, Requests
<1> QED BY <1>2, <1>3 DEF Restore

LEMMA SnapshotFits == \A scope : NoSnapshot \in FitFiles(scope) /\ NoFiles \in FitFiles(scope)
BY NothingFits, Known DEF FitFiles, Files, NoSnapshot, NoFiles

LEMMA FilesOfGlobal == \A files \in Files : files \in FitFiles(Global)
BY GlobalFits DEF FitFiles, Files

LEMMA QueuedIsSetting ==
  ASSUME FilesInv, NEW mode \in Backends, NEW pending \in Backends \cup {""}
  PROVE  /\ Queued(mode, pending) \in Setting
         /\ GlobalSettings \in Setting
<1>1. GlobalSettings \in Setting
  BY Known, StandardIsOwn DEF GlobalSettings, Valid
<1> QED BY <1>1 DEF Queued, Setting

-----------------------------------------------------------------------------
(* Execution of a request *)

\* One file of a scope is given content that fits the scope.
LEMMA FileKeeps ==
  ASSUME FilesInv, NEW scope \in Scopes, NEW content, Fits(scope, content),
         \/ disk' = [disk EXCEPT ![scope].main = content]
         \/ disk' = [disk EXCEPT ![scope].bak = content]
  PROVE  disk' \in [Scopes -> Files] /\ \A s \in Scopes : disk'[s] \in FitFiles(s)
<1>1. content \in Contents
  BY DEF Fits
<1>2. disk' \in [Scopes -> Files]
  BY <1>1 DEF FilesInv, Files
<1>3. ASSUME NEW s \in Scopes PROVE disk'[s] \in FitFiles(s)
  <2>1. disk[s] \in FitFiles(s) /\ disk[s] \in Files /\ disk'[s] \in Files
    BY <1>2 DEF FilesInv
  <2> QED BY <2>1 DEF FilesInv, FitFiles, Files
<1> QED BY <1>2, <1>3

LEMMA ExecuteKeeps ==
  ASSUME FilesInv, Execute
  PROVE  FilesInv'
<1> DEFINE scope == This.at
<1>1. io \in Seq(Fitting) /\ io # <<>> /\ This \in Fitting /\ Tail(io) \in Seq(Fitting)
  BY DEF Execute, DoRepair, DoRebuild, DoBackup, DoReplace, DoPut, Doing, This, FilesInv
<1>2. scope \in Scopes /\ Fits(scope, This.value)
  BY <1>1 DEF Fitting, Requests
<1>3. Fits(scope, Main(scope)) /\ Fits(scope, Bak(scope))
  BY <1>2 DEF FilesInv, FitFiles, Main, Bak
<1>4. Fits(scope, NoFile) /\ Fits(scope, Defaults) /\ Valid(Defaults)
  BY Known, StandardIsOwn, NothingFits, <1>2 DEF Fits, Valid
<1>5. /\ Then(<<>>) => io' \in Seq(Fitting)
      /\ \A r \in Fitting : Then(<<r>>) => io' \in Seq(Fitting)
  <2>1. \A rest \in Seq(Fitting) : <<>> \o rest \in Seq(Fitting)
    OBVIOUS
  <2>2. \A r \in Fitting, rest \in Seq(Fitting) : <<r>> \o rest \in Seq(Fitting)
    OBVIOUS
  <2> QED BY <2>1, <2>2, <1>1 DEF Then
<1> HIDE DEF scope
<1>6. CASE DoRepair
  <2>1. io' \in Seq(Fitting)
    BY <1>2, <1>5, <1>6, RebuildIsFitting DEF DoRepair, scope
  <2>2. disk' = disk \/ disk' = [disk EXCEPT ![scope].main = NoFile]
    BY <1>6 DEF DoRepair, SetMain, scope
  <2> QED BY <1>2, <1>4, <2>1, <2>2, FileKeeps DEF FilesInv
<1>7. CASE DoRebuild
  <2>1. io' \in Seq(Fitting)
    BY <1>2, <1>3, <1>4, <1>5, <1>7, WriteIsFitting DEF DoRebuild, scope
  <2>2. disk' = disk \/ disk' = [disk EXCEPT ![scope].bak = NoFile]
    BY <1>7 DEF DoRebuild, SetBak, scope
  <2> QED BY <1>2, <1>4, <2>1, <2>2, FileKeeps DEF FilesInv
<1>8. CASE DoBackup
  <2>1. Valid(This.value)
    BY <1>1, <1>8 DEF DoBackup, Doing, Fitting
  <2>2. Request("replace", scope, This.value) \in Fitting
    BY <2>1, <1>2, WriteIsFitting
  <2>3. io' \in Seq(Fitting)
    BY <2>2, <1>5, <1>8 DEF DoBackup, scope
  <2>4. \E content : Fits(scope, content) /\ disk' = [disk EXCEPT ![scope].bak = content]
    BY <1>2, <1>3, <1>8 DEF DoBackup, SetBak, scope
  <2> QED BY <1>2, <2>3, <2>4, FileKeeps DEF FilesInv
<1>9. CASE DoReplace
  <2>1. io' \in Seq(Fitting) /\ disk' = [disk EXCEPT ![scope].main = This.value]
    BY <1>5, <1>9 DEF DoReplace, SetMain, scope
  <2> QED BY <1>2, <2>1, FileKeeps DEF FilesInv
<1>10. CASE DoPut
  <2>1. io' \in Seq(Fitting)
    BY <1>5, <1>10 DEF DoPut
  <2>2. \/ disk' = [disk EXCEPT ![scope].main = This.value]
        \/ disk' = [disk EXCEPT ![scope].bak = This.value]
    BY <1>10 DEF DoPut, SetMain, SetBak, scope
  <2> QED BY <1>2, <2>1, <2>2, FileKeeps DEF FilesInv
<1> QED BY <1>6, <1>7, <1>8, <1>9, <1>10 DEF Execute

-----------------------------------------------------------------------------
(* The steps *)

\* Two lists of requests that fit, one after the other.
LEMMA Joined ==
  ASSUME NEW r \in Seq(Fitting), NEW q \in Seq(Fitting)
  PROVE  r \o q \in Seq(Fitting) /\ <<>> \in Seq(Fitting)
OBVIOUS

LEMMA OneRequest == \A r \in Fitting : <<r>> \in Seq(Fitting)
OBVIOUS

LEMMA NoJobIsIdle ==
  /\ NoJob \in Jobs /\ NoJob.files = NoSnapshot /\ NoJob.path = Global /\ ~NoJob.created
  /\ NoJob.source = Unset /\ NoJob.dir = Unset
<1>1. NoJob \in Jobs
  BY Known, StandardIsOwn, SnapshotFits DEF NoJob, Jobs, FitFiles
<1> QED BY <1>1 DEF NoJob

\* What an idle program keeps.
LEMMA Idle ==
  ASSUME JobInv, CopyInv, job' = NoJob, pc' \in {"idle", "boot"}
  PROVE  JobInv' /\ CopyInv'
<1>1. NoSnapshot \in FitFiles(Unset)
  BY SnapshotFits
<1> QED BY <1>1, NoJobIsIdle, Apart DEF JobInv, CopyInv, Working, Copying

\* A step that stays in an operation and changes no local variable of it.
LEMMA SameJob ==
  ASSUME JobInv, CopyInv, UNCHANGED <<job, holds>>,
         pc' \in Working => pc \in Working \/ job.dir \in Dirs,
         pc' \in {"queue", "queued"} => pc \in {"queue", "queued"},
         pc' \in Copying \cup {"undone"} \/ pc \notin Copying \cup {"undone"},
         pc' \in Copying => pc \in Copying \/ ~job.created
  PROVE  JobInv' /\ CopyInv'
BY DEF JobInv, CopyInv, Working, Copying

LEMMA InitOK == Init => IInv
<1> SUFFICES ASSUME Init PROVE IInv
  OBVIOUS
<1>1. exists \subseteq Dirs /\ holds \subseteq exists
  BY StoreAssumption DEF Init
<1>2. ASSUME NEW s \in Scopes
      PROVE  newest[s] \in Setting \cup {NoFile} /\ Fits(s, newest[s])
  <2>1. PICK mode \in Backends :
          newest = [z \in Scopes |->
                      IF z \in exists
                      THEN [backend |-> mode, pending |-> "", home |-> z] ELSE NoFile]
    BY DEF Init
  <2>2. CASE s \in exists
    <3>1. newest[s] = [backend |-> mode, pending |-> "", home |-> s] /\ s \in Dirs
      BY <1>1, <2>1, <2>2
    <3>2. [backend |-> mode, pending |-> "", home |-> s] \in Setting
      BY <2>1, <3>1 DEF Setting, AllScopes
    <3> DEFINE r == [backend |-> mode, pending |-> "", home |-> s]
    <3>3. r.pending = "" /\ r.home = s /\ newest[s] = r /\ r \in Setting
      BY <3>1, <3>2
    <3> HIDE DEF r
    <3>4. newest[s] \in Own(s)
      BY <3>1, <3>3 DEF Own
    <3> QED BY <3>1, <3>3, <3>4, OwnFits
  <2>3. CASE s \notin exists
    BY <2>1, <2>3, NothingFits
  <2> QED BY <2>2, <2>3
<1>3. FilesInv
  <2>1. io = <<>> /\ disk = [s \in Scopes |-> [main |-> newest[s], bak |-> NoFile]]
    BY DEF Init
  <2>2. ASSUME NEW s \in Scopes PROVE disk[s] \in FitFiles(s)
    <3>1. disk[s] = [main |-> newest[s], bak |-> NoFile]
      BY <2>1
    <3>2. newest[s] \in Contents /\ NoFile \in Contents
      BY <1>2, Known
    <3> QED BY <1>2, <3>1, <3>2, NothingFits DEF FitFiles, Files
  <2>3. disk \in [Scopes -> Files]
    BY <2>1, <2>2 DEF FitFiles
  <2> QED BY <2>1, <2>2, <2>3 DEF FilesInv
<1>4. path = Global /\ data = Defaults /\ job = NoJob /\ pc = "idle"
  BY DEF Init
<1>5. MemoryInv
  BY <1>4, Known, Apart, StandardIsOwn DEF MemoryInv
<1>6. JobInv /\ CopyInv
  BY <1>4, NoJobIsIdle, SnapshotFits, Apart DEF JobInv, CopyInv, Working, Copying
<1> QED BY <1>1, <1>3, <1>5, <1>6 DEF IInv, DirsInv

-----------------------------------------------------------------------------
(* Start and stop, and the user *)

LEMMA StartOK == IInv /\ Start => IInv'
<1> SUFFICES ASSUME IInv, Start PROVE IInv'
  OBVIOUS
<1>1. DirsInv' /\ MemoryInv'
  BY Known, Apart DEF IInv, DirsInv, MemoryInv, Start, dirVars
<1>2. FilesInv'
  BY Known, RepairIsFitting DEF IInv, FilesInv, Start, Issue
<1>3. JobInv' /\ CopyInv'
  BY DEF IInv, MemoryInv, JobInv, CopyInv, Start, dirVars, Working, Copying
<1> QED BY <1>1, <1>2, <1>3 DEF IInv

LEMMA BootOK == IInv /\ Boot => IInv'
<1> SUFFICES ASSUME IInv, Boot PROVE IInv'
  OBVIOUS
<1> DEFINE loaded == Loaded(Global, Main(Global))
<1>1. loaded \in Setting
  BY LoadedIsOwn, Known, GlobalFits DEF IInv, FilesInv, FitFiles, Main
<1>2. data' \in Setting
  <2>1. [loaded EXCEPT !.home = Global] \in Setting
    BY <1>1 DEF Setting, AllScopes
  <2> QED BY <1>1, <2>1 DEF Boot
<1>3. path = Global
  BY DEF Boot, At, IInv, MemoryInv
<1>4. DirsInv' /\ MemoryInv'
  BY <1>2, <1>3, Known, Apart DEF IInv, DirsInv, MemoryInv, Boot, At, dirVars
<1>5. Save(Global, data') \in Seq(Fitting)
  BY <1>2, SaveIsFitting, GlobalFits, Known DEF Valid
<1>6. FilesInv'
  BY <1>5, EmptySeq DEF IInv, FilesInv, Boot, Issue
<1>7. JobInv' /\ CopyInv'
  BY SameJob DEF IInv, Boot, At, dirVars, Working, Copying
<1> QED BY <1>4, <1>6, <1>7 DEF IInv

LEMMA CrashOK == IInv /\ Crash => IInv'
<1> SUFFICES ASSUME IInv, Crash PROVE IInv'
  OBVIOUS
<1>1. DirsInv' /\ MemoryInv' /\ FilesInv'
  BY Known, Apart, StandardIsOwn DEF IInv, DirsInv, MemoryInv, FilesInv, Crash, dirVars
<1>2. JobInv' /\ CopyInv'
  BY Idle DEF IInv, Crash
<1> QED BY <1>1, <1>2 DEF IInv

LEMMA ReturnOK == IInv /\ Return => IInv'
<1> SUFFICES ASSUME IInv, Return PROVE IInv'
  OBVIOUS
<1>1. DirsInv' /\ MemoryInv' /\ FilesInv'
  BY DEF IInv, DirsInv, MemoryInv, FilesInv, Return, At, dirVars, fileVars, memoryVars
<1>2. JobInv' /\ CopyInv'
  BY SameJob DEF IInv, Return, At, dirVars, Working, Copying
<1> QED BY <1>1, <1>2 DEF IInv

LEMMA SelectForProfileOK ==
  ASSUME IInv, NEW mode \in Backends, SelectForProfile(mode)
  PROVE  IInv'
<1>1. path \in Dirs /\ data \in Own(path) /\ data.home # Unset
  BY Known DEF IInv, MemoryInv, SelectForProfile, Begin, At
<1>2. data' \in Own(path) /\ data'.home = data.home
  BY <1>1 DEF SelectForProfile, Own, Setting
<1>3. DirsInv' /\ MemoryInv'
  BY <1>1, <1>2, OwnFits DEF IInv, DirsInv, MemoryInv, SelectForProfile, dirVars, Begin, At
<1>4. Save(path, data') \in Seq(Fitting)
  BY <1>1, <1>2, SaveIsFitting, OwnFits, Known
<1>5. FilesInv'
  BY <1>4 DEF IInv, FilesInv, SelectForProfile, Issue
<1>6. JobInv' /\ CopyInv'
  BY SameJob DEF IInv, SelectForProfile, Begin, At, dirVars, Working, Copying
<1> QED BY <1>3, <1>5, <1>6 DEF IInv

LEMMA SelectOfflineOK ==
  ASSUME IInv, NEW mode \in Backends, SelectOffline(mode)
  PROVE  IInv'
<1>1. data' \in Setting /\ (path # Global => data' = data)
  BY DEF IInv, MemoryInv, SelectOffline, Setting
<1>2. DirsInv' /\ MemoryInv'
  BY <1>1, Apart DEF IInv, DirsInv, MemoryInv, SelectOffline, dirVars, Begin, At
<1>3. Save(Global, data') \in Seq(Fitting) /\ <<Repair(Global)>> \in Seq(Fitting)
  BY <1>1, SaveIsFitting, GlobalFits, Known, RepairIsFitting DEF Valid
<1>4. FilesInv'
  BY <1>3 DEF IInv, FilesInv, SelectOffline, Issue
<1>5. job' \in Jobs /\ job' = [job EXCEPT !.pending = mode]
  BY DEF IInv, JobInv, Jobs, SelectOffline
<1>6. JobInv' /\ CopyInv'
  BY <1>5 DEF IInv, JobInv, CopyInv, Jobs, SelectOffline, Begin, At, dirVars, Working, Copying
<1> QED BY <1>2, <1>4, <1>6 DEF IInv

LEMMA QueueOK == IInv /\ Queue => IInv'
<1> SUFFICES ASSUME IInv, Queue PROVE IInv'
  OBVIOUS
<1>1. Queued(job.pending, job.pending) \in Setting
  BY QueuedIsSetting DEF IInv, JobInv, Queue, At
<1>2. Write(Global, Queued(job.pending, job.pending)) \in Fitting
  BY <1>1, WriteIsFitting, GlobalFits, Known DEF Valid
<1>3. DirsInv' /\ MemoryInv' /\ FilesInv'
  BY <1>2 DEF IInv, DirsInv, MemoryInv, FilesInv, Queue, Issue, At, dirVars, memoryVars
<1>4. JobInv' /\ CopyInv'
  BY SameJob DEF IInv, Queue, At, dirVars, Working, Copying
<1> QED BY <1>3, <1>4 DEF IInv

LEMMA QueueDoneOK == IInv /\ (QueueDone \/ Cleared \/ Undone) => IInv'
<1> SUFFICES ASSUME IInv, QueueDone \/ Cleared \/ Undone PROVE IInv'
  OBVIOUS
<1>1. DirsInv' /\ MemoryInv' /\ FilesInv'
  BY DEF IInv, DirsInv, MemoryInv, FilesInv, QueueDone, Cleared, Undone, At, dirVars, fileVars,
         memoryVars
<1>2. JobInv' /\ CopyInv'
  BY Idle DEF IInv, QueueDone, Cleared, Undone
<1> QED BY <1>1, <1>2 DEF IInv

LEMMA MakeBackupOK == IInv /\ MakeBackup => IInv'
<1> SUFFICES ASSUME IInv, MakeBackup PROVE IInv'
  OBVIOUS
<1>1. path \in Dirs /\ data \in Own(path) /\ data.home # Unset
  BY Known DEF IInv, MemoryInv, MakeBackup, Begin, At
<1>2. data.home \in Dirs
  BY <1>1 DEF Own
<1>3. DirsInv' /\ MemoryInv' /\ FilesInv'
  BY <1>2 DEF IInv, DirsInv, MemoryInv, FilesInv, MakeBackup, fileVars, memoryVars
<1>4. JobInv' /\ CopyInv'
  BY DEF IInv, JobInv, CopyInv, MakeBackup, Begin, At, Working, Copying
<1> QED BY <1>3, <1>4 DEF IInv

-----------------------------------------------------------------------------
(* activate_device_profile *)

LEMMA ActivateOK ==
  ASSUME IInv, NEW dir \in Dirs, Activate(dir)
  PROVE  IInv'
<1>1. <<Repair(Global)>> \in Seq(Fitting)
  BY RepairIsFitting, Known
<1>2. DirsInv' /\ MemoryInv' /\ FilesInv'
  BY <1>1 DEF IInv, DirsInv, MemoryInv, FilesInv, Activate, Issue, Begin, At, dirVars, memoryVars
<1>3. /\ job' \in Jobs /\ job'.dir = dir /\ job'.path = path /\ job'.data = data
      /\ job'.files = NoSnapshot /\ ~job'.created /\ job'.source = Unset
  <2>1. job' = [NoJob EXCEPT !.dir = dir, !.path = path, !.data = data]
    BY DEF Activate
  <2>2. path \in Scopes /\ data \in Setting
    BY DEF IInv, MemoryInv
  <2> QED BY <2>1, <2>2, NoJobIsIdle DEF Jobs
<1>4. NoSnapshot \in FitFiles(dir)
  BY SnapshotFits
<1>5. JobInv' /\ CopyInv'
  BY <1>3, <1>4 DEF IInv, MemoryInv, JobInv, CopyInv, Activate, Begin, At, Working, Copying
<1> QED BY <1>2, <1>5 DEF IInv

LEMMA PendingModeIsMode ==
  ASSUME IInv
  PROVE  PendingMode \in Backends \cup {""}
<1>1. GlobalSettings \in Setting
  BY Known, StandardIsOwn DEF GlobalSettings, Valid
<1> QED BY <1>1 DEF PendingMode, IInv, MemoryInv, Setting

LEMMA ReadPendingSameOK == IInv /\ ReadPendingSame => IInv'
<1> SUFFICES ASSUME IInv, ReadPendingSame PROVE IInv'
  OBVIOUS
<1>1. CASE PendingMode = ""
  <2>1. DirsInv' /\ MemoryInv' /\ FilesInv'
    BY <1>1 DEF IInv, DirsInv, MemoryInv, FilesInv, ReadPendingSame, At, dirVars, fileVars
  <2>2. JobInv' /\ CopyInv'
    BY <1>1, Idle DEF IInv, ReadPendingSame
  <2> QED BY <2>1, <2>2 DEF IInv
<1>2. CASE PendingMode # ""
  <2>1. path \in Dirs /\ job.dir = path /\ data \in Own(path) /\ data.home # Unset
    BY DEF IInv, JobInv, MemoryInv, ReadPendingSame, At, Working
  <2>2. data' \in Own(path) /\ data'.home = data.home
    <3>1. data \in Setting /\ data' = WithMode(data, PendingMode)
      BY <1>2 DEF IInv, MemoryInv, ReadPendingSame
    <3> QED BY <2>1, <3>1, ModeKeepsOwner, PendingModeIsMode
  <2>3. DirsInv' /\ MemoryInv'
    BY <1>2, <2>1, <2>2, OwnFits DEF IInv, DirsInv, MemoryInv, ReadPendingSame, dirVars, At
  <2>4. Save(path, data') \in Seq(Fitting)
    BY <2>1, <2>2, SaveIsFitting, OwnFits, Known
  <2>5. FilesInv'
    BY <1>2, <2>4 DEF IInv, FilesInv, ReadPendingSame, Issue
  <2>6. disk[path] \in FitFiles(path) /\ disk[path] \in Files /\ disk[Global] \in Files
    BY <2>1, Known DEF IInv, FilesInv
  <2>7. /\ job' \in Jobs /\ job'.dir = job.dir /\ job'.path = job.path /\ job'.data = job.data
        /\ job'.files = disk[path] /\ ~job'.created /\ job'.source = Unset
    <3>1. job' = [job EXCEPT !.pending = PendingMode, !.files = disk[path],
                             !.global = disk[Global]]
      BY <1>2 DEF ReadPendingSame
    <3>2. job \in Jobs /\ ~job.created /\ job.source = Unset
      BY DEF IInv, JobInv, CopyInv, ReadPendingSame, At, Copying
    <3> QED BY <2>6, <3>1, <3>2, PendingModeIsMode DEF Jobs
  <2>8. pc' = "same"
    BY <1>2 DEF ReadPendingSame
  <2>9. JobInv' /\ CopyInv'
    BY <2>1, <2>6, <2>7, <2>8 DEF IInv, JobInv, CopyInv, Working, Copying
  <2> QED BY <2>3, <2>5, <2>9 DEF IInv
<1> QED BY <1>1, <1>2

LEMMA SameOK == IInv /\ (Same \/ Clear) => IInv'
<1> SUFFICES ASSUME IInv, Same \/ Clear PROVE IInv'
  OBVIOUS
<1>1. Queued("standard", "") \in Setting
  BY QueuedIsSetting, StoreAssumption DEF IInv
<1>2. Repair(Global) \in Fitting /\ Write(Global, Queued("standard", "")) \in Fitting
  <2> DEFINE content == Queued("standard", "")
  <2>1. Fits(Global, content) /\ Valid(content) /\ Global \in Scopes
    BY <1>1, GlobalFits, Known DEF Valid
  <2> QED BY <2>1, RepairIsFitting, WriteIsFitting
<1>3. /\ <<Repair(Global)>> \in Seq(Fitting)
      /\ <<Write(Global, Queued("standard", ""))>> \in Seq(Fitting)
  BY <1>2, OneRequest
<1>4. DirsInv' /\ MemoryInv' /\ FilesInv'
  BY <1>3 DEF IInv, DirsInv, MemoryInv, FilesInv, Same, Clear, Issue, At, dirVars, memoryVars
<1>5. JobInv' /\ CopyInv'
  BY SameJob DEF IInv, Same, Clear, At, dirVars, Working, Copying
<1> QED BY <1>4, <1>5 DEF IInv

LEMMA ReadPendingOK == IInv /\ ReadPending => IInv'
<1> SUFFICES ASSUME IInv, ReadPending PROVE IInv'
  OBVIOUS
<1>1. path \in Scopes /\ data \in Setting /\ Fits(path, data) /\ Valid(data)
  BY Known, OwnFits, GlobalFits DEF IInv, MemoryInv, Valid
<1>2. Save(path, data) \o <<Repair(Global)>> \in Seq(Fitting)
  BY <1>1, SaveIsFitting, RepairIsFitting, Known, Joined
<1>3. DirsInv' /\ MemoryInv' /\ FilesInv'
  BY <1>2 DEF IInv, DirsInv, MemoryInv, FilesInv, ReadPending, Issue, At, dirVars, memoryVars
<1>4. job' = [job EXCEPT !.pending = PendingMode] /\ job' \in Jobs
  BY PendingModeIsMode DEF IInv, JobInv, ReadPending, Jobs
<1>5. JobInv' /\ CopyInv'
  BY <1>4 DEF IInv, JobInv, CopyInv, Jobs, ReadPending, At, dirVars, Working, Copying
<1> QED BY <1>3, <1>5 DEF IInv

LEMMA SnapshotOK == IInv /\ Snapshot => IInv'
<1> SUFFICES ASSUME IInv, Snapshot PROVE IInv'
  OBVIOUS
<1>1. DirsInv' /\ MemoryInv' /\ FilesInv'
  BY DEF IInv, DirsInv, MemoryInv, FilesInv, Snapshot, At, dirVars, memoryVars, fileVars
<1>2. job.dir \in Dirs /\ job \in Jobs /\ ~job.created /\ job.source = Unset
  BY DEF IInv, JobInv, CopyInv, Snapshot, At, Working, Copying
<1> DEFINE taken == IF job.pending # "" /\ job.dir \in exists THEN disk[job.dir] ELSE NoSnapshot
<1>3. taken \in FitFiles(job.dir) /\ taken \in Files /\ disk[Global] \in Files
  BY <1>2, Known, SnapshotFits DEF IInv, FilesInv, FitFiles
<1>4. job' = [job EXCEPT !.global = disk[Global], !.files = taken]
  BY DEF Snapshot
<1> HIDE DEF taken
<1>5. /\ job' \in Jobs /\ job'.dir = job.dir /\ job'.path = job.path /\ job'.data = job.data
      /\ job'.files = taken /\ job'.created = job.created /\ job'.source = job.source
  BY <1>2, <1>3, <1>4 DEF Jobs
<1>6. pc' = "migrate"
  BY DEF Snapshot
<1>7. JobInv' /\ CopyInv'
  BY <1>2, <1>3, <1>5, <1>6 DEF IInv, JobInv, CopyInv, Working, Copying
<1> QED BY <1>1, <1>7 DEF IInv

LEMMA PublishKeeps ==
  ASSUME IInv, NEW dir \in Dirs, NEW source \in Dirs \cup {Unset}, Publish(dir, source),
         dir = job.dir, dir \notin exists, ~job.created,
         source # Unset => source \in exists /\ Serial(source) = Serial(dir),
         UNCHANGED memoryVars, pc = "migrate"
  PROVE  IInv'
<1>1. exists \subseteq Dirs /\ holds \subseteq exists /\ Unset \notin Dirs
  BY Apart DEF IInv, DirsInv
<1>2. DirsInv'
  BY <1>1 DEF DirsInv, Publish
<1>3. MemoryInv'
  BY DEF IInv, MemoryInv, Publish, memoryVars
<1> DEFINE copy == IF source = Unset THEN NoFiles ELSE disk[source]
<1>4. copy \in FitFiles(dir)
  <2>1. CASE source = Unset
    BY <2>1, SnapshotFits
  <2>2. CASE source # Unset
    <3>1. disk[source] \in FitFiles(source) /\ source \in Dirs
      BY <2>2, Known DEF IInv, FilesInv
    <3>2. Own(source) = Own(dir)
      BY <2>2 DEF Own
    <3> QED BY <2>2, <3>1, <3>2 DEF FitFiles, Fits
  <2> QED BY <2>1, <2>2
<1>5. FilesInv'
  <2>1. disk' = [disk EXCEPT ![dir] = copy] /\ io' = io
    BY DEF Publish
  <2> HIDE DEF copy
  <2>2. copy \in Files
    BY <1>4 DEF FitFiles
  <2> QED BY <1>4, <2>1, <2>2, Known DEF IInv, FilesInv
<1>6. job' = [job EXCEPT !.source = source, !.created = TRUE] /\ pc' = "open"
  BY DEF Publish
<1>7. /\ job' \in Jobs /\ job'.dir = dir /\ job'.source = source /\ job'.created
      /\ job'.files = job.files /\ job'.path = job.path /\ job'.data = job.data
  BY <1>6 DEF IInv, JobInv, Jobs
<1>8. JobInv'
  BY <1>6, <1>7 DEF IInv, JobInv, Working
<1>9. dir \in holds' <=> source \in holds'
  BY <1>1 DEF Publish
<1>10. CopyInv'
  BY <1>1, <1>6, <1>7, <1>9 DEF CopyInv, Copying
<1> QED BY <1>2, <1>3, <1>5, <1>8, <1>10 DEF IInv

\* The places a migration may start from are directories of the same device.
LEMMA SourcesAreOfTheDevice ==
  ASSUME NEW dir \in Dirs
  PROVE  /\ Legacy(dir) \in Dirs /\ Serial(Legacy(dir)) = Serial(dir)
         /\ Opposite(dir) \in Dirs /\ Serial(Opposite(dir)) = Serial(dir)
BY DEF Dirs, Legacy, Opposite, Serial, Places

LEMMA MigrateOK == IInv /\ Migrate => IInv'
<1> SUFFICES ASSUME IInv, Migrate PROVE IInv'
  OBVIOUS
<1>1. job.dir \in Dirs /\ ~job.created /\ pc = "migrate" /\ UNCHANGED memoryVars
  BY DEF IInv, JobInv, CopyInv, Migrate, At, Working, Copying
<1>2. CASE job.dir \in exists
  <2>1. pc' = "open" /\ UNCHANGED <<fileVars, dirVars, job>>
    BY <1>2 DEF Migrate
  <2>2. DirsInv' /\ MemoryInv' /\ FilesInv'
    BY <1>1, <2>1 DEF IInv, DirsInv, MemoryInv, FilesInv, dirVars, memoryVars, fileVars
  <2>3. JobInv' /\ CopyInv'
    BY <1>1, <2>1, SameJob DEF IInv, dirVars, Working, Copying
  <2> QED BY <2>2, <2>3 DEF IInv
<1>3. CASE job.dir \notin exists
  <2>1. \E source \in Dirs \cup {Unset} :
           /\ Publish(job.dir, source)
           /\ source # Unset => source \in exists /\ Serial(source) = Serial(job.dir)
    BY <1>1, <1>3, SourcesAreOfTheDevice DEF Migrate, Sources, BothThere
  <2> QED BY <1>1, <1>3, <2>1, PublishKeeps
<1> QED BY <1>2, <1>3

LEMMA OpenOK == IInv /\ Open => IInv'
<1> SUFFICES ASSUME IInv, Open PROVE IInv'
  OBVIOUS
<1>1. job.dir \in Dirs
  BY DEF IInv, JobInv, Open, At, Working
<1>2. data' = Standard
  BY Known DEF Open, InitialProfile
<1>3. MemoryInv' /\ DirsInv'
  BY <1>1, <1>2, StandardIsOwn, Known DEF IInv, MemoryInv, DirsInv, Open, At, dirVars
<1>4. <<Repair(job.dir)>> \in Seq(Fitting)
  BY <1>1, RepairIsFitting, Known
<1>5. FilesInv'
  BY <1>4 DEF IInv, FilesInv, Open, Issue, fileVars
<1>6. JobInv' /\ CopyInv'
  BY SameJob DEF IInv, Open, At, dirVars, Working, Copying
<1> QED BY <1>3, <1>5, <1>6 DEF IInv

\* Folders that are moved to the copy stay those of the device.
LEMMA RebaseKeepsOwner ==
  ASSUME IInv, job.dir \in Dirs, NEW s \in Own(job.dir)
  PROVE  Rebase(s) \in Own(job.dir)
BY HomeIsOwn DEF Rebase

LEMMA MergeOK == IInv /\ Merge => IInv'
<1> SUFFICES ASSUME IInv, Merge PROVE IInv'
  OBVIOUS
<1>1. path = job.dir /\ path \in Dirs /\ job.pending \in Backends \cup {""} /\ data \in Own(path)
  BY DEF IInv, MemoryInv, JobInv, Jobs, Merge, At, Working
<1> DEFINE own    == IF Valid(Main(path)) THEN Loaded(path, Main(path)) ELSE data
           merged == WithMode(Rebase(own), job.pending)
<1>2. own \in Own(path)
  <2>1. Fits(path, Main(path)) /\ path \in Scopes
    BY <1>1, Known DEF IInv, FilesInv, FitFiles, Main
  <2> QED BY <1>1, <2>1, LoadedIsOwn
<1> HIDE DEF own
<1>3. merged \in Own(path)
  <2>1. Rebase(own) \in Own(path)
    BY <1>1, <1>2, RebaseKeepsOwner
  <2>2. Rebase(own) \in Setting
    BY <2>1 DEF Own
  <2> QED BY <1>1, <2>1, <2>2, ModeKeepsOwner
<1>4. /\ data' = IF merged.home = Unset THEN [merged EXCEPT !.home = path] ELSE merged
      /\ io' = (IF merged.home = Unset THEN Save(path, data') ELSE <<>>) \o Save(path, data')
  BY DEF Merge, Issue, own
<1> HIDE DEF merged
<1>5. data' \in Own(path) /\ data'.home # Unset
  BY ZenonT(60), <1>1, <1>3, <1>4, HomeIsOwn, Apart
<1>6. Save(path, data') \in Seq(Fitting)
  BY <1>1, <1>5, OwnFits, SaveIsFitting, Known
<1>7. io' \in Seq(Fitting)
  BY <1>4, <1>6, Joined, EmptySeq
<1>8. MemoryInv' /\ DirsInv' /\ FilesInv'
  BY <1>1, <1>5, <1>7, OwnFits
     DEF IInv, MemoryInv, DirsInv, FilesInv, Merge, Issue, At, dirVars
<1>9. JobInv' /\ CopyInv'
  BY SameJob DEF IInv, Merge, At, dirVars, Working, Copying
<1> QED BY <1>8, <1>9 DEF IInv

LEMMA CommitOK == IInv /\ Commit => IInv'
<1> SUFFICES ASSUME IInv, Commit PROVE IInv'
  OBVIOUS
<1>1. <<Repair(Global)>> \in Seq(Fitting)
  BY RepairIsFitting, Known
<1>2. DirsInv' /\ MemoryInv' /\ FilesInv'
  BY <1>1 DEF IInv, DirsInv, MemoryInv, FilesInv, Commit, Issue, At, dirVars, memoryVars
<1>3. job' = [job EXCEPT !.committing = TRUE] /\ job' \in Jobs
  BY DEF IInv, JobInv, Commit, Jobs
<1>4. JobInv' /\ CopyInv'
  BY <1>3 DEF IInv, JobInv, CopyInv, Jobs, Commit, At, dirVars, Working, Copying
<1> QED BY <1>2, <1>4 DEF IInv

LEMMA PublishGlobalOK == IInv /\ PublishGlobal => IInv'
<1> SUFFICES ASSUME IInv, PublishGlobal PROVE IInv'
  OBVIOUS
<1> DEFINE content == IF job.pending = "" THEN GlobalSettings ELSE Queued("standard", "")
<1>1. content \in Setting
  BY QueuedIsSetting, StoreAssumption DEF IInv
<1>2. Write(Global, content) \in Fitting /\ io' = <<Write(Global, content)>>
  <2>1. Fits(Global, content) /\ Valid(content) /\ Global \in Scopes
    BY <1>1, GlobalFits, Known DEF Valid
  <2> QED BY <2>1, WriteIsFitting DEF PublishGlobal, Issue
<1>3. io' \in Seq(Fitting)
  BY <1>2, OneRequest
<1>4. DirsInv' /\ MemoryInv' /\ FilesInv'
  BY <1>3 DEF IInv, DirsInv, MemoryInv, FilesInv, PublishGlobal, Issue, At, dirVars, memoryVars
<1>5. JobInv' /\ CopyInv'
  BY SameJob DEF IInv, PublishGlobal, At, dirVars, Working, Copying
<1> QED BY <1>4, <1>5 DEF IInv

\* Removing a directory leaves files that fit.
LEMMA RemoveKeeps ==
  ASSUME FilesInv, DirsInv, NEW dir, Remove(dir), io' \in Seq(Fitting)
  PROVE  FilesInv' /\ DirsInv'
<1>1. NoFiles \in Files
  BY SnapshotFits DEF FitFiles
<1> QED BY <1>1, SnapshotFits DEF FilesInv, DirsInv, Remove

LEMMA RetireOK == IInv /\ Retire => IInv'
<1> SUFFICES ASSUME IInv, Retire PROVE IInv'
  OBVIOUS
<1>1. FilesInv' /\ DirsInv'
  <2>1. CASE UNCHANGED <<fileVars, dirVars>>
    BY <2>1 DEF IInv, FilesInv, DirsInv, fileVars, dirVars
  <2>2. CASE Remove(job.source) /\ UNCHANGED io
    BY <2>2, RemoveKeeps DEF IInv, FilesInv
  <2> QED BY <2>1, <2>2 DEF Retire
<1>2. MemoryInv'
  BY DEF IInv, MemoryInv, Retire, At, memoryVars
<1>3. JobInv' /\ CopyInv'
  BY Idle DEF IInv, Retire
<1> QED BY <1>1, <1>2, <1>3 DEF IInv

-----------------------------------------------------------------------------
(* Failing file operations *)

LEMMA UndoOK == IInv /\ Undo => IInv'
<1> SUFFICES ASSUME IInv, Undo PROVE IInv'
  OBVIOUS
<1>1. job \in Jobs /\ pc = "undo" /\ running /\ pc' = "undone" /\ UNCHANGED <<job, running>>
  BY DEF IInv, JobInv, Undo, At
<1>2. io' \in Seq(Fitting)
  <2>1. job.files # NoSnapshot => Restore(job.dir, job.files) \in Seq(Fitting)
    BY RestoreIsFitting, Known DEF IInv, JobInv
  <2>2. Restore(Global, job.global) \in Seq(Fitting)
    BY <1>1, RestoreIsFitting, FilesOfGlobal, Known DEF Jobs
  <2> DEFINE one == IF ~job.created /\ job.files # NoSnapshot
                    THEN Restore(job.dir, job.files) ELSE <<>>
             two == IF job.committing THEN Restore(Global, job.global) ELSE <<>>
  <2>3. io' = one \o two
    BY DEF Undo
  <2>4. one \in Seq(Fitting) /\ two \in Seq(Fitting)
    BY <2>1, <2>2, EmptySeq
  <2> HIDE DEF one, two
  <2> QED BY <2>3, <2>4
<1>3. FilesInv' /\ DirsInv'
  <2>1. CASE UNCHANGED <<disk, newest, older, dirVars>>
    BY <1>2, <2>1 DEF IInv, FilesInv, DirsInv, dirVars
  <2>2. CASE Remove(job.dir)
    BY <1>2, <2>2, RemoveKeeps DEF IInv
  <2> QED BY <2>1, <2>2 DEF Undo
<1>4. MemoryInv'
  <2>1. path' = job.path /\ data' = job.data
    BY DEF Undo
  <2> QED BY <1>1, <2>1 DEF IInv, MemoryInv, JobInv, Jobs
<1>5. JobInv'
  BY <1>1 DEF IInv, JobInv, Working
<1>6. CopyInv'
  BY <1>1 DEF IInv, CopyInv, Copying
<1> QED BY <1>3, <1>4, <1>5, <1>6 DEF IInv

LEMMA FailOK == IInv /\ Fail => IInv'
<1> SUFFICES ASSUME IInv, Fail PROVE IInv'
  OBVIOUS
<1>1. FilesInv' /\ DirsInv'
  BY EmptySeq DEF IInv, FilesInv, DirsInv, Fail, dirVars
<1>2. MemoryInv'
  BY DEF IInv, MemoryInv, Fail, Unprotected
<1>3. CASE pc \in Unprotected
  BY <1>1, <1>2, <1>3, Idle DEF IInv, Fail
<1>4. CASE pc \notin Unprotected
  <2>1. /\ job' \in Jobs /\ job'.dir = job.dir /\ job'.path = job.path /\ job'.data = job.data
        /\ job'.files = job.files /\ job'.created = job.created /\ job'.source = job.source
    BY ZenonT(60), <1>4 DEF IInv, JobInv, Jobs, Fail
  <2>2. pc' = "undo" /\ UNCHANGED <<dirVars, disk>>
    BY <1>4 DEF Fail
  <2>3. JobInv' /\ CopyInv'
    BY <1>4, <2>1, <2>2 DEF IInv, JobInv, CopyInv, Working, Copying, Unprotected, dirVars
  <2> QED BY <1>1, <1>2, <2>3 DEF IInv
<1> QED BY <1>3, <1>4

LEMMA DoRequestOK == IInv /\ DoRequest => IInv'
<1> SUFFICES ASSUME IInv, DoRequest PROVE IInv'
  OBVIOUS
<1>1. FilesInv'
  BY ExecuteKeeps DEF IInv, DoRequest
<1>2. DirsInv' /\ MemoryInv' /\ JobInv' /\ CopyInv'
  BY DEF IInv, DirsInv, MemoryInv, JobInv, CopyInv, DoRequest, dirVars, memoryVars
<1> QED BY <1>1, <1>2 DEF IInv

LEMMA DamageFileOK == IInv /\ DamageFile => IInv'
<1> SUFFICES ASSUME IInv, DamageFile PROVE IInv'
  OBVIOUS
<1>1. FilesInv'
  <2>1. PICK s \in Scopes : Damage(s)
    BY DEF DamageFile
  <2>2. io' = io /\ \E loss \in {NoFile, Damaged} :
                       \/ disk' = [disk EXCEPT ![s].main = loss]
                       \/ disk' = [disk EXCEPT ![s].bak = loss]
    BY <2>1 DEF Damage
  <2>3. Fits(s, NoFile) /\ Fits(s, Damaged)
    BY NothingFits
  <2> QED BY <2>2, <2>3, FileKeeps DEF IInv, FilesInv
<1>2. DirsInv' /\ MemoryInv' /\ JobInv' /\ CopyInv'
  BY DEF IInv, DirsInv, MemoryInv, JobInv, CopyInv, DamageFile, dirVars, memoryVars
<1> QED BY <1>1, <1>2 DEF IInv

LEMMA NextOK == IInv /\ [Next]_vars => IInv'
<1> SUFFICES ASSUME IInv, [Next]_vars PROVE IInv'
  OBVIOUS
<1>1. CASE Start \/ Boot \/ Crash \/ Return
  BY <1>1, StartOK, BootOK, CrashOK, ReturnOK
<1>2. ASSUME NEW mode \in Backends, SelectForProfile(mode) \/ SelectOffline(mode) PROVE IInv'
  BY <1>2, SelectForProfileOK, SelectOfflineOK
<1>3. CASE Queue \/ QueueDone \/ Cleared \/ Undone \/ MakeBackup
  BY <1>3, QueueOK, QueueDoneOK, MakeBackupOK
<1>4. ASSUME NEW dir \in Dirs, Activate(dir) PROVE IInv'
  BY <1>4, ActivateOK
<1>5. CASE ReadPendingSame \/ Same \/ Clear \/ ReadPending \/ Snapshot
  BY <1>5, ReadPendingSameOK, SameOK, ReadPendingOK, SnapshotOK
<1>6. CASE Migrate \/ Open \/ Merge \/ Commit \/ PublishGlobal \/ Retire
  BY <1>6, MigrateOK, OpenOK, MergeOK, CommitOK, PublishGlobalOK, RetireOK
<1>7. CASE Undo \/ Fail \/ DoRequest \/ DamageFile
  BY <1>7, UndoOK, FailOK, DoRequestOK, DamageFileOK
<1>8. CASE UNCHANGED vars
  BY <1>8 DEF IInv, DirsInv, FilesInv, MemoryInv, JobInv, CopyInv, vars, fileVars, dirVars, memoryVars
<1> QED BY <1>1, <1>2, <1>3, <1>4, <1>5, <1>6, <1>7, <1>8 DEF Next

\* Settings and directories stay with their devices, whatever is started, failed, or
\* destroyed (SettingsManager).
THEOREM StoreInvariance == Spec => []IInv
<1>1. Init => IInv
  BY InitOK
<1>2. IInv /\ [Next]_vars => IInv'
  BY NextOK
<1> QED BY <1>1, <1>2, PTL DEF Spec

-----------------------------------------------------------------------------
(* Consequences *)

\* A profile's files never hold a pending choice (_normalize_privilege_settings).
THEOREM ProfileSafety == Spec => []ProfilesHoldNoPendingChoice
<1>1. IInv => ProfilesHoldNoPendingChoice
  <2> SUFFICES ASSUME IInv, NEW dir \in Dirs, NEW content \in {Main(dir), Bak(dir)},
                      Valid(content)
               PROVE  content.pending = ""
    BY DEF ProfilesHoldNoPendingChoice
  <2>1. Fits(dir, content)
    BY Known DEF IInv, FilesInv, FitFiles, Main, Bak
  <2> QED BY <2>1 DEF Fits, Own
<1> QED BY <1>1, StoreInvariance, PTL

\* Only the steps that make, copy and remove directories can lose a backup, and each
\* leaves one of the same device.
LEMMA StepKeepsBackups ==
  ASSUME IInv, [Next]_vars
  PROVE  \A dir \in holds : \E other \in holds' \cap exists' : Serial(other) = Serial(dir)
<1> DEFINE Kept == \A dir \in holds : \E other \in holds' \cap exists' :
                      Serial(other) = Serial(dir)
<1>1. holds \subseteq exists /\ exists \subseteq Dirs /\ Unset \notin Dirs
  BY Apart DEF IInv, DirsInv
<1>2. CASE UNCHANGED dirVars
  BY <1>1, <1>2 DEF dirVars
<1>3. CASE MakeBackup
  <2>1. path \in Dirs /\ data \in Own(path) /\ data.home # Unset
    BY <1>3, Known DEF IInv, MemoryInv, MakeBackup, Begin, At
  <2>2. Serial(data.home) = Serial(path)
    BY <2>1 DEF Own
  <2> QED BY <1>1, <1>3, <2>2 DEF MakeBackup
<1>4. CASE Migrate
  BY <1>1, <1>4 DEF Migrate, Publish, dirVars
<1>5. CASE Retire
  <2>1. CASE Remove(job.source) /\ job.source # Unset
    <3>1. /\ job.source # job.dir
          /\ Serial(job.source) = Serial(job.dir)
          /\ job.source \in holds => job.dir \in holds
      BY <1>5, <2>1 DEF IInv, CopyInv, Copying, Retire, At
    <3> QED BY <1>1, <2>1, <3>1 DEF Remove
  <2> QED BY <1>2, <1>5, <2>1 DEF Retire, Remove
<1>6. CASE Undo
  <2>1. CASE Remove(job.dir) /\ job.created
    <3>1. /\ job.source # job.dir
          /\ job.source # Unset => Serial(job.source) = Serial(job.dir)
          /\ job.dir \in holds => job.source \in holds
      BY <1>6, <2>1 DEF IInv, CopyInv, Copying, Undo, At
    <3> QED BY <1>1, <2>1, <3>1 DEF Remove
  <2> QED BY <1>2, <1>6, <2>1 DEF Undo
<1>7. MakeBackup \/ Migrate \/ Retire \/ Undo \/ UNCHANGED dirVars
  BY DEF Next, vars, Start, Boot, Crash, Return, SelectForProfile, SelectOffline, Queue,
         QueueDone, Activate, ReadPendingSame, Same, Clear, Cleared, ReadPending, Snapshot,
         Open, Merge, Commit, PublishGlobal, Undone, Fail, DoRequest, DamageFile
<1> QED BY <1>2, <1>3, <1>4, <1>5, <1>6, <1>7

\* The latest backup of a device is in one of its directories after every step
\* (_migrate_device_profile, _retire_migrated_profile, the rollback).
THEOREM BackupSafety == Spec => BackupsSurvive
<1>1. IInv /\ [Next]_vars
        => [\A dir \in holds : \E other \in holds' \cap exists' : Serial(other) = Serial(dir)]_vars
  BY StepKeepsBackups
<1> QED BY <1>1, StoreInvariance, PTL DEF Spec, BackupsSurvive
-----------------------------------------------------------------------------
(* The last-known-good copies *)

Requested == 1..Len(io)
Writes    == {"backup", "replace"}
Chain     == {"repair", "rebuild"} \cup Writes
Puts      == {"putmain", "putbak"}

GhostInv == /\ newest \in [Scopes -> Values \cup {NoFile}]
            /\ older \in [Scopes -> Values \cup {NoFile}]

\* What LastKnownGood says of a scope, and that there is something to load.
Recoverable(s) ==
  newest[s] # NoFile =>
     Valid(View(disk[s])) /\ View(disk[s]) \in {newest[s], older[s]}

\* As long as nothing has been destroyed, the file is what was saved last, and a
\* missing one was saved as its copy is.
Sound(s) ==
  /\ Valid(Main(s)) => /\ newest[s] = Main(s)
                       /\ Valid(Bak(s)) => Bak(s) \in {newest[s], older[s]}
  /\ ~Valid(Main(s)) => newest[s] \in {NoFile, Bak(s)}

\* A write loses nothing: the copy it makes is of the file, or there is none to lose.
Ready(s) == Valid(Main(s)) \/ ~Valid(Bak(s))

HeadInv ==
  io # <<>> =>
    /\ This.do = "rebuild" => ~Valid(Main(This.at))
    /\ This.do = "backup" => Ready(This.at) \/ This.value = Bak(This.at)
    /\ This.do = "replace" => Bak(This.at) \in {newest[This.at], This.value}

\* Putting back the file of a snapshot leaves the copy one of the last two settings.
Allows(copy, last, content) ==
  Valid(content) => last = content \/ ~Valid(copy) \/ copy \in {content, last}

Restorable(s, content) == Allows(disk[s].bak, newest[s], content)

\* Every write is preceded by a repair of its scope.
QueueInv ==
  \A i \in Requested :
    /\ i > 1 => io[i].do \notin {"rebuild", "replace"}
    /\ i > 1 /\ io[i].do = "backup" => io[i - 1].at = io[i].at /\ io[i - 1].do \in Chain
    /\ io[i].do \in Puts <=> pc = "undone"
    /\ io[i].do = "putmain" => /\ Restorable(io[i].at, io[i].value)
                               /\ \A j \in 1..(i - 1) : io[j].at # io[i].at

PreparedInv ==
  pc \in {"queue", "clear", "publish"} =>
    IF io = <<>> THEN Ready(Global)
    ELSE Len(io) = 1 /\ io[1].at = Global /\ io[1].do \in Chain

NoWrites(s) == \A i \in Requested : ~(io[i].at = s /\ io[i].do \in Writes)

OnlyWrites(s, content) ==
  \A i \in Requested : io[i].at = s /\ io[i].do \in Writes => io[i].value = content

\* Since the snapshot that has this content the scope has not been written ...
Untouched(s, content) ==
  Valid(content) => Main(s) = content /\ newest[s] = content /\ NoWrites(s)

\* ... or it has been, and is being, given one other content.
Rewriting(s, content) ==
  Valid(content) =>
    /\ Valid(Main(s))
    /\ \/ newest[s] = content /\ \E value \in Contents : OnlyWrites(s, value)
       \/ Bak(s) \in {content, newest[s]} /\ OnlyWrites(s, newest[s])

SnapshotInv ==
  /\ pc \in {"migrate", "open", "merge"} => Untouched(job.dir, job.files.main)
  /\ pc \in {"same", "clear", "cleared", "commit", "publish", "retire", "undo"} =>
       Rewriting(job.dir, job.files.main)
  /\ pc \in {"same", "clear", "migrate", "open", "merge", "commit", "publish"} =>
       Untouched(Global, job.global.main)
  /\ pc \in {"cleared", "retire", "undo"} => Rewriting(Global, job.global.main)

KeptInv ==
  /\ spent \in [ops: Nat, crashes: Nat, fails: Nat, damage: Nat]
  /\ pc \in Labels
  /\ pc = "idle" => io = <<>>
  /\ pc = "migrate" /\ job.files # NoSnapshot => job.dir \in exists
  /\ job.created => job.files = NoSnapshot

Undamaged == (\A s \in Scopes : Sound(s)) /\ HeadInv /\ QueueInv /\ PreparedInv /\ SnapshotInv

GoodInv == /\ GhostInv /\ KeptInv
           /\ \A s \in Scopes : Recoverable(s)
           /\ spent.damage = 0 => Undamaged

-----------------------------------------------------------------------------
(* Execution, with nothing destroyed *)

Dropped == Len(io') = Len(io) - 1 /\ \A i \in 1..Len(io') : io'[i] = io[i + 1]

Became(r) ==
  /\ Len(io') = Len(io) /\ Len(io) > 0 /\ io'[1] = r
  /\ \A i \in 2..Len(io') : io'[i] = io[i]

LEMMA QueueMoves ==
  ASSUME io \in Seq(Fitting), io # <<>>
  PROVE  /\ This = io[1] /\ io[1] \in Fitting /\ Len(io) \in Nat /\ Len(io) > 0
         /\ \A i \in Requested : io[i] \in Fitting
         /\ Then(<<>>) => Dropped
         /\ \A r : Then(<<r>>) => Became(r)
<1>1. /\ Len(io) \in Nat /\ Len(io) > 0 /\ This = io[1]
      /\ \A i \in Requested : io[i] \in Fitting
      /\ Tail(io) \in Seq(Fitting) /\ Len(Tail(io)) = Len(io) - 1
      /\ \A i \in 1..Len(Tail(io)) : Tail(io)[i] = io[i + 1]
  BY DEF This, Requested
<1>2. ASSUME Then(<<>>) PROVE Dropped
  <2>1. io' = Tail(io)
    BY <1>1, <1>2 DEF Then
  <2> QED BY <1>1, <2>1 DEF Dropped
<1>3. ASSUME NEW r, Then(<<r>>) PROVE Became(r)
  <2> DEFINE rest == Tail(io)
  <2>1. io' = <<r>> \o rest
    BY <1>3 DEF Then
  <2>2. /\ Len(<<r>> \o rest) = 1 + Len(rest)
        /\ (<<r>> \o rest)[1] = r
        /\ \A i \in 2..(1 + Len(rest)) : (<<r>> \o rest)[i] = rest[i - 1]
    BY <1>1
  <2> QED BY <1>1, <2>1, <2>2 DEF Became
<1> QED BY <1>1, <1>2, <1>3

\* The two files of a scope after one of them has been given a content.
LEMMA FileChange ==
  ASSUME disk \in [Scopes -> Files], NEW s \in Scopes, NEW content
  PROVE  /\ disk' = [disk EXCEPT ![s].main = content]
              => /\ Main(s)' = content /\ Bak(s)' = Bak(s)
                 /\ \A z \in Scopes \ {s} : disk'[z] = disk[z]
         /\ disk' = [disk EXCEPT ![s].bak = content]
              => /\ Bak(s)' = content /\ Main(s)' = Main(s)
                 /\ \A z \in Scopes \ {s} : disk'[z] = disk[z]
BY DEF Main, Bak, Files

\* The kinds of requests, and that a request is of one scope only.
LEMMA OneScope ==
  ASSUME FilesInv, GhostInv, Execute, NEW s \in Scopes, s = This.at
  PROVE  /\ GhostInv'
         /\ This \in Fitting /\ io # <<>>
         /\ \A z \in Scopes \ {s} : /\ disk'[z] = disk[z]
                                   /\ newest'[z] = newest[z]
                                   /\ older'[z] = older[z]
<1>1. io # <<>> /\ This \in Fitting
  <2>1. io # <<>>
    BY DEF Execute, DoRepair, DoRebuild, DoBackup, DoReplace, DoPut, Doing
  <2> QED BY <2>1, QueueMoves DEF FilesInv
<1>2. \A z \in Scopes \ {s} : disk'[z] = disk[z]
  <2>1. \/ disk' = disk
        \/ \E c : disk' = [disk EXCEPT ![s].main = c]
        \/ \E c : disk' = [disk EXCEPT ![s].bak = c]
    BY DEF Execute, DoRepair, DoRebuild, DoBackup, DoReplace, DoPut, SetMain, SetBak
  <2> QED BY <2>1, FileChange DEF FilesInv
<1>3. \/ UNCHANGED <<newest, older>>
      \/ \E c, d \in Values \cup {NoFile} :
           newest' = [newest EXCEPT ![s] = c] /\ older' = [older EXCEPT ![s] = d]
  <2>0. older = [older EXCEPT ![s] = older[s]]
    BY DEF GhostInv
  <2>1. CASE DoReplace
    <3>1. Valid(This.value) /\ Remember(s, This.value)
      BY <1>1, <2>1 DEF DoReplace, Doing, Fitting
    <3> QED BY <2>0, <3>1 DEF Remember, Valid, GhostInv
  <2>2. CASE DoPut
    <3>1. View([disk[s] EXCEPT !.main = This.value]) \in Values \cup {NoFile}
      BY DEF View, Valid
    <3>2. View([main |-> Main(s), bak |-> This.value]) \in Values \cup {NoFile}
      BY DEF View, Valid
    <3>3. CASE Remember(s, This.value) /\ Valid(This.value)
      BY <2>0, <3>3 DEF Remember, Valid, GhostInv
    <3> QED BY <2>2, <3>1, <3>2, <3>3 DEF DoPut, Valid
  <2>3. CASE DoRepair \/ DoRebuild \/ DoBackup
    BY <2>3 DEF DoRepair, DoRebuild, DoBackup
  <2> QED BY <2>1, <2>2, <2>3 DEF Execute
<1>4. newest' \in [Scopes -> Values \cup {NoFile}] /\ older' \in [Scopes -> Values \cup {NoFile}]
  BY <1>3 DEF GhostInv
<1> QED BY <1>1, <1>2, <1>3, <1>4 DEF GhostInv

\* What the execution of the first request does to its scope and to the queue.
LEMMA Effects ==
  ASSUME FilesInv, GhostInv, Execute, NEW s \in Scopes, s = This.at,
         NEW value, value = This.value
  PROVE  /\ This.do = "repair" =>
              /\ Bak(s)' = Bak(s) /\ newest'[s] = newest[s] /\ older'[s] = older[s]
              /\ \/ Ready(s) /\ Main(s)' = Main(s) /\ Dropped
                 \/ ~Valid(Main(s)) /\ ~Valid(Main(s)') /\ Became(Request("rebuild", s, NoFile))
         /\ This.do = "rebuild" =>
              /\ Main(s)' = Main(s) /\ newest'[s] = newest[s] /\ older'[s] = older[s]
              /\ \E content : /\ Became(Write(s, content))
                              /\ \/ Valid(Bak(s)) /\ content = Bak(s) /\ Bak(s)' = Bak(s)
                                 \/ ~Valid(Bak(s)) /\ ~Valid(Bak(s)')
         /\ This.do = "backup" =>
              /\ Main(s)' = Main(s) /\ newest'[s] = newest[s] /\ older'[s] = older[s]
              /\ Bak(s)' = IF Valid(Main(s)) THEN Main(s)
                           ELSE IF Valid(Bak(s)) THEN Bak(s) ELSE value
              /\ Became(Request("replace", s, value))
         /\ This.do = "replace" =>
              /\ Valid(value) /\ Main(s)' = value /\ Bak(s)' = Bak(s) /\ Dropped
              /\ newest'[s] = value
              /\ older'[s] = IF value = newest[s] THEN older[s] ELSE newest[s]
         /\ This.do = "putmain" =>
              /\ Main(s)' = value /\ Bak(s)' = Bak(s) /\ Dropped
              /\ newest'[s] = IF Valid(value) THEN value
                              ELSE IF Valid(Bak(s)) THEN Bak(s) ELSE NoFile
              /\ older'[s] = IF ~Valid(value) THEN newest'[s]
                             ELSE IF value = newest[s] THEN older[s] ELSE newest[s]
         /\ This.do = "putbak" =>
              /\ Main(s)' = Main(s) /\ Bak(s)' = value /\ Dropped
              /\ newest'[s] = IF Valid(Main(s)) THEN Main(s)
                              ELSE IF Valid(value) THEN value ELSE NoFile
              /\ older'[s] = IF Valid(value) THEN value ELSE newest'[s]
<1>1. /\ io # <<>> /\ This \in Fitting /\ disk \in [Scopes -> Files] /\ disk[s] \in Files
      /\ newest \in [Scopes -> Values \cup {NoFile}]
      /\ older \in [Scopes -> Values \cup {NoFile}]
  BY OneScope DEF FilesInv, GhostInv
<1>2. /\ Then(<<>>) => Dropped
      /\ \A r : Then(<<r>>) => Became(r)
  BY <1>1, QueueMoves DEF FilesInv
<1>3. /\ disk' = disk => Main(s)' = Main(s) /\ Bak(s)' = Bak(s)
      /\ \A c : disk' = [disk EXCEPT ![s].main = c] => Main(s)' = c /\ Bak(s)' = Bak(s)
      /\ \A c : disk' = [disk EXCEPT ![s].bak = c] => Bak(s)' = c /\ Main(s)' = Main(s)
  BY <1>1, FileChange DEF Main, Bak
<1>4. ASSUME This.do = "repair"
      PROVE  /\ Bak(s)' = Bak(s) /\ newest'[s] = newest[s] /\ older'[s] = older[s]
             /\ \/ Ready(s) /\ Main(s)' = Main(s) /\ Dropped
                \/ ~Valid(Main(s)) /\ ~Valid(Main(s)') /\ Became(Request("rebuild", s, NoFile))
  <2>1. DoRepair
    BY <1>4 DEF Execute, DoRepair, DoRebuild, DoBackup, DoReplace, DoPut, Doing
  <2>2. ~Valid(NoFile) /\ ~Valid(Damaged)
    BY FileAssumption DEF Valid
  <2>3. UNCHANGED <<newest, older>>
    BY <2>1 DEF DoRepair
  <2>4. CASE /\ Valid(Main(s)) \/ disk[s] = NoFiles
             /\ Then(<<>>) /\ UNCHANGED disk
    <3>1. disk[s] = NoFiles => Bak(s) = NoFile
      BY DEF NoFiles, Bak
    <3> QED BY <1>2, <1>3, <2>2, <2>3, <2>4, <3>1 DEF Ready
  <2>5. CASE /\ ~Valid(Main(s)) /\ Then(<<Request("rebuild", s, NoFile)>>)
             /\ disk' = disk \/ disk' = [disk EXCEPT ![s].main = NoFile]
    BY <1>2, <1>3, <2>2, <2>3, <2>5
  <2> QED BY <2>1, <2>2, <2>4, <2>5 DEF DoRepair, SetMain
<1>5. ASSUME This.do = "rebuild"
      PROVE  /\ Main(s)' = Main(s) /\ newest'[s] = newest[s] /\ older'[s] = older[s]
             /\ \E content : /\ Became(Write(s, content))
                             /\ \/ Valid(Bak(s)) /\ content = Bak(s) /\ Bak(s)' = Bak(s)
                                \/ ~Valid(Bak(s)) /\ ~Valid(Bak(s)')
  <2>1. DoRebuild
    BY <1>5 DEF Execute, DoRepair, DoRebuild, DoBackup, DoReplace, DoPut, Doing
  <2>2. ~Valid(NoFile)
    BY FileAssumption DEF Valid
  <2>3. UNCHANGED <<newest, older>>
    BY <2>1 DEF DoRebuild
  <2>4. CASE Valid(Bak(s))
    <3>1. Then(<<Write(s, Bak(s))>>) /\ disk' = disk
      BY <2>1, <2>4 DEF DoRebuild
    <3> QED BY <1>2, <1>3, <2>3, <2>4, <3>1
  <2>5. CASE ~Valid(Bak(s))
    <3>1. Then(<<Write(s, Defaults)>>) /\ disk' = [disk EXCEPT ![s].bak = NoFile]
      BY <2>1, <2>5 DEF DoRebuild, SetBak
    <3> QED BY <1>2, <1>3, <2>2, <2>3, <2>5, <3>1
  <2> QED BY <2>4, <2>5
<1>6. ASSUME This.do = "backup"
      PROVE  /\ Main(s)' = Main(s) /\ newest'[s] = newest[s] /\ older'[s] = older[s]
             /\ Bak(s)' = IF Valid(Main(s)) THEN Main(s)
                          ELSE IF Valid(Bak(s)) THEN Bak(s) ELSE value
             /\ Became(Request("replace", s, value))
  <2>1. DoBackup
    BY <1>6 DEF Execute, DoRepair, DoRebuild, DoBackup, DoReplace, DoPut, Doing
  <2> QED BY <1>2, <1>3, <2>1 DEF DoBackup, SetBak
<1>7. ASSUME This.do = "replace"
      PROVE  /\ Valid(value) /\ Main(s)' = value /\ Bak(s)' = Bak(s) /\ Dropped
             /\ newest'[s] = value
             /\ older'[s] = IF value = newest[s] THEN older[s] ELSE newest[s]
  <2>1. DoReplace
    BY <1>7 DEF Execute, DoRepair, DoRebuild, DoBackup, DoReplace, DoPut, Doing
  <2>2. Valid(value) /\ Main(s)' = value /\ Bak(s)' = Bak(s) /\ Dropped
    BY <1>1, <1>2, <1>3, <1>7, <2>1 DEF DoReplace, SetMain, Fitting
  <2>3. Remember(s, value)
    BY <2>1 DEF DoReplace
  <2> QED BY <1>1, <2>2, <2>3 DEF Remember
<1>8. ASSUME This.do = "putmain"
      PROVE  /\ Main(s)' = value /\ Bak(s)' = Bak(s) /\ Dropped
             /\ newest'[s] = IF Valid(value) THEN value
                             ELSE IF Valid(Bak(s)) THEN Bak(s) ELSE NoFile
             /\ older'[s] = IF ~Valid(value) THEN newest'[s]
                            ELSE IF value = newest[s] THEN older[s] ELSE newest[s]
  <2>1. /\ Doing("putmain") /\ SetMain(value) /\ Then(<<>>)
        /\ IF Valid(value) THEN Remember(s, value)
           ELSE LET left == View([disk[s] EXCEPT !.main = value])
                IN  /\ newest' = [newest EXCEPT ![s] = left]
                    /\ older' = [older EXCEPT ![s] = left]
    BY <1>8 DEF Execute, DoRepair, DoRebuild, DoBackup, DoReplace, DoPut, Doing
  <2>2. Main(s)' = value /\ Bak(s)' = Bak(s) /\ Dropped
    BY <1>2, <1>3, <2>1 DEF SetMain
  <2>3. CASE Valid(value)
    BY <1>1, <2>1, <2>2, <2>3 DEF Remember
  <2>4. CASE ~Valid(value)
    <3>1. View([disk[s] EXCEPT !.main = value]) = IF Valid(Bak(s)) THEN Bak(s) ELSE NoFile
      BY <1>1, <2>4 DEF View, Files, Bak
    <3> QED BY <1>1, <2>1, <2>2, <2>4, <3>1
  <2> QED BY <2>3, <2>4
<1>9. ASSUME This.do = "putbak"
      PROVE  /\ Main(s)' = Main(s) /\ Bak(s)' = value /\ Dropped
             /\ newest'[s] = IF Valid(Main(s)) THEN Main(s)
                             ELSE IF Valid(value) THEN value ELSE NoFile
             /\ older'[s] = IF Valid(value) THEN value ELSE newest'[s]
  <2> DEFINE left == View([main |-> Main(s), bak |-> value])
  <2>1. /\ Doing("putbak") /\ SetBak(value) /\ Then(<<>>)
        /\ newest' = [newest EXCEPT ![s] = left]
        /\ older' = [older EXCEPT ![s] = IF Valid(value) THEN value ELSE left]
    BY <1>9 DEF Execute, DoRepair, DoRebuild, DoBackup, DoReplace, DoPut, Doing
  <2>2. Main(s)' = Main(s) /\ Bak(s)' = value /\ Dropped
    BY <1>2, <1>3, <2>1 DEF SetBak
  <2>3. left = IF Valid(Main(s)) THEN Main(s) ELSE IF Valid(value) THEN value ELSE NoFile
    BY DEF View
  <2> HIDE DEF left
  <2> QED BY <1>1, <2>1, <2>2, <2>3
<1> QED BY <1>4, <1>5, <1>6, <1>7, <1>8, <1>9

\* View in terms of the two files.
LEMMA Viewed ==
  \A s : View(disk[s]) = IF Valid(Main(s)) THEN Main(s)
                         ELSE IF Valid(Bak(s)) THEN Bak(s) ELSE NoFile
BY DEF View, Main, Bak

\* What holds of the files of a scope holds as long as they are not changed.
LEMMA SameScope ==
  ASSUME NEW z \in Scopes, disk'[z] = disk[z], newest'[z] = newest[z], older'[z] = older[z]
  PROVE  /\ Recoverable(z) => Recoverable(z)'
         /\ Sound(z) => Sound(z)'
         /\ Ready(z) => Ready(z)'
         /\ \A c : Restorable(z, c) => Restorable(z, c)'
BY DEF Recoverable, Sound, Ready, Restorable, View, Main, Bak

\* A request leaves its scope recoverable, even when a file of it has been destroyed.
LEMMA ExecuteRecovers ==
  ASSUME FilesInv, GhostInv, Execute, \A s \in Scopes : Recoverable(s)
  PROVE  \A s \in Scopes : Recoverable(s)'
<1> DEFINE scope == This.at
           value == This.value
<1>1. scope \in Scopes /\ This \in Requests
  <2>1. io # <<>> /\ io \in Seq(Fitting)
    BY DEF Execute, DoRepair, DoRebuild, DoBackup, DoReplace, DoPut, Doing, FilesInv
  <2> QED BY <2>1, QueueMoves DEF Fitting, Requests
<1> SUFFICES ASSUME NEW z \in Scopes PROVE Recoverable(z)'
  OBVIOUS
<1>2. CASE z # scope
  BY <1>1, <1>2, OneScope, SameScope
<1>3. CASE z = scope
  <2>1. Recoverable(z)
    OBVIOUS
  <2>2. NoFile \notin Values
    BY FileAssumption
  <2>3. This.do \in {"repair", "rebuild", "backup", "replace", "putmain", "putbak"}
    BY <1>1 DEF Requests
  <2>4. CASE This.do \in {"repair", "rebuild", "backup"}
    BY <1>3, <2>1, <2>2, <2>4, Effects DEF Recoverable, View, Main, Bak, Valid, Ready
  <2>5. CASE This.do = "replace"
    BY <1>3, <2>2, <2>5, Effects DEF Recoverable, View, Main, Bak, Valid
  <2>6. CASE This.do = "putmain"
    BY <1>3, <2>2, <2>6, Effects DEF Recoverable, View, Main, Bak, Valid
  <2>7. CASE This.do = "putbak"
    BY <1>3, <2>2, <2>7, Effects DEF Recoverable, View, Main, Bak, Valid
  <2> QED BY <2>3, <2>4, <2>5, <2>6, <2>7
<1> QED BY <1>2, <1>3

LEMMA ExecuteSound ==
  ASSUME FilesInv, GhostInv, Execute, Undamaged
  PROVE  \A s \in Scopes : Sound(s)'
<1> DEFINE scope == This.at
           value == This.value
<1>1. scope \in Scopes /\ This \in Requests /\ io # <<>> /\ This = io[1] /\ 1 \in Requested
  <2>1. io # <<>> /\ io \in Seq(Fitting)
    BY DEF Execute, DoRepair, DoRebuild, DoBackup, DoReplace, DoPut, Doing, FilesInv
  <2> QED BY <2>1, QueueMoves DEF Fitting, Requests, Requested
<1> SUFFICES ASSUME NEW z \in Scopes PROVE Sound(z)'
  OBVIOUS
<1>2. CASE z # scope
  BY <1>1, <1>2, OneScope, SameScope DEF Undamaged
<1>3. CASE z = scope
  <2>1. Sound(z) /\ HeadInv /\ QueueInv /\ newest[z] \in Values \cup {NoFile}
    BY DEF Undamaged, GhostInv
  <2>2. NoFile \notin Values
    BY FileAssumption
  <2>3. This.do \in {"repair", "rebuild", "backup", "replace", "putmain", "putbak"}
    BY <1>1 DEF Requests
  <2>4. CASE This.do \in {"repair", "rebuild"}
    BY <1>3, <2>1, <2>2, <2>4, Effects DEF Sound, Main, Bak, Valid, Ready
  <2>5. CASE This.do = "backup"
    BY <1>3, <2>1, <2>2, <2>5, Effects DEF Sound, Main, Bak, Valid
  <2>6. CASE This.do = "replace"
    <3>1. Bak(z) \in {newest[z], value}
      BY <1>1, <1>3, <2>1, <2>6 DEF HeadInv
    <3> QED BY <1>3, <2>1, <2>2, <2>6, <3>1, Effects DEF Sound, Main, Bak, Valid
  <2>7. CASE This.do = "putmain"
    <3>1. Restorable(z, value)
      BY <1>1, <1>3, <2>1, <2>7 DEF QueueInv
    <3> QED BY <1>3, <2>1, <2>2, <2>7, <3>1, Effects DEF Restorable, Allows, Sound, Main, Bak, Valid
  <2>8. CASE This.do = "putbak"
    BY <1>3, <2>1, <2>2, <2>8, Effects DEF Sound, Main, Bak, Valid
  <2> QED BY <2>3, <2>4, <2>5, <2>6, <2>7, <2>8
<1> QED BY <1>2, <1>3

\* The request that comes first next.
LEMMA NextHead ==
  ASSUME FilesInv, GhostInv, Execute, Undamaged, NEW s \in Scopes, s = This.at
  PROVE  HeadInv'
<1> DEFINE value == This.value
<1>1. /\ This \in Requests /\ io # <<>> /\ This = io[1] /\ Len(io) \in Nat /\ Len(io) > 0
      /\ This.do \in {"backup", "replace"} => Valid(value)
      /\ HeadInv /\ QueueInv
  <2>1. io # <<>> /\ io \in Seq(Fitting)
    BY DEF Execute, DoRepair, DoRebuild, DoBackup, DoReplace, DoPut, Doing, FilesInv
  <2> QED BY <2>1, QueueMoves DEF Fitting, Undamaged
<1>2. io' \in Seq(Fitting)
  BY ExecuteKeeps DEF FilesInv
<1> SUFFICES ASSUME io' # <<>>
             PROVE  /\ This'.do = "rebuild" => ~Valid(Main(This.at)')
                    /\ This'.do = "backup" => Ready(This.at)' \/ This'.value = Bak(This.at)'
                    /\ This'.do = "replace" => Bak(This.at)' \in {newest'[This'.at], This'.value}
  BY DEF HeadInv
<1>3. This' = io'[1] /\ Len(io') > 0 /\ Len(io') \in Nat
  BY <1>2 DEF This
<1>4. CASE This.do = "repair" /\ Became(Request("rebuild", s, NoFile)) /\ ~Valid(Main(s)')
  BY <1>3, <1>4 DEF Became, Request
<1>5. CASE This.do = "rebuild"
  <2>1. PICK content : /\ Became(Write(s, content))
                       /\ \/ Valid(Bak(s)) /\ content = Bak(s) /\ Bak(s)' = Bak(s)
                          \/ ~Valid(Bak(s)) /\ ~Valid(Bak(s)')
    BY <1>5, Effects
  <2>2. This'.do = "backup" /\ This'.at = s /\ This'.value = content
    BY <1>3, <2>1 DEF Became, Write, Request
  <2> QED BY <2>1, <2>2 DEF Ready
<1>6. CASE This.do = "backup"
  <2>1. /\ Became(Request("replace", s, value))
        /\ Bak(s)' = IF Valid(Main(s)) THEN Main(s)
                     ELSE IF Valid(Bak(s)) THEN Bak(s) ELSE value
        /\ newest'[s] = newest[s]
    BY <1>6, Effects
  <2>2. This'.do = "replace" /\ This'.at = s /\ This'.value = value
    BY <1>3, <2>1 DEF Became, Request
  <2>3. Valid(Main(s)) => newest[s] = Main(s)
    BY DEF Undamaged, Sound
  <2>4. Ready(s) \/ value = Bak(s)
    BY <1>1, <1>6 DEF HeadInv
  <2>5. Bak(s)' \in {newest'[s], value}
    BY <2>1, <2>3, <2>4 DEF Ready
  <2> QED BY <2>2, <2>5
<1>7. CASE Dropped /\ (This.do \in Chain => Ready(s)')
  <2>1. This' = io[2] /\ 2 \in Requested
    BY <1>1, <1>3, <1>7 DEF Dropped, Requested
  <2>2. This'.do \notin {"rebuild", "replace"}
    BY <2>1, <1>1 DEF QueueInv
  <2>3. This'.do = "backup" => io[1].at = io[2].at /\ io[1].do \in Chain
    <3>1. 2 > 1 /\ 2 - 1 = 1
      OBVIOUS
    <3> QED BY <1>1, <2>1, <3>1 DEF QueueInv
  <2> QED BY <1>1, <1>7, <2>1, <2>2, <2>3
<1>8. CASE This.do = "repair"
  <2>1. CASE Dropped /\ Ready(s) /\ Main(s)' = Main(s) /\ Bak(s)' = Bak(s)
    BY <1>7, <2>1 DEF Ready
  <2> QED BY <1>4, <1>8, <2>1, Effects
<1>9. CASE This.do = "replace"
  BY <1>7, <1>9, Effects DEF Ready
<1>10. CASE This.do \in Puts
  BY <1>7, <1>10, Effects DEF Puts, Chain, Writes
<1>11. This.do \in {"repair", "rebuild", "backup", "replace"} \cup Puts
  BY <1>1 DEF Requests, Puts
<1> QED BY <1>5, <1>6, <1>8, <1>9, <1>10, <1>11

LEMMA NextQueue ==
  ASSUME FilesInv, GhostInv, Execute, Undamaged, pc' = pc, NEW s \in Scopes, s = This.at
  PROVE  QueueInv'
<1>1. /\ This \in Requests /\ io # <<>> /\ This = io[1] /\ Len(io) \in Nat /\ Len(io) > 0
      /\ \A i \in Requested : io[i] \in Requests
      /\ QueueInv
  <2>1. io # <<>> /\ io \in Seq(Fitting)
    BY DEF Execute, DoRepair, DoRebuild, DoBackup, DoReplace, DoPut, Doing, FilesInv
  <2> QED BY <2>1, QueueMoves DEF Fitting, Undamaged
<1>2. io' \in Seq(Fitting)
  BY ExecuteKeeps DEF FilesInv
<1>3. 1 \in Requested
  BY <1>1 DEF Requested
<1> SUFFICES ASSUME NEW i \in 1..Len(io')
             PROVE  /\ i > 1 => io'[i].do \notin {"rebuild", "replace"}
                    /\ i > 1 /\ io'[i].do = "backup"
                         => io'[i - 1].at = io'[i].at /\ io'[i - 1].do \in Chain
                    /\ io'[i].do \in Puts <=> pc = "undone"
                    /\ io'[i].do = "putmain"
                         => /\ Allows(disk'[io'[i].at].bak, newest'[io'[i].at], io'[i].value)
                            /\ \A j \in 1..(i - 1) : io'[j].at # io'[i].at
  BY DEF QueueInv, Requested, Restorable
<1>4. Len(io') \in Nat /\ i \in Nat /\ i >= 1 /\ i <= Len(io')
  BY <1>2
<1>5. CASE Dropped /\ This.do \in Puts \cup {"repair", "replace"}
  <2>1. i + 1 \in Requested /\ io'[i] = io[i + 1] /\ i + 1 > 1 /\ (i + 1) - 1 = i /\ i \in Requested
    BY <1>1, <1>4, <1>5 DEF Dropped, Requested
  <2>2. i > 1 => io'[i - 1] = io[i]
    <3>1. i > 1 => i - 1 \in 1..Len(io') /\ (i - 1) + 1 = i
      BY <1>4
    <3> QED BY <1>5, <3>1 DEF Dropped
  <2>3. /\ io[i + 1].do \notin {"rebuild", "replace"}
        /\ io[i + 1].do = "backup" => io[i].at = io[i + 1].at /\ io[i].do \in Chain
        /\ io[i + 1].do \in Puts <=> pc = "undone"
        /\ io[i + 1].do = "putmain" => /\ Restorable(io[i + 1].at, io[i + 1].value)
                                       /\ \A j \in 1..i : io[j].at # io[i + 1].at
    BY <1>1, <2>1 DEF QueueInv
  <2>4. ASSUME io[i + 1].do = "putmain"
        PROVE  /\ Allows(disk'[io[i + 1].at].bak, newest'[io[i + 1].at], io[i + 1].value)
               /\ \A j \in 1..(i - 1) : io'[j].at # io'[i].at
    <3>1. io[1].at # io[i + 1].at /\ io[i + 1].at \in Scopes
      BY <1>1, <1>4, <2>1, <2>3, <2>4 DEF Requests
    <3>2. Allows(disk'[io[i + 1].at].bak, newest'[io[i + 1].at], io[i + 1].value)
      <4> DEFINE z == io[i + 1].at
      <4>1. z \in Scopes /\ z # s
        BY <1>1, <3>1
      <4> HIDE DEF z
      <4>2. disk'[z] = disk[z] /\ newest'[z] = newest[z]
        BY <4>1, OneScope
      <4> QED BY <2>3, <2>4, <4>2 DEF Restorable, z
    <3>3. ASSUME NEW j \in 1..(i - 1) PROVE io'[j].at # io'[i].at
      <4>1. j + 1 \in 1..i /\ j \in 1..Len(io')
        BY <1>4
      <4>2. io'[j] = io[j + 1]
        BY <1>5, <4>1 DEF Dropped
      <4> QED BY <2>1, <2>3, <2>4, <4>1, <4>2
    <3> QED BY <2>3, <2>4, <3>2, <3>3
  <2> QED BY <2>1, <2>2, <2>3, <2>4
<1>6. ASSUME NEW r, Became(r), r.at = s, r.do \in Chain, This.do \in Chain
      PROVE  /\ i > 1 => io'[i].do \notin {"rebuild", "replace"}
             /\ i > 1 /\ io'[i].do = "backup"
                  => io'[i - 1].at = io'[i].at /\ io'[i - 1].do \in Chain
             /\ io'[i].do \in Puts <=> pc = "undone"
             /\ io'[i].do # "putmain"
  <2>1. pc # "undone"
    BY <1>1, <1>3, <1>6 DEF QueueInv, Chain, Writes, Puts
  <2>2. CASE i = 1
    BY <1>6, <2>1, <2>2 DEF Became, Chain, Writes, Puts
  <2>3. CASE i > 1
    <3>1. i \in Requested /\ i \in 2..Len(io') /\ i - 1 \in 1..Len(io')
      BY <1>1, <1>4, <1>6, <2>3 DEF Became, Requested
    <3>2. io'[i] = io[i] /\ (i - 1 = 1 \/ io'[i - 1] = io[i - 1])
      BY <1>4, <1>6, <2>3, <3>1 DEF Became
    <3>3. /\ io[i].do \notin {"rebuild", "replace"}
          /\ io[i].do = "backup" => io[i - 1].at = io[i].at /\ io[i - 1].do \in Chain
          /\ io[i].do \notin Puts
      BY <1>1, <2>1, <2>3, <3>1 DEF QueueInv
    <3>4. CASE i - 1 = 1
      BY <1>1, <1>6, <2>1, <3>2, <3>3, <3>4 DEF Became, Puts
    <3>5. CASE io'[i - 1] = io[i - 1]
      BY <2>1, <3>2, <3>3, <3>5 DEF Puts
    <3> QED BY <3>2, <3>4, <3>5
  <2> QED BY <1>4, <2>2, <2>3
<1>7. CASE This.do = "repair"
  <2>1. Dropped \/ Became(Request("rebuild", s, NoFile))
    BY <1>7, Effects
  <2> QED BY <1>5, <1>6, <1>7, <2>1 DEF Request, Chain, Writes
<1>8. CASE This.do = "rebuild"
  <2>1. \E content : Became(Write(s, content))
    BY <1>8, Effects
  <2> QED BY <1>6, <1>8, <2>1 DEF Request, Write, Chain, Writes
<1>9. CASE This.do = "backup"
  <2>1. Became(Request("replace", s, This.value))
    BY <1>9, Effects
  <2> QED BY <1>6, <1>9, <2>1 DEF Request, Chain, Writes
<1>10. CASE This.do \in Puts \cup {"replace"}
  BY <1>5, <1>10, Effects DEF Puts
<1> QED BY <1>1, <1>7, <1>8, <1>9, <1>10 DEF Requests, Puts

\* The requests that wait next are those that waited, and what the first has become.
LEMMA NextRequests ==
  ASSUME io \in Seq(Fitting), io' \in Seq(Fitting)
  PROVE  /\ Dropped => \A i \in 1..Len(io') : i + 1 \in Requested /\ io'[i] = io[i + 1]
         /\ \A r : Became(r) => \A i \in 1..Len(io') : io'[i] = r \/ (i \in Requested /\ io'[i] = io[i])
<1>1. Len(io) \in Nat /\ Len(io') \in Nat
  OBVIOUS
<1>2. ASSUME Dropped, NEW i \in 1..Len(io') PROVE i + 1 \in Requested /\ io'[i] = io[i + 1]
  BY <1>1, <1>2 DEF Dropped, Requested
<1>3. ASSUME NEW r, Became(r), NEW i \in 1..Len(io')
      PROVE  io'[i] = r \/ (i \in Requested /\ io'[i] = io[i])
  <2>1. CASE i = 1
    BY <1>3, <2>1 DEF Became
  <2>2. CASE i # 1
    BY <1>1, <1>3, <2>2 DEF Became, Requested
  <2> QED BY <2>1, <2>2
<1> QED BY <1>2, <1>3

LEMMA SnapshotStep ==
  ASSUME FilesInv, GhostInv, Execute, Undamaged, pc # "undone",
         NEW z \in Scopes, NEW content
  PROVE  /\ Untouched(z, content) => Untouched(z, content)'
         /\ Rewriting(z, content) => Rewriting(z, content)'
<1> DEFINE s == This.at
           value == This.value
<1>1. /\ s \in Scopes /\ This \in Requests /\ This = io[1] /\ 1 \in Requested
      /\ io \in Seq(Fitting) /\ io' \in Seq(Fitting)
      /\ This.do \notin Puts
      /\ HeadInv /\ io # <<>> /\ Sound(z)
  <2>1. io # <<>> /\ io \in Seq(Fitting)
    BY DEF Execute, DoRepair, DoRebuild, DoBackup, DoReplace, DoPut, Doing, FilesInv
  <2>2. io' \in Seq(Fitting)
    BY ExecuteKeeps DEF FilesInv
  <2>3. This \in Fitting /\ This = io[1] /\ 1 \in Requested
    BY <2>1, QueueMoves DEF Requested
  <2> QED BY <2>1, <2>2, <2>3 DEF Fitting, Requests, Undamaged, QueueInv
<1>2. CASE z # s
  <2>1. disk'[z] = disk[z] /\ newest'[z] = newest[z]
    BY <1>1, <1>2, OneScope
  <2>2. \A i \in 1..Len(io') : io'[i].at = s \/ \E k \in Requested : io'[i] = io[k]
    <3>1. CASE Dropped
      BY <1>1, <3>1, NextRequests
    <3>2. ASSUME NEW r, Became(r), r.at = s
          PROVE  \A i \in 1..Len(io') : io'[i].at = s \/ \E k \in Requested : io'[i] = io[k]
      BY <1>1, <3>2, NextRequests
    <3>3. Dropped \/ \E r : Became(r) /\ r.at = s
      <4>1. CASE This.do = "repair"
        <5>1. Dropped \/ Became(Request("rebuild", s, NoFile))
          BY <1>1, <4>1, Effects
        <5> QED BY <5>1 DEF Request
      <4>2. CASE This.do = "rebuild"
        <5>1. \E c : Became(Write(s, c))
          BY <1>1, <4>2, Effects
        <5> QED BY <5>1 DEF Write, Request
      <4>3. CASE This.do = "backup"
        <5>1. Became(Request("replace", s, value))
          BY <1>1, <4>3, Effects
        <5> QED BY <5>1 DEF Request
      <4>4. CASE This.do = "replace"
        BY <1>1, <4>4, Effects
      <4> QED BY <1>1, <4>1, <4>2, <4>3, <4>4 DEF Requests, Puts
    <3> QED BY <3>1, <3>2, <3>3
  <2>3. NoWrites(z) => NoWrites(z)'
    BY <1>2, <2>2 DEF NoWrites, Requested
  <2>4. \A v : OnlyWrites(z, v) => OnlyWrites(z, v)'
    BY <1>2, <2>2 DEF OnlyWrites, Requested
  <2> QED BY <2>1, <2>3, <2>4 DEF Untouched, Rewriting, Main, Bak
<1>3. CASE z = s /\ Valid(Main(z)) /\ Valid(content)
  <2>1. This.do # "rebuild"
    BY <1>1, <1>3 DEF HeadInv
  <2>2. CASE This.do = "repair"
    <3>1. Dropped /\ Main(z)' = Main(z) /\ Bak(z)' = Bak(z) /\ newest'[z] = newest[z]
      BY <1>1, <1>3, <2>2, Effects
    <3>2. NoWrites(z) => NoWrites(z)'
      BY <1>1, <3>1, NextRequests DEF NoWrites, Requested
    <3>3. \A v : OnlyWrites(z, v) => OnlyWrites(z, v)'
      BY <1>1, <3>1, NextRequests DEF OnlyWrites, Requested
    <3> QED BY <3>1, <3>2, <3>3 DEF Untouched, Rewriting
  <2>3. CASE This.do = "backup"
    <3>1. /\ Became(Request("replace", s, value)) /\ Main(z)' = Main(z) /\ Bak(z)' = Main(z)
          /\ newest'[z] = newest[z] /\ newest[z] = Main(z)
      BY <1>1, <1>3, <2>3, Effects DEF Sound
    <3>2. ~NoWrites(z)
      BY <1>1, <1>3, <2>3 DEF NoWrites, Writes
    <3>3. \A v : OnlyWrites(z, v) => OnlyWrites(z, v)'
      <4> SUFFICES ASSUME NEW v, OnlyWrites(z, v), NEW i \in 1..Len(io'),
                          io'[i].at = z /\ io'[i].do \in Writes
                   PROVE  io'[i].value = v
        BY DEF OnlyWrites, Requested
      <4>1. value = v
        BY <1>1, <1>3, <2>3 DEF OnlyWrites, Writes
      <4>2. io'[i] = Request("replace", s, value) \/ (i \in Requested /\ io'[i] = io[i])
        BY <1>1, <3>1, NextRequests
      <4> QED BY <4>1, <4>2 DEF OnlyWrites, Request
    <3> QED BY <1>3, <3>1, <3>2, <3>3 DEF Untouched, Rewriting
  <2>4. CASE This.do = "replace"
    <3>1. /\ Dropped /\ Main(z)' = value /\ Bak(z)' = Bak(z) /\ newest'[z] = value
          /\ Valid(value) /\ Bak(z) \in {newest[z], value}
      BY <1>1, <1>3, <2>4, Effects DEF HeadInv
    <3>2. ~NoWrites(z)
      BY <1>1, <1>3, <2>4 DEF NoWrites, Writes
    <3>3. \A v : OnlyWrites(z, v) => v = value /\ OnlyWrites(z, v)'
      <4> SUFFICES ASSUME NEW v, OnlyWrites(z, v) PROVE v = value /\ OnlyWrites(z, v)'
        OBVIOUS
      <4>1. value = v
        BY <1>1, <1>3, <2>4 DEF OnlyWrites, Writes
      <4>2. OnlyWrites(z, v)'
        BY <1>1, <3>1, NextRequests DEF OnlyWrites, Requested
      <4> QED BY <4>1, <4>2
    <3>4. ASSUME newest[z] = content, NEW v, OnlyWrites(z, v) PROVE Rewriting(z, content)'
      BY <3>1, <3>3, <3>4 DEF Rewriting
    <3>5. ASSUME Bak(z) \in {content, newest[z]}, OnlyWrites(z, newest[z])
          PROVE  Rewriting(z, content)'
      <4>1. PICK v : v = newest[z]
        OBVIOUS
      <4>2. v = value /\ OnlyWrites(z, v)'
        BY <3>3, <3>5, <4>1
      <4>3. OnlyWrites(z, newest[z])'
        BY <3>1, <4>2 DEF OnlyWrites
      <4> QED BY <3>1, <3>5, <4>1, <4>2, <4>3 DEF Rewriting
    <3> QED BY <1>3, <3>2, <3>4, <3>5 DEF Untouched, Rewriting
  <2> QED BY <1>1, <2>1, <2>2, <2>3, <2>4 DEF Requests, Puts
<1>4. CASE ~Valid(Main(z)) \/ ~Valid(content)
  BY <1>4 DEF Untouched, Rewriting
<1> QED BY <1>2, <1>3, <1>4

\* A scope whose file can be read, or is being repaired.
Prepared(s) ==
  IF io = <<>> THEN Ready(s) ELSE Len(io) = 1 /\ io[1].at = s /\ io[1].do \in Chain

\* The repair of one scope, which ends with a file that can be read or none at all.
LEMMA LoneRequest ==
  ASSUME FilesInv, GhostInv, Execute, NEW s \in Scopes, Prepared(s), NEW value, value = This.value
  PROVE  Prepared(s)'
<1> SUFFICES IF io' = <<>> THEN Ready(s)'
             ELSE Len(io') = 1 /\ io'[1].at = s /\ io'[1].do \in Chain
  BY DEF Prepared
<1>1. io \in Seq(Fitting) /\ io # <<>> /\ io' \in Seq(Fitting)
  <2>1. io # <<>> /\ io \in Seq(Fitting)
    BY DEF Execute, DoRepair, DoRebuild, DoBackup, DoReplace, DoPut, Doing, FilesInv
  <2> QED BY <2>1, ExecuteKeeps DEF FilesInv
<1>2. Len(io) = 1 /\ This.at = s /\ This.do \in Chain
  BY <1>1, QueueMoves DEF Prepared
<1>3. CASE Dropped /\ Ready(s)'
  <2>1. Len(io') = 0
    BY <1>2, <1>3 DEF Dropped
  <2> QED BY <1>1, <1>3, <2>1, EmptySeq
<1>4. ASSUME NEW r, Became(r), r.at = s, r.do \in Chain
      PROVE  Len(io') = 1 /\ io'[1].at = s /\ io'[1].do \in Chain /\ io' # <<>>
  BY <1>1, <1>2, <1>4 DEF Became
<1>5. CASE This.do = "repair"
  <2>1. \/ Dropped /\ Ready(s) /\ Main(s)' = Main(s) /\ Bak(s)' = Bak(s)
        \/ Became(Request("rebuild", s, NoFile))
    BY <1>2, <1>5, Effects
  <2> QED BY <1>3, <1>4, <2>1 DEF Ready, Request, Chain
<1>6. CASE This.do = "rebuild"
  <2>1. \E content : Became(Write(s, content))
    BY <1>2, <1>6, Effects
  <2> QED BY <1>4, <2>1 DEF Write, Request, Chain, Writes
<1>7. CASE This.do = "backup"
  <2>1. Became(Request("replace", s, value))
    BY <1>2, <1>7, Effects
  <2> QED BY <1>4, <2>1 DEF Request, Chain, Writes
<1>8. CASE This.do = "replace"
  <2>1. Dropped /\ Valid(Main(s)')
    BY <1>2, <1>8, Effects
  <2> QED BY <1>3, <2>1 DEF Ready
<1> QED BY <1>2, <1>5, <1>6, <1>7, <1>8 DEF Chain, Writes

LEMMA NextPrepared ==
  ASSUME FilesInv, GhostInv, Execute, Undamaged, pc' = pc
  PROVE  PreparedInv'
<1> SUFFICES ASSUME pc \in {"queue", "clear", "publish"} PROVE Prepared(Global)'
  BY DEF PreparedInv, Prepared
<1>1. PICK value : value = This.value
  OBVIOUS
<1>2. Prepared(Global)
  BY DEF Undamaged, PreparedInv, Prepared
<1> QED BY <1>1, <1>2, LoneRequest, Known

LEMMA DoRequestGood == IInv /\ GoodInv /\ DoRequest => GoodInv'
<1> SUFFICES ASSUME IInv, GoodInv, DoRequest PROVE GoodInv'
  OBVIOUS
<1>1. FilesInv /\ GhostInv /\ Execute /\ UNCHANGED <<pc, job, spent, exists>>
  BY DEF IInv, GoodInv, DoRequest, dirVars
<1>2. This.at \in Scopes /\ io # <<>>
  <2>1. io # <<>> /\ io \in Seq(Fitting)
    BY <1>1 DEF Execute, DoRepair, DoRebuild, DoBackup, DoReplace, DoPut, Doing, FilesInv
  <2> QED BY <2>1, QueueMoves DEF Fitting, Requests
<1>3. GhostInv' /\ KeptInv'
  <2>1. GhostInv'
    BY <1>1, <1>2, OneScope
  <2> QED BY <1>1, <1>2, <2>1 DEF GoodInv, KeptInv
<1>4. \A s \in Scopes : Recoverable(s)'
  BY <1>1, ExecuteRecovers DEF GoodInv
<1>5. ASSUME spent.damage = 0 PROVE Undamaged'
  <2>1. Undamaged
    BY <1>5 DEF GoodInv
  <2>2. (\A s \in Scopes : Sound(s)') /\ HeadInv' /\ QueueInv' /\ PreparedInv'
    BY <1>1, <1>2, <2>1, ExecuteSound, NextHead, NextQueue, NextPrepared
  <2>3. SnapshotInv'
    <3>1. PICK z, c, d : z = job.dir /\ c = job.files.main /\ d = job.global.main
      OBVIOUS
    <3>2. pc = "undone" => SnapshotInv'
      BY <1>1 DEF SnapshotInv
    <3>3. ASSUME pc # "undone", z \in Scopes
          PROVE  /\ Untouched(z, c) => Untouched(z, c)'
                 /\ Rewriting(z, c) => Rewriting(z, c)'
      BY <1>1, <2>1, <3>3, SnapshotStep
    <3>4. ASSUME pc # "undone"
          PROVE  /\ Untouched(Global, d) => Untouched(Global, d)'
                 /\ Rewriting(Global, d) => Rewriting(Global, d)'
      BY <1>1, <2>1, <3>4, SnapshotStep, Known
    <3>5. Valid(c) => z \in Scopes
      <4>1. ~Valid(NoSnapshot.main)
        BY FileAssumption DEF NoSnapshot, Valid
      <4> QED BY <3>1, <4>1, Known DEF IInv, JobInv
    <3>6. ~Valid(c) => Untouched(z, c)' /\ Rewriting(z, c)'
      BY DEF Untouched, Rewriting
    <3>7. z = job'.dir /\ c = job'.files.main /\ d = job'.global.main
      BY <1>1, <3>1
    <3> QED BY <1>1, <2>1, <3>1, <3>2, <3>3, <3>4, <3>5, <3>6, <3>7
            DEF Undamaged, SnapshotInv
  <2> QED BY <2>2, <2>3 DEF Undamaged
<1> QED BY <1>1, <1>3, <1>4, <1>5 DEF GoodInv

-----------------------------------------------------------------------------
(* New requests *)

\* Requests that repair scopes and save one value for one of them.
Saving(q, s, value) ==
  \A i \in 1..Len(q) :
     /\ q[i].do \in {"repair", "backup"}
     /\ q[i].do = "backup" => /\ i > 1 /\ q[i - 1].at = q[i].at
                              /\ q[i].at = s /\ q[i].value = value

LEMMA SavingParts ==
  ASSUME NEW s, NEW value
  PROVE  /\ Saving(<<>>, s, value)
         /\ \A z : Saving(<<Repair(z)>>, s, value)
         /\ Saving(Save(s, value), s, value)
<1>1. \A z : Saving(<<Repair(z)>>, s, value)
  <2> SUFFICES ASSUME NEW z PROVE Saving(<<Repair(z)>>, s, value)
    OBVIOUS
  <2>1. Repair(z).do = "repair"
    BY DEF Repair, Request
  <2> DEFINE r == Repair(z)
  <2> HIDE DEF r
  <2>2. Len(<<r>>) = 1 /\ <<r>>[1] = r
    OBVIOUS
  <2>3. Saving(<<r>>, s, value)
    BY <2>1, <2>2 DEF Saving, r
  <2> QED BY <2>3 DEF r
<1>2. Saving(Save(s, value), s, value)
  <2> DEFINE r == Repair(s)
             w == Write(s, value)
  <2>1. r.do = "repair" /\ r.at = s /\ w.do = "backup" /\ w.at = s /\ w.value = value
    BY DEF Repair, Write, Request
  <2> HIDE DEF r, w
  <2>2. Len(<<r, w>>) = 2 /\ <<r, w>>[1] = r /\ <<r, w>>[2] = w
    OBVIOUS
  <2>3. ASSUME NEW i \in 1..2
        PROVE  /\ <<r, w>>[i].do \in {"repair", "backup"}
               /\ <<r, w>>[i].do = "backup" => /\ i > 1 /\ <<r, w>>[i - 1].at = <<r, w>>[i].at
                                               /\ <<r, w>>[i].at = s /\ <<r, w>>[i].value = value
    <3>1. i = 1 \/ (i = 2 /\ i - 1 = 1)
      OBVIOUS
    <3> QED BY <2>1, <2>2, <3>1
  <2>4. Saving(<<r, w>>, s, value)
    BY <2>2, <2>3 DEF Saving
  <2> QED BY <2>4 DEF Save, r, w
<1>3. Saving(<<>>, s, value)
  BY DEF Saving
<1> QED BY <1>1, <1>2, <1>3

LEMMA SavingBoth ==
  ASSUME NEW S, NEW p \in Seq(S), NEW q \in Seq(S), NEW s, NEW value,
         Saving(p, s, value), Saving(q, s, value)
  PROVE  Saving(p \o q, s, value)
<1> SUFFICES ASSUME NEW i \in 1..Len(p \o q)
             PROVE  /\ (p \o q)[i].do \in {"repair", "backup"}
                    /\ (p \o q)[i].do = "backup"
                         => /\ i > 1 /\ (p \o q)[i - 1].at = (p \o q)[i].at
                            /\ (p \o q)[i].at = s /\ (p \o q)[i].value = value
  BY DEF Saving
<1>1. /\ Len(p \o q) = Len(p) + Len(q) /\ Len(p) \in Nat /\ Len(q) \in Nat
      /\ \A k \in 1..Len(p) : (p \o q)[k] = p[k]
      /\ \A k \in (Len(p) + 1)..(Len(p) + Len(q)) : (p \o q)[k] = q[k - Len(p)]
  OBVIOUS
<1>2. CASE i <= Len(p)
  <2>1. i \in 1..Len(p) /\ (i > 1 => i - 1 \in 1..Len(p))
    BY <1>1, <1>2
  <2> QED BY <1>1, <2>1 DEF Saving
<1>3. CASE i > Len(p)
  <2> DEFINE k == i - Len(p)
  <2>1. k \in 1..Len(q) /\ i \in (Len(p) + 1)..(Len(p) + Len(q))
        /\ (k > 1 => i - 1 \in (Len(p) + 1)..(Len(p) + Len(q)) /\ (i - 1) - Len(p) = k - 1)
        /\ (k > 1 => i > 1)
    BY <1>1, <1>3
  <2>2. (p \o q)[i] = q[k] /\ (k > 1 => (p \o q)[i - 1] = q[k - 1])
    BY <1>1, <2>1
  <2> QED BY <2>1, <2>2 DEF Saving
<1> QED BY <1>1, <1>2, <1>3

\* Such requests, issued where there were none, keep what is said of the queue.
LEMMA SavingQueue ==
  ASSUME NEW s, NEW value \in Contents, Saving(io', s, value), io' \in Seq(Fitting), pc' # "undone"
  PROVE  /\ HeadInv' /\ QueueInv'
         /\ \A z : z # s => NoWrites(z)'
         /\ OnlyWrites(s, value)'
<1>1. ASSUME NEW i \in 1..Len(io')
      PROVE  /\ io'[i].do \in {"repair", "backup"}
             /\ io'[i].do = "backup" => /\ i > 1 /\ io'[i - 1].at = io'[i].at
                                        /\ io'[i].at = s /\ io'[i].value = value
  BY <1>1 DEF Saving
<1>2. HeadInv'
  <2>1. io' # <<>> => This' = io'[1] /\ 1 \in 1..Len(io')
    BY DEF This
  <2> QED BY <1>1, <2>1 DEF HeadInv
<1>3. QueueInv'
  <2> SUFFICES ASSUME NEW i \in 1..Len(io')
               PROVE  /\ io'[i].do \in {"repair", "backup"}
                      /\ i > 1 /\ io'[i].do = "backup"
                           => io'[i - 1].at = io'[i].at /\ io'[i - 1].do \in Chain
    BY DEF QueueInv, Requested, Puts
  <2>1. i > 1 => i - 1 \in 1..Len(io')
    OBVIOUS
  <2> QED BY <1>1, <2>1 DEF Chain, Writes
<1>4. \A z : z # s => NoWrites(z)'
  BY <1>1 DEF NoWrites, Requested, Writes
<1>5. OnlyWrites(s, value)'
  BY <1>1 DEF OnlyWrites, Requested, Writes
<1> QED BY <1>2, <1>3, <1>4, <1>5

\* So does one write, where it loses nothing.
LEMMA WritingQueue ==
  ASSUME NEW s, NEW value, io' = <<Write(s, value)>>, Ready(s)', pc' # "undone"
  PROVE  /\ HeadInv' /\ QueueInv'
         /\ \A z : z # s => NoWrites(z)'
         /\ OnlyWrites(s, value)'
<1> DEFINE w == Write(s, value)
<1>1. w.do = "backup" /\ w.at = s /\ w.value = value
  BY DEF Write, Request
<1>2. io' = <<w>>
  OBVIOUS
<1> HIDE DEF w
<1>3. Len(io') = 1 /\ io'[1] = w /\ This' = w /\ Requested' = {1}
  <2>1. Len(<<w>>) = 1 /\ <<w>>[1] = w /\ Head(<<w>>) = w
    OBVIOUS
  <2> QED BY <1>2, <2>1 DEF This, Requested
<1>4. HeadInv'
  BY <1>1, <1>3 DEF HeadInv
<1>5. QueueInv'
  BY <1>1, <1>3 DEF QueueInv, Puts
<1> QED BY <1>1, <1>3, <1>4, <1>5 DEF NoWrites, OnlyWrites

\* Nothing is requested.
LEMMA EmptyQueue ==
  ASSUME io' = <<>>
  PROVE  HeadInv' /\ QueueInv' /\ \A z : NoWrites(z)'
<1>1. Len(<<>>) = 0
  OBVIOUS
<1> QED BY <1>1 DEF HeadInv, QueueInv, NoWrites, Requested

\* The files stay as they are.
LEMMA StillUntouched ==
  ASSUME UNCHANGED <<disk, newest>>, NEW z, NEW content
  PROVE  /\ Untouched(z, content) /\ NoWrites(z)' => Untouched(z, content)'
         /\ \A value \in Contents :
               Untouched(z, content) /\ OnlyWrites(z, value)' => Rewriting(z, content)'
         /\ Rewriting(z, content) /\ NoWrites(z)' => Rewriting(z, content)'
         /\ Untouched(z, content) /\ NoWrites(z)' => Rewriting(z, content)'
<1>1. Main(z)' = Main(z) /\ Bak(z)' = Bak(z)
  BY DEF Main, Bak
<1>2. NoWrites(z)' => OnlyWrites(z, NoFile)' /\ OnlyWrites(z, newest[z])'
  BY DEF NoWrites, OnlyWrites
<1>3. NoFile \in Contents
  BY DEF Contents
<1> QED BY <1>1, <1>2, <1>3 DEF Untouched, Rewriting, Valid

LEMMA StillGood ==
  ASSUME GoodInv, UNCHANGED <<disk, newest, older>>, KeptInv', spent'.damage = spent.damage,
         spent.damage = 0 => HeadInv' /\ QueueInv' /\ PreparedInv' /\ SnapshotInv'
  PROVE  GoodInv'
<1>1. /\ GhostInv' /\ \A s \in Scopes : Recoverable(s)'
      /\ \A s \in Scopes : Sound(s) => Sound(s)'
  BY DEF GoodInv, GhostInv, Recoverable, Sound, Main, Bak
<1> QED BY <1>1 DEF GoodInv, Undamaged

Spent == [ops: Nat, crashes: Nat, fails: Nat, damage: Nat]

LEMMA Spending ==
  ASSUME spent \in Spent, NEW max
  PROVE  /\ Spend("ops", max) => spent' \in Spent /\ spent'.damage = spent.damage
         /\ Spend("crashes", max) => spent' \in Spent /\ spent'.damage = spent.damage
         /\ Spend("fails", max) => spent' \in Spent /\ spent'.damage = spent.damage
         /\ Spend("damage", max) => /\ spent' \in Spent /\ spent'.damage = spent.damage + 1
                                    /\ spent.damage < max
BY DEF Spent, Spend

\* An activation takes no snapshot of a profile in the other operations.
Quiet == Labels \ {"migrate", "open", "merge", "same", "clear", "cleared", "commit", "publish",
                   "retire", "undo", "undone"}

LEMMA QuietSnapshot ==
  /\ pc' \in Quiet => SnapshotInv'
  /\ pc' \in Labels \ {"queue", "clear", "publish"} => PreparedInv'
BY DEF Quiet, SnapshotInv, PreparedInv

\* A step that only issues repairs and saves, or nothing, outside the activation.
LEMMA QuietStep ==
  ASSUME GoodInv, UNCHANGED <<disk, newest, older>>, KeptInv', spent'.damage = spent.damage,
         pc' \in Quiet \ {"queue"}, io' \in Seq(Fitting),
         NEW s, NEW value \in Contents, Saving(io', s, value)
  PROVE  GoodInv'
<1>1. HeadInv' /\ QueueInv' /\ PreparedInv' /\ SnapshotInv'
  BY SavingQueue, QuietSnapshot DEF Quiet
<1> QED BY <1>1, StillGood

LEMMA InitGood == Init => GoodInv
<1> SUFFICES ASSUME Init PROVE GoodInv
  OBVIOUS
<1>1. /\ io = <<>> /\ pc = "idle" /\ job = NoJob /\ older = newest
      /\ spent = [ops |-> 0, crashes |-> 0, fails |-> 0, damage |-> 0]
      /\ disk = [s \in Scopes |-> [main |-> newest[s], bak |-> NoFile]]
  BY DEF Init
<1>2. GhostInv
  <2>1. exists \subseteq Dirs
    BY StoreAssumption DEF Init
  <2>2. PICK mode \in Backends :
          newest = [z \in Scopes |->
                      IF z \in exists
                      THEN [backend |-> mode, pending |-> "", home |-> z] ELSE NoFile]
    BY DEF Init
  <2>3. \A z \in exists : [backend |-> mode, pending |-> "", home |-> z] \in Setting
    BY <2>1, <2>2 DEF Setting, AllScopes
  <2> QED BY <1>1, <2>2, <2>3, Known DEF GhostInv
<1>3. KeptInv
  <2>1. spent \in [ops: Nat, crashes: Nat, fails: Nat, damage: Nat] /\ pc \in Labels
    BY <1>1 DEF Labels
  <2> QED BY <1>1, <2>1, NoJobIsIdle DEF KeptInv
<1>4. ASSUME NEW s \in Scopes PROVE Recoverable(s) /\ Sound(s)
  <2>1. Main(s) = newest[s] /\ Bak(s) = NoFile /\ newest[s] \in Values \cup {NoFile}
    BY <1>1, <1>2 DEF Main, Bak, GhostInv
  <2>2. disk[s].main = newest[s] /\ disk[s].bak = NoFile
    BY <2>1 DEF Main, Bak
  <2> QED BY <2>1, <2>2, FileAssumption DEF Recoverable, Sound, View, Valid
<1>5. HeadInv /\ QueueInv
  BY <1>1 DEF HeadInv, QueueInv, Requested
<1>6. PreparedInv /\ SnapshotInv
  BY <1>1 DEF PreparedInv, SnapshotInv
<1> QED BY <1>2, <1>3, <1>4, <1>5, <1>6 DEF GoodInv, Undamaged

\* The start, the user's choices, and the ends of operations.
LEMMA UserGood ==
  ASSUME IInv, GoodInv, IInv',
         \/ Start \/ Boot \/ Crash \/ Return \/ QueueDone \/ Cleared \/ Undone \/ MakeBackup
         \/ \E mode \in Backends : SelectForProfile(mode) \/ (SelectOffline(mode) /\ path = Global)
         \/ \E dir \in Dirs : Activate(dir)
         \/ ReadPending
  PROVE  GoodInv'
<1>1. spent \in Spent /\ pc \in Labels
  BY DEF GoodInv, KeptInv, Spent
<1>2. io' \in Seq(Fitting) /\ UNCHANGED <<disk, newest, older>>
  BY DEF IInv, FilesInv, Start, Boot, Crash, Return, QueueDone, Cleared, Undone, MakeBackup,
         SelectForProfile, SelectOffline, Activate, ReadPending, Issue, fileVars
<1>3. spent' \in Spent /\ spent'.damage = spent.damage
  BY <1>1, Spending DEF Start, Boot, Crash, Return, QueueDone, Cleared, Undone, MakeBackup,
         SelectForProfile, SelectOffline, Activate, ReadPending, Begin
<1>4. /\ pc' \in Quiet \ {"queue"} /\ ~job'.created
      /\ pc' = "idle" => io' = <<>>
  BY ZenonT(60), NoJobIsIdle
  DEF IInv, MemoryInv, JobInv, CopyInv, Jobs, GoodInv, KeptInv, Quiet, Labels,
         Start, Boot, Crash, Return, QueueDone, Cleared, Undone, MakeBackup,
         SelectForProfile, SelectOffline, Activate, ReadPending, Begin, At, fileVars, Copying
<1>5. KeptInv'
  BY <1>3, <1>4 DEF KeptInv, Spent, Quiet
<1>6. \E s : \E value \in Contents : Saving(io', s, value)
  <2>1. CASE io' = <<>>
    <3>1. NoFile \in Contents
      BY DEF Contents
    <3> QED BY <2>1, <3>1, SavingParts
  <2>2. CASE io' = <<Repair(Global)>>
    <3>1. NoFile \in Contents
      BY DEF Contents
    <3> QED BY <2>2, <3>1, SavingParts
  <2>3. CASE io' = Save(path, data')
    <3>1. data' \in Contents
      BY Known DEF IInv, MemoryInv
    <3> QED BY <2>3, <3>1, SavingParts
  <2>4. CASE ReadPending
    <3>1. data \in Contents /\ path \in Scopes /\ data \in Setting
      BY Known DEF IInv, MemoryInv
    <3>2. io' = Save(path, data) \o <<Repair(Global)>>
      BY <2>4 DEF ReadPending, Issue
    <3>3. Save(path, data) \in Seq(Fitting) /\ <<Repair(Global)>> \in Seq(Fitting)
      BY <3>1, SaveIsFitting, OwnFits, GlobalFits, RepairIsFitting, OneRequest, Known
         DEF IInv, MemoryInv, Valid
    <3>4. Saving(io', path, data)
      BY <3>2, <3>3, SavingParts, SavingBoth
    <3> QED BY <3>1, <3>4
  <2>5. CASE io = <<>> /\ io' = io
    BY <2>1, <2>5
  <2>6. CASE Boot
    <3>1. path = Global
      BY <2>6 DEF IInv, MemoryInv, Boot, At
    <3> QED BY <2>1, <2>3, <2>6, <3>1 DEF Boot, Issue
  <2> QED BY <2>1, <2>2, <2>3, <2>4, <2>5, <2>6
       DEF Start, Crash, Return, QueueDone, Cleared, Undone, MakeBackup,
           SelectForProfile, SelectOffline, Activate, Issue, Begin, At, fileVars
<1> QED BY <1>2, <1>3, <1>4, <1>5, <1>6, QuietStep

\* Only a snapshot of a profile's own files can be put back, and only for a profile.
LEMMA SnapshotScope ==
  ASSUME IInv, Valid(job.files.main)
  PROVE  job.files # NoSnapshot /\ job.dir \in Dirs /\ job.dir # Global /\ job.dir \in Scopes
<1>1. ~Valid(NoSnapshot.main)
  BY FileAssumption DEF NoSnapshot, Valid
<1> QED BY <1>1, Known, Apart DEF IInv, JobInv

LEMMA QueueGood ==
  ASSUME IInv, GoodInv, IInv',
         Queue \/ \E mode \in Backends : SelectOffline(mode) /\ path # Global
  PROVE  GoodInv'
<1>1. spent \in Spent /\ pc \in Labels
  BY DEF GoodInv, KeptInv, Spent
<1>2. UNCHANGED <<disk, newest, older>> /\ spent' \in Spent /\ spent'.damage = spent.damage
  BY <1>1, Spending DEF Queue, SelectOffline, Issue, Begin
<1>3. pc' \in {"queue", "queued"} /\ ~job'.created
  BY DEF IInv, JobInv, CopyInv, Jobs, Queue, SelectOffline, Begin, At, Copying
<1>4. KeptInv'
  BY <1>2, <1>3 DEF KeptInv, Spent, Labels
<1>5. SnapshotInv'
  BY <1>3 DEF SnapshotInv
<1>6. CASE Queue
  <2>1. pc' = "queued"
    BY <1>6 DEF Queue
  <2>2. PreparedInv'
    BY <2>1 DEF PreparedInv
  <2>3. ASSUME spent.damage = 0 PROVE HeadInv' /\ QueueInv'
    <3>1. Ready(Global)
      BY <1>6, <2>3 DEF GoodInv, Undamaged, PreparedInv, Queue, At
    <3>2. Ready(Global)'
      BY <1>2, <3>1 DEF Ready, Main, Bak
    <3>3. PICK value : value = Queued(job.pending, job.pending)
      OBVIOUS
    <3>4. io' = <<Write(Global, value)>>
      BY <1>6, <3>3 DEF Queue, Issue
    <3> QED BY <2>1, <3>2, <3>4, WritingQueue
  <2> QED BY <1>2, <1>4, <1>5, <2>2, <2>3, StillGood
<1>7. CASE ~Queue
  <2>1. pc' = "queue" /\ io' = <<Repair(Global)>>
    BY <1>7 DEF SelectOffline, Issue
  <2>2. HeadInv' /\ QueueInv'
    <3>1. NoFile \in Contents /\ io' \in Seq(Fitting)
      BY DEF Contents, IInv, FilesInv
    <3> QED BY <2>1, <3>1, SavingQueue, SavingParts
  <2>3. PreparedInv'
    <3> DEFINE r == Repair(Global)
    <3>1. r.at = Global /\ r.do = "repair"
      BY DEF Repair, Request
    <3>2. io' = <<r>>
      BY <2>1
    <3> HIDE DEF r
    <3>3. Len(io') = 1 /\ io'[1] = r /\ io' # <<>>
      BY <3>2
    <3> QED BY <3>1, <3>3 DEF PreparedInv, Chain
  <2> QED BY <1>2, <1>4, <1>5, <2>2, <2>3, StillGood
<1> QED BY <1>6, <1>7

LEMMA ReadPendingSameGood == IInv /\ IInv' /\ GoodInv /\ ReadPendingSame => GoodInv'
<1> SUFFICES ASSUME IInv, IInv', GoodInv, ReadPendingSame PROVE GoodInv'
  OBVIOUS
<1>1. spent \in Spent /\ pc \in Labels
  BY DEF GoodInv, KeptInv, Spent
<1>2. UNCHANGED <<disk, newest, older, spent>> /\ io' \in Seq(Fitting) /\ io = <<>>
  BY DEF ReadPendingSame, Issue, fileVars, IInv, FilesInv, At
<1>3. CASE PendingMode = ""
  <2>1. pc' = "idle" /\ job' = NoJob /\ io' = <<>>
    BY <1>2, <1>3 DEF ReadPendingSame, fileVars
  <2>2. KeptInv'
    BY <1>1, <1>2, <2>1, NoJobIsIdle DEF KeptInv, Spent, Labels
  <2>3. pc' \in Quiet \ {"queue"}
    BY <2>1 DEF Quiet, Labels
  <2>4. NoFile \in Contents
    BY DEF Contents
  <2>5. Saving(io', Global, NoFile)
    BY <2>1, SavingParts
  <2> QED BY <1>2, <2>2, <2>3, <2>4, <2>5, QuietStep
<1>4. CASE PendingMode # ""
  <2>1. PICK s, c, d, v :
          /\ s = job.dir /\ s = path /\ c = disk[s].main /\ d = disk[Global].main /\ v = data'
    BY DEF ReadPendingSame
  <2>2. /\ s \in Dirs /\ s # Global /\ s \in Scopes /\ Global \in Scopes
        /\ v \in Contents
    BY <2>1, Known, Apart DEF IInv, JobInv, MemoryInv, ReadPendingSame, At, Working
  <2>3. pc' = "same" /\ io' = Save(s, v)
    BY <1>4, <2>1 DEF ReadPendingSame, Issue
  <2>4. job'.dir = s /\ job'.files.main = c /\ job'.global.main = d /\ ~job'.created
    <3>1. job' = [job EXCEPT !.pending = PendingMode, !.files = disk[path],
                             !.global = disk[Global]]
      BY <1>4 DEF ReadPendingSame
    <3>2. job \in Jobs /\ ~job.created
      BY DEF IInv, JobInv, CopyInv, ReadPendingSame, At, Copying
    <3> QED BY <2>1, <3>1, <3>2 DEF Jobs
  <2>5. KeptInv'
    BY <1>1, <1>2, <2>3, <2>4 DEF KeptInv, Spent, Labels
  <2>6. /\ HeadInv' /\ QueueInv' /\ NoWrites(Global)' /\ OnlyWrites(s, v)'
    <3>1. Saving(io', s, v)
      BY <2>3, SavingParts
    <3> QED BY <1>2, <2>2, <2>3, <3>1, SavingQueue
  <2>7. PreparedInv'
    BY <2>3 DEF PreparedInv
  <2>8. ASSUME spent.damage = 0 PROVE SnapshotInv'
    <3>1. Sound(s) /\ Sound(Global)
      BY <2>2, <2>8 DEF GoodInv, Undamaged
    <3>2. NoWrites(s) /\ NoWrites(Global)
      BY <1>2 DEF NoWrites, Requested
    <3>3. Untouched(s, c) /\ Untouched(Global, d)
      BY <2>1, <3>1, <3>2 DEF Sound, Untouched, Main
    <3>4. Rewriting(s, c)' /\ Untouched(Global, d)'
      BY <1>2, <2>2, <2>6, <3>3, StillUntouched
    <3> QED BY <2>3, <2>4, <3>4 DEF SnapshotInv
  <2> QED BY <1>2, <2>5, <2>6, <2>7, <2>8, StillGood
<1> QED BY <1>3, <1>4

\* Requests of which none writes: what was said of the snapshots is still true.
LEMMA RepairRequested ==
  ASSUME NEW z \in Scopes, io' = <<Repair(z)>>, io' \in Seq(Fitting), pc' # "undone"
  PROVE  /\ HeadInv' /\ QueueInv' /\ \A s : NoWrites(s)'
         /\ z = Global => PreparedInv'
<1> DEFINE r == Repair(z)
<1>1. r.at = z /\ r.do = "repair"
  BY DEF Repair, Request
<1>2. io' = <<r>>
  OBVIOUS
<1>3. HeadInv' /\ QueueInv'
  <2>1. NoFile \in Contents
    BY DEF Contents
  <2> QED BY <2>1, SavingQueue, SavingParts
<1> HIDE DEF r
<1>4. Len(io') = 1 /\ io'[1] = r /\ io' # <<>>
  BY <1>2
<1>5. \A s : NoWrites(s)'
  BY <1>1, <1>4 DEF NoWrites, Requested, Writes
<1> QED BY <1>1, <1>3, <1>4, <1>5 DEF PreparedInv, Chain

LEMMA SameGood == IInv /\ IInv' /\ GoodInv /\ (Same \/ Commit) => GoodInv'
<1> SUFFICES ASSUME IInv, IInv', GoodInv, Same \/ Commit PROVE GoodInv'
  OBVIOUS
<1>1. /\ UNCHANGED <<disk, newest, older, spent, exists>> /\ io' = <<Repair(Global)>>
      /\ io' \in Seq(Fitting) /\ Global \in Scopes
      /\ pc' = IF pc = "same" THEN "clear" ELSE "publish"
      /\ pc \in {"same", "commit"}
  BY Known DEF Same, Commit, Issue, IInv, FilesInv, At, dirVars
<1>2. /\ job'.dir = job.dir /\ job'.files = job.files /\ job'.global = job.global
      /\ job'.created = job.created
  BY DEF IInv, JobInv, Jobs, Same, Commit
<1>3. KeptInv'
  BY <1>1, <1>2 DEF GoodInv, KeptInv, Labels
<1>4. HeadInv' /\ QueueInv' /\ PreparedInv' /\ \A s : NoWrites(s)'
  BY <1>1, RepairRequested
<1>5. ASSUME spent.damage = 0 PROVE SnapshotInv'
  <2>1. PICK z, c, d : z = job.dir /\ c = job.files.main /\ d = job.global.main
    OBVIOUS
  <2>2. Rewriting(z, c) /\ Untouched(Global, d)
    BY <1>1, <1>5, <2>1 DEF GoodInv, Undamaged, SnapshotInv
  <2>3. Rewriting(z, c)' /\ Untouched(Global, d)'
    BY <1>1, <1>4, <2>2, StillUntouched
  <2> QED BY <1>1, <1>2, <2>1, <2>3 DEF SnapshotInv
<1> QED BY <1>1, <1>3, <1>4, <1>5, StillGood

LEMMA ClearGood == IInv /\ IInv' /\ GoodInv /\ (Clear \/ PublishGlobal) => GoodInv'
<1> SUFFICES ASSUME IInv, IInv', GoodInv, Clear \/ PublishGlobal PROVE GoodInv'
  OBVIOUS
<1>1. PICK v :
         /\ v = IF pc = "clear" \/ job.pending # "" THEN Queued("standard", "")
                ELSE GlobalSettings
         /\ io' = <<Write(Global, v)>>
         /\ UNCHANGED <<disk, newest, older, spent, exists, job>>
         /\ pc' = IF pc = "clear" THEN "cleared" ELSE "retire"
         /\ pc \in {"clear", "publish"} /\ io = <<>>
  BY DEF Clear, PublishGlobal, Issue, At, dirVars
<1>2. v \in Contents
  BY <1>1, QueuedIsSetting, StoreAssumption, Known DEF IInv
<1>3. KeptInv' /\ PreparedInv'
  BY <1>1 DEF GoodInv, KeptInv, Labels, PreparedInv
<1>4. ASSUME spent.damage = 0
      PROVE  HeadInv' /\ QueueInv' /\ OnlyWrites(Global, v)' /\ \A z : z # Global => NoWrites(z)'
  <2>1. Ready(Global)
    BY <1>1, <1>4 DEF GoodInv, Undamaged, PreparedInv
  <2>2. Ready(Global)' /\ pc' # "undone"
    BY <1>1, <2>1 DEF Ready, Main, Bak
  <2> QED BY <1>1, <2>2, WritingQueue
<1>5. ASSUME spent.damage = 0 PROVE SnapshotInv'
  <2>1. PICK z, c, d : z = job.dir /\ c = job.files.main /\ d = job.global.main
    OBVIOUS
  <2>2. Rewriting(z, c) /\ Untouched(Global, d)
    BY <1>1, <1>5, <2>1 DEF GoodInv, Undamaged, SnapshotInv
  <2>3. Valid(c) => z # Global
    BY <2>1, SnapshotScope
  <2>4. Rewriting(z, c)'
    <3>1. CASE Valid(c)
      BY <1>1, <1>4, <1>5, <2>2, <2>3, <3>1, StillUntouched
    <3>2. CASE ~Valid(c)
      BY <3>2 DEF Rewriting
    <3> QED BY <3>1, <3>2
  <2>5. Rewriting(Global, d)'
    BY <1>1, <1>2, <1>4, <1>5, <2>2, StillUntouched
  <2> QED BY <1>1, <2>1, <2>4, <2>5 DEF SnapshotInv
<1> QED BY <1>1, <1>3, <1>4, <1>5, StillGood

LEMMA SnapshotGood == IInv /\ IInv' /\ GoodInv /\ Snapshot => GoodInv'
<1> SUFFICES ASSUME IInv, IInv', GoodInv, Snapshot PROVE GoodInv'
  OBVIOUS
<1>1. /\ UNCHANGED <<disk, newest, older, spent, exists>> /\ io = <<>> /\ io' = <<>>
      /\ pc' = "migrate"
  BY DEF Snapshot, At, fileVars, dirVars
<1>2. job \in Jobs /\ ~job.created /\ job.dir \in Scopes /\ Global \in Scopes
  BY Known DEF IInv, JobInv, CopyInv, Snapshot, At, Working, Copying
<1> DEFINE taken == IF job.pending # "" /\ job.dir \in exists THEN disk[job.dir] ELSE NoSnapshot
<1>3. job' = [job EXCEPT !.global = disk[Global], !.files = taken]
  BY DEF Snapshot
<1>4. taken # NoSnapshot => taken = disk[job.dir] /\ job.dir \in exists
  OBVIOUS
<1>5. ~Valid(NoSnapshot.main)
  BY FileAssumption DEF NoSnapshot, Valid
<1> HIDE DEF taken
<1>6. /\ job'.dir = job.dir /\ job'.files = taken /\ job'.global = disk[Global] /\ ~job'.created
  BY <1>2, <1>3 DEF Jobs
<1>7. KeptInv'
  BY <1>1, <1>4, <1>6 DEF GoodInv, KeptInv, Labels
<1>8. HeadInv' /\ QueueInv' /\ PreparedInv' /\ \A z : NoWrites(z)'
  BY <1>1, EmptyQueue DEF PreparedInv
<1>9. ASSUME spent.damage = 0 PROVE SnapshotInv'
  <2>1. PICK s, c, d : s = job.dir /\ c = taken.main /\ d = disk[Global].main
    OBVIOUS
  <2>2. Sound(s) /\ Sound(Global)
    BY <1>2, <1>9, <2>1 DEF GoodInv, Undamaged
  <2>3. NoWrites(s) /\ NoWrites(Global)
    BY <1>1 DEF NoWrites, Requested
  <2>4. Untouched(s, c) /\ Untouched(Global, d)
    BY <1>4, <1>5, <2>1, <2>2, <2>3 DEF Sound, Untouched, Main
  <2>5. Untouched(s, c)' /\ Untouched(Global, d)'
    BY <1>1, <1>8, <2>4, StillUntouched
  <2> QED BY <1>1, <1>6, <2>1, <2>5 DEF SnapshotInv
<1> QED BY <1>1, <1>7, <1>8, <1>9, StillGood

LEMMA OpenGood == IInv /\ IInv' /\ GoodInv /\ Open => GoodInv'
<1> SUFFICES ASSUME IInv, IInv', GoodInv, Open PROVE GoodInv'
  OBVIOUS
<1>1. /\ UNCHANGED <<disk, newest, older, spent, exists, job>> /\ io = <<>> /\ pc = "open"
      /\ pc' = "merge" /\ io' \in {<<>>, <<Repair(job.dir)>>} /\ io' \in Seq(Fitting)
      /\ job.dir \in Scopes
  BY Known DEF Open, Issue, At, fileVars, dirVars, IInv, FilesInv, JobInv, Working
<1>2. KeptInv' /\ PreparedInv'
  BY <1>1 DEF GoodInv, KeptInv, Labels, PreparedInv
<1>3. HeadInv' /\ QueueInv' /\ \A s : NoWrites(s)'
  <2>1. PICK z : z = job.dir
    OBVIOUS
  <2> QED BY <1>1, <2>1, RepairRequested, EmptyQueue
<1>4. ASSUME spent.damage = 0 PROVE SnapshotInv'
  <2>1. PICK z, c, d : z = job.dir /\ c = job.files.main /\ d = job.global.main
    OBVIOUS
  <2>2. Untouched(z, c) /\ Untouched(Global, d)
    BY <1>1, <1>4, <2>1 DEF GoodInv, Undamaged, SnapshotInv
  <2>3. Untouched(z, c)' /\ Untouched(Global, d)'
    BY <1>1, <1>3, <2>2, StillUntouched
  <2> QED BY <1>1, <2>1, <2>3 DEF SnapshotInv
<1> QED BY <1>1, <1>2, <1>3, <1>4, StillGood

\* The settings of a profile are saved once or, with folders given to it, twice.
LEMMA MergeSaves ==
  ASSUME Merge
  PROVE  io' = Save(path, data') \o Save(path, data') \/ io' = <<>> \o Save(path, data')
<1> DEFINE own    == IF Valid(Main(path)) THEN Loaded(path, Main(path)) ELSE data
           merged == WithMode(Rebase(own), job.pending)
           fresh  == merged.home = Unset
<1>1. io' = (IF fresh THEN Save(path, data') ELSE <<>>) \o Save(path, data')
  BY Zenon DEF Merge, Issue
<1> HIDE DEF fresh
<1> QED BY <1>1

LEMMA MergeGood == IInv /\ IInv' /\ GoodInv /\ Merge => GoodInv'
<1> SUFFICES ASSUME IInv, IInv', GoodInv, Merge PROVE GoodInv'
  OBVIOUS
<1>1. /\ UNCHANGED <<disk, newest, older, spent, exists, job>> /\ io = <<>> /\ pc = "merge"
      /\ pc' = "commit" /\ io' \in Seq(Fitting) /\ path = job.dir
  BY DEF Merge, Issue, At, dirVars, IInv, FilesInv, MemoryInv
<1>2. PICK s, v : s = path /\ s = job.dir /\ v = data'
  BY <1>1
<1>3. s \in Dirs /\ s \in Scopes /\ s # Global /\ v \in Setting /\ v \in Contents /\ v \in Own(s)
  BY <1>1, <1>2, Known, Apart DEF IInv, JobInv, MemoryInv, Working, Merge
<1>4. Saving(io', s, v)
  <2>1. io' = Save(s, v) \o Save(s, v) \/ io' = <<>> \o Save(s, v)
    BY <1>2, MergeSaves
  <2>2. Save(s, v) \in Seq(Fitting) /\ <<>> \in Seq(Fitting)
    BY Zenon, <1>3, SaveIsFitting, OwnFits, EmptySeq
  <2>3. Saving(Save(s, v), s, v) /\ Saving(<<>>, s, v)
    BY SavingParts
  <2> QED BY <2>1, <2>2, <2>3, SavingBoth
<1>5. HeadInv' /\ QueueInv' /\ NoWrites(Global)' /\ OnlyWrites(s, v)'
  BY <1>1, <1>3, <1>4, SavingQueue
<1>6. KeptInv' /\ PreparedInv'
  BY <1>1 DEF GoodInv, KeptInv, Labels, PreparedInv
<1>7. ASSUME spent.damage = 0 PROVE SnapshotInv'
  <2>1. PICK c, d : c = job.files.main /\ d = job.global.main
    OBVIOUS
  <2>2. Untouched(s, c) /\ Untouched(Global, d)
    BY <1>1, <1>2, <1>7, <2>1 DEF GoodInv, Undamaged, SnapshotInv
  <2>3. Rewriting(s, c)' /\ Untouched(Global, d)'
    BY <1>1, <1>3, <1>5, <2>2, StillUntouched
  <2> QED BY <1>1, <1>2, <2>1, <2>3 DEF SnapshotInv
<1> QED BY <1>1, <1>5, <1>6, <1>7, StillGood

\* A directory that appears as a copy of another, or with no file.
LEMMA PublishGood ==
  ASSUME IInv, GoodInv, NEW dir \in Dirs, NEW source \in Dirs \cup {Unset},
         Publish(dir, source), dir = job.dir, dir \notin exists,
         spent' \in Spent, spent'.damage = spent.damage, pc = "migrate", io = <<>>
  PROVE  GoodInv'
<1> DEFINE files == IF source = Unset THEN NoFiles ELSE disk[source]
           last  == IF source = Unset THEN NoFile ELSE newest[source]
           prior == IF source = Unset THEN NoFile ELSE older[source]
<1>1. /\ disk' = [disk EXCEPT ![dir] = files] /\ newest' = [newest EXCEPT ![dir] = last]
      /\ older' = [older EXCEPT ![dir] = prior] /\ io' = io /\ pc' = "open"
      /\ job' = [job EXCEPT !.source = source, !.created = TRUE]
      /\ exists' = exists \cup {dir}
  BY DEF Publish
<1>2. /\ disk \in [Scopes -> Files] /\ newest \in [Scopes -> Values \cup {NoFile}]
      /\ older \in [Scopes -> Values \cup {NoFile}] /\ dir \in Scopes /\ dir # Global
      /\ Global \in Scopes
  BY Known, Apart DEF IInv, FilesInv, GoodInv, GhostInv
<1>3. /\ last \in Values \cup {NoFile} /\ prior \in Values \cup {NoFile}
      /\ source # Unset => source \in Scopes
  BY <1>2, Known
<1>4. ~Valid(NoFile) /\ NoFile \notin Values /\ NoFiles.main = NoFile /\ NoFiles.bak = NoFile
  BY FileAssumption DEF Valid, NoFiles
<1>5. /\ disk'[dir] = files /\ newest'[dir] = last /\ older'[dir] = prior
      /\ \A z \in Scopes \ {dir} : /\ disk'[z] = disk[z] /\ newest'[z] = newest[z]
                                  /\ older'[z] = older[z]
  BY <1>1, <1>2
<1>6. GhostInv'
  BY <1>1, <1>2, <1>3 DEF GhostInv
<1>7. /\ job'.dir = job.dir /\ job'.files = job.files /\ job'.global = job.global /\ job'.created
      /\ job.files = NoSnapshot
  BY <1>1 DEF IInv, JobInv, Jobs, GoodInv, KeptInv
<1>8. KeptInv'
  BY <1>1, <1>7 DEF KeptInv, Spent, Labels
<1>9. ASSUME NEW z \in Scopes
      PROVE  Recoverable(z)' /\ (spent.damage = 0 => Sound(z)')
  <2>1. CASE z # dir
    BY <1>5, <2>1, SameScope DEF GoodInv, Undamaged
  <2>2. CASE z = dir /\ source = Unset
    BY <1>4, <1>5, <2>2 DEF Recoverable, Sound, Main, Bak
  <2>3. CASE z = dir /\ source # Unset
    <3>1. disk'[z] = disk[source] /\ newest'[z] = newest[source] /\ older'[z] = older[source]
      BY <1>5, <2>3
    <3>2. Recoverable(source) /\ (spent.damage = 0 => Sound(source))
      BY <1>3, <2>3 DEF GoodInv, Undamaged
    <3> QED BY <3>1, <3>2 DEF Recoverable, Sound, View, Main, Bak
  <2> QED BY <2>1, <2>2, <2>3
<1>10. ASSUME spent.damage = 0 PROVE Undamaged'
  <2>1. HeadInv' /\ QueueInv' /\ PreparedInv' /\ \A z : NoWrites(z)'
    BY <1>1, EmptyQueue DEF PreparedInv
  <2>2. SnapshotInv'
    <3>1. PICK z, c, d : z = job.dir /\ c = job.files.main /\ d = job.global.main
      OBVIOUS
    <3>2. ~Valid(c)
      BY <1>7, <3>1, FileAssumption DEF NoSnapshot, Valid
    <3>3. Untouched(Global, d)
      BY <1>10, <3>1 DEF GoodInv, Undamaged, SnapshotInv
    <3>4. Untouched(Global, d)' /\ Untouched(z, c)'
      BY <1>2, <1>5, <2>1, <3>2, <3>3 DEF Untouched, Main
    <3> QED BY <1>1, <1>7, <3>1, <3>4 DEF SnapshotInv
  <2> QED BY <1>9, <1>10, <2>1, <2>2 DEF Undamaged
<1> QED BY <1>6, <1>8, <1>9, <1>10 DEF GoodInv

LEMMA MigrateGood == IInv /\ IInv' /\ GoodInv /\ Migrate => GoodInv'
<1> SUFFICES ASSUME IInv, IInv', GoodInv, Migrate PROVE GoodInv'
  OBVIOUS
<1>1. /\ job.dir \in Dirs /\ pc = "migrate" /\ io = <<>> /\ spent' \in Spent
      /\ spent'.damage = spent.damage
  <2>1. spent \in Spent
    BY DEF GoodInv, KeptInv, Spent
  <2> QED BY <2>1, Spending DEF IInv, JobInv, Migrate, At, Working
<1>2. CASE job.dir \in exists
  <2>1. pc' = "open" /\ UNCHANGED <<disk, newest, older, io, exists, job, spent>>
    BY <1>2 DEF Migrate, fileVars, dirVars
  <2>2. KeptInv' /\ PreparedInv'
    BY <1>1, <2>1 DEF GoodInv, KeptInv, Labels, PreparedInv
  <2>3. HeadInv' /\ QueueInv' /\ \A s : NoWrites(s)'
    BY <1>1, <2>1, EmptyQueue
  <2>4. ASSUME spent.damage = 0 PROVE SnapshotInv'
    <3>1. PICK z, c, d : z = job.dir /\ c = job.files.main /\ d = job.global.main
      OBVIOUS
    <3>2. Untouched(z, c) /\ Untouched(Global, d)
      BY <1>1, <2>4, <3>1 DEF GoodInv, Undamaged, SnapshotInv
    <3>3. Untouched(z, c)' /\ Untouched(Global, d)'
      BY <2>1, <2>3, <3>2, StillUntouched
    <3> QED BY <2>1, <3>1, <3>3 DEF SnapshotInv
  <2> QED BY <2>1, <2>2, <2>3, <2>4, StillGood
<1>3. CASE job.dir \notin exists
  <2>1. \E source \in Dirs \cup {Unset} : Publish(job.dir, source)
    BY <1>1, <1>3, SourcesAreOfTheDevice DEF Migrate
  <2> QED BY <1>1, <1>3, <2>1, PublishGood
<1> QED BY <1>2, <1>3

\* A directory that is removed takes its files along.
LEMMA RemoveGood ==
  ASSUME IInv, GoodInv, NEW dir, Remove(dir)
  PROVE  /\ GhostInv'
         /\ \A z \in Scopes : Recoverable(z)'
         /\ spent.damage = 0 => \A z \in Scopes : Sound(z)'
         /\ \A z \in Scopes : z # dir => disk'[z] = disk[z] /\ newest'[z] = newest[z]
<1>1. ~Valid(NoFile) /\ NoFile \notin Values /\ NoFiles.main = NoFile /\ NoFiles.bak = NoFile
  BY FileAssumption DEF Valid, NoFiles
<1>2. /\ disk \in [Scopes -> Files] /\ newest \in [Scopes -> Values \cup {NoFile}]
      /\ older \in [Scopes -> Values \cup {NoFile}]
  BY DEF IInv, FilesInv, GoodInv, GhostInv
<1>3. /\ dir \in Scopes => disk'[dir] = NoFiles /\ newest'[dir] = NoFile /\ older'[dir] = NoFile
      /\ \A z \in Scopes : z # dir =>
            disk'[z] = disk[z] /\ newest'[z] = newest[z] /\ older'[z] = older[z]
  BY <1>2 DEF Remove
<1>4. GhostInv'
  BY <1>2 DEF Remove, GhostInv
<1>5. ASSUME NEW z \in Scopes
      PROVE  Recoverable(z)' /\ (spent.damage = 0 => Sound(z)')
  <2>1. CASE z # dir
    BY <1>3, <2>1, SameScope DEF GoodInv, Undamaged
  <2>2. CASE z = dir
    BY <1>1, <1>3, <2>2 DEF Recoverable, Sound, Main, Bak
  <2> QED BY <2>1, <2>2
<1> QED BY <1>3, <1>4, <1>5

LEMMA RetireGood == IInv /\ IInv' /\ GoodInv /\ Retire => GoodInv'
<1> SUFFICES ASSUME IInv, IInv', GoodInv, Retire PROVE GoodInv'
  OBVIOUS
<1>1. spent \in Spent
  BY DEF GoodInv, KeptInv, Spent
<1>2. /\ io = <<>> /\ io' = <<>> /\ pc' = "idle" /\ job' = NoJob
      /\ spent' \in Spent /\ spent'.damage = spent.damage
  BY <1>1, Spending DEF Retire, At, fileVars
<1>3. KeptInv' /\ PreparedInv' /\ SnapshotInv' /\ HeadInv' /\ QueueInv'
  <2>1. KeptInv'
    BY <1>2, NoJobIsIdle DEF KeptInv, Labels, Spent
  <2>2. PreparedInv' /\ SnapshotInv'
    BY <1>2 DEF PreparedInv, SnapshotInv
  <2> QED BY <1>2, <2>1, <2>2, EmptyQueue
<1>4. CASE UNCHANGED fileVars
  BY <1>2, <1>3, <1>4, StillGood DEF fileVars
<1>5. CASE Remove(job.source)
  BY <1>2, <1>3, <1>5, RemoveGood DEF GoodInv, Undamaged
<1> QED BY <1>4, <1>5 DEF Retire

\* What the rollback puts back: a profile's files, then the application's.
Restoring(q, z, c, d) ==
  \A i \in 1..Len(q) :
     /\ q[i].do \in Puts
     /\ q[i].do = "putmain" =>
          /\ \/ q[i].at = z /\ q[i].value = c
             \/ q[i].at = Global /\ q[i].value = d
          /\ \A j \in 1..(i - 1) : q[j].at # q[i].at

LEMMA RestoreRequests ==
  ASSUME NEW s, NEW files
  PROVE  /\ Len(Restore(s, files)) = 2
         /\ Restore(s, files)[1].do = "putmain" /\ Restore(s, files)[1].at = s
         /\ Restore(s, files)[1].value = files.main
         /\ Restore(s, files)[2].do = "putbak" /\ Restore(s, files)[2].at = s
<1> DEFINE a == Request("putmain", s, files.main)
           b == Request("putbak", s, files.bak)
<1>1. /\ a.do = "putmain" /\ a.at = s /\ a.value = files.main
      /\ b.do = "putbak" /\ b.at = s
  BY DEF Request
<1>2. Restore(s, files) = <<a, b>>
  BY DEF Restore
<1> HIDE DEF a, b
<1>3. Len(<<a, b>>) = 2 /\ <<a, b>>[1] = a /\ <<a, b>>[2] = b
  OBVIOUS
<1> QED BY <1>1, <1>2, <1>3

LEMMA RestoringLists ==
  ASSUME NEW z \in Scopes, z # Global, NEW f \in FitFiles(z), NEW g \in Files
  PROVE  /\ Restoring(<<>>, z, f.main, g.main)
         /\ Restoring(Restore(z, f), z, f.main, g.main)
         /\ Restoring(Restore(Global, g), z, f.main, g.main)
         /\ Restoring(Restore(z, f) \o Restore(Global, g), z, f.main, g.main)
<1> DEFINE p == Restore(z, f)
           q == Restore(Global, g)
<1>1. /\ Len(p) = 2 /\ p[1].do = "putmain" /\ p[1].at = z /\ p[1].value = f.main
      /\ p[2].do = "putbak" /\ p[2].at = z
      /\ Len(q) = 2 /\ q[1].do = "putmain" /\ q[1].at = Global /\ q[1].value = g.main
      /\ q[2].do = "putbak" /\ q[2].at = Global
  BY RestoreRequests
<1>2. p \in Seq(Fitting) /\ q \in Seq(Fitting)
  BY RestoreIsFitting, FilesOfGlobal, Known
<1> HIDE DEF p, q
<1>3. Restoring(p, z, f.main, g.main) /\ Restoring(q, z, f.main, g.main)
  <2>1. \A i \in 1..2 : i = 1 \/ i = 2
    OBVIOUS
  <2> QED BY <1>1, <2>1 DEF Restoring, Puts
<1>4. Restoring(p \o q, z, f.main, g.main)
  <2>1. /\ Len(p \o q) = 4 /\ (p \o q)[1] = p[1] /\ (p \o q)[2] = p[2]
        /\ (p \o q)[3] = q[1] /\ (p \o q)[4] = q[2]
    <3>1. /\ Len(p \o q) = Len(p) + Len(q)
          /\ \A k \in 1..Len(p) : (p \o q)[k] = p[k]
          /\ \A k \in (Len(p) + 1)..(Len(p) + Len(q)) : (p \o q)[k] = q[k - Len(p)]
      BY <1>2, ConcatProperties
    <3>2. 3 - 2 = 1 /\ 4 - 2 = 2
      OBVIOUS
    <3> QED BY <1>1, <3>1, <3>2
  <2> DEFINE r == p \o q
  <2>2. /\ Len(r) = 4 /\ r[1] = p[1] /\ r[2] = p[2] /\ r[3] = q[1] /\ r[4] = q[2]
    BY <2>1
  <2> HIDE DEF r
  <2>3. \A i \in 1..4 : i = 1 \/ i = 2 \/ i = 3 \/ i = 4
    OBVIOUS
  <2>4. \A j \in 1..(3 - 1) : j = 1 \/ j = 2
    OBVIOUS
  <2>5. Restoring(r, z, f.main, g.main)
    BY <1>1, <2>2, <2>3, <2>4 DEF Restoring, Puts
  <2> QED BY <2>5 DEF r
<1>5. Restoring(<<>>, z, f.main, g.main)
  BY DEF Restoring
<1> QED BY <1>3, <1>4, <1>5 DEF p, q

LEMMA UndoGood == IInv /\ IInv' /\ GoodInv /\ Undo => GoodInv'
<1> SUFFICES ASSUME IInv, IInv', GoodInv, Undo PROVE GoodInv'
  OBVIOUS
<1>1. spent \in Spent
  BY DEF GoodInv, KeptInv, Spent
<1>2. /\ io = <<>> /\ pc = "undo" /\ pc' = "undone" /\ job' = job
      /\ spent' \in Spent /\ spent'.damage = spent.damage
      /\ io' \in Seq(Fitting)
  BY <1>1, Spending DEF Undo, At, IInv, FilesInv
<1>3. KeptInv' /\ PreparedInv' /\ SnapshotInv'
  BY <1>2 DEF KeptInv, Labels, Spent, PreparedInv, SnapshotInv, GoodInv
<1>4. /\ GhostInv'
      /\ \A z \in Scopes : Recoverable(z)'
      /\ spent.damage = 0 => \A z \in Scopes : Sound(z)'
      /\ \A z \in Scopes : ~(job.created /\ z = job.dir)
            => disk'[z] = disk[z] /\ newest'[z] = newest[z]
  <2>1. CASE UNCHANGED <<disk, newest, older>>
    BY <2>1, SameScope DEF GoodInv, GhostInv, Undamaged
  <2>2. CASE job.created /\ Remove(job.dir)
    BY <2>2, RemoveGood
  <2> QED BY <2>1, <2>2 DEF Undo
<1>5. ASSUME spent.damage = 0 PROVE HeadInv' /\ QueueInv'
  <2>1. PICK z, c, d : z = job.dir /\ c = job.files.main /\ d = job.global.main
    OBVIOUS
  <2>2. Rewriting(z, c) /\ Rewriting(Global, d)
    BY <1>2, <1>5, <2>1 DEF GoodInv, Undamaged, SnapshotInv
  <2>3. ~Valid(NoSnapshot.main)
    BY FileAssumption DEF NoSnapshot, Valid
  <2>4. /\ Valid(c) => z \in Scopes /\ z # Global /\ Allows(disk'[z].bak, newest'[z], c)
        /\ Global \in Scopes /\ Allows(disk'[Global].bak, newest'[Global], d)
    <3>1. Valid(c) => ~job.created /\ z \in Scopes /\ z # Global
      BY <2>1, <2>3, SnapshotScope DEF GoodInv, KeptInv
    <3>2. Global \in Scopes /\ (job.created => job.dir # Global)
      BY <1>2, Known, Apart DEF IInv, CopyInv, Copying
    <3> QED BY <1>4, <2>1, <2>2, <3>1, <3>2 DEF Rewriting, Allows, Bak
  <2>5. Restoring(io', z, c, d)
    <3> DEFINE one == IF ~job.created /\ job.files # NoSnapshot
                      THEN Restore(job.dir, job.files) ELSE <<>>
               two == IF job.committing THEN Restore(Global, job.global) ELSE <<>>
    <3>1. io' = one \o two
      BY DEF Undo
    <3>2. job.global \in Files
      BY DEF IInv, JobInv, Jobs
    <3>3. CASE job.files = NoSnapshot
      <4>1. io' = two
        <5>1. two \in Seq(Fitting)
          BY <3>2, RestoreIsFitting, FilesOfGlobal, EmptySeq, Known
        <5> QED BY <3>1, <3>3, <5>1
      <4>2. Restoring(Restore(Global, job.global), z, c, d) /\ Restoring(<<>>, z, c, d)
        <5>1. /\ Len(Restore(Global, job.global)) = 2
              /\ Restore(Global, job.global)[1].do = "putmain"
              /\ Restore(Global, job.global)[1].at = Global
              /\ Restore(Global, job.global)[1].value = d
              /\ Restore(Global, job.global)[2].do = "putbak"
          BY <2>1, RestoreRequests
        <5>2. \A i \in 1..2 : i = 1 \/ i = 2
          OBVIOUS
        <5> QED BY <5>1, <5>2 DEF Restoring, Puts
      <4> QED BY <4>1, <4>2
    <3>4. CASE job.files # NoSnapshot
      <4>1. job.dir \in Scopes /\ job.dir # Global /\ job.files \in FitFiles(job.dir)
        BY <3>4, Known, Apart DEF IInv, JobInv
      <4>2. Restore(job.dir, job.files) \in Seq(Fitting)
            /\ Restore(Global, job.global) \in Seq(Fitting)
        BY <3>2, <4>1, RestoreIsFitting, FilesOfGlobal, Known
      <4>3. \/ io' = <<>> \/ io' = Restore(job.dir, job.files)
            \/ io' = Restore(Global, job.global)
            \/ io' = Restore(job.dir, job.files) \o Restore(Global, job.global)
        <5>1. \A p \in Seq(Fitting) : p \o <<>> = p /\ <<>> \o p = p /\ <<>> \o <<>> = <<>>
          OBVIOUS
        <5>2. /\ one = <<>> \/ one = Restore(job.dir, job.files)
              /\ two = <<>> \/ two = Restore(Global, job.global)
          OBVIOUS
        <5> QED BY <3>1, <4>2, <5>1, <5>2
      <4> QED BY <2>1, <3>2, <4>1, <4>3, RestoringLists
    <3> QED BY <3>3, <3>4
  <2>6. QueueInv'
    <3> SUFFICES ASSUME NEW i \in 1..Len(io')
                 PROVE  /\ io'[i].do \in Puts
                        /\ io'[i].do = "putmain"
                             => /\ Allows(disk'[io'[i].at].bak, newest'[io'[i].at], io'[i].value)
                                /\ \A j \in 1..(i - 1) : io'[j].at # io'[i].at
      BY <1>2 DEF QueueInv, Requested, Restorable, Puts
    <3>1. ~Valid(c) => \A copy, last : Allows(copy, last, c)
      BY DEF Allows
    <3> QED BY <2>4, <2>5, <3>1 DEF Restoring
  <2>7. HeadInv'
    <3>1. io' # <<>> => This' = io'[1] /\ 1 \in 1..Len(io')
      BY <1>2 DEF This
    <3> QED BY <2>5, <3>1 DEF HeadInv, Restoring, Puts
  <2> QED BY <2>6, <2>7
<1> QED BY <1>2, <1>3, <1>4, <1>5 DEF GoodInv, Undamaged

LEMMA FailGood == IInv /\ IInv' /\ GoodInv /\ Fail => GoodInv'
<1> SUFFICES ASSUME IInv, IInv', GoodInv, Fail PROVE GoodInv'
  OBVIOUS
<1>1. spent \in Spent /\ pc \in Labels /\ (pc = "idle" => io = <<>>)
  BY DEF GoodInv, KeptInv, Spent
<1>2. /\ UNCHANGED <<disk, newest, older, exists>> /\ io' = <<>>
      /\ spent' \in Spent /\ spent'.damage = spent.damage
  BY <1>1, Spending DEF Fail, dirVars
<1>3. CASE pc \in Unprotected
  <2>1. pc' = "idle" /\ job' = NoJob
    BY <1>3 DEF Fail
  <2>2. KeptInv' /\ PreparedInv' /\ SnapshotInv'
    BY <1>2, <2>1, NoJobIsIdle DEF KeptInv, Labels, Spent, PreparedInv, SnapshotInv
  <2> QED BY <1>2, <2>2, EmptyQueue, StillGood
<1>4. CASE pc \notin Unprotected
  <2>1. pc' = "undo" /\ pc # "idle"
    BY <1>1, <1>4 DEF Fail
  <2>2. /\ job'.dir = job.dir /\ job'.files = job.files /\ job'.global = job.global
        /\ job'.created = job.created
    BY ZenonT(60), <1>4 DEF IInv, JobInv, Jobs, Fail
  <2>3. KeptInv' /\ PreparedInv'
    BY <1>2, <2>1, <2>2 DEF GoodInv, KeptInv, Labels, Spent, PreparedInv
  <2>4. HeadInv' /\ QueueInv' /\ \A z : NoWrites(z)'
    BY <1>2, EmptyQueue
  <2>5. ASSUME spent.damage = 0 PROVE SnapshotInv'
    <3>1. PICK z, c, d : z = job.dir /\ c = job.files.main /\ d = job.global.main
      OBVIOUS
    <3>2. /\ Untouched(z, c) \/ Rewriting(z, c)
          /\ Untouched(Global, d) \/ Rewriting(Global, d)
      BY <1>1, <1>4, <2>1, <2>5, <3>1
         DEF GoodInv, Undamaged, SnapshotInv, Labels, Unprotected
    <3>3. Rewriting(z, c)' /\ Rewriting(Global, d)'
      BY <1>2, <2>4, <3>2, StillUntouched
    <3> QED BY <2>1, <2>2, <3>1, <3>3 DEF SnapshotInv
  <2> QED BY <1>2, <2>3, <2>4, <2>5, StillGood
<1> QED BY <1>3, <1>4

\* The one destruction leaves what the other file of the scope holds.
LEMMA DamageGood ==
  IInv /\ GoodInv /\ DamageFile /\ MaxDamage \in {0, 1} => GoodInv'
<1> SUFFICES ASSUME IInv, GoodInv, DamageFile, MaxDamage \in {0, 1} PROVE GoodInv'
  OBVIOUS
<1>1. /\ spent \in Spent /\ spent' \in Spent /\ spent.damage = 0 /\ spent'.damage = 1
  <2>1. spent \in Spent /\ Spend("damage", MaxDamage)
    BY DEF GoodInv, KeptInv, Spent, DamageFile
  <2>2. spent' \in Spent /\ spent'.damage = spent.damage + 1 /\ spent.damage < MaxDamage
    BY <2>1, Spending
  <2>3. spent.damage \in Nat
    BY <2>1 DEF Spent
  <2> QED BY <2>1, <2>2, <2>3
<1>2. UNCHANGED <<io, newest, older, pc, job, exists>>
  BY DEF DamageFile, Damage, dirVars
<1>3. GhostInv' /\ KeptInv'
  BY <1>1, <1>2 DEF GoodInv, GhostInv, KeptInv, Spent
<1>4. PICK s \in Scopes : Damage(s)
  BY DEF DamageFile
<1>5. ASSUME NEW z \in Scopes PROVE Recoverable(z)'
  <2>1. Sound(z) /\ Recoverable(z) /\ disk \in [Scopes -> Files]
    BY <1>1 DEF GoodInv, Undamaged, IInv, FilesInv
  <2>2. ~Valid(NoFile) /\ ~Valid(Damaged) /\ NoFile \notin Values
    BY FileAssumption DEF Valid
  <2>3. \/ disk'[z] = disk[z]
        \/ /\ Valid(Bak(z)) /\ Bak(z)' = Bak(z) /\ ~Valid(Main(z)')
        \/ /\ Valid(Main(z)) /\ Main(z)' = Main(z) /\ ~Valid(Bak(z)')
    BY <1>4, <2>1, <2>2, FileChange DEF Damage
  <2> QED BY <1>2, <2>1, <2>2, <2>3 DEF Recoverable, Sound, View, Main, Bak
<1> QED BY <1>1, <1>3, <1>5 DEF GoodInv

\* What was sound stays so, until something is destroyed.
LEMMA NextStepGood == IInv /\ GoodInv /\ ~DamageFile /\ [Next]_vars => GoodInv'
<1> SUFFICES ASSUME IInv, GoodInv, ~DamageFile, [Next]_vars PROVE GoodInv'
  OBVIOUS
<1>1. IInv'
  BY NextOK
<1>2. CASE \/ Start \/ Boot \/ Crash \/ Return \/ QueueDone \/ Cleared \/ Undone \/ MakeBackup
           \/ ReadPending
  BY <1>1, <1>2, UserGood
<1>3. ASSUME NEW mode \in Backends, SelectForProfile(mode) \/ SelectOffline(mode) PROVE GoodInv'
  BY <1>1, <1>3, UserGood, QueueGood
<1>4. ASSUME NEW dir \in Dirs, Activate(dir) PROVE GoodInv'
  BY <1>1, <1>4, UserGood
<1>5. CASE Queue \/ ReadPendingSame \/ Same \/ Clear \/ Snapshot
  BY <1>1, <1>5, QueueGood, ReadPendingSameGood, SameGood, ClearGood, SnapshotGood
<1>6. CASE Migrate \/ Open \/ Merge \/ Commit \/ PublishGlobal \/ Retire
  BY <1>1, <1>6, MigrateGood, OpenGood, MergeGood, SameGood, ClearGood, RetireGood
<1>7. CASE Undo \/ Fail \/ DoRequest
  BY <1>1, <1>7, UndoGood, FailGood, DoRequestGood
<1>8. CASE UNCHANGED vars
  BY <1>8 DEF GoodInv, GhostInv, KeptInv, Undamaged, Recoverable, Sound, HeadInv, QueueInv,
         PreparedInv, SnapshotInv, Untouched, Rewriting, NoWrites, OnlyWrites, Requested,
         Restorable, Ready, This, Main, Bak, vars, fileVars, dirVars, memoryVars
<1> QED BY <1>2, <1>3, <1>4, <1>5, <1>6, <1>7, <1>8 DEF Next

LEMMA NextGood == IInv /\ GoodInv /\ MaxDamage \in {0, 1} /\ [Next]_vars => GoodInv'
BY NextStepGood, DamageGood

\* Wherever a save, an activation or its rollback is stopped or fails, and although one
\* file is destroyed from outside, the settings saved last or those before them can be
\* loaded (_write_json_atomic, _load_settings_path, _restore_settings_files).
THEOREM RecoverySafety == ASSUME MaxDamage \in {0, 1} PROVE Spec => []LastKnownGood
<1>1. Init => GoodInv
  BY InitGood
<1>2. IInv /\ GoodInv /\ [Next]_vars => GoodInv'
  BY NextGood
<1>3. GoodInv => LastKnownGood
  BY DEF GoodInv, Recoverable, LastKnownGood
<1> QED BY <1>1, <1>2, <1>3, StoreInvariance, PTL DEF Spec

-----------------------------------------------------------------------------
(* As long as nothing has been destroyed *)

\* What is counted only grows, and only a destruction counts as one.
LEMMA Counting ==
  ASSUME spent \in Spent, [Next]_vars
  PROVE  /\ spent' \in Spent
         /\ spent'.damage = 0 => spent.damage = 0 /\ ~DamageFile
<1>1. ASSUME DamageFile
      PROVE  spent' \in Spent /\ spent'.damage = spent.damage + 1 /\ spent.damage \in Nat
  BY <1>1, Spending DEF DamageFile, Spent
<1>2. ASSUME ~DamageFile PROVE spent' \in Spent /\ spent'.damage = spent.damage
  <2>1. \/ spent' = spent \/ Spend("ops", MaxOps) \/ Spend("crashes", MaxCrashes)
        \/ Spend("fails", MaxFails)
    BY <1>2 DEF Next, Start, Boot, Crash, Return, SelectForProfile, SelectOffline, Queue, QueueDone,
       MakeBackup, Activate, ReadPendingSame, Same, Clear, Cleared, ReadPending, Snapshot,
       Migrate, Open, Merge, Commit, PublishGlobal, Retire, Undo, Undone, Fail, DoRequest,
       Begin, vars
  <2> QED BY <2>1, Spending
<1> QED BY <1>1, <1>2

\* GoodInv, as far as anything can be said of files that nobody has destroyed.
HonestInv == spent \in Spent /\ (spent.damage = 0 => GoodInv)

\* Whatever is destroyed later, GoodInv holds until then.
LEMMA HonestInvariance == Spec => []HonestInv
<1>1. Init => HonestInv
  BY InitGood DEF HonestInv, GoodInv, KeptInv, Spent
<1>2. IInv /\ HonestInv /\ [Next]_vars => HonestInv'
  BY Counting, NextStepGood DEF HonestInv
<1> QED BY <1>1, <1>2, StoreInvariance, PTL DEF Spec

-----------------------------------------------------------------------------
(* A choice that waits for a device *)

\* No choice, under a name that the provers take for a value like any other.
NoMode == ""

\* Settings in which this mode waits for a device.
Holding(content, mode) == Valid(content) /\ content.pending = mode

\* A request that leaves a scope that holds a choice with it.
Leaves(r, mode) ==
  /\ r.do # "rebuild"
  /\ r.do \in Writes \cup {"putmain"} => Holding(r.value, mode)

\* ... and a list of them.
ListLeaves(q, mode) == \A i \in 1..Len(q) : q[i].at = Global => Leaves(q[i], mode)

\* The last of the requests gives the scope this content.
LastOf(q, s, content) ==
  /\ Len(q) > 0
  /\ q[Len(q)].at = s /\ q[Len(q)].do \in Writes /\ q[Len(q)].value = content

\* When the requests are done, the scope holds this content.
LastWrites(s, content) == IF io = <<>> THEN Main(s) = content ELSE LastOf(io, s, content)

\* Taking the choice from the queue, what comes after the profile has been saved, and
\* all that the handler of activate_device_profile covers.
Clearing == {"cleared", "retire"}
Given    == {"clear", "publish"} \cup Clearing
Giving   == {"same", "migrate", "open", "merge", "commit", "undo", "undone"} \cup Given

\* What is in memory is what would be saved for the application, now or after a rollback.
MemoryWaits ==
  /\ running /\ path = Global /\ pc # "boot" => data.pending = owed
  /\ pc \in {"pending", "snapshot"} \cup Giving /\ job.path = Global => job.data.pending = owed
  /\ pc \in {"snapshot"} \cup Giving => job.pending = owed
  /\ pc \in Giving => Holding(job.global.main, owed)

\* The profile that is given the choice has been saved with it.
TakerHolds == taker \in Dirs /\ Valid(Main(taker)) /\ Main(taker).backend = owed

\* The profile is being given the choice, and has it before it is taken from the queue.
ProfileTakes ==
  /\ pc \in {"same", "commit"} =>
       path \in Dirs /\ taker = path /\ data.backend = owed /\ LastWrites(path, data)
  /\ pc \in Given => TakerHolds /\ \A i \in Requested : io[i].at = Global

\* A write that takes the choice from the queue (_clear_pending_privilege_backend,
\* _write_global_active_device).
Takes(r) == r.do \in Writes /\ Valid(r.value) /\ r.value.pending = NoMode

\* The choice waits: nothing in the program would give it up.
ChoiceWaits ==
  /\ Holding(Main(Global), owed)
  /\ MemoryWaits
  /\ ProfileTakes
  /\ pc \notin Clearing => ListLeaves(io, owed)
  /\ pc \in Clearing => Len(io) = 1 /\ Takes(io[1])

\* It has been taken from the queue, and the operation that did so is over or about to be.
ChoiceSettles ==
  /\ TakerHolds
  /\ Valid(Main(Global)) /\ Main(Global).pending = NoMode
  /\ \/ pc \in Clearing /\ io = <<>> /\ job.pending = owed
     \/ pc = "boot" /\ \A i \in Requested : io[i].do = "repair" /\ io[i].at = Global
     \/ ~running

\* A new choice is on its way into the queue (select_privilege_backend).
ChoiceQueued ==
  /\ \E content \in Setting : content.pending = job.pending /\ LastWrites(Global, content)
  /\ path = Global => data.pending = job.pending

\* A choice that is owed waits or settles; while another is made, none is owed.
ChoiceInv ==
  /\ pc \in {"queue", "queued"} => owed = NoMode
  /\ pc = "queue" => path # Global
  /\ pc = "queued" => ChoiceQueued
  /\ owed # NoMode => ChoiceWaits \/ ChoiceSettles

\* What is issued for one scope, and for the application with the choice in it.
LEMMA ListsLeave ==
  ASSUME NEW mode
  PROVE  /\ ListLeaves(<<>>, mode)
         /\ \A s : ListLeaves(<<Repair(s)>>, mode)
         /\ \A s, v : s # Global \/ Holding(v, mode) => ListLeaves(Save(s, v), mode)
         /\ \A s, f : s # Global \/ Holding(f.main, mode) => ListLeaves(Restore(s, f), mode)
<1>1. ASSUME NEW r, r.at # Global \/ Leaves(r, mode) PROVE ListLeaves(<<r>>, mode)
  <2>1. Len(<<r>>) = 1 /\ <<r>>[1] = r
    OBVIOUS
  <2> QED BY <1>1, <2>1 DEF ListLeaves
<1>2. ASSUME NEW r, r.at # Global \/ Leaves(r, mode), NEW w, w.at # Global \/ Leaves(w, mode)
      PROVE  ListLeaves(<<r, w>>, mode)
  <2>1. Len(<<r, w>>) = 2 /\ <<r, w>>[1] = r /\ <<r, w>>[2] = w /\ \A i \in 1..2 : i = 1 \/ i = 2
    OBVIOUS
  <2> QED BY <1>2, <2>1 DEF ListLeaves
<1>3. \A s : Repair(s).at # Global \/ Leaves(Repair(s), mode)
  BY DEF Leaves, Repair, Request, Writes
<1>4. \A s, v : s # Global \/ Holding(v, mode)
                  => Write(s, v).at # Global \/ Leaves(Write(s, v), mode)
  BY DEF Leaves, Write, Request, Writes
<1>5. \A s, f : s # Global \/ Holding(f.main, mode)
        => /\ \/ Request("putmain", s, f.main).at # Global
              \/ Leaves(Request("putmain", s, f.main), mode)
           /\ \/ Request("putbak", s, f.bak).at # Global
              \/ Leaves(Request("putbak", s, f.bak), mode)
  BY DEF Leaves, Request, Writes
<1>6. ListLeaves(<<>>, mode)
  BY DEF ListLeaves
<1>7. \A s : ListLeaves(<<Repair(s)>>, mode)
  BY <1>1, <1>3
<1>8. \A s, v : s # Global \/ Holding(v, mode) => ListLeaves(Save(s, v), mode)
  BY <1>2, <1>3, <1>4 DEF Save
<1>9. \A s, f : s # Global \/ Holding(f.main, mode) => ListLeaves(Restore(s, f), mode)
  BY <1>2, <1>5 DEF Restore
<1> QED BY <1>6, <1>7, <1>8, <1>9

\* Two lists in a row.
LEMMA ListsJoin ==
  ASSUME NEW S, NEW p \in Seq(S), NEW q \in Seq(S), NEW mode
  PROVE  /\ ListLeaves(p, mode) /\ ListLeaves(q, mode) => ListLeaves(p \o q, mode)
         /\ \A s, v : LastOf(q, s, v) => LastOf(p \o q, s, v)
<1>1. /\ Len(p \o q) = Len(p) + Len(q) /\ Len(p) \in Nat /\ Len(q) \in Nat
      /\ \A k \in 1..Len(p) : (p \o q)[k] = p[k]
      /\ \A k \in (Len(p) + 1)..(Len(p) + Len(q)) : (p \o q)[k] = q[k - Len(p)]
  OBVIOUS
<1>2. ASSUME ListLeaves(p, mode), ListLeaves(q, mode) PROVE ListLeaves(p \o q, mode)
  <2> SUFFICES ASSUME NEW i \in 1..Len(p \o q), (p \o q)[i].at = Global
               PROVE  Leaves((p \o q)[i], mode)
    BY DEF ListLeaves
  <2>1. CASE i <= Len(p)
    <3>1. i \in 1..Len(p)
      BY <1>1, <2>1
    <3> QED BY <1>1, <1>2, <3>1 DEF ListLeaves
  <2>2. CASE i > Len(p)
    <3>1. i \in (Len(p) + 1)..(Len(p) + Len(q)) /\ i - Len(p) \in 1..Len(q)
      BY <1>1, <2>2
    <3> QED BY <1>1, <1>2, <3>1 DEF ListLeaves
  <2> QED BY <1>1, <2>1, <2>2
<1>3. ASSUME NEW s, NEW v, LastOf(q, s, v) PROVE LastOf(p \o q, s, v)
  <2>1. Len(p \o q) \in (Len(p) + 1)..(Len(p) + Len(q)) /\ Len(p \o q) - Len(p) = Len(q)
    BY <1>1, <1>3 DEF LastOf
  <2>2. (p \o q)[Len(p \o q)] = q[Len(q)]
    BY <1>1, <2>1
  <2> QED BY <1>1, <1>3, <2>2 DEF LastOf
<1> QED BY <1>2, <1>3

\* A save gives its scope what is saved.
LEMMA SaveIsLast ==
  ASSUME NEW s, NEW v
  PROVE  LastOf(Save(s, v), s, v) /\ LastOf(<<Write(s, v)>>, s, v)
<1> DEFINE r == Repair(s)
           w == Write(s, v)
<1>1. w.at = s /\ w.do = "backup" /\ w.value = v
  BY DEF Write, Request
<1> HIDE DEF r, w
<1>2. Len(<<r, w>>) = 2 /\ <<r, w>>[2] = w /\ Len(<<w>>) = 1 /\ <<w>>[1] = w
  OBVIOUS
<1>3. LastOf(<<r, w>>, s, v) /\ LastOf(<<w>>, s, v)
  BY <1>1, <1>2 DEF LastOf, Writes
<1> QED BY <1>3 DEF r, w, Save

\* Executing a request leaves the last one of them what it is, or it has been done.
LEMMA LastStays ==
  ASSUME FilesInv, GhostInv, Execute, NEW s \in Scopes, NEW content, LastWrites(s, content),
         NEW z \in Scopes, z = This.at, NEW value, value = This.value
  PROVE  LastWrites(s, content)'
<1>1. /\ io # <<>> /\ io \in Seq(Fitting) /\ io' \in Seq(Fitting) /\ Len(io) \in Nat /\ Len(io) > 0
      /\ This = io[1] /\ This \in Requests
  <2>1. io # <<>> /\ io \in Seq(Fitting)
    BY DEF Execute, DoRepair, DoRebuild, DoBackup, DoReplace, DoPut, Doing, FilesInv
  <2> QED BY <2>1, QueueMoves, ExecuteKeeps DEF FilesInv, Fitting
<1>2. LastOf(io, s, content) /\ z \in Scopes
  BY <1>1 DEF LastWrites, Requests
<1>3. CASE Dropped /\ Len(io) > 1
  <2>1. /\ Len(io') = Len(io) - 1 /\ Len(io') \in 1..Len(io') /\ Len(io') + 1 = Len(io)
        /\ io'[Len(io')] = io[Len(io')+ 1] /\ Len(io') > 0
    BY <1>1, <1>3 DEF Dropped
  <2>2. io' # <<>>
    BY <2>1
  <2> QED BY <1>2, <2>1, <2>2 DEF LastOf, LastWrites
<1>4. ASSUME NEW r, Became(r),
             Len(io) = 1 => r.at = s /\ r.do \in Writes /\ r.value = content
      PROVE  LastWrites(s, content)'
  <2>1. Len(io') = Len(io) /\ io' # <<>> /\ io'[1] = r
    BY <1>1, <1>4 DEF Became
  <2>2. Len(io) > 1 => io'[Len(io')] = io[Len(io)]
    BY <1>1, <1>4 DEF Became
  <2> QED BY <1>1, <1>2, <1>4, <2>1, <2>2 DEF LastOf, LastWrites
<1>5. Len(io) = 1 => z = s /\ This.do \in Writes /\ value = content
  BY <1>1, <1>2 DEF LastOf
<1>11. (Len(io) = 1 \/ Len(io) > 1) /\ ~(Len(io) = 1 /\ Len(io) > 1)
  <2>1. \A n \in Nat : n > 0 => (n = 1 \/ n > 1) /\ ~(n = 1 /\ n > 1)
    OBVIOUS
  <2> QED BY <1>1, <2>1
<1>12. This.do \notin Writes => Len(io) > 1 /\ Len(io) # 1
  BY <1>5, <1>11
<1>6. CASE This.do = "repair"
  <2>1. Len(io) > 1 /\ Len(io) # 1
    <3>1. This.do \notin Writes
      BY <1>6 DEF Writes
    <3> QED BY <1>12, <3>1
  <2>2. Dropped \/ \E r : Became(r)
    BY <1>2, <1>6, Effects
  <2> QED BY <1>3, <1>4, <2>1, <2>2
<1>7. CASE This.do = "rebuild"
  <2>1. Len(io) > 1 /\ Len(io) # 1
    <3>1. This.do \notin Writes
      BY <1>7 DEF Writes
    <3> QED BY <1>12, <3>1
  <2>2. \E r : Became(r)
    BY <1>2, <1>7, Effects
  <2> QED BY <1>4, <2>1, <2>2
<1>8. CASE This.do = "backup"
  <2>1. Became(Request("replace", z, value))
    BY <1>2, <1>8, Effects
  <2> QED BY <1>4, <1>5, <2>1 DEF Request, Writes
<1>9. CASE This.do = "replace"
  <2>1. Dropped /\ Main(z)' = value
    BY <1>2, <1>9, Effects
  <2>2. CASE Len(io) = 1
    <3>1. Len(io') = 0
      BY <2>1, <2>2 DEF Dropped
    <3>2. io' = <<>>
      BY <1>1, <3>1, EmptySeq
    <3> QED BY <1>5, <2>1, <2>2, <3>2 DEF LastWrites
  <2> QED BY <1>11, <1>3, <2>1, <2>2
<1>10. CASE This.do \in Puts
  <2>1. Dropped /\ Len(io) > 1
    <3>1. This.do \notin Writes /\ This.do \in {"putmain", "putbak"}
      BY <1>10 DEF Writes, Puts
    <3> QED BY <1>12, <3>1, Effects
  <2> QED BY <1>3, <2>1
<1> QED BY <1>1, <1>6, <1>7, <1>8, <1>9, <1>10 DEF Requests, Puts

\* Executing a request leaves a choice where it is.
LEMMA LeavesStays ==
  ASSUME FilesInv, GhostInv, Execute, NEW mode,
         Holding(Main(Global), mode), ListLeaves(io, mode),
         NEW z \in Scopes, z = This.at, NEW value, value = This.value
  PROVE  Holding(Main(Global)', mode) /\ ListLeaves(io', mode)
<1>1. /\ io # <<>> /\ io \in Seq(Fitting) /\ io' \in Seq(Fitting) /\ Len(io) \in Nat /\ Len(io) > 0
      /\ This = io[1] /\ This \in Requests /\ 1 \in 1..Len(io)
  <2>1. io # <<>> /\ io \in Seq(Fitting)
    BY DEF Execute, DoRepair, DoRebuild, DoBackup, DoReplace, DoPut, Doing, FilesInv
  <2> QED BY <2>1, QueueMoves, ExecuteKeeps DEF FilesInv, Fitting
<1>2. z \in Scopes /\ Global \in Scopes /\ (z = Global => Leaves(This, mode))
  BY <1>1, Known DEF Requests, ListLeaves
<1>3. CASE Dropped
  <2>1. ListLeaves(io', mode)
    BY <1>1, <1>3, NextRequests DEF ListLeaves, Requested
  <2>2. Holding(Main(Global)', mode)
    <3>1. CASE z # Global
      BY <1>2, <3>1, OneScope DEF Main
    <3>2. CASE z = Global
      <4>1. This.do \in {"repair", "replace", "putmain", "putbak"}
        <5>1. ASSUME NEW r PROVE ~Became(r)
          BY <1>1, <1>3 DEF Became, Dropped
        <5> QED BY <1>1, <1>2, <5>1, Effects DEF Requests
      <4>2. Main(Global)' = Main(Global) \/ (This.do \in {"replace", "putmain"} /\ Main(Global)' = value)
        <5>1. ASSUME NEW r PROVE ~Became(r)
          BY <1>1, <1>3 DEF Became, Dropped
        <5> QED BY <1>2, <3>2, <4>1, <5>1, Effects
      <4> QED BY <1>2, <3>2, <4>2 DEF Leaves, Writes
    <3> QED BY <3>1, <3>2
  <2> QED BY <2>1, <2>2
<1>4. ASSUME NEW r, Became(r), r.at = z, r.at = Global => Leaves(r, mode),
             Main(z)' = Main(z)
      PROVE  Holding(Main(Global)', mode) /\ ListLeaves(io', mode)
  <2>1. ListLeaves(io', mode)
    BY <1>1, <1>4, NextRequests DEF ListLeaves, Requested
  <2>2. Main(Global)' = Main(Global)
    BY <1>2, <1>4, OneScope DEF Main
  <2> QED BY <2>1, <2>2
<1>5. CASE This.do = "repair"
  <2>1. \/ Dropped
        \/ /\ ~Valid(Main(z)) /\ Became(Request("rebuild", z, NoFile))
    BY <1>2, <1>5, Effects
  <2>2. CASE z = Global
    BY <1>3, <2>1, <2>2 DEF Holding
  <2>3. CASE z # Global /\ Became(Request("rebuild", z, NoFile))
    <3>1. ListLeaves(io', mode)
      BY <1>1, <2>3, NextRequests DEF ListLeaves, Requested, Request
    <3>2. Main(Global)' = Main(Global)
      BY <1>2, <2>3, OneScope DEF Main
    <3> QED BY <3>1, <3>2
  <2> QED BY <1>3, <2>1, <2>2, <2>3
<1>6. CASE This.do = "rebuild"
  <2>1. z # Global
    BY <1>2, <1>6 DEF Leaves
  <2>2. PICK content : Became(Write(z, content)) /\ Main(z)' = Main(z)
    BY <1>2, <1>6, Effects
  <2> QED BY <1>4, <2>1, <2>2 DEF Write, Request
<1>7. CASE This.do = "backup"
  <2>1. Became(Request("replace", z, value)) /\ Main(z)' = Main(z)
    BY <1>2, <1>7, Effects
  <2>2. z = Global => Holding(value, mode)
    BY <1>2, <1>7 DEF Leaves, Writes
  <2>3. z = Global => Leaves(Request("replace", z, value), mode)
    BY <2>2 DEF Leaves, Request, Writes
  <2> QED BY <1>4, <2>1, <2>3 DEF Request
<1>8. CASE This.do \in Puts \cup {"replace"}
  BY <1>2, <1>3, <1>8, Effects DEF Puts
<1> QED BY <1>1, <1>5, <1>6, <1>7, <1>8 DEF Requests, Puts

\* The first request is executed, and others of its scope take its place.
LEMMA Advance ==
  ASSUME FilesInv, GhostInv, Execute, NEW z \in Scopes, z = This.at, NEW value, value = This.value
  PROVE  Dropped \/ \E r : Became(r) /\ r.at = z
<1>1. This \in Requests
  <2>1. io # <<>> /\ io \in Seq(Fitting)
    BY DEF Execute, DoRepair, DoRebuild, DoBackup, DoReplace, DoPut, Doing, FilesInv
  <2> QED BY <2>1, QueueMoves DEF Fitting
<1>2. CASE This.do = "repair"
  <2>1. Dropped \/ Became(Request("rebuild", z, NoFile))
    BY <1>2, Effects
  <2> QED BY <2>1 DEF Request
<1>3. CASE This.do = "rebuild"
  <2>1. \E c : Became(Write(z, c))
    BY <1>3, Effects
  <2> QED BY <2>1 DEF Write, Request
<1>4. CASE This.do = "backup"
  <2>1. Became(Request("replace", z, value))
    BY <1>4, Effects
  <2> QED BY <2>1 DEF Request
<1>5. CASE This.do \in Puts \cup {"replace"}
  BY <1>5, Effects DEF Puts
<1> QED BY <1>1, <1>2, <1>3, <1>4, <1>5 DEF Requests, Puts

\* No request is for another scope than those there are requests for.
LEMMA ScopesStay ==
  ASSUME FilesInv, GhostInv, Execute, NEW T, \A i \in Requested : io[i].at \in T,
         NEW z \in Scopes, z = This.at, NEW value, value = This.value
  PROVE  /\ \A i \in 1..Len(io') : io'[i].at \in T
         /\ \A s \in Scopes \ T : disk'[s] = disk[s]
<1>1. /\ io # <<>> /\ io \in Seq(Fitting) /\ io' \in Seq(Fitting) /\ 1 \in Requested
      /\ This = io[1] /\ This \in Requests
  <2>1. io # <<>> /\ io \in Seq(Fitting)
    BY DEF Execute, DoRepair, DoRebuild, DoBackup, DoReplace, DoPut, Doing, FilesInv
  <2> QED BY <2>1, QueueMoves, ExecuteKeeps DEF FilesInv, Fitting, Requested
<1>2. z \in T
  BY <1>1
<1>6. \A s \in Scopes \ T : disk'[s] = disk[s]
  BY <1>2, OneScope
<1>3. CASE Dropped
  <2>1. \A i \in 1..Len(io') : i + 1 \in Requested /\ io'[i] = io[i + 1]
    BY <1>1, <1>3, NextRequests
  <2>2. \A i \in 1..Len(io') : io'[i].at \in T
    BY <2>1
  <2> QED BY <1>6, <2>2
<1>4. ASSUME NEW r, Became(r), r.at = z
      PROVE  \A i \in 1..Len(io') : io'[i].at \in T
  BY <1>1, <1>2, <1>4, NextRequests
<1>5. Dropped \/ \E r : Became(r) /\ r.at = z
  BY Advance
<1> QED BY <1>3, <1>4, <1>5, <1>6

-----------------------------------------------------------------------------
(* The steps and the choice that waits *)

\* A request is executed.
LEMMA DoRequestChoice ==
  ASSUME IInv, IInv', GoodInv, ChoiceInv, DoRequest
  PROVE  ChoiceInv'
<1>1. FilesInv /\ GhostInv /\ Execute /\ UNCHANGED <<pc, job, owed, taker, running, path, data>>
  BY DEF IInv, GoodInv, DoRequest, dirVars, memoryVars, ghostVars
<1>2. /\ io # <<>> /\ io \in Seq(Fitting) /\ io' \in Seq(Fitting) /\ 1 \in Requested
      /\ This = io[1] /\ This \in Requests /\ running
  <2>1. io # <<>> /\ io \in Seq(Fitting)
    BY <1>1 DEF Execute, DoRepair, DoRebuild, DoBackup, DoReplace, DoPut, Doing, FilesInv
  <2> QED BY <1>1, <2>1, QueueMoves, ExecuteKeeps DEF FilesInv, Fitting, Requested, DoRequest
<1>3. PICK z, value : z = This.at /\ value = This.value
  OBVIOUS
<1>4. z \in Scopes /\ Global \in Scopes /\ Global \notin Dirs /\ \A dir \in Dirs : dir \in Scopes
  BY <1>2, <1>3, Known, Apart DEF Requests
<1>5. \A s \in Scopes : \A content : LastWrites(s, content) => LastWrites(s, content)'
  BY <1>1, <1>3, <1>4, LastStays
<1>6. pc = "queued" => ChoiceQueued'
  BY <1>1, <1>4, <1>5 DEF ChoiceInv, ChoiceQueued
<1>7. ASSUME TakerHolds, \A i \in Requested : io[i].at = Global
      PROVE  TakerHolds' /\ \A i \in 1..Len(io') : io'[i].at = Global
  <2>1. \A i \in Requested : io[i].at \in {Global}
    BY <1>7
  <2>2. /\ \A i \in 1..Len(io') : io'[i].at \in {Global}
        /\ \A s \in Scopes \ {Global} : disk'[s] = disk[s]
    BY <1>1, <1>3, <1>4, <2>1, ScopesStay
  <2> QED BY <1>1, <1>4, <1>7, <2>2 DEF TakerHolds, Main
<1>8. CASE ChoiceWaits /\ pc \notin Clearing
  <2>1. Holding(Main(Global), owed) /\ ListLeaves(io, owed)
    BY <1>8 DEF ChoiceWaits
  <2>2. Holding(Main(Global)', owed) /\ ListLeaves(io', owed)
    BY <1>1, <1>3, <1>4, <2>1, LeavesStays
  <2>3. MemoryWaits'
    BY <1>1, <1>8 DEF ChoiceWaits, MemoryWaits
  <2>4. ProfileTakes'
    <3>1. ASSUME pc \in {"same", "commit"} PROVE LastWrites(path, data)'
      <4>1. PICK s, content : s = path /\ content = data
        OBVIOUS
      <4>2. LastWrites(s, content) /\ s \in Scopes
        BY <1>4, <1>8, <3>1, <4>1 DEF ChoiceWaits, ProfileTakes
      <4>3. LastWrites(s, content)'
        BY <1>5, <4>2
      <4> QED BY <1>1, <4>1, <4>3 DEF LastWrites, Main
    <3>2. ASSUME pc \in Given PROVE TakerHolds' /\ \A i \in 1..Len(io') : io'[i].at = Global
      BY <1>7, <1>8, <3>2 DEF ChoiceWaits, ProfileTakes
    <3> QED BY <1>1, <1>8, <3>1, <3>2 DEF ChoiceWaits, ProfileTakes, Requested
  <2>5. ChoiceWaits'
    BY <1>1, <1>8, <2>2, <2>3, <2>4 DEF ChoiceWaits
  <2> QED BY <1>1, <1>6, <2>5 DEF ChoiceInv
<1>9. CASE ChoiceWaits /\ pc \in Clearing
  <2>1. Len(io) = 1 /\ Takes(This) /\ TakerHolds /\ (\A i \in Requested : io[i].at = Global)
        /\ z = Global /\ Valid(value) /\ value.pending = NoMode /\ job.pending = owed
    BY <1>2, <1>3, <1>9 DEF ChoiceWaits, ProfileTakes, Given, Takes, MemoryWaits, Giving
  <2>2. TakerHolds' /\ \A i \in 1..Len(io') : io'[i].at = Global
    BY <1>7, <2>1
  <2>3. MemoryWaits'
    BY <1>1, <1>9 DEF ChoiceWaits, MemoryWaits
  <2>4. CASE This.do = "backup"
    <3>1. Became(Request("replace", Global, value)) /\ Main(Global)' = Main(Global)
      BY <1>1, <1>3, <1>4, <2>1, <2>4, Effects
    <3>2. Len(io') = 1 /\ Takes(io'[1])
      <4>1. Takes(Request("replace", Global, value))
        BY <2>1 DEF Takes, Request, Writes
      <4> QED BY <2>1, <3>1, <4>1 DEF Became
    <3>3. ProfileTakes'
      BY <1>1, <1>9, <2>2 DEF ProfileTakes, Clearing, Given, Requested, ChoiceWaits
    <3>4. ChoiceWaits'
      BY <1>1, <1>9, <2>3, <3>1, <3>2, <3>3 DEF ChoiceWaits, Takes
    <3> QED BY <1>1, <1>6, <3>4, <1>9 DEF ChoiceInv, Clearing
  <2>5. CASE This.do = "replace"
    <3>1. Dropped /\ Main(Global)' = value
      BY <1>1, <1>3, <1>4, <2>1, <2>5, Effects
    <3>2. io' = <<>>
      <4>1. Len(io') = 0
        <5>1. Len(io) = 1
          BY <2>1
        <5> QED BY <3>1, <5>1 DEF Dropped
      <4> QED BY <1>2, <4>1, EmptySeq
    <3>3. ChoiceSettles'
      BY <1>1, <1>9, <2>1, <2>2, <3>1, <3>2 DEF ChoiceSettles
    <3> QED BY <1>1, <1>6, <3>3, <1>9 DEF ChoiceInv, Clearing
  <2> QED BY <2>1, <2>4, <2>5 DEF Takes, Writes
<1>10. CASE ChoiceSettles
  <2>1. pc = "boot" /\ TakerHolds /\ Valid(Main(Global)) /\ Main(Global).pending = NoMode
        /\ \A i \in Requested : io[i].do = "repair" /\ io[i].at = Global
    BY <1>2, <1>10 DEF ChoiceSettles
  <2>2. Dropped /\ Main(Global)' = Main(Global)
    BY <1>1, <1>2, <1>3, <1>4, <2>1, Effects
  <2>3. TakerHolds' /\ \A i \in 1..Len(io') : io'[i].at = Global
    BY <1>7, <2>1
  <2>4. \A i \in 1..Len(io') : io'[i].do = "repair"
    BY <1>2, <2>1, <2>2, NextRequests
  <2>5. ChoiceSettles'
    BY <1>1, <2>1, <2>2, <2>3, <2>4 DEF ChoiceSettles, Requested
  <2> QED BY <1>1, <1>6, <2>1, <2>5 DEF ChoiceInv
<1>11. CASE owed = NoMode
  BY <1>1, <1>6, <1>11 DEF ChoiceInv
<1> QED BY <1>8, <1>9, <1>10, <1>11 DEF ChoiceInv

\* While an operation is under way, except at its end, a choice only waits.
LEMMA UnderWay ==
  ASSUME ChoiceInv, owed # NoMode, running, pc \notin Clearing \cup {"boot"}
  PROVE  ChoiceWaits
BY DEF ChoiceInv, ChoiceSettles

\* Files that have not been changed hold what they held.
LEMMA SameFiles ==
  ASSUME UNCHANGED disk
  PROVE  /\ \A s : Main(s)' = Main(s)
         /\ taker' = taker /\ owed' = owed /\ TakerHolds => TakerHolds'
BY DEF Main, TakerHolds

\* A start loads the choice with the settings of the application, a stop forgets only
\* what was in memory.
LEMMA StartChoice ==
  ASSUME IInv, IInv', GoodInv, ChoiceInv, Start \/ Boot \/ Crash \/ Return
  PROVE  ChoiceInv'
<1>1. UNCHANGED disk /\ pc' \notin {"queue", "queued"} /\ taker' = taker
  BY DEF Start, Boot, Crash, Return, Issue, fileVars, ghostVars
<1> SUFFICES ASSUME owed' # NoMode PROVE ChoiceWaits' \/ ChoiceSettles'
  BY <1>1 DEF ChoiceInv
<1>2. owed' = owed /\ owed # NoMode
  BY DEF NoMode, Start, Boot, Crash, Return, ghostVars
<1>3. /\ \A s : Main(s)' = Main(s)
      /\ TakerHolds => TakerHolds'
  BY <1>1, <1>2, SameFiles
<1>4. CASE Start
  <2>1. io' = <<Repair(Global)>> /\ pc' = "boot"
    BY <1>4 DEF Start, Issue
  <2>2. CASE ChoiceWaits
    BY <1>2, <1>3, <2>1, <2>2, ListsLeave
    DEF ChoiceWaits, MemoryWaits, ProfileTakes, Giving, Given, Clearing
  <2>3. CASE ChoiceSettles
    <3> DEFINE r == Repair(Global)
    <3>1. r.do = "repair" /\ r.at = Global
      BY DEF Repair, Request
    <3>2. io' = <<r>>
      BY <2>1
    <3> HIDE DEF r
    <3>3. \A i \in 1..Len(io') : io'[i] = r
      <4>1. Len(<<r>>) = 1 /\ <<r>>[1] = r
        OBVIOUS
      <4>2. \A i \in 1..1 : i = 1
        OBVIOUS
      <4> QED BY <3>2, <4>1, <4>2
    <3> QED BY <1>3, <2>1, <2>3, <3>1, <3>3 DEF ChoiceSettles, Requested
  <2> QED BY <1>2, <2>2, <2>3 DEF ChoiceInv
<1>5. CASE Boot
  <2>1. path = Global /\ path' = Global /\ pc' = "booted" /\ data' \in Setting /\ running
    BY <1>5 DEF IInv, MemoryInv, Boot, At
  <2>2. ChoiceWaits
    <3>1. SUFFICES ASSUME ChoiceSettles PROVE FALSE
      BY <1>2 DEF ChoiceInv
    <3>2. Settled
      <4>1. taker # Unset /\ Valid(disk[taker].main) /\ disk[taker].main.backend = owed
        BY <3>1, Apart DEF ChoiceSettles, TakerHolds, Main
      <4>2. Valid(disk[Global].main) /\ disk[Global].main.pending = NoMode
        BY <3>1 DEF ChoiceSettles, Main
      <4>3. \A c : Valid(c) => c # NoFile
        BY FileAssumption DEF Valid
      <4> QED BY <1>2, <4>1, <4>2, <4>3 DEF Settled, View, NoMode
    <3> QED BY <1>5, <3>2 DEF Boot, NoMode
  <2>3. Main(Global) \in Setting /\ Main(Global).pending = owed
    BY <2>2, Known DEF ChoiceWaits, Holding, Valid
  <2>4. Loaded(Global, Main(Global)) = Main(Global)
    BY <2>3, Known DEF Loaded, Valid
  <2>5. data'.pending = owed
    <3>1. [Main(Global) EXCEPT !.home = Global].pending = owed
      BY <2>3 DEF Setting
    <3> QED BY <1>5, <2>3, <2>4, <3>1 DEF Boot
  <2>6. io' = <<>> \/ io' = Save(Global, data')
    BY <1>5 DEF Boot, Issue
  <2>7. ListLeaves(io', owed)
    <3>1. Holding(data', owed)
      BY <2>1, <2>5, Known DEF Holding, Valid
    <3> QED BY <2>6, <3>1, ListsLeave
  <2> QED BY <1>2, <1>3, <2>1, <2>2, <2>5, <2>7
      DEF ChoiceWaits, MemoryWaits, ProfileTakes, Giving, Given, Clearing
<1>6. CASE Crash
  <2>1. pc' = "idle" /\ ~running' /\ io' = <<>>
    BY <1>6 DEF Crash
  <2>2. CASE ChoiceWaits
    BY <1>2, <1>3, <2>1, <2>2, ListsLeave
    DEF ChoiceWaits, MemoryWaits, ProfileTakes, Giving, Given, Clearing
  <2>3. CASE ChoiceSettles
    BY <1>3, <2>1, <2>3 DEF ChoiceSettles
  <2> QED BY <1>2, <2>2, <2>3 DEF ChoiceInv
<1>7. CASE Return
  <2>1. /\ running /\ pc \in {"save", "booted"} /\ pc' = "idle" /\ io = <<>> /\ io' = <<>>
        /\ UNCHANGED <<running, path, data, job>>
    BY <1>7 DEF Return, At, fileVars, memoryVars
  <2>2. ChoiceWaits
    BY <1>2, <2>1, UnderWay DEF Clearing
  <2> QED BY <1>2, <1>3, <2>1, <2>2, ListsLeave
      DEF ChoiceWaits, MemoryWaits, ProfileTakes, Giving, Given, Clearing
<1> QED BY <1>4, <1>5, <1>6, <1>7

\* What the user does with the active profile does not touch the choice.
LEMMA UserChoice ==
  ASSUME IInv, IInv', GoodInv, ChoiceInv,
         \/ \E mode \in Backends : SelectForProfile(mode)
         \/ MakeBackup \/ (\E dir \in Dirs : Activate(dir)) \/ Undone
  PROVE  ChoiceInv'
<1>1. /\ UNCHANGED <<disk, owed, taker>> /\ pc' \in {"save", "idle", "pending"}
      /\ running /\ running' /\ pc \in {"idle", "undone"} /\ path' = path
  <2>1. ASSUME NEW mode, SelectForProfile(mode)
        PROVE  /\ UNCHANGED <<disk, owed, taker>> /\ pc' = "save"
               /\ running /\ running' /\ pc = "idle" /\ path' = path
    BY <2>1 DEF SelectForProfile, Issue, ghostVars, Begin, At
  <2>2. ASSUME NEW dir, Activate(dir)
        PROVE  /\ UNCHANGED <<disk, owed, taker>> /\ pc' = "pending"
               /\ running /\ running' /\ pc = "idle" /\ path' = path
    BY <2>2 DEF Activate, Issue, ghostVars, memoryVars, Begin, At
  <2>3. ASSUME MakeBackup \/ Undone
        PROVE  /\ UNCHANGED <<disk, owed, taker>> /\ pc' = "idle"
               /\ running /\ running' /\ pc \in {"idle", "undone"} /\ path' = path
    BY <2>3 DEF MakeBackup, Undone, fileVars, ghostVars, memoryVars, Begin, At
  <2> QED BY <2>1, <2>2, <2>3
<1> SUFFICES ASSUME owed # NoMode PROVE ChoiceWaits'
  BY <1>1 DEF ChoiceInv
<1>2. ChoiceWaits
  BY <1>1, UnderWay DEF Clearing
<1>3. Main(Global)' = Main(Global)
  BY <1>1, SameFiles
<1>4. ListLeaves(io', owed)
  <2>1. io' = <<>> \/ io' = <<Repair(Global)>> \/ (path # Global /\ io' = Save(path, data'))
    BY DEF SelectForProfile, MakeBackup, Activate, Undone, Issue, fileVars, Begin, At
  <2> QED BY <2>1, ListsLeave
<1>5. MemoryWaits'
  <2>1. path = Global => data' = data
    BY DEF SelectForProfile, MakeBackup, Activate, Undone, memoryVars
  <2>2. path = Global => data.pending = owed
    BY <1>1, <1>2 DEF ChoiceWaits, MemoryWaits
  <2>3. pc' = "pending" => job'.path = path /\ job'.data = data
    <3>1. SUFFICES ASSUME NEW dir \in Dirs, Activate(dir)
                   PROVE  job'.path = path /\ job'.data = data
      BY <1>1 DEF SelectForProfile, MakeBackup, Undone, Begin, At
    <3>2. job' = [NoJob EXCEPT !.dir = dir, !.path = path, !.data = data]
      BY <3>1 DEF Activate
    <3> QED BY <3>2, NoJobIsIdle DEF Jobs
  <2> QED BY <1>1, <2>1, <2>2, <2>3 DEF MemoryWaits, Giving, Given, Clearing
<1> QED BY <1>1, <1>2, <1>3, <1>4, <1>5 DEF ChoiceWaits, ProfileTakes, Given, Clearing

\* A choice without a device replaces the one before it.
LEMMA OfflineChoice ==
  ASSUME IInv, IInv', GoodInv, ChoiceInv,
         (\E mode \in Backends : SelectOffline(mode)) \/ Queue \/ QueueDone
  PROVE  ChoiceInv'
<1>1. CASE \E mode \in Backends : SelectOffline(mode)
  <2>1. PICK mode \in Backends : SelectOffline(mode)
    BY <1>1
  <2>2. owed' = NoMode /\ path' = path
    BY <2>1 DEF SelectOffline, NoMode
  <2>3. CASE path # Global
    <3>1. pc' = "queue"
      BY <2>1, <2>3 DEF SelectOffline
    <3> QED BY <2>2, <2>3, <3>1 DEF ChoiceInv
  <2>4. CASE path = Global
    <3>1. pc' = "queued" /\ io' = Save(Global, data')
      BY <2>1, <2>4 DEF SelectOffline, Issue
    <3>2. data' \in Setting /\ data'.pending = mode /\ job'.pending = mode
      BY <2>1, <2>4 DEF SelectOffline, IInv, MemoryInv, JobInv, Setting, Jobs
    <3>3. PICK q, v : q = io' /\ v = data'
      OBVIOUS
    <3>4. LastOf(q, Global, v) /\ q # <<>>
      <4>1. LastOf(q, Global, v)
        BY <3>1, <3>3, SaveIsLast
      <4>2. Len(<<>>) = 0
        OBVIOUS
      <4> QED BY <4>1, <4>2 DEF LastOf
    <3>5. LastWrites(Global, v)'
      BY <3>3, <3>4 DEF LastWrites, LastOf
    <3>6. ChoiceQueued'
      BY <3>2, <3>3, <3>5 DEF ChoiceQueued
    <3> QED BY <2>2, <3>1, <3>6 DEF ChoiceInv
  <2> QED BY <2>3, <2>4
<1>2. CASE Queue
  <2>1. /\ owed' = owed /\ owed = NoMode /\ path' = path /\ path # Global /\ pc' = "queued"
        /\ job' = job /\ job.pending \in Backends
    BY <1>2 DEF Queue, At, ChoiceInv, ghostVars, memoryVars, IInv, JobInv
  <2>2. PICK v, mode : v = Queued(job.pending, job.pending) /\ mode = job.pending
    OBVIOUS
  <2>3. v \in Setting /\ v.pending = mode
    <3>1. v \in Setting /\ GlobalSettings \in Setting
      BY <2>1, <2>2, QueuedIsSetting DEF IInv
    <3> QED BY <2>2, <3>1 DEF Queued, Setting
  <2>4. PICK q : q = io'
    OBVIOUS
  <2>5. LastOf(q, Global, v) /\ q # <<>>
    <3>1. q = <<Write(Global, v)>>
      BY <1>2, <2>2, <2>4 DEF Queue, Issue
    <3>2. LastOf(q, Global, v)
      BY <3>1, SaveIsLast
    <3>3. Len(<<>>) = 0
      OBVIOUS
    <3> QED BY <3>2, <3>3 DEF LastOf
  <2>6. LastWrites(Global, v)'
    BY <2>4, <2>5 DEF LastWrites, LastOf
  <2>7. ChoiceQueued'
    BY <2>1, <2>2, <2>3, <2>6 DEF ChoiceQueued
  <2> QED BY <2>1, <2>7 DEF ChoiceInv
<1>3. CASE QueueDone
  <2>1. /\ owed' = job.pending /\ pc' = "idle" /\ UNCHANGED <<disk, path, data>>
        /\ io = <<>> /\ io' = <<>> /\ ChoiceQueued /\ running
    BY <1>3 DEF QueueDone, At, ChoiceInv, fileVars, memoryVars
  <2>2. PICK v \in Setting : v.pending = job.pending /\ Main(Global) = v
    BY <2>1 DEF ChoiceQueued, LastWrites
  <2>3. Holding(Main(Global), owed)'
    BY <2>1, <2>2, Known DEF Holding, Valid, Main
  <2>4. MemoryWaits'
    BY <2>1 DEF MemoryWaits, ChoiceQueued, Giving, Given, Clearing
  <2>5. ListLeaves(io, owed)'
    <3>1. PICK mode : mode = owed'
      OBVIOUS
    <3>2. ListLeaves(<<>>, mode)
      BY ListsLeave
    <3> QED BY <2>1, <3>1, <3>2 DEF ListLeaves, Leaves, Holding
  <2>6. ChoiceWaits'
    BY <2>1, <2>3, <2>4, <2>5 DEF ChoiceWaits, ProfileTakes, Given, Clearing
  <2> QED BY <2>1, <2>6 DEF ChoiceInv
<1> QED BY <1>1, <1>2, <1>3

\* The mode an activation finds waiting is the one that is owed.
LEMMA FoundIsOwed ==
  ASSUME ChoiceWaits, running, pc = "pending"
  PROVE  PendingMode = owed
BY DEF ChoiceWaits, MemoryWaits, Holding, PendingMode, GlobalSettings

\* A mode that is given is the mode.
LEMMA ModeIsSet ==
  ASSUME NEW settings \in Setting, NEW mode, mode # NoMode
  PROVE  WithMode(settings, mode).backend = mode
<1>1. WithMode(settings, mode) = [settings EXCEPT !.backend = mode]
  BY DEF WithMode, NoMode
<1> QED BY <1>1 DEF Setting

\* The active profile is given the choice.
LEMMA ReadPendingSameChoice ==
  ASSUME IInv, IInv', GoodInv, ChoiceInv, ReadPendingSame
  PROVE  ChoiceInv'
<1>1. /\ UNCHANGED <<disk, owed, path, running>> /\ pc' \in {"same", "idle"}
      /\ running /\ pc = "pending" /\ io = <<>>
  BY DEF ReadPendingSame, Issue, fileVars, At
<1> SUFFICES ASSUME owed # NoMode PROVE ChoiceWaits'
  BY <1>1 DEF ChoiceInv
<1>2. ChoiceWaits
  BY <1>1, UnderWay DEF Clearing
<1>3. Main(Global)' = Main(Global) /\ PendingMode = owed
  BY <1>1, <1>2, SameFiles, FoundIsOwed
<1>4. /\ pc' = "same" /\ io' = Save(path, data') /\ taker' = path /\ data' = WithMode(data, owed)
      /\ path \in Dirs /\ path # Global
      /\ job' = [job EXCEPT !.pending = owed, !.files = disk[path], !.global = disk[Global]]
  BY <1>1, <1>3, Apart DEF ReadPendingSame, Issue, IInv, JobInv, Working, NoMode
<1>5. job'.pending = owed /\ job'.path = job.path /\ job'.data = job.data
      /\ job'.global.main = Main(Global)
  BY <1>4 DEF IInv, JobInv, Jobs, Main
<1>6. ListLeaves(io', owed)
  BY <1>4, ListsLeave
<1>7. MemoryWaits'
  BY <1>1, <1>2, <1>4, <1>5 DEF ChoiceWaits, MemoryWaits
<1>8. ProfileTakes'
  <2>1. data'.backend = owed
    <3>1. data \in Setting
      BY DEF IInv, MemoryInv
    <3> QED BY <1>4, <3>1, ModeIsSet
  <2>2. LastWrites(path, data)'
    <3>1. PICK q, s, v : q = io' /\ s = path /\ v = data'
      OBVIOUS
    <3>2. LastOf(q, s, v) /\ q # <<>>
      <4>1. LastOf(q, s, v)
        BY <1>4, <3>1, SaveIsLast
      <4>2. Len(<<>>) = 0
        OBVIOUS
      <4> QED BY <4>1, <4>2 DEF LastOf
    <3> QED BY <1>1, <3>1, <3>2 DEF LastWrites, LastOf
  <2> QED BY <1>1, <1>4, <2>1, <2>2 DEF ProfileTakes, Given, Clearing
<1> QED BY <1>1, <1>2, <1>3, <1>4, <1>6, <1>7, <1>8 DEF ChoiceWaits, Clearing

\* A list of one request.
LEMMA OneInList ==
  ASSUME NEW r
  PROVE  Len(<<r>>) = 1 /\ <<r>>[1] = r /\ \A i \in 1..Len(<<r>>) : <<r>>[i] = r
<1>1. Len(<<r>>) = 1 /\ <<r>>[1] = r
  OBVIOUS
<1>2. \A i \in 1..1 : i = 1
  OBVIOUS
<1> QED BY <1>1, <1>2

\* The profile holds what was saved for it, and the application's settings are repaired.
LEMMA SameChoice ==
  ASSUME IInv, IInv', GoodInv, ChoiceInv, Same \/ Commit
  PROVE  ChoiceInv'
<1>1. /\ UNCHANGED <<disk, owed, taker, path, running, data>> /\ pc' \in {"clear", "publish"}
      /\ running /\ pc \in {"same", "commit"} /\ io = <<>> /\ io' = <<Repair(Global)>>
      /\ pc' = "clear" <=> pc = "same"
  BY DEF Same, Commit, Issue, At, memoryVars
<1>2. /\ job'.pending = job.pending /\ job'.path = job.path /\ job'.data = job.data
      /\ job'.global = job.global
  BY DEF Same, Commit, IInv, JobInv, Jobs
<1> SUFFICES ASSUME owed # NoMode PROVE ChoiceWaits'
  BY <1>1 DEF ChoiceInv
<1>3. ChoiceWaits
  BY <1>1, UnderWay DEF Clearing
<1>4. Main(Global)' = Main(Global) /\ (TakerHolds => TakerHolds')
  BY <1>1, SameFiles
<1>5. ListLeaves(io', owed)
  BY <1>1, ListsLeave
<1>6. MemoryWaits'
  BY <1>1, <1>2, <1>3 DEF ChoiceWaits, MemoryWaits, Giving, Given, Clearing
<1>7. TakerHolds
  <2>1. path \in Dirs /\ taker = path /\ data.backend = owed /\ Main(path) = data
    BY <1>1, <1>3 DEF ChoiceWaits, ProfileTakes, LastWrites
  <2>2. data \in Setting
    BY DEF IInv, MemoryInv
  <2> QED BY <2>1, <2>2, Known DEF TakerHolds, Valid
<1>8. ProfileTakes'
  <2>1. Repair(Global).at = Global
    BY DEF Repair, Request
  <2>2. \A i \in 1..Len(io') : io'[i] = Repair(Global)
    BY <1>1, OneInList
  <2> QED BY <1>1, <1>4, <1>7, <2>1, <2>2 DEF ProfileTakes, Requested
<1> QED BY <1>1, <1>3, <1>4, <1>5, <1>6, <1>8 DEF ChoiceWaits, Clearing

\* Then the choice is taken from the queue.
LEMMA ClearChoice ==
  ASSUME IInv, IInv', GoodInv, ChoiceInv, Clear \/ PublishGlobal
  PROVE  ChoiceInv'
<1>1. /\ UNCHANGED <<disk, owed, taker, path, running, data, job>>
      /\ pc' \in Clearing /\ running /\ pc \in {"clear", "publish"}
  BY DEF Clear, PublishGlobal, Issue, At, memoryVars, ghostVars, Clearing
<1> SUFFICES ASSUME owed # NoMode PROVE ChoiceWaits'
  BY <1>1 DEF ChoiceInv, Clearing
<1>2. ChoiceWaits
  BY <1>1, UnderWay DEF Clearing
<1>3. Main(Global)' = Main(Global) /\ (TakerHolds => TakerHolds')
  BY <1>1, SameFiles
<1>4. job.pending = owed
  BY <1>1, <1>2 DEF ChoiceWaits, MemoryWaits, Giving, Given
<1>5. PICK v : v = Queued("standard", NoMode)
  OBVIOUS
<1>6. io' = <<Write(Global, v)>>
  BY <1>4, <1>5 DEF Clear, PublishGlobal, Issue, NoMode
<1>7. Valid(v) /\ v.pending = NoMode
  <2>1. GlobalSettings \in Setting /\ Queued("standard", "") \in Setting
    BY QueuedIsSetting, StoreAssumption DEF IInv
  <2>2. v \in Setting
    BY <1>5, <2>1 DEF NoMode
  <2>3. \A mode : Queued("standard", mode).pending = mode
    BY <2>1 DEF Queued, Setting
  <2> QED BY <1>5, <2>2, <2>3, Known DEF Valid
<1>8. Len(io') = 1 /\ Takes(io'[1]) /\ \A i \in 1..Len(io') : io'[i].at = Global
  <2>1. PICK r : r = Write(Global, v)
    OBVIOUS
  <2>2. r.do = "backup" /\ r.at = Global /\ r.value = v
    BY <2>1 DEF Write, Request
  <2>3. Len(io') = 1 /\ io'[1] = r /\ \A i \in 1..Len(io') : io'[i] = r
    BY <1>6, <2>1, OneInList
  <2> QED BY <1>7, <2>2, <2>3 DEF Takes, Writes
<1>9. MemoryWaits'
  BY <1>1, <1>2 DEF ChoiceWaits, MemoryWaits, Giving, Given, Clearing
<1>10. ProfileTakes'
  BY <1>1, <1>2, <1>3, <1>8 DEF ChoiceWaits, ProfileTakes, Requested, Given, Clearing
<1> QED BY <1>1, <1>2, <1>3, <1>8, <1>9, <1>10 DEF ChoiceWaits, Takes

\* With that the choice is owed no longer.
LEMMA SettledChoice ==
  ASSUME IInv, IInv', GoodInv, ChoiceInv, Cleared \/ Retire
  PROVE  ChoiceInv'
<1>1. pc' = "idle" /\ io = <<>> /\ running /\ pc \in Clearing
      /\ (pc = "cleared" => owed' = NoMode)
      /\ (pc = "retire" => owed' = IF job.pending = NoMode THEN owed ELSE NoMode)
  BY DEF Cleared, Retire, At, Clearing, NoMode
<1> SUFFICES ASSUME owed' # NoMode PROVE FALSE
  BY <1>1 DEF ChoiceInv
<1>2. owed # NoMode /\ pc = "retire" /\ job.pending = NoMode
  BY <1>1 DEF Clearing
<1>3. CASE ChoiceWaits
  <2>1. Len(<<>>) = 0
    OBVIOUS
  <2> QED BY <1>1, <1>3, <2>1 DEF ChoiceWaits
<1>4. CASE ChoiceSettles
  BY <1>1, <1>2, <1>4 DEF ChoiceSettles, Clearing
<1> QED BY <1>2, <1>3, <1>4 DEF ChoiceInv

\* Another profile: what is in memory is saved first, with the choice in it.
LEMMA ReadPendingChoice ==
  ASSUME IInv, IInv', GoodInv, ChoiceInv, ReadPending
  PROVE  ChoiceInv'
<1>1. /\ UNCHANGED <<disk, owed, taker, path, running, data>> /\ pc' = "snapshot"
      /\ running /\ pc = "pending" /\ io' = Save(path, data) \o <<Repair(Global)>>
  BY DEF ReadPending, Issue, At, memoryVars, ghostVars
<1> SUFFICES ASSUME owed # NoMode PROVE ChoiceWaits'
  BY <1>1 DEF ChoiceInv
<1>2. ChoiceWaits
  BY <1>1, UnderWay DEF Clearing
<1>3. Main(Global)' = Main(Global) /\ PendingMode = owed
  BY <1>1, <1>2, SameFiles, FoundIsOwed
<1>4. job'.pending = owed /\ job'.path = job.path /\ job'.data = job.data
  BY <1>3 DEF ReadPending, IInv, JobInv, Jobs
<1>5. ListLeaves(io', owed)
  <2>1. path \in Scopes /\ data \in Setting /\ Fits(path, data) /\ Valid(data)
    BY Known, OwnFits, GlobalFits DEF IInv, MemoryInv, Valid
  <2>2. path = Global => Holding(data, owed)
    BY <1>1, <1>2, <2>1 DEF ChoiceWaits, MemoryWaits, Holding
  <2>3. Save(path, data) \in Seq(Fitting) /\ <<Repair(Global)>> \in Seq(Fitting)
    BY <2>1, SaveIsFitting, RepairIsFitting, OneRequest, Known
  <2>4. ListLeaves(Save(path, data), owed) /\ ListLeaves(<<Repair(Global)>>, owed)
    BY <2>2, ListsLeave
  <2> QED BY <1>1, <2>3, <2>4, ListsJoin
<1>6. MemoryWaits'
  BY <1>1, <1>2, <1>4 DEF ChoiceWaits, MemoryWaits, Giving, Given, Clearing
<1> QED BY <1>1, <1>2, <1>3, <1>5, <1>6 DEF ChoiceWaits, ProfileTakes, Given, Clearing

\* The snapshot of the application's settings has the choice in it.
LEMMA SnapshotChoice ==
  ASSUME IInv, IInv', GoodInv, ChoiceInv, Snapshot
  PROVE  ChoiceInv'
<1>1. /\ UNCHANGED <<disk, owed, taker, path, running, data>> /\ pc' = "migrate"
      /\ running /\ pc = "snapshot" /\ io' = io
  BY DEF Snapshot, At, memoryVars, fileVars
<1> SUFFICES ASSUME owed # NoMode PROVE ChoiceWaits'
  BY <1>1 DEF ChoiceInv
<1>2. ChoiceWaits
  BY <1>1, UnderWay DEF Clearing
<1>3. Main(Global)' = Main(Global)
  BY <1>1, SameFiles
<1>4. job'.pending = job.pending /\ job'.path = job.path /\ job'.data = job.data
      /\ job'.global.main = Main(Global)
  <2> DEFINE taken == IF job.pending # "" /\ job.dir \in exists
                      THEN disk[job.dir] ELSE NoSnapshot
  <2>1. job' = [job EXCEPT !.global = disk[Global], !.files = taken]
    BY DEF Snapshot
  <2> HIDE DEF taken
  <2> QED BY <2>1 DEF IInv, JobInv, Jobs, Main
<1>5. MemoryWaits'
  BY <1>1, <1>2, <1>4 DEF ChoiceWaits, MemoryWaits, Giving, Given, Clearing
<1> QED BY <1>1, <1>2, <1>3, <1>5 DEF ChoiceWaits, ProfileTakes, Given, Clearing

\* The profile is migrated and opened; the application's settings are not touched.
LEMMA OpenChoice ==
  ASSUME IInv, IInv', GoodInv, ChoiceInv, Migrate \/ Open
  PROVE  ChoiceInv'
<1>1. /\ UNCHANGED <<owed, taker, running>> /\ running /\ io = <<>>
      /\ pc \in {"migrate", "open"} /\ pc' = IF pc = "migrate" THEN "open" ELSE "merge"
      /\ pc = "migrate" => path' = path /\ data' = data
      /\ pc = "open" => path' = job.dir
      /\ job.dir \in Dirs
  <2>1. CASE Migrate
    <3>1. pc' = "open" /\ pc = "migrate"
      BY <2>1 DEF Migrate, Publish, At
    <3> QED BY <2>1, <3>1 DEF Migrate, At, memoryVars, ghostVars, IInv, JobInv, Working
  <2>2. CASE Open
    BY <2>2 DEF Open, At, ghostVars, IInv, JobInv, Working
  <2> QED BY <2>1, <2>2
<1> SUFFICES ASSUME owed # NoMode PROVE ChoiceWaits'
  BY <1>1 DEF ChoiceInv
<1>2. ChoiceWaits
  BY <1>1, UnderWay DEF Clearing
<1>3. Main(Global)' = Main(Global)
  <2>1. UNCHANGED disk \/ \E files : disk' = [disk EXCEPT ![job.dir] = files]
    BY DEF Migrate, Publish, Open, Issue, fileVars
  <2> QED BY <1>1, <2>1, Apart, Known DEF Main, IInv, FilesInv
<1>4. ListLeaves(io', owed)
  <2>1. io' \in {<<>>, <<Repair(job.dir)>>}
    BY <1>1 DEF Migrate, Publish, Open, Issue, fileVars
  <2> QED BY <2>1, ListsLeave
<1>5. job'.pending = job.pending /\ job'.path = job.path /\ job'.data = job.data
      /\ job'.global = job.global
  <2>1. job' = job \/ \E source : job' = [job EXCEPT !.source = source, !.created = TRUE]
    BY DEF Migrate, Publish, Open
  <2> QED BY <2>1 DEF IInv, JobInv, Jobs
<1>6. MemoryWaits'
  BY <1>1, <1>2, <1>5, Apart DEF ChoiceWaits, MemoryWaits, Giving, Given, Clearing
<1> QED BY <1>1, <1>2, <1>3, <1>4, <1>6 DEF ChoiceWaits, ProfileTakes, Given, Clearing

\* The profile is saved with the mode that was chosen for it.
LEMMA MergeChoice ==
  ASSUME IInv, IInv', GoodInv, ChoiceInv, Merge
  PROVE  ChoiceInv'
<1>1. /\ UNCHANGED <<disk, owed, path, running, job>> /\ pc' = "commit"
      /\ running /\ pc = "merge" /\ path = job.dir /\ path \in Dirs /\ path # Global
      /\ data \in Setting /\ data' \in Setting /\ data' \in Own(path)
  BY Apart DEF Merge, Issue, At, IInv, JobInv, MemoryInv, Working
<1> SUFFICES ASSUME owed # NoMode PROVE ChoiceWaits'
  BY <1>1 DEF ChoiceInv
<1>2. ChoiceWaits
  BY <1>1, UnderWay DEF Clearing
<1>3. Main(Global)' = Main(Global) /\ job.pending = owed
  BY <1>1, <1>2, SameFiles DEF ChoiceWaits, MemoryWaits, Giving
<1>4. PICK s, v : s = path /\ v = data'
  OBVIOUS
<1>5. LastOf(io', s, v) /\ ListLeaves(io', owed)
  <2>1. Save(s, v) \in Seq(Fitting) /\ <<>> \in Seq(Fitting)
    BY <1>1, <1>4, SaveIsFitting, OwnFits, EmptySeq, Known
  <2>2. io' = Save(s, v) \o Save(s, v) \/ io' = <<>> \o Save(s, v)
    BY <1>4 DEF Merge, Issue
  <2>3. LastOf(Save(s, v), s, v) /\ ListLeaves(Save(s, v), owed) /\ ListLeaves(<<>>, owed)
    BY <1>1, <1>4, SaveIsLast, ListsLeave
  <2> QED BY <2>1, <2>2, <2>3, ListsJoin
<1>6. data'.backend = owed
  <2> DEFINE own    == IF Valid(Main(path)) THEN Loaded(path, Main(path)) ELSE data
             merged == WithMode(Rebase(own), job.pending)
  <2>1. own \in Own(path)
    <3>1. Fits(path, Main(path)) /\ path \in Scopes /\ data \in Own(path)
      BY <1>1, Known DEF IInv, FilesInv, FitFiles, Main, MemoryInv
    <3> QED BY <1>1, <3>1, LoadedIsOwn
  <2> HIDE DEF own
  <2>2. Rebase(own) \in Setting
    BY <1>1, <2>1, RebaseKeepsOwner DEF IInv, Own
  <2>3. merged.backend = owed /\ merged \in Setting
    <3>1. merged.backend = owed
      BY <1>3, <2>2, ModeIsSet
    <3>2. merged = [Rebase(own) EXCEPT !.backend = owed]
      BY <1>3 DEF WithMode, NoMode
    <3>3. owed \in Backends
      BY <1>1, <1>3 DEF IInv, JobInv, Jobs, NoMode
    <3> QED BY <2>2, <3>1, <3>2, <3>3 DEF Setting
  <2>4. data' = IF merged.home = Unset THEN [merged EXCEPT !.home = path] ELSE merged
    BY DEF Merge, own
  <2> HIDE DEF merged
  <2>5. [merged EXCEPT !.home = path].backend = merged.backend
    BY <2>3 DEF Setting
  <2> QED BY <2>3, <2>4, <2>5
<1>7. LastWrites(path, data)'
  <2>1. io' # <<>>
    <3>1. Len(<<>>) = 0
      OBVIOUS
    <3> QED BY <1>5, <3>1 DEF LastOf
  <2> QED BY <1>1, <1>4, <1>5, <2>1 DEF LastWrites, LastOf
<1>8. MemoryWaits'
  BY <1>1, <1>2 DEF ChoiceWaits, MemoryWaits, Giving, Given, Clearing
<1>9. ProfileTakes'
  <2>1. taker' = path
    BY <1>3 DEF Merge, NoMode
  <2> QED BY <1>1, <1>6, <1>7, <2>1 DEF ProfileTakes, Given, Clearing
<1> QED BY <1>1, <1>2, <1>3, <1>5, <1>8, <1>9 DEF ChoiceWaits, Clearing

\* The rollback puts back a profile and application settings with the choice in them.
LEMMA UndoChoice ==
  ASSUME IInv, IInv', GoodInv, ChoiceInv, Undo
  PROVE  ChoiceInv'
<1>1. /\ UNCHANGED <<owed, taker, running, job>> /\ pc' = "undone" /\ pc = "undo"
      /\ running /\ path' = job.path /\ data' = job.data
  BY DEF Undo, At
<1>2. job.dir # Global /\ Global \in Scopes
  BY Apart, Known DEF IInv, JobInv, Jobs
<1> SUFFICES ASSUME owed # NoMode PROVE ChoiceWaits'
  BY <1>1 DEF ChoiceInv
<1>3. ChoiceWaits
  BY <1>1, UnderWay DEF Clearing
<1>4. Main(Global)' = Main(Global)
  <2>1. UNCHANGED disk \/ disk' = [disk EXCEPT ![job.dir] = NoFiles]
    BY DEF Undo, Remove
  <2> QED BY <1>2, <2>1 DEF Main, IInv, FilesInv
<1>5. ListLeaves(io', owed)
  <2>1. PICK f, g : f = job.files /\ g = job.global
    OBVIOUS
  <2>2. Holding(g.main, owed)
    BY <1>1, <1>3, <2>1 DEF ChoiceWaits, MemoryWaits, Giving
  <2>3. ListLeaves(Restore(job.dir, f), owed) /\ ListLeaves(Restore(Global, g), owed)
        /\ ListLeaves(<<>>, owed)
    BY <1>2, <2>2, ListsLeave
  <2>4. PICK p, q : /\ p \in {Restore(job.dir, f), <<>>} /\ q \in {Restore(Global, g), <<>>}
                    /\ io' = p \o q
    BY <2>1 DEF Undo
  <2>5. PICK S : Restore(job.dir, f) \in Seq(S) /\ Restore(Global, g) \in Seq(S)
                   /\ <<>> \in Seq(S)
    <3> DEFINE S == {Request("putmain", job.dir, f.main), Request("putbak", job.dir, f.bak),
                     Request("putmain", Global, g.main), Request("putbak", Global, g.bak)}
    <3>1. \A x, y \in S : <<x, y>> \in Seq(S)
      OBVIOUS
    <3>2. Restore(job.dir, f) \in Seq(S) /\ Restore(Global, g) \in Seq(S)
      BY <3>1 DEF Restore
    <3> QED BY <3>2, EmptySeq
  <2> QED BY <2>3, <2>4, <2>5, ListsJoin
<1>6. MemoryWaits'
  BY <1>1, <1>3 DEF ChoiceWaits, MemoryWaits, Giving, Given, Clearing
<1> QED BY <1>1, <1>3, <1>4, <1>5, <1>6 DEF ChoiceWaits, ProfileTakes, Given, Clearing

\* A failure leaves the files, and what the handler will put back holds the choice.
LEMMA FailChoice ==
  ASSUME IInv, IInv', GoodInv, ChoiceInv, Fail
  PROVE  ChoiceInv'
<1>1. /\ UNCHANGED <<disk, owed, taker, path, data>> /\ io' = <<>> /\ running
      /\ pc' \in {"idle", "undo"} /\ pc # "idle" /\ pc \in Labels
      /\ pc' = "undo" => pc \notin Unprotected /\ running'
  <2>1. pc # "idle" /\ pc \in Labels
    BY Idle DEF Fail, GoodInv, KeptInv, IInv
  <2> QED BY <2>1 DEF Fail, Unprotected, ghostVars
<1> SUFFICES ASSUME owed # NoMode PROVE ChoiceWaits' \/ ChoiceSettles'
  BY <1>1 DEF ChoiceInv
<1>2. Main(Global)' = Main(Global) /\ (TakerHolds => TakerHolds')
  BY <1>1, SameFiles
<1>3. CASE ChoiceSettles
  <2>1. io # <<>> \/ pc = "migrate"
    BY DEF Fail
  <2>2. pc = "boot"
    BY <1>1, <1>3, <2>1 DEF ChoiceSettles, Clearing
  <2>3. ~running'
    BY <2>2 DEF Fail
  <2> QED BY <1>2, <1>3, <2>3 DEF ChoiceSettles
<1>4. CASE ChoiceWaits
  <2>1. ListLeaves(io', owed)
    BY <1>1, ListsLeave
  <2>2. MemoryWaits'
    <3>1. CASE pc' = "idle"
      <4>1. pc \in {"boot", "booted"} => ~running'
        BY DEF Fail
      <4> QED BY <1>1, <1>4, <3>1, <4>1 DEF ChoiceWaits, MemoryWaits, Giving, Given, Clearing
    <3>2. CASE pc' = "undo"
      <4>1. /\ job'.pending = job.pending /\ job'.path = job.path /\ job'.data = job.data
            /\ job'.global = job.global
        BY <1>1, <3>2 DEF Fail, IInv, JobInv, Jobs
      <4>2. pc \in Giving /\ pc # "boot"
        BY <1>1, <3>2 DEF Giving, Given, Clearing, Labels, Unprotected
      <4> QED BY <1>1, <1>4, <3>2, <4>1, <4>2 DEF ChoiceWaits, MemoryWaits, Giving
    <3> QED BY <1>1, <3>1, <3>2
  <2> QED BY <1>1, <1>2, <1>4, <2>1, <2>2 DEF ChoiceWaits, ProfileTakes, Given, Clearing
<1> QED BY <1>3, <1>4 DEF ChoiceInv

\* In the beginning no choice is owed.
LEMMA InitChoice == Init => ChoiceInv
BY DEF Init, ChoiceInv, NoMode

\* Every step but a destruction keeps it.
LEMMA NextChoice ==
  ASSUME IInv, IInv', GoodInv, ChoiceInv, ~DamageFile, [Next]_vars
  PROVE  ChoiceInv'
<1>1. CASE Start \/ Boot \/ Crash \/ Return
  BY <1>1, StartChoice
<1>2. ASSUME NEW mode \in Backends, SelectForProfile(mode) \/ SelectOffline(mode)
      PROVE  ChoiceInv'
  BY <1>2, UserChoice, OfflineChoice
<1>3. CASE MakeBackup \/ Undone \/ \E dir \in Dirs : Activate(dir)
  BY <1>3, UserChoice
<1>4. CASE Queue \/ QueueDone
  BY <1>4, OfflineChoice
<1>5. CASE ReadPendingSame \/ Same \/ Clear \/ Cleared
  BY <1>5, ReadPendingSameChoice, SameChoice, ClearChoice, SettledChoice
<1>6. CASE ReadPending \/ Snapshot \/ Migrate \/ Open
  BY <1>6, ReadPendingChoice, SnapshotChoice, OpenChoice
<1>7. CASE Merge \/ Commit \/ PublishGlobal \/ Retire
  BY <1>7, MergeChoice, SameChoice, ClearChoice, SettledChoice
<1>8. CASE Undo \/ Fail \/ DoRequest
  BY <1>8, UndoChoice, FailChoice, DoRequestChoice
<1>9. CASE UNCHANGED vars
  BY <1>9 DEF ChoiceInv, ChoiceWaits, ChoiceSettles, ChoiceQueued, MemoryWaits, ProfileTakes,
     TakerHolds, ListLeaves, LastWrites, Takes, Holding, Requested, Main,
     vars, fileVars, memoryVars, ghostVars
<1> QED BY <1>1, <1>2, <1>3, <1>4, <1>5, <1>6, <1>7, <1>8, <1>9 DEF Next

\* Until something is destroyed, a choice that is owed waits or settles.
LEMMA ChoiceInvariance == Spec => [](spent.damage = 0 => ChoiceInv)
<1>1. Init => (spent.damage = 0 => ChoiceInv)
  BY InitChoice
<1>2. IInv /\ IInv' /\ HonestInv /\ (spent.damage = 0 => ChoiceInv) /\ [Next]_vars
        => (spent.damage = 0 => ChoiceInv)'
  BY Counting, NextChoice DEF HonestInv
<1> QED BY <1>1, <1>2, StoreInvariance, HonestInvariance, PTL DEF Spec

\* A choice made without a device survives whatever fails and wherever the program is
\* stopped, until the profile it is given to has been saved with it
\* (activate_device_profile).
THEOREM ChoiceSafety == Spec => []PendingChoiceIsKept
<1>1. IInv /\ (spent.damage = 0 => ChoiceInv) => PendingChoiceIsKept
  <2> SUFFICES ASSUME IInv, ChoiceInv, owed # NoMode
               PROVE  \/ View(disk[Global]) # NoFile /\ View(disk[Global]).pending = owed
                      \/ Settled
    BY DEF PendingChoiceIsKept, NoMode
  <2>1. \A c : Valid(c) => c # NoFile
    BY FileAssumption DEF Valid
  <2>2. CASE ChoiceWaits
    BY <2>1, <2>2 DEF ChoiceWaits, Holding, View, Main
  <2>3. CASE ChoiceSettles
    <3>1. taker # Unset /\ Valid(disk[taker].main) /\ disk[taker].main.backend = owed
      BY <2>3, Apart DEF ChoiceSettles, TakerHolds, Main
    <3>2. Valid(disk[Global].main) /\ disk[Global].main.pending = NoMode
      BY <2>3 DEF ChoiceSettles, Main
    <3> QED BY <2>1, <3>1, <3>2 DEF Settled, View, NoMode
  <2> QED BY <2>2, <2>3 DEF ChoiceInv
<1> QED BY <1>1, StoreInvariance, ChoiceInvariance, PTL

-----------------------------------------------------------------------------
(* What an activation that fails leaves *)

\* The profile directories and the directory of the application.
There == exists \cup {Global}

Unwinding == {"undo", "undone"}
Changing  == Giving \ Unwinding
Opened    == Changing \ {"migrate"}

\* Files, requests and the profile that is or was active are in directories that exist.
TreeInv ==
  /\ \A dir \in Dirs : dir \in exists \/ disk[dir] = NoFiles
  /\ path \in There
  /\ pc \in {"pending", "snapshot"} \cup Giving => job.path \in There
  /\ job.created => job.path # job.dir
  /\ \A i \in Requested : io[i].at \in There
  /\ pc \in Opened => job.dir \in exists
  /\ pc \in Opened \ {"open"} => path = job.dir
  /\ job.files # NoSnapshot => job.dir \in exists

\* As long as nothing has been destroyed.
Honest == IInv /\ GoodInv /\ Undamaged /\ spent \in Spent

\* Requests that repair, and save one value for one profile and any for the application.
Issuing(q, s, value) ==
  \A i \in 1..Len(q) :
     /\ q[i].do \in {"repair", "backup"}
     /\ q[i].at \in {s, Global}
     /\ q[i].do = "repair" => q[i].value = NoFile
     /\ q[i].do = "backup" /\ q[i].at # Global => q[i].value = value

LEMMA IssuingLists ==
  ASSUME NEW s, NEW value
  PROVE  /\ Issuing(<<>>, s, value)
         /\ Issuing(<<Repair(s)>>, s, value) /\ Issuing(<<Repair(Global)>>, s, value)
         /\ Issuing(Save(s, value), s, value)
         /\ \A content : Issuing(<<Write(Global, content)>>, s, value)
<1> DEFINE Asks(r) == /\ r.do \in {"repair", "backup"} /\ r.at \in {s, Global}
                      /\ r.do = "repair" => r.value = NoFile
                      /\ r.do = "backup" /\ r.at # Global => r.value = value
<1>1. /\ Asks(Repair(s)) /\ Asks(Repair(Global)) /\ Asks(Write(s, value))
      /\ \A content : Asks(Write(Global, content))
  BY DEF Repair, Write, Request
<1> HIDE DEF Asks
<1>2. ASSUME NEW r, Asks(r) PROVE Issuing(<<r>>, s, value)
  <2>1. \A i \in 1..Len(<<r>>) : <<r>>[i] = r
    BY OneInList
  <2> QED BY <1>2, <2>1 DEF Issuing, Asks
<1>3. ASSUME NEW r, NEW w, Asks(r), Asks(w) PROVE Issuing(<<r, w>>, s, value)
  <2>1. Len(<<r, w>>) = 2 /\ <<r, w>>[1] = r /\ <<r, w>>[2] = w /\ \A i \in 1..2 : i = 1 \/ i = 2
    OBVIOUS
  <2> QED BY <1>3, <2>1 DEF Issuing, Asks
<1>4. Issuing(<<>>, s, value)
  BY DEF Issuing
<1> QED BY <1>1, <1>2, <1>3, <1>4 DEF Save

\* What is in two lists in a row is in one of them.
LEMMA InOne ==
  ASSUME NEW S, NEW p \in Seq(S), NEW q \in Seq(S), NEW i \in 1..Len(p \o q)
  PROVE  \/ \E k \in 1..Len(p) : (p \o q)[i] = p[k]
         \/ \E k \in 1..Len(q) : (p \o q)[i] = q[k]
<1> DEFINE m == Len(p)
           n == Len(q)
           r == p \o q
<1>1. /\ m \in Nat /\ n \in Nat /\ i \in 1..(m + n)
      /\ \A k \in 1..m : r[k] = p[k]
      /\ \A k \in (m + 1)..(m + n) : r[k] = q[k - m]
  OBVIOUS
<1> HIDE DEF m, n, r
<1>2. i \in 1..m \/ (i \in (m + 1)..(m + n) /\ i - m \in 1..n)
  BY <1>1
<1>3. (\E k \in 1..m : r[i] = p[k]) \/ \E k \in 1..n : r[i] = q[k]
  BY <1>1, <1>2
<1> QED BY <1>3 DEF m, n, r

\* ... and so are both.
LEMMA IssuingBoth ==
  ASSUME NEW S, NEW p \in Seq(S), NEW q \in Seq(S), NEW s, NEW value,
         Issuing(p, s, value), Issuing(q, s, value)
  PROVE  Issuing(p \o q, s, value)
BY InOne DEF Issuing

\* What a step issues, except the execution of a request and the rollback, is for the
\* scope that is active after it.
LEMMA Issued ==
  ASSUME Honest, Honest', [Next]_vars, ~DoRequest, ~Undo, ~DamageFile
  PROVE  io' = io \/ Issuing(io', path', data')
<1>1. PICK s, v : s = path' /\ v = data'
  OBVIOUS
<1>2. Issuing(<<>>, s, v) /\ Issuing(<<Repair(s)>>, s, v) /\ Issuing(<<Repair(Global)>>, s, v)
      /\ Issuing(Save(s, v), s, v) /\ \A content : Issuing(<<Write(Global, content)>>, s, v)
  BY IssuingLists
<1>3. s \in Scopes /\ v \in Setting /\ Save(s, v) \in Seq(Fitting) /\ <<>> \in Seq(Fitting)
      /\ <<Repair(Global)>> \in Seq(Fitting)
  <2>1. s \in Scopes /\ v \in Setting /\ Fits(s, v) /\ Valid(v)
    BY <1>1, Known, OwnFits, GlobalFits DEF Honest, IInv, MemoryInv, Valid
  <2> QED BY <2>1, SaveIsFitting, RepairIsFitting, OneRequest, Known, EmptySeq
<1>4. CASE Start \/ Crash \/ Return \/ QueueDone \/ Cleared \/ Undone \/ MakeBackup \/ Snapshot
           \/ Migrate \/ Retire \/ Fail \/ UNCHANGED vars
  <2>1. io' = io \/ io' = <<>> \/ io' = <<Repair(Global)>>
    BY <1>4 DEF Start, Crash, Return, QueueDone, Cleared, Undone, MakeBackup, Snapshot, Migrate,
       Publish, Retire, Fail, Issue, fileVars, vars
  <2> QED BY <1>1, <1>2, <2>1
<1>5. CASE Same \/ Commit \/ Queue \/ Clear \/ PublishGlobal \/ \E dir \in Dirs : Activate(dir)
  <2>1. io' = <<>> \/ io' = <<Repair(Global)>> \/ \E content : io' = <<Write(Global, content)>>
    BY <1>5 DEF Same, Commit, Queue, Clear, PublishGlobal, Activate, Issue
  <2> QED BY <1>1, <1>2, <2>1
<1>6. CASE ReadPendingSame \/ (\E mode \in Backends : SelectForProfile(mode) \/ SelectOffline(mode))
           \/ Boot
  <2>1. CASE ReadPendingSame
    BY <1>1, <1>2, <2>1 DEF ReadPendingSame, Issue, fileVars
  <2>2. ASSUME NEW mode, SelectForProfile(mode) \/ SelectOffline(mode)
        PROVE  io' = <<Repair(Global)>> \/ io' = Save(s, v)
    BY <1>1, <2>2 DEF SelectForProfile, SelectOffline, Issue
  <2>3. CASE Boot
    <3>1. s = Global
      BY <1>1, <2>3 DEF Boot, At, Honest, IInv, MemoryInv
    <3>2. io' = <<>> \/ io' = Save(Global, v)
      BY <1>1, <2>3 DEF Boot, Issue
    <3> QED BY <1>1, <1>2, <3>1, <3>2
  <2> QED BY <1>1, <1>2, <1>6, <2>1, <2>2, <2>3
<1>7. CASE ReadPending
  <2>1. io' = Save(s, v) \o <<Repair(Global)>>
    BY <1>1, <1>7 DEF ReadPending, Issue, memoryVars
  <2> QED BY <1>1, <1>2, <1>3, <2>1, IssuingBoth
<1>8. CASE Open
  <2>1. io' = io \/ io' = <<Repair(s)>>
    BY <1>1, <1>8 DEF Open, Issue, fileVars
  <2> QED BY <1>1, <1>2, <2>1
<1>9. CASE Merge
  <2>1. io' = Save(s, v) \o Save(s, v) \/ io' = <<>> \o Save(s, v)
    BY <1>1, <1>9 DEF Merge, Issue
  <2> QED BY <1>1, <1>2, <1>3, <2>1, IssuingBoth
<1> QED BY <1>4, <1>5, <1>6, <1>7, <1>8, <1>9 DEF Next

\* The requests of a step are for directories that exist, if the active one does.
LEMMA TreeRequests ==
  ASSUME Honest, Honest', [Next]_vars, ~DoRequest, ~Undo, ~DamageFile, TreeInv,
         path' \in There', exists \subseteq exists' \/ io = <<>>
  PROVE  \A i \in 1..Len(io') : io'[i].at \in There'
<1>1. CASE io' = io
  <2>1. Len(<<>>) = 0
    OBVIOUS
  <2> QED BY <1>1, <2>1 DEF TreeInv, Requested, There
<1>2. CASE Issuing(io', path', data')
  BY <1>2 DEF Issuing, There
<1> QED BY <1>1, <1>2, Issued

\* A step that changes no file, no directory but by adding one, and nothing that the
\* operation remembers of them.
LEMMA TreeStays ==
  ASSUME Honest, Honest', [Next]_vars, ~DoRequest, ~Undo, ~DamageFile, TreeInv,
         UNCHANGED disk, exists \subseteq exists', path' \in There',
         \/ ~job'.created /\ job'.files = NoSnapshot
         \/ UNCHANGED <<job.created, job.path, job.dir, job.files>>,
         pc' \in {"pending", "snapshot"} \cup Giving => job'.path \in There',
         pc' \in Opened => job'.dir \in exists',
         pc' \in Opened \ {"open"} => path' = job'.dir
  PROVE  TreeInv'
<1>1. \A i \in 1..Len(io') : io'[i].at \in There'
  BY TreeRequests
<1> QED BY <1>1 DEF TreeInv, Requested, There

\* The user's steps, and the first of an activation.
LEMMA UserTree ==
  ASSUME Honest, Honest', [Next]_vars, ~DoRequest, ~Undo, ~DamageFile, TreeInv,
         \/ Start \/ Boot \/ Crash \/ Return \/ QueueDone \/ Cleared \/ Undone \/ MakeBackup
         \/ Queue \/ ReadPending \/ Snapshot \/ ReadPendingSame
         \/ \E mode \in Backends : SelectForProfile(mode) \/ SelectOffline(mode)
         \/ \E dir \in Dirs : Activate(dir)
  PROVE  TreeInv'
<1>1. UNCHANGED disk
  BY DEF Start, Boot, Crash, Return, QueueDone, Cleared, Undone, MakeBackup, Queue, ReadPending,
         Snapshot, ReadPendingSame, SelectForProfile, SelectOffline, Activate, Issue, fileVars
<1>2. exists \subseteq exists' /\ path' \in {path, Global}
  BY DEF Start, Boot, Crash, Return, QueueDone, Cleared, Undone, MakeBackup, Queue, ReadPending,
         Snapshot, ReadPendingSame, SelectForProfile, SelectOffline, Activate, dirVars, memoryVars
<1>3. path' \in There' /\ path \in There
  BY <1>2 DEF TreeInv, There
<1>4. job \in Jobs /\ Global \notin Dirs /\ \A dir \in Dirs : dir \in There => dir \in exists
  BY Apart DEF Honest, IInv, JobInv, There
<1>5. CASE \/ Start \/ Boot \/ Crash \/ Return \/ QueueDone \/ Cleared \/ Undone \/ MakeBackup \/ Queue
           \/ \E mode \in Backends : SelectForProfile(mode) \/ SelectOffline(mode)
  <2>1. pc' \notin {"pending", "snapshot"} \cup Giving
    BY <1>5 DEF Start, Boot, Crash, Return, QueueDone, Cleared, Undone, MakeBackup, Queue,
       SelectForProfile, SelectOffline, Giving, Given, Clearing, Begin, At
  <2>2. job' = job \/ job' = NoJob \/ \E mode : job' = [job EXCEPT !.pending = mode]
    BY <1>5 DEF Start, Boot, Crash, Return, QueueDone, Cleared, Undone, MakeBackup, Queue,
       SelectForProfile, SelectOffline
  <2>3. \/ ~job'.created /\ job'.files = NoSnapshot
        \/ UNCHANGED <<job.created, job.path, job.dir, job.files>>
    BY <1>4, <2>2, NoJobIsIdle DEF Jobs
  <2> QED BY <1>1, <1>2, <1>3, <2>1, <2>3, TreeStays DEF Opened, Changing
<1>6. ASSUME NEW dir \in Dirs, Activate(dir) PROVE TreeInv'
  <2>1. job' = [NoJob EXCEPT !.dir = dir, !.path = path, !.data = data] /\ pc' = "pending"
        /\ exists' = exists
    BY <1>6 DEF Activate, dirVars
  <2>2. ~job'.created /\ job'.files = NoSnapshot /\ job'.path = path
    BY <2>1, NoJobIsIdle DEF Jobs
  <2> QED BY <1>1, <1>2, <1>3, <2>1, <2>2, TreeStays
          DEF Opened, Changing, Giving, Given, Clearing, There
<1>7. CASE ReadPending
  <2>1. job' = [job EXCEPT !.pending = PendingMode] /\ pc = "pending" /\ pc' = "snapshot"
        /\ exists' = exists
    BY <1>7 DEF ReadPending, At, dirVars
  <2>2. UNCHANGED <<job.created, job.path, job.dir, job.files>>
    BY <1>4, <2>1 DEF Jobs
  <2>3. job'.path \in There'
    BY <2>1, <2>2 DEF TreeInv, There
  <2> QED BY <1>1, <1>2, <1>3, <2>1, <2>2, <2>3, TreeStays
          DEF Opened, Changing, Giving, Given, Clearing
<1>8. CASE Snapshot \/ (ReadPendingSame /\ pc' = "same")
  <2> DEFINE taken == IF job.pending # "" /\ job.dir \in exists
                      THEN disk[job.dir] ELSE NoSnapshot
  <2>1. /\ \/ job' = [job EXCEPT !.global = disk[Global], !.files = taken]
           \/ job' = [job EXCEPT !.pending = PendingMode, !.files = disk[path],
                                 !.global = disk[Global]]
        /\ pc \in {"pending", "snapshot"} /\ pc' \in {"migrate", "same"}
        /\ exists' = exists
    BY <1>8 DEF Snapshot, ReadPendingSame, At, dirVars
  <2> HIDE DEF taken
  <2>2. UNCHANGED <<job.created, job.path, job.dir>>
    BY <1>4, <2>1 DEF Jobs
  <2>3. ~job.created /\ job.dir \in Dirs
    BY <2>1 DEF Honest, IInv, CopyInv, Copying, JobInv, Working
  <2>4. pc' = "same" => job.dir = path /\ path' = path /\ path \in exists
    BY <1>3, <1>4, <1>8, <2>3 DEF Snapshot, ReadPendingSame
  <2>5. job'.files # NoSnapshot => job.dir \in exists
    <3>1. CASE Snapshot
      <4>1. job' = [job EXCEPT !.global = disk[Global], !.files = taken]
        BY <3>1 DEF Snapshot, taken
      <4>2. job'.files = taken
        BY <1>4, <4>1 DEF Jobs
      <4> QED BY <4>2 DEF taken
    <3>2. CASE pc' = "same"
      BY <2>4, <3>2
    <3> QED BY <1>8, <3>1, <3>2
  <2>6. \A i \in 1..Len(io') : io'[i].at \in There'
    BY <1>2, <1>3, TreeRequests
  <2>7. job'.path \in There'
    BY <2>1, <2>2 DEF TreeInv, There
  <2> QED BY <1>1, <1>3, <2>1, <2>2, <2>3, <2>4, <2>5, <2>6, <2>7
          DEF TreeInv, Requested, There, Opened, Changing, Giving, Given, Clearing
<1>9. CASE ReadPendingSame /\ pc' # "same"
  <2>1. job' = NoJob /\ pc' = "idle"
    BY <1>9 DEF ReadPendingSame
  <2> QED BY <1>1, <1>2, <1>3, <2>1, TreeStays, NoJobIsIdle
          DEF Opened, Changing, Giving, Given, Clearing
<1> QED BY <1>5, <1>6, <1>7, <1>8, <1>9

\* The steps of an activation.
LEMMA ActivationTree ==
  ASSUME Honest, Honest', [Next]_vars, ~DoRequest, ~Undo, ~DamageFile, TreeInv,
         Same \/ Clear \/ Open \/ Merge \/ Commit \/ PublishGlobal \/ Fail
  PROVE  TreeInv'
<1>1. /\ UNCHANGED <<disk, exists>>
      /\ (pc \in Giving /\ job.path \in There) \/ Fail
      /\ path' = path \/ (Open /\ path' = job.dir)
  BY DEF Same, Clear, Open, Merge, Commit, PublishGlobal, Fail, Issue, fileVars, dirVars,
         memoryVars, At, TreeInv, Giving, Given, Clearing
<1>2. job \in Jobs
  BY DEF Honest, IInv, JobInv
<1>3. CASE Same \/ Clear \/ Open \/ Merge \/ Commit \/ PublishGlobal
  <2>1. job' = job \/ job' = [job EXCEPT !.committing = TRUE]
    BY <1>3 DEF Same, Clear, Open, Merge, Commit, PublishGlobal
  <2>2. UNCHANGED <<job.created, job.path, job.dir, job.files>>
    BY <1>2, <2>1 DEF Jobs
  <2>3. pc \in Opened /\ job.dir \in exists /\ job.path \in There /\ path \in There
        /\ ((path' = path /\ path = job.dir) \/ path' = job.dir)
    BY <1>1, <1>3 DEF Same, Clear, Open, Merge, Commit, PublishGlobal, At, TreeInv,
       Opened, Changing, Unwinding, Giving, Given, Clearing
  <2>4. path' \in There' /\ job'.path \in There'
    BY <1>1, <2>2, <2>3 DEF There
  <2> QED BY <1>1, <2>2, <2>3, <2>4, TreeStays
<1>4. CASE Fail
  <2>1. path' \in There'
    BY <1>1, <1>4 DEF TreeInv, There, Open, Fail
  <2>2. CASE pc \in Unprotected
    <3>1. pc' = "idle" /\ job' = NoJob
      BY <1>4, <2>2 DEF Fail
    <3> QED BY <1>1, <2>1, <3>1, TreeStays, NoJobIsIdle
            DEF Opened, Changing, Giving, Given, Clearing
  <2>3. CASE pc \notin Unprotected
    <3>1. pc' = "undo" /\ pc \in Giving
      <4>1. pc # "idle" /\ pc \in Labels
        BY <1>4 DEF Honest, GoodInv, KeptInv, Fail
      <4> QED BY <1>4, <2>3, <4>1 DEF Fail, Unprotected, Labels, Giving, Given, Clearing
    <3>2. UNCHANGED <<job.created, job.path, job.dir, job.files>>
      BY ZenonT(60), <1>2, <1>4, <2>3 DEF Fail, Jobs
    <3>3. job'.path \in There'
      BY <1>1, <3>1, <3>2 DEF TreeInv, There
    <3> QED BY <1>1, <2>1, <3>1, <3>2, <3>3, TreeStays DEF Opened, Changing, Unwinding
  <2> QED BY <2>2, <2>3
<1> QED BY <1>3, <1>4

\* A directory appears with its files.
LEMMA MigrateTree ==
  ASSUME Honest, Honest', [Next]_vars, ~DoRequest, ~Undo, ~DamageFile, TreeInv, Migrate
  PROVE  TreeInv'
<1>1. /\ pc = "migrate" /\ pc' = "open" /\ path' = path /\ io = <<>>
      /\ job.dir \in Dirs /\ job.dir # Global /\ job \in Jobs /\ disk \in [Scopes -> Files]
  <2>1. pc = "migrate" /\ pc' = "open" /\ path' = path /\ io = <<>>
    BY DEF Migrate, Publish, At, memoryVars
  <2> QED BY <2>1, Apart DEF Honest, IInv, JobInv, FilesInv, Working
<1>2. job.path \in There /\ path \in There
  BY <1>1 DEF TreeInv, Giving
<1>3. CASE job.dir \in exists /\ UNCHANGED <<disk, exists, job>>
  BY <1>1, <1>2, <1>3, TreeStays DEF Opened, Changing, Giving, There
<1>4. ASSUME NEW source, Publish(job.dir, source), job.dir \notin exists PROVE TreeInv'
  <2>1. /\ exists' = exists \cup {job.dir}
        /\ \E files : disk' = [disk EXCEPT ![job.dir] = files]
        /\ job' = [job EXCEPT !.source = source, !.created = TRUE]
    BY <1>4 DEF Publish
  <2>2. UNCHANGED <<job.path, job.dir, job.files>>
    BY <1>1, <2>1 DEF Jobs
  <2>3. \A dir \in Dirs : dir \in exists' \/ disk'[dir] = NoFiles
    BY <1>1, <2>1, Known DEF TreeInv
  <2>4. job.path # job.dir
    BY <1>1, <1>2, <1>4 DEF There
  <2>5. \A i \in 1..Len(io') : io'[i].at \in There'
    BY <1>1, <1>2, <2>1, TreeRequests DEF There
  <2> QED BY <1>1, <1>2, <2>1, <2>2, <2>3, <2>4, <2>5
          DEF TreeInv, Requested, There, Opened
<1> QED BY <1>3, <1>4 DEF Migrate, fileVars, dirVars

\* The source disappears; the profile that is active is another.
LEMMA RetireTree ==
  ASSUME Honest, Honest', [Next]_vars, ~DoRequest, ~Undo, ~DamageFile, TreeInv, Retire
  PROVE  TreeInv'
<1>1. /\ pc = "retire" /\ pc' = "idle" /\ path' = path /\ io = <<>> /\ job' = NoJob
      /\ disk \in [Scopes -> Files]
  BY DEF Retire, At, memoryVars, Honest, IInv, FilesInv
<1>2. path = job.dir /\ path \in exists
  BY <1>1 DEF TreeInv, Opened, Changing, Unwinding, Giving, Given, Clearing
<1>3. CASE UNCHANGED <<disk, exists>>
  BY <1>1, <1>2, <1>3, TreeStays, NoJobIsIdle DEF Opened, Changing, Giving, Given, Clearing, There
<1>4. CASE job.source # Unset /\ Remove(job.source)
  <2>1. /\ exists' = exists \ {job.source}
        /\ disk' = [disk EXCEPT ![job.source] = NoFiles]
    BY <1>4 DEF Remove
  <2>2. job.source # job.dir
    BY <1>1, <1>4 DEF Honest, IInv, CopyInv, Copying
  <2>3. path' \in There'
    BY <1>1, <1>2, <2>1, <2>2 DEF There
  <2>4. \A dir \in Dirs : dir \in exists' \/ disk'[dir] = NoFiles
    BY <1>1, <2>1, Known DEF TreeInv
  <2>5. \A i \in 1..Len(io') : io'[i].at \in There'
    BY <1>1, <2>3, TreeRequests
  <2> QED BY <1>1, <2>3, <2>4, <2>5, NoJobIsIdle
          DEF TreeInv, Requested, Opened, Changing, Giving, Given, Clearing
<1> QED BY <1>3, <1>4 DEF Retire, fileVars, dirVars

\* What the rollback requests.
LEMMA UndoRequests ==
  ASSUME Honest, Undo, NEW i \in 1..Len(io')
  PROVE  \/ /\ ~job.created /\ job.files # NoSnapshot /\ io'[i].at = job.dir
            /\ \/ io'[i] = Request("putmain", job.dir, job.files.main)
               \/ io'[i] = Request("putbak", job.dir, job.files.bak)
         \/ /\ job.committing /\ io'[i].at = Global
            /\ \/ io'[i] = Request("putmain", Global, job.global.main)
               \/ io'[i] = Request("putbak", Global, job.global.bak)
<1> DEFINE a == Request("putmain", job.dir, job.files.main)
           b == Request("putbak", job.dir, job.files.bak)
           c == Request("putmain", Global, job.global.main)
           d == Request("putbak", Global, job.global.bak)
           one == IF ~job.created /\ job.files # NoSnapshot THEN <<a, b>> ELSE <<>>
           two == IF job.committing THEN <<c, d>> ELSE <<>>
<1>1. io' = one \o two
  BY DEF Undo, Restore
<1>2. a.at = job.dir /\ b.at = job.dir /\ c.at = Global /\ d.at = Global
  BY DEF Request
<1> HIDE DEF a, b, c, d
<1> DEFINE S == {a, b, c, d}
<1>3. one \in Seq(S) /\ two \in Seq(S)
  <2>1. <<a, b>> \in Seq(S) /\ <<c, d>> \in Seq(S) /\ <<>> \in Seq(S)
    OBVIOUS
  <2> QED BY <2>1
<1> HIDE DEF S, one, two
<1>4. \/ \E k \in 1..Len(one) : io'[i] = one[k]
      \/ \E k \in 1..Len(two) : io'[i] = two[k]
  <2>1. i \in 1..Len(one \o two)
    BY <1>1
  <2> QED BY <1>1, <1>3, <2>1, InOne
<1>5. \A k \in 1..2 : k = 1 \/ k = 2
  OBVIOUS
<1>6. /\ Len(<<a, b>>) = 2 /\ <<a, b>>[1] = a /\ <<a, b>>[2] = b
      /\ Len(<<c, d>>) = 2 /\ <<c, d>>[1] = c /\ <<c, d>>[2] = d /\ Len(<<>>) = 0
  OBVIOUS
<1>7. (\E k \in 1..Len(one) : io'[i] = one[k])
        => ~job.created /\ job.files # NoSnapshot /\ io'[i] \in {a, b}
  BY <1>5, <1>6 DEF one
<1>8. (\E k \in 1..Len(two) : io'[i] = two[k]) => job.committing /\ io'[i] \in {c, d}
  BY <1>5, <1>6 DEF two
<1> QED BY <1>2, <1>4, <1>7, <1>8 DEF a, b, c, d

\* The directory that was made for the activation disappears, and what is put back is
\* put back where there is a directory.
LEMMA UndoTree ==
  ASSUME Honest, Honest', Undo, TreeInv
  PROVE  TreeInv'
<1>1. /\ pc = "undo" /\ pc' = "undone" /\ path' = job.path /\ io = <<>> /\ job' = job
      /\ disk \in [Scopes -> Files]
  BY DEF Undo, At, Honest, IInv, FilesInv
<1>2. job.path \in There
  BY <1>1 DEF TreeInv, Giving
<1>3. /\ \/ UNCHANGED <<disk, exists>>
         \/ /\ job.created /\ exists' = exists \ {job.dir}
            /\ disk' = [disk EXCEPT ![job.dir] = NoFiles]
      /\ \A i \in 1..Len(io') : io'[i].at = Global
                                \/ (~job.created /\ job.files # NoSnapshot /\ io'[i].at = job.dir)
  BY UndoRequests DEF Undo, Remove, dirVars
<1>4. path' \in There' /\ job'.path \in There'
  BY <1>1, <1>2, <1>3 DEF TreeInv, There
<1>5. \A i \in 1..Len(io') : io'[i].at \in There'
  BY <1>3 DEF TreeInv, There
<1>6. \A dir \in Dirs : dir \in exists' \/ disk'[dir] = NoFiles
  BY <1>1, <1>3, Known DEF TreeInv
<1>7. job'.files # NoSnapshot => job'.dir \in exists'
  BY <1>1, <1>3 DEF TreeInv, Honest, GoodInv, KeptInv
<1> QED BY <1>1, <1>4, <1>5, <1>6, <1>7 DEF TreeInv, Requested, Opened, Changing, Unwinding

\* A request is executed in a directory that exists.
LEMMA RequestTree ==
  ASSUME Honest, Honest', DoRequest, TreeInv
  PROVE  TreeInv'
<1>1. FilesInv /\ GhostInv /\ Execute /\ UNCHANGED <<pc, job, exists, path>>
  BY DEF Honest, IInv, GoodInv, DoRequest, dirVars, memoryVars
<1>2. PICK z, value : z = This.at /\ value = This.value
  OBVIOUS
<1>3. z \in Scopes
  <2>1. io # <<>> /\ io \in Seq(Fitting)
    BY <1>1 DEF Execute, DoRepair, DoRebuild, DoBackup, DoReplace, DoPut, Doing, FilesInv
  <2> QED BY <1>2, <2>1, QueueMoves DEF Fitting, Requests
<1>4. PICK T : T = There
  OBVIOUS
<1>5. /\ \A i \in 1..Len(io') : io'[i].at \in T
      /\ \A s \in Scopes \ T : disk'[s] = disk[s]
  BY <1>1, <1>2, <1>3, <1>4, ScopesStay DEF TreeInv
<1> QED BY <1>1, <1>4, <1>5, Known, Apart DEF TreeInv, Requested, There

\* No step leaves files, or requests them, where there is no directory.
LEMMA NextTree ==
  ASSUME Honest, Honest', TreeInv, [Next]_vars, ~DamageFile
  PROVE  TreeInv'
<1>1. CASE DoRequest \/ Undo
  BY <1>1, RequestTree, UndoTree
<1>2. CASE ~DoRequest /\ ~Undo /\ Next
  BY <1>2, UserTree, ActivationTree, MigrateTree, RetireTree DEF Next
<1>3. CASE UNCHANGED vars
  BY <1>3 DEF TreeInv, There, Requested, vars, fileVars, dirVars, memoryVars
<1> QED BY <1>1, <1>2, <1>3

-----------------------------------------------------------------------------
(* Profiles that are complete *)

\* Content of a profile that can be read, with folders of its own.
Whole(content) == content # Damaged /\ (Valid(content) => content.home # Unset)

\* The files of the profiles are whole, and so is what would be written to them.
WholeInv ==
  /\ \A dir \in Dirs : Whole(Main(dir)) /\ Whole(Bak(dir))
  /\ \A i \in Requested : io[i].at \in Dirs =>
        /\ Whole(io[i].value)
        /\ io[i].do = "rebuild" => Valid(Bak(io[i].at))
  /\ job.files # NoSnapshot => Whole(job.files.main) /\ Whole(job.files.bak)

\* The repair of files that can be read changes none of them, and rebuilds from a copy.
LEMMA RepairReads ==
  ASSUME FilesInv, Execute, NEW z \in Scopes, z = This.at, This.do = "repair",
         Main(z) # Damaged, Bak(z) # Damaged
  PROVE  disk' = disk /\ (Dropped \/ (Became(Request("rebuild", z, NoFile)) /\ Valid(Bak(z))))
<1>1. io # <<>> /\ io \in Seq(Fitting) /\ DoRepair
  BY DEF Execute, DoRepair, DoRebuild, DoBackup, DoReplace, DoPut, Doing, FilesInv
<1>2. Bak(z) \in Contents
  BY DEF FilesInv, Bak, Files
<1>3. \/ disk' = disk /\ Then(<<>>)
      \/ Bak(z) # NoFile /\ disk' = disk /\ Then(<<Request("rebuild", z, NoFile)>>)
  BY <1>1 DEF DoRepair
<1> QED BY <1>1, <1>2, <1>3, QueueMoves DEF Contents, Valid

\* A request is executed.
LEMMA RequestWhole ==
  ASSUME Honest, Honest', DoRequest, WholeInv
  PROVE  WholeInv'
<1>1. FilesInv /\ GhostInv /\ Execute /\ UNCHANGED job /\ QueueInv /\ QueueInv'
  BY DEF Honest, IInv, GoodInv, DoRequest, Undamaged
<1>2. /\ io # <<>> /\ io \in Seq(Fitting) /\ io' \in Seq(Fitting) /\ 1 \in Requested
      /\ This = io[1] /\ This \in Requests /\ Len(io') \in Nat
  <2>1. io # <<>> /\ io \in Seq(Fitting)
    BY <1>1 DEF Execute, DoRepair, DoRebuild, DoBackup, DoReplace, DoPut, Doing, FilesInv
  <2> QED BY <1>1, <2>1, QueueMoves, ExecuteKeeps DEF FilesInv, Fitting, Requested
<1>3. PICK z, value : z = This.at /\ value = This.value
  OBVIOUS
<1>4. z \in Scopes /\ (z \in Dirs => Whole(value) /\ Whole(Main(z)) /\ Whole(Bak(z)))
  BY <1>2, <1>3 DEF WholeInv, Requests
<1>5. \A s \in Scopes \ {z} : disk'[s] = disk[s]
  BY <1>1, <1>3, <1>4, OneScope
<1>6. ASSUME z \in Dirs => Whole(Main(z)') /\ Whole(Bak(z)')
      PROVE  \A dir \in Dirs : Whole(Main(dir)') /\ Whole(Bak(dir)')
  BY <1>5, <1>6, Known DEF WholeInv, Main, Bak
<1>7. ASSUME Dropped
      PROVE  \A i \in 1..Len(io') : /\ io'[i].at \in Dirs => Whole(io'[i].value)
                                    /\ io'[i].do # "rebuild"
  <2>1. ASSUME NEW i \in 1..Len(io') PROVE i + 1 \in Requested /\ io'[i] = io[i + 1] /\ i + 1 > 1
    BY <1>2, <1>7, NextRequests
  <2> QED BY <1>1, <2>1 DEF WholeInv, QueueInv
<1>8. ASSUME NEW r, Became(r), r.at = z, z \in Dirs => Whole(r.value)
      PROVE  \A i \in 1..Len(io') : /\ io'[i].at \in Dirs => Whole(io'[i].value)
                                    /\ io'[i].do = "rebuild" => io'[i] = r
  <2>1. ASSUME NEW i \in 1..Len(io')
        PROVE  /\ io'[i] = r \/ (i \in Requested /\ io'[i] = io[i])
               /\ i = 1 => io'[i] = r
    BY <1>2, <1>8, NextRequests DEF Became
  <2>2. ASSUME NEW i \in 1..Len(io'), io'[i].do = "rebuild" PROVE i = 1
    BY <1>1, <2>2 DEF QueueInv, Requested
  <2> QED BY <1>8, <2>1, <2>2 DEF WholeInv
<1>9. Whole(NoFile)
  BY FileAssumption DEF Whole, Valid
<1> DEFINE Kept == /\ z \in Dirs => Whole(Main(z)') /\ Whole(Bak(z)')
                   /\ \/ Dropped
                      \/ \E r : /\ Became(r) /\ r.at = z /\ (z \in Dirs => Whole(r.value))
                                /\ z \in Dirs /\ r.do = "rebuild" => Valid(Bak(z)')
<1>10. Kept => WholeInv'
  <2>1. CASE Dropped
    BY <1>1, <1>6, <1>7, <2>1 DEF WholeInv, Requested
  <2>2. ASSUME NEW r, Became(r), r.at = z, z \in Dirs => Whole(r.value),
               z \in Dirs /\ r.do = "rebuild" => Valid(Bak(z)'), Kept
        PROVE  WholeInv'
    <3>0. \A i \in 1..Len(io') : /\ io'[i].at \in Dirs => Whole(io'[i].value)
                                 /\ io'[i].do = "rebuild" => io'[i] = r
      BY <1>8, <2>2
    <3>1. \A i \in 1..Len(io') : io'[i].do = "rebuild" => io'[i] = r
      BY <3>0
    <3>7. \A i \in 1..Len(io') : io'[i].at \in Dirs => Whole(io'[i].value)
      BY <3>0
    <3>2. z \in Dirs /\ r.do = "rebuild" => disk'[z].bak \in Values
      BY <2>2 DEF Bak, Valid
    <3>3. ASSUME NEW i \in 1..Len(io'), io'[i].at \in Dirs, io'[i].do = "rebuild"
          PROVE  disk'[io'[i].at].bak \in Values
      <4> HIDE DEF Kept
      <4>1. io'[i] = r
        BY <3>1, <3>3
      <4>2. z \in Dirs /\ r.do = "rebuild" /\ io'[i].at = z
        BY <2>2, <3>3, <4>1
      <4>3. disk'[z].bak \in Values
        BY <3>2, <4>2
      <4> QED BY <4>2, <4>3
    <3>4. \A dir \in Dirs : Whole(Main(dir)') /\ Whole(Bak(dir)')
      BY <1>6, <2>2
    <3>5. job'.files # NoSnapshot => Whole(job'.files.main) /\ Whole(job'.files.bak)
      BY <1>1 DEF WholeInv
    <3> HIDE DEF Kept
    <3>6. \A i \in 1..Len(io') : io'[i].at \in Dirs =>
             /\ Whole(io'[i].value)
             /\ io'[i].do = "rebuild" => disk'[io'[i].at].bak \in Values
      BY <3>3, <3>7
    <3> QED BY <3>4, <3>5, <3>6 DEF WholeInv, Requested, Valid, Bak
  <2> QED BY <2>1, <2>2
<1>11. CASE This.do = "repair"
  <2>1. CASE z \in Dirs
    <3>1. Main(z) # Damaged /\ Bak(z) # Damaged
      BY <1>4, <2>1 DEF Whole
    <3>2. disk' = disk /\ (Dropped \/ (Became(Request("rebuild", z, NoFile)) /\ Valid(Bak(z))))
      BY <1>1, <1>3, <1>4, <1>11, <3>1, RepairReads
    <3> QED BY <1>4, <1>9, <1>10, <3>2 DEF Request, Main, Bak
  <2>2. CASE z \notin Dirs
    <3>1. Dropped \/ Became(Request("rebuild", z, NoFile))
      BY <1>1, <1>3, <1>4, <1>11, Effects
    <3> QED BY <1>10, <2>2, <3>1 DEF Request
  <2> QED BY <2>1, <2>2
<1>12. CASE This.do = "rebuild"
  <2>1. z \in Dirs => Valid(Bak(z))
    BY <1>2, <1>3, <1>12 DEF WholeInv
  <2>2. PICK content : /\ Became(Write(z, content)) /\ Main(z)' = Main(z)
                       /\ Valid(Bak(z)) => content = Bak(z) /\ Bak(z)' = Bak(z)
    BY <1>1, <1>3, <1>4, <1>12, Effects
  <2> QED BY <1>4, <1>10, <2>1, <2>2 DEF Write, Request
<1>13. CASE This.do = "backup"
  <2>1. /\ Became(Request("replace", z, value)) /\ Main(z)' = Main(z)
        /\ Bak(z)' \in {Main(z), Bak(z), value}
    BY <1>1, <1>3, <1>4, <1>13, Effects
  <2> QED BY <1>4, <1>10, <2>1 DEF Request
<1>14. CASE This.do \in {"replace", "putmain", "putbak"}
  <2>1. Dropped /\ Main(z)' \in {Main(z), value} /\ Bak(z)' \in {Bak(z), value}
    BY <1>1, <1>3, <1>4, <1>14, Effects
  <2> QED BY <1>4, <1>10, <2>1
<1> QED BY <1>2, <1>11, <1>12, <1>13, <1>14 DEF Requests

\* The files that the program finds are those of profiles, or of none.
LEMMA InitWhole == Init => WholeInv
<1> SUFFICES ASSUME Init PROVE WholeInv
  OBVIOUS
<1>1. io = <<>> /\ job = NoJob /\ disk = [s \in Scopes |-> [main |-> newest[s], bak |-> NoFile]]
  BY DEF Init
<1>2. ASSUME NEW dir \in Dirs PROVE newest[dir] # Damaged /\ (Valid(newest[dir]) => newest[dir].home # Unset)
  <2>1. PICK mode \in Backends :
          newest = [z \in Scopes |->
                      IF z \in exists
                      THEN [backend |-> mode, pending |-> "", home |-> z] ELSE NoFile]
    BY DEF Init
  <2>2. CASE dir \in exists
    <3> DEFINE r == [backend |-> mode, pending |-> "", home |-> dir]
    <3>1. newest[dir] = r /\ r.home = dir
      BY <2>1, <2>2, Known
    <3>2. r \in Setting
      BY <2>1, Known DEF Setting, AllScopes
    <3> HIDE DEF r
    <3> QED BY <3>1, <3>2, Known, Apart
  <2>3. CASE dir \notin exists
    BY <2>1, <2>3, Known DEF Valid
  <2> QED BY <2>2, <2>3
<1>3. \A dir \in Dirs : Main(dir) = newest[dir] /\ Bak(dir) = NoFile
  BY <1>1, Known DEF Main, Bak
<1>4. Len(io) = 0
  BY <1>1
<1>5. Whole(NoFile)
  BY FileAssumption DEF Whole, Valid
<1> QED BY <1>1, <1>2, <1>3, <1>4, <1>5, NoJobIsIdle DEF WholeInv, Whole, Requested

\* The files that a step moves or remembers are those of a profile, or none.
LEMMA FilesMove ==
  ASSUME Honest, [Next]_vars, ~DoRequest, ~DamageFile
  PROVE  /\ \A dir \in Dirs : \/ disk'[dir] = disk[dir] \/ disk'[dir] = NoFiles
                              \/ \E other \in Dirs : disk'[dir] = disk[other]
         /\ disk' = disk \/ io = <<>>
         /\ \/ job'.files = job.files \/ job'.files = NoSnapshot
            \/ \E dir \in Dirs : job'.files = disk[dir]
<1>1. job \in Jobs /\ disk \in [Scopes -> Files]
  BY DEF Honest, IInv, JobInv, FilesInv
<1>2. CASE Migrate
  <2>1. io = <<>> /\ job.dir \in Dirs
    BY <1>2 DEF Migrate, At, Honest, IInv, JobInv, Working
  <2>2. ASSUME NEW source \in Dirs \cup {Unset}, Publish(job.dir, source)
        PROVE  /\ \A dir \in Dirs : \/ disk'[dir] = disk[dir] \/ disk'[dir] = NoFiles
                                    \/ \E other \in Dirs : disk'[dir] = disk[other]
               /\ job'.files = job.files
    <3>1. /\ disk' = [disk EXCEPT ![job.dir] = IF source = Unset THEN NoFiles ELSE disk[source]]
          /\ job' = [job EXCEPT !.source = source, !.created = TRUE]
      BY <2>2 DEF Publish
    <3> QED BY <1>1, <2>1, <3>1, Known DEF Jobs
  <2>3. Legacy(job.dir) \in Dirs /\ Opposite(job.dir) \in Dirs
    BY <2>1, SourcesAreOfTheDevice
  <2> QED BY <1>2, <2>1, <2>2, <2>3 DEF Migrate, fileVars
<1>3. CASE Retire
  <2>1. io = <<>> /\ job' = NoJob
    BY <1>3 DEF Retire, At
  <2> QED BY <1>1, <1>3, <2>1, NoJobIsIdle, Known DEF Retire, Remove, fileVars
<1>4. CASE Undo
  <2>1. io = <<>> /\ job' = job
    BY <1>4 DEF Undo, At
  <2> QED BY <1>1, <1>4, <2>1, Known DEF Undo, Remove
<1>5. CASE Snapshot \/ ReadPendingSame
  <2>1. disk' = disk
    BY <1>5 DEF Snapshot, ReadPendingSame, Issue, fileVars
  <2>2. job.dir \in Dirs
    BY <1>5 DEF Snapshot, ReadPendingSame, At, Honest, IInv, JobInv, Working
  <2>3. CASE Snapshot
    <3> DEFINE taken == IF job.pending # "" /\ job.dir \in exists
                        THEN disk[job.dir] ELSE NoSnapshot
    <3>1. job' = [job EXCEPT !.global = disk[Global], !.files = taken]
          /\ (taken = NoSnapshot \/ taken = disk[job.dir])
      BY <2>3 DEF Snapshot
    <3> HIDE DEF taken
    <3>2. job'.files = taken
      BY <1>1, <3>1 DEF Jobs
    <3> QED BY <2>1, <2>2, <3>1, <3>2
  <2>4. CASE ReadPendingSame
    <3>1. job' = NoJob \/ job' = [job EXCEPT !.pending = PendingMode, !.files = disk[path],
                                             !.global = disk[Global]]
      BY <2>4 DEF ReadPendingSame
    <3>2. job'.files = NoSnapshot \/ job'.files = disk[path]
      BY <1>1, <3>1, NoJobIsIdle DEF Jobs
    <3>3. path \in Dirs
      BY <2>2, <2>4 DEF ReadPendingSame
    <3> QED BY <2>1, <3>2, <3>3
  <2> QED BY <1>5, <2>3, <2>4
<1>6. CASE Fail
  <2>1. disk' = disk /\ (job' = NoJob \/ \E b : job' = [job EXCEPT !.committing = b])
    BY ZenonT(60), <1>6 DEF Fail
  <2> QED BY <1>1, <2>1, NoJobIsIdle DEF Jobs
<1>7. CASE \/ Start \/ Boot \/ Crash \/ Return \/ QueueDone \/ Cleared \/ Undone \/ MakeBackup
           \/ Queue \/ ReadPending \/ UNCHANGED vars
           \/ \E mode \in Backends : SelectForProfile(mode) \/ SelectOffline(mode)
           \/ \E dir \in Dirs : Activate(dir)
           \/ Same \/ Clear \/ Open \/ Merge \/ Commit \/ PublishGlobal
  <2>1. disk' = disk
    BY <1>7 DEF Start, Boot, Crash, Return, QueueDone, Cleared, Undone, MakeBackup, Queue, ReadPending,
       SelectForProfile, SelectOffline, Activate, Same, Clear, Open, Merge, Commit, PublishGlobal,
       Issue, fileVars, vars
  <2>2. \/ job' = job \/ job' = NoJob \/ (\E mode : job' = [job EXCEPT !.pending = mode])
        \/ (\E dir : job' = [NoJob EXCEPT !.dir = dir, !.path = path, !.data = data])
        \/ job' = [job EXCEPT !.committing = TRUE]
    BY <1>7 DEF Start, Boot, Crash, Return, QueueDone, Cleared, Undone, MakeBackup, Queue, ReadPending,
       SelectForProfile, SelectOffline, Activate, Same, Clear, Open, Merge, Commit, PublishGlobal, vars
  <2>3. job'.files = job.files \/ job'.files = NoSnapshot
    BY <1>1, <2>2, NoJobIsIdle DEF Jobs
  <2> QED BY <2>1, <2>3
<1> QED BY <1>2, <1>3, <1>4, <1>5, <1>6, <1>7 DEF Next

\* The steps of the part of an activation that changes something.
LEMMA Arrival ==
  ASSUME [Next]_vars, ~DoRequest, ~DamageFile, pc' \in Giving
  PROVE  \/ UNCHANGED vars
         \/ pc' = "same" /\ ReadPendingSame
         \/ pc' = "clear" /\ Same
         \/ pc' = "cleared" /\ Clear
         \/ pc' = "migrate" /\ Snapshot
         \/ pc' = "open" /\ Migrate
         \/ pc' = "merge" /\ Open
         \/ pc' = "commit" /\ Merge
         \/ pc' = "publish" /\ Commit
         \/ pc' = "retire" /\ PublishGlobal
         \/ pc' = "undo" /\ Fail
         \/ pc' = "undone" /\ Undo
<1>1. CASE \/ Start \/ Boot \/ Crash \/ Return \/ QueueDone \/ Cleared \/ Undone \/ MakeBackup
           \/ Queue \/ ReadPending \/ Retire
           \/ \E mode \in Backends : SelectForProfile(mode) \/ SelectOffline(mode)
           \/ \E dir \in Dirs : Activate(dir)
  <2>1. pc' \in {"idle", "boot", "booted", "save", "queue", "queued", "pending", "snapshot"}
    BY <1>1 DEF Start, Boot, Crash, Return, QueueDone, Cleared, Undone, MakeBackup, Queue,
       ReadPending, Retire, SelectForProfile, SelectOffline, Activate, Begin, At
  <2> QED BY <2>1 DEF Giving, Given, Clearing
<1>2. CASE ReadPendingSame
  <2>1. pc' = "same" \/ pc' = "idle"
    BY <1>2 DEF ReadPendingSame
  <2> QED BY <1>2, <2>1 DEF Giving, Given, Clearing
<1>3. CASE Migrate
  <2>1. pc' = "open"
    BY <1>3 DEF Migrate, Publish
  <2> QED BY <1>3, <2>1
<1>4. CASE Fail
  <2>1. pc' = "idle" \/ pc' = "undo"
    BY <1>4 DEF Fail
  <2> QED BY <1>4, <2>1 DEF Giving, Given, Clearing
<1>5. CASE Same \/ Clear \/ Snapshot \/ Open \/ Merge \/ Commit \/ PublishGlobal \/ Undo
  <2>1. /\ Same => pc' = "clear"
        /\ Clear => pc' = "cleared"
        /\ Snapshot => pc' = "migrate"
        /\ Open => pc' = "merge"
        /\ Merge => pc' = "commit"
        /\ Commit => pc' = "publish"
        /\ PublishGlobal => pc' = "retire"
        /\ Undo => pc' = "undone"
    BY DEF Same, Clear, Snapshot, Open, Merge, Commit, PublishGlobal, Undo
  <2> QED BY <1>5, <2>1
<1> QED BY <1>1, <1>2, <1>3, <1>4, <1>5 DEF Next

\* The other steps write nothing, but for the profile a migration copies.
LEMMA OtherWhole ==
  ASSUME Honest, Honest', [Next]_vars, ~DoRequest, ~DamageFile, WholeInv
  PROVE  WholeInv'
<1>1. /\ \A dir \in Dirs : \/ disk'[dir] = disk[dir] \/ disk'[dir] = NoFiles
                           \/ \E other \in Dirs : disk'[dir] = disk[other]
      /\ disk' = disk \/ io = <<>>
      /\ \/ job'.files = job.files \/ job'.files = NoSnapshot
         \/ \E dir \in Dirs : job'.files = disk[dir]
  BY FilesMove
<1>2. Whole(NoFile)
  BY FileAssumption DEF Whole, Valid
<1>3. \A dir \in Dirs : Whole(Main(dir)') /\ Whole(Bak(dir)')
  BY <1>1, <1>2 DEF WholeInv, Main, Bak, NoFiles
<1>4. job'.files # NoSnapshot => Whole(job'.files.main) /\ Whole(job'.files.bak)
  BY <1>1 DEF WholeInv, Main, Bak
<1>5. Len(<<>>) = 0
  OBVIOUS
<1>6. \A i \in 1..Len(io') : io'[i].at \in Dirs =>
         /\ Whole(io'[i].value)
         /\ io'[i].do = "rebuild" => disk'[io'[i].at].bak \in Values
  <2>1. CASE io' = io
    BY <1>1, <1>5, <2>1 DEF WholeInv, Requested, Valid, Bak
  <2>2. CASE ~Undo /\ Issuing(io', path', data') /\ pc' \notin {"merge", "undo"}
    <3>1. path' \in Dirs => data'.home # Unset /\ data' \in Setting
      BY <2>2 DEF Honest, IInv, MemoryInv
    <3>2. path' \in Dirs => Whole(data')
      BY <3>1, Known DEF Whole
    <3> QED BY <1>2, <2>2, <3>2, Apart DEF Issuing
  <2>3. CASE pc' \in {"merge", "undo"} /\ io' # io
    <3>1. Open \/ Fail
      BY <2>3, Arrival DEF Giving, vars, fileVars
    <3>2. CASE Open
      <4>1. io' = <<Repair(job.dir)>>
        BY <2>3, <3>2 DEF Open, Issue, fileVars
      <4>2. \A i \in 1..Len(io') : io'[i] = Repair(job.dir)
        BY <4>1, OneInList
      <4> QED BY <1>2, <4>2 DEF Repair, Request
    <3>3. CASE Fail
      BY <1>5, <3>3 DEF Fail
    <3> QED BY <3>1, <3>2, <3>3
  <2>5. CASE Undo
    <3>1. job.files # NoSnapshot => job.dir \in Dirs
      BY DEF Honest, IInv, JobInv
    <3> QED BY <2>5, <3>1, UndoRequests, Apart DEF Request, WholeInv
  <2> QED BY <2>1, <2>2, <2>3, <2>5, Issued
<1> QED BY <1>3, <1>4, <1>6 DEF WholeInv, Requested, Valid, Bak

\* No step puts an incomplete profile into a file.
LEMMA NextWhole ==
  ASSUME Honest, Honest', [Next]_vars, ~DamageFile, WholeInv
  PROVE  WholeInv'
BY RequestWhole, OtherWhole

-----------------------------------------------------------------------------
(* What an activation found, and the failures since then *)

\* An activation is undone after a failure, and before none has happened there is nothing
\* to undo.
BeforeInv ==
  /\ before.fails \in Nat
  /\ \A s \in Scopes : before.views[s] \in Values \cup {NoFile}
  /\ pc \in Changing => before.fails <= spent.fails
  /\ pc \in Unwinding => before.fails < spent.fails

\* What an activation found is noted when it begins to change something.
LEMMA NextBefore ==
  ASSUME Honest, Honest', [Next]_vars, ~DamageFile, BeforeInv
  PROVE  BeforeInv'
<1>1. spent \in Spent /\ spent' \in Spent /\ before.fails \in Nat /\ spent.fails \in Nat
      /\ spent'.fails \in Nat
  BY DEF Honest, BeforeInv, Spent
<1>0. Remembered.fails \in Nat /\ \A s \in Scopes : Remembered.views[s] \in Values \cup {NoFile}
  BY <1>1 DEF Remembered, View, Valid
<1>2. spent.fails <= spent'.fails
  <2>1. CASE \/ Migrate \/ Retire \/ Undo \/ Fail \/ Crash \/ MakeBackup
             \/ \E mode \in Backends : SelectForProfile(mode) \/ SelectOffline(mode)
             \/ \E dir \in Dirs : Activate(dir)
    <3>1. \/ spent' = spent
          \/ Spend("ops", MaxOps) \/ Spend("fails", MaxFails) \/ Spend("crashes", MaxCrashes)
      BY <2>1 DEF Migrate, Retire, Undo, Fail, Crash, MakeBackup, SelectForProfile, SelectOffline,
         Activate, Begin
    <3> QED BY <1>1, <3>1 DEF Spend, Spent
  <2>2. CASE \/ Start \/ Boot \/ Return \/ QueueDone \/ Cleared \/ Undone \/ Queue \/ ReadPending
             \/ Same \/ Clear \/ Merge \/ Commit \/ Open \/ PublishGlobal \/ Snapshot
             \/ ReadPendingSame \/ DoRequest \/ UNCHANGED vars
    <3>1. spent' = spent
      BY <2>2 DEF Start, Boot, Return, QueueDone, Cleared, Undone, Queue, ReadPending, Same, Clear,
         Merge, Commit, Open, PublishGlobal, Snapshot, ReadPendingSame, DoRequest, vars
    <3> QED BY <1>1, <3>1
  <2> QED BY <2>1, <2>2 DEF Next
<1>3. CASE DoRequest \/ UNCHANGED vars
  BY <1>3 DEF DoRequest, BeforeInv, vars, ghostVars
<1>4. CASE pc' \notin Giving /\ ~DoRequest
  <2>1. before' = before \/ before' = Remembered
    BY <1>3, <1>4 DEF Next, Start, Boot, Crash, Return, QueueDone, Cleared, Undone, MakeBackup, Queue,
       ReadPending, SelectForProfile, SelectOffline, Activate, Same, Clear, Merge, Commit, Open,
       PublishGlobal, Snapshot, ReadPendingSame, Migrate, Retire, Fail, Undo, ghostVars, vars
  <2>2. before'.fails \in Nat /\ \A s \in Scopes : before'.views[s] \in Values \cup {NoFile}
    BY <1>1, <1>0, <2>1 DEF BeforeInv
  <2> QED BY <1>4, <2>2 DEF BeforeInv, Changing, Unwinding, Giving
<1>5. CASE (ReadPendingSame /\ pc' = "same") \/ (Snapshot /\ pc' = "migrate")
  <2>1. before' = Remembered /\ spent' = spent
    BY <1>5 DEF ReadPendingSame, Snapshot
  <2>2. before'.fails = spent.fails
    BY <2>1 DEF Remembered
  <2> QED BY <1>0, <1>1, <1>5, <2>1, <2>2 DEF BeforeInv, Unwinding
<1>6. CASE Same \/ Clear \/ Migrate \/ Open \/ Merge \/ Commit \/ PublishGlobal
  <2>1. before' = before /\ pc \in Changing /\ pc' \in Changing
    BY <1>6 DEF Same, Clear, Migrate, Publish, Open, Merge, Commit, PublishGlobal, ghostVars, At,
       Changing, Unwinding, Giving, Given, Clearing
  <2> QED BY <1>1, <1>2, <2>1 DEF BeforeInv, Changing
<1>7. CASE Fail /\ pc' = "undo"
  <2>1. before' = before /\ pc \in Giving
    <3>1. pc # "idle" /\ pc \in Labels
      BY <1>7 DEF Honest, GoodInv, KeptInv, Fail
    <3> QED BY <1>7, <3>1 DEF Fail, Unprotected, Labels, Giving, Given, Clearing, ghostVars
  <2>2. spent'.fails = spent.fails + 1
    BY <1>1, <1>7 DEF Fail, Spend, Spent
  <2> QED BY <1>1, <1>7, <2>1, <2>2 DEF BeforeInv, Changing, Unwinding
<1>8. CASE Undo /\ pc' = "undone"
  <2>1. before' = before /\ pc = "undo"
    BY <1>8 DEF Undo, At
  <2> QED BY <1>1, <1>2, <1>8, <2>1 DEF BeforeInv, Changing, Unwinding
<1>9. CASE pc' \in Giving /\ ~DoRequest /\ ~UNCHANGED vars
  <2>1. \/ (ReadPendingSame /\ pc' = "same") \/ (Snapshot /\ pc' = "migrate")
        \/ Same \/ Clear \/ Migrate \/ Open \/ Merge \/ Commit \/ PublishGlobal
        \/ (Fail /\ pc' = "undo") \/ (Undo /\ pc' = "undone")
    BY ZenonT(60), <1>9, Arrival
  <2> QED BY <1>5, <1>6, <1>7, <1>8, <2>1
<1> QED BY <1>3, <1>4, <1>9

-----------------------------------------------------------------------------
(* Files that stay as they are, and files that are put back *)

\* The steps of an activation during which no second failure has happened.
First ==
  \/ pc \in Changing /\ spent.fails = before.fails
  \/ pc \in Unwinding /\ spent.fails = before.fails + 1

\* Requests that leave what a scope holds as it is.
Mild(q, s, content) ==
  \A i \in 1..Len(q) : q[i].at = s =>
     /\ q[i].do \in Chain
     /\ q[i].do \in Writes => q[i].value = content

Steady(s, content) == View(disk[s]) = content /\ Mild(io, s, content)

\* A rollback of a scope that is done, or still requested.
PutBack(s, files) ==
  /\ Main(s) = files.main \/ \E i \in Requested : io[i] = Request("putmain", s, files.main)
  /\ Bak(s) = files.bak \/ \E i \in Requested : io[i] = Request("putbak", s, files.bak)
  /\ \A i \in Requested : io[i].at = s =>
        io[i] = Request("putmain", s, files.main) \/ io[i] = Request("putbak", s, files.bak)

\* What a reader of two files finds.
LEMMA Seen ==
  ASSUME NEW files, NEW content \in Values
  PROVE  View(files) = content
           <=> files.main = content \/ (~Valid(files.main) /\ files.bak = content)
BY FileAssumption DEF View, Valid

\* Lists that leave what a scope holds as it is ...
LEMMA MildLists ==
  ASSUME NEW s, NEW content
  PROVE  /\ Mild(<<>>, s, content)
         /\ \A z : Mild(<<Repair(z)>>, s, content)
         /\ \A z, v : z # s \/ v = content => Mild(<<Write(z, v)>>, s, content)
         /\ \A z, v : z # s \/ v = content => Mild(Save(z, v), s, content)
<1> DEFINE Leave(r) == r.at = s => r.do \in Chain /\ (r.do \in Writes => r.value = content)
<1>1. /\ \A z : Leave(Repair(z))
      /\ \A z, v : z # s \/ v = content => Leave(Write(z, v))
  BY DEF Repair, Write, Request, Chain, Writes
<1> HIDE DEF Leave
<1>2. ASSUME NEW r, Leave(r) PROVE Mild(<<r>>, s, content)
  <2>1. \A i \in 1..Len(<<r>>) : <<r>>[i] = r
    BY OneInList
  <2> QED BY <1>2, <2>1 DEF Mild, Leave
<1>3. ASSUME NEW r, NEW w, Leave(r), Leave(w) PROVE Mild(<<r, w>>, s, content)
  <2>1. Len(<<r, w>>) = 2 /\ <<r, w>>[1] = r /\ <<r, w>>[2] = w /\ \A i \in 1..2 : i = 1 \/ i = 2
    OBVIOUS
  <2> QED BY <1>3, <2>1 DEF Mild, Leave
<1>4. Mild(<<>>, s, content)
  BY DEF Mild
<1> QED BY <1>1, <1>2, <1>3, <1>4 DEF Save

\* ... and two of them in a row.
LEMMA MildBoth ==
  ASSUME NEW S, NEW p \in Seq(S), NEW q \in Seq(S), NEW s, NEW content,
         Mild(p, s, content), Mild(q, s, content)
  PROVE  Mild(p \o q, s, content)
BY InOne DEF Mild

\* Repairing what a scope holds, or writing it again, leaves it as it is.
LEMMA SteadyStays ==
  ASSUME FilesInv, GhostInv, HeadInv, Execute,
         NEW s \in Scopes, NEW content \in Values, Steady(s, content),
         NEW z \in Scopes, z = This.at, NEW value, value = This.value
  PROVE  View(disk'[s]) = content /\ Mild(io', s, content)
<1>1. /\ io # <<>> /\ io \in Seq(Fitting) /\ io' \in Seq(Fitting) /\ 1 \in Requested
      /\ This = io[1] /\ This \in Requests
  <2>1. io # <<>> /\ io \in Seq(Fitting)
    BY DEF Execute, DoRepair, DoRebuild, DoBackup, DoReplace, DoPut, Doing, FilesInv
  <2> QED BY <2>1, QueueMoves, ExecuteKeeps DEF FilesInv, Fitting, Requested
<1>2. ASSUME Dropped PROVE Mild(io', s, content)
  <2>1. \A i \in 1..Len(io') : i + 1 \in 1..Len(io) /\ io'[i] = io[i + 1]
    BY <1>1, <1>2, NextRequests DEF Requested
  <2> QED BY <2>1 DEF Steady, Mild
<1>3. ASSUME NEW r, Became(r), r.at = z, z = s => r.do \in Chain /\ (r.do \in Writes => r.value = content)
      PROVE  Mild(io', s, content)
  <2>1. \A i \in 1..Len(io') : io'[i] = r \/ (i \in 1..Len(io) /\ io'[i] = io[i])
    BY <1>1, <1>3, NextRequests DEF Requested
  <2> QED BY <1>3, <2>1 DEF Steady, Mild
<1>4. CASE z # s
  <2>1. disk'[s] = disk[s]
    BY <1>4, OneScope
  <2>2. Dropped \/ \E r : Became(r) /\ r.at = z
    BY Advance
  <2>3. Mild(io', s, content)
    BY <1>2, <1>3, <1>4, <2>2
  <2> QED BY <2>1, <2>3 DEF Steady
<1>5. CASE z = s
  <2>1. This.do \in Chain /\ (This.do \in Writes => value = content)
    BY <1>1, <1>5 DEF Steady, Mild, Requested
  <2>2. Main(s) = content \/ (~Valid(Main(s)) /\ Bak(s) = content)
    BY Seen DEF Steady, Main, Bak
  <2>3. /\ Main(s)' = content \/ (~Valid(Main(s)') /\ Bak(s)' = content) => View(disk'[s]) = content
        /\ Valid(content)
    BY Seen DEF Main, Bak, Valid
  <2>4. CASE This.do = "repair"
    <3>1. \/ Ready(s) /\ Main(s)' = Main(s) /\ Dropped /\ Bak(s)' = Bak(s)
          \/ /\ ~Valid(Main(s)) /\ ~Valid(Main(s)') /\ Bak(s)' = Bak(s)
             /\ Became(Request("rebuild", s, NoFile))
      BY <1>5, <2>4, Effects
    <3>2. Mild(io', s, content)
      BY <1>2, <1>3, <1>5, <3>1 DEF Steady, Request, Chain, Writes
    <3> QED BY <2>2, <2>3, <3>1, <3>2 DEF Steady
  <2>5. CASE This.do = "rebuild"
    <3>1. ~Valid(Main(s)) /\ Bak(s) = content
      BY <1>1, <1>5, <2>2, <2>3, <2>5 DEF HeadInv
    <3>2. Main(s)' = Main(s) /\ Bak(s)' = Bak(s) /\ Became(Write(s, content))
      <4>1. PICK c : /\ Became(Write(s, c)) /\ Main(s)' = Main(s)
                     /\ Valid(Bak(s)) => c = Bak(s) /\ Bak(s)' = Bak(s)
        BY <1>5, <2>5, Effects
      <4> QED BY <2>3, <3>1, <4>1
    <3>3. Mild(io', s, content)
      BY <1>3, <1>5, <3>2 DEF Write, Request, Chain, Writes
    <3> QED BY <2>3, <3>1, <3>2, <3>3
  <2>6. CASE This.do = "backup"
    <3>1. /\ Main(s)' = Main(s) /\ Became(Request("replace", s, value))
          /\ ~Valid(Main(s)) /\ Valid(Bak(s)) => Bak(s)' = Bak(s)
      BY <1>5, <2>6, Effects
    <3>2. Mild(io', s, content)
      BY <1>3, <1>5, <2>1, <2>6, <3>1 DEF Request, Chain, Writes
    <3> QED BY <2>2, <2>3, <3>1, <3>2
  <2>7. CASE This.do = "replace"
    <3>1. Dropped /\ Main(s)' = value
      BY <1>5, <2>7, Effects
    <3> QED BY <1>2, <2>1, <2>3, <2>7, <3>1 DEF Writes
  <2> QED BY <2>1, <2>4, <2>5, <2>6, <2>7 DEF Chain, Writes
<1> QED BY <1>4, <1>5

\* A request that is not the first stays.
LEMMA Later ==
  ASSUME io \in Seq(Fitting), io' \in Seq(Fitting), NEW i \in Requested, i # 1,
         Dropped \/ \E r : Became(r)
  PROVE  \E k \in 1..Len(io') : io'[k] = io[i]
<1>1. Len(io) \in Nat /\ Len(io') \in Nat /\ i \in 1..Len(io)
  BY DEF Requested
<1>2. CASE Dropped
  <2>1. i - 1 \in 1..Len(io') /\ (i - 1) + 1 = i
    BY <1>1, <1>2 DEF Dropped
  <2> QED BY <1>2, <2>1 DEF Dropped
<1>3. ASSUME NEW r, Became(r) PROVE \E k \in 1..Len(io') : io'[k] = io[i]
  <2>1. i \in 2..Len(io') /\ i \in 1..Len(io')
    BY <1>1, <1>3 DEF Became
  <2> QED BY <1>3, <2>1 DEF Became
<1> QED BY <1>2, <1>3

\* What is put back stays there.
LEMMA PutBackStays ==
  ASSUME FilesInv, GhostInv, Execute,
         NEW s \in Scopes, NEW files, PutBack(s, files),
         NEW z \in Scopes, z = This.at, NEW value, value = This.value
  PROVE  PutBack(s, files)'
<1>1. /\ io # <<>> /\ io \in Seq(Fitting) /\ io' \in Seq(Fitting) /\ 1 \in Requested
      /\ This = io[1] /\ This \in Requests
  <2>1. io # <<>> /\ io \in Seq(Fitting)
    BY DEF Execute, DoRepair, DoRebuild, DoBackup, DoReplace, DoPut, Doing, FilesInv
  <2> QED BY <2>1, QueueMoves, ExecuteKeeps DEF FilesInv, Fitting, Requested
<1> DEFINE a == Request("putmain", s, files.main)
           b == Request("putbak", s, files.bak)
<1>2. /\ a.at = s /\ a.do = "putmain" /\ a.value = files.main
      /\ b.at = s /\ b.do = "putbak" /\ b.value = files.bak
  BY DEF Request
<1> HIDE DEF a, b
<1>3. /\ Main(s) = files.main \/ \E i \in Requested : io[i] = a
      /\ Bak(s) = files.bak \/ \E i \in Requested : io[i] = b
      /\ \A i \in Requested : io[i].at = s => io[i] = a \/ io[i] = b
  BY DEF PutBack, a, b
<1>4. /\ disk'[s].main = files.main \/ \E i \in 1..Len(io') : io'[i] = a
      /\ disk'[s].bak = files.bak \/ \E i \in 1..Len(io') : io'[i] = b
      /\ \A i \in 1..Len(io') : io'[i].at = s => io'[i] = a \/ io'[i] = b
  <2>1. Dropped \/ \E r : Became(r) /\ r.at = z
    BY Advance
  <2>2. ASSUME NEW r, \E i \in Requested : io[i] = r
        PROVE  r = io[1] \/ \E i \in 1..Len(io') : io'[i] = r
    BY <1>1, <2>1, <2>2, Later
  <2>3. CASE z # s
    <3>1. disk'[s] = disk[s]
      BY <2>3, OneScope
    <3>2. a # io[1] /\ b # io[1]
      BY <1>1, <1>2, <2>3
    <3>3. \A i \in 1..Len(io') : io'[i].at = s => io'[i] = a \/ io'[i] = b
      <4>1. CASE Dropped
        BY <1>1, <1>3, <4>1, NextRequests
      <4>2. ASSUME NEW r, Became(r), r.at = z
            PROVE  \A i \in 1..Len(io') : io'[i].at = s => io'[i] = a \/ io'[i] = b
        BY <1>1, <1>3, <2>3, <4>2, NextRequests
      <4> QED BY <2>1, <4>1, <4>2
    <3> QED BY <1>3, <2>2, <3>1, <3>2, <3>3 DEF Main, Bak
  <2>4. CASE z = s
    <3>1. io[1] = a \/ io[1] = b
      BY <1>1, <1>3, <2>4
    <3>2. /\ Dropped
          /\ io[1] = a => Main(s)' = files.main /\ Bak(s)' = Bak(s)
          /\ io[1] = b => Main(s)' = Main(s) /\ Bak(s)' = files.bak
      <4>1. /\ This.do = "putmain" => Main(s)' = value /\ Bak(s)' = Bak(s) /\ Dropped
            /\ This.do = "putbak" => Main(s)' = Main(s) /\ Bak(s)' = value /\ Dropped
        BY <2>4, Effects
      <4> QED BY <1>1, <1>2, <3>1, <4>1
    <3>3. \A i \in 1..Len(io') : io'[i].at = s => io'[i] = a \/ io'[i] = b
      BY <1>1, <1>3, <3>2, NextRequests
    <3>4. a # b
      BY <1>2
    <3> QED BY <1>3, <2>2, <3>1, <3>2, <3>3, <3>4 DEF Main, Bak
  <2> QED BY <2>3, <2>4
<1> QED BY <1>4 DEF PutBack, Main, Bak, Requested, a, b

-----------------------------------------------------------------------------
(* What the rollback of an activation gives back *)

\* The settings of the profile are repaired before they are looked at.
MergeInv == pc = "merge" => Prepared(job.dir)

\* The directory made for the activation is the only one that was not there before.
DirsRoll ==
  /\ job.created => job.dir \notin before.exists /\ before.views[job.dir] = NoFile
  /\ exists = IF job.created /\ pc # "undone" THEN before.exists \cup {job.dir} ELSE before.exists

\* Other profiles are not touched.
OthersRoll ==
  /\ \A s \in Scopes \ {job.dir, Global} : View(disk[s]) = before.views[s]
  /\ \A i \in Requested : io[i].at \in {job.dir, Global}

\* The settings of the application are as they were, or are put back.
GlobalRolls ==
  /\ View(job.global) = before.views[Global]
  /\ pc \in {"publish", "retire"} => job.committing
  /\ (pc \in Changing \ Clearing \/ (pc \in Unwinding /\ ~job.committing)) =>
       (before.views[Global] # NoFile => Steady(Global, before.views[Global]))
  /\ pc = "undone" /\ job.committing => PutBack(Global, job.global)

\* The settings of the profile, when they were there, are put back from a snapshot; without
\* one they are only completed, by what they hold already.
ProfileRolls ==
  ~job.created /\ before.views[job.dir] # NoFile =>
    /\ job.files = NoSnapshot => Steady(job.dir, before.views[job.dir]) /\ job.pending = NoMode
    /\ job.files # NoSnapshot =>
         /\ View(job.files) = before.views[job.dir]
         /\ pc = "undone" => PutBack(job.dir, job.files)

\* What there was is there, or comes back, as long as no second failure happens.
RollInv == First => job.dir \in Dirs /\ DirsRoll /\ OthersRoll /\ GlobalRolls /\ ProfileRolls

\* What the rollback rests on.
UndoInv == TreeInv /\ WholeInv /\ BeforeInv /\ MergeInv /\ RollInv

\* A step of the activation that changes no file and asks for nothing that matters.
LEMMA Onward ==
  ASSUME First, RollInv, UNCHANGED <<disk, exists, before>>,
         UNCHANGED <<job.dir, job.created, job.files, job.global, job.pending>>,
         pc \in Changing, pc' \in Changing \cup {"undo"},
         \A i \in 1..Len(io') : io'[i].at \in {job.dir, Global},
         (pc' \in Changing \ Clearing \/ (pc' = "undo" /\ ~job'.committing)) =>
            pc \in Changing \ Clearing /\ Mild(io', Global, before.views[Global]),
         ~job.created /\ before.views[job.dir] # NoFile /\ job.files = NoSnapshot =>
            Mild(io', job.dir, before.views[job.dir]),
         pc' \in {"publish", "retire"} => job'.committing
  PROVE  RollInv'
<1>1. /\ job.dir \in Dirs /\ DirsRoll /\ OthersRoll /\ GlobalRolls /\ ProfileRolls
      /\ pc # "undone" /\ pc' # "undone"
  BY DEF RollInv, Changing, Unwinding
<1>2. DirsRoll'
  BY <1>1 DEF DirsRoll
<1>3. OthersRoll'
  BY <1>1 DEF OthersRoll, Requested
<1>4. GlobalRolls'
  <2>1. View(job'.global) = before'.views[Global]
    BY <1>1 DEF GlobalRolls
  <2>2. ASSUME pc' \in Changing \ Clearing \/ (pc' \in Unwinding /\ ~job'.committing),
               before'.views[Global] # NoFile
        PROVE  View(disk'[Global]) = before'.views[Global] /\ Mild(io', Global, before'.views[Global])
    <3>1. pc \in Changing \ Clearing /\ Mild(io', Global, before.views[Global])
      BY <1>1, <2>2 DEF Unwinding
    <3> QED BY <1>1, <2>2, <3>1 DEF GlobalRolls, Steady
  <2> QED BY <1>1, <2>1, <2>2 DEF GlobalRolls, Steady
<1>5. ProfileRolls'
  <2>1. ASSUME ~job'.created, before'.views[job'.dir] # NoFile, job'.files = NoSnapshot
        PROVE  /\ View(disk'[job'.dir]) = before'.views[job'.dir]
               /\ Mild(io', job'.dir, before'.views[job'.dir])
    BY <1>1, <2>1 DEF ProfileRolls, Steady
  <2> QED BY <1>1, <2>1 DEF ProfileRolls, Steady
<1> QED BY <1>1, <1>2, <1>3, <1>4, <1>5 DEF RollInv

\* What is left as it is is left so by what these steps ask for.
LEMMA OnwardLists ==
  ASSUME NEW dir \in Dirs, NEW q,
         \/ q = <<>> \/ q = <<Repair(Global)>> \/ q = <<Repair(dir)>>
         \/ \E content : q = <<Write(Global, content)>>
  PROVE  /\ \A i \in 1..Len(q) : q[i].at \in {dir, Global}
         /\ \A content : Mild(q, dir, content)
         /\ (\A content : q # <<Write(Global, content)>>) => \A content : Mild(q, Global, content)
<1>1. dir # Global
  BY Apart
<1>2. \A content : Mild(q, dir, content)
  BY <1>1, MildLists
<1>3. (\A content : q # <<Write(Global, content)>>) => \A content : Mild(q, Global, content)
  BY MildLists
<1>4. \A i \in 1..Len(q) : q[i].at \in {dir, Global}
  <2>1. CASE q = <<>>
    BY <2>1
  <2>2. ASSUME NEW r, r.at \in {dir, Global}, q = <<r>> PROVE \A i \in 1..Len(q) : q[i].at \in {dir, Global}
    BY <2>2, OneInList
  <2>3. /\ Repair(Global).at = Global /\ Repair(dir).at = dir
        /\ \A content : Write(Global, content).at = Global
    BY DEF Repair, Write, Request
  <2> QED BY <2>1, <2>2, <2>3
<1> QED BY <1>2, <1>3, <1>4

\* What an activation is about to change is remembered.
LEMMA EnterRoll ==
  ASSUME Honest, Honest', UndoInv, (Snapshot /\ pc' = "migrate") \/ (ReadPendingSame /\ pc' = "same")
  PROVE  RollInv'
<1>1. /\ UNCHANGED <<disk, exists>> /\ before' = Remembered
      /\ job \in Jobs /\ disk \in [Scopes -> Files] /\ job.dir \in Dirs /\ ~job.created
      /\ Global \in Scopes /\ job.dir # Global
      /\ pc \in {"pending", "snapshot"} /\ pc' \in {"migrate", "same"} /\ io = <<>>
  BY Known, Apart DEF Snapshot, ReadPendingSame, Issue, fileVars, dirVars, At, Honest, IInv, JobInv,
     FilesInv, CopyInv, Copying, Working
<1>2. /\ before'.exists = exists
      /\ \A s \in Scopes : before'.views[s] = View(disk[s])
  BY <1>1 DEF Remembered
<1> DEFINE taken == IF job.pending # NoMode /\ job.dir \in exists THEN disk[job.dir] ELSE NoSnapshot
<1>3. /\ job'.dir = job.dir /\ ~job'.created /\ job'.global = disk[Global]
      /\ job'.files \in {disk[job.dir], NoSnapshot}
      /\ job'.files = NoSnapshot =>
           disk[job.dir] = NoSnapshot \/ job.dir \notin exists \/ job'.pending = NoMode
  <2>1. CASE Snapshot
    <3>1. job' = [job EXCEPT !.global = disk[Global], !.files = taken]
      BY <2>1 DEF Snapshot, NoMode
    <3> HIDE DEF taken
    <3>2. /\ job'.dir = job.dir /\ job'.created = job.created /\ job'.global = disk[Global]
          /\ job'.files = taken /\ job'.pending = job.pending
      BY <1>1, <3>1 DEF Jobs
    <3> QED BY <1>1, <3>2 DEF taken
  <2>2. CASE ReadPendingSame /\ pc' = "same"
    <3>1. job' = [job EXCEPT !.pending = PendingMode, !.files = disk[path], !.global = disk[Global]]
          /\ job.dir = path
      BY <2>2 DEF ReadPendingSame
    <3>2. /\ job'.dir = job.dir /\ job'.created = job.created /\ job'.global = disk[Global]
          /\ job'.files = disk[job.dir]
      BY <1>1, <3>1 DEF Jobs
    <3> QED BY <1>1, <3>2
  <2> QED BY <1>1, <2>1, <2>2
<1>4. View(NoSnapshot) = NoFile /\ View(NoFiles) = NoFile
  BY FileAssumption DEF View, NoSnapshot, NoFiles, Valid
<1>5. job.dir \notin exists => disk[job.dir] = NoFiles
  BY <1>1 DEF UndoInv, TreeInv
<1>6. /\ \A i \in 1..Len(io') : io'[i].at \in {job.dir, Global}
      /\ \A content : Mild(io', Global, content)
      /\ pc' = "migrate" => \A content : Mild(io', job.dir, content)
  <2>1. CASE pc' = "migrate"
    <3>1. io' = <<>>
      BY <1>1, <2>1 DEF Snapshot, ReadPendingSame, fileVars
    <3> QED BY <1>1, <3>1, OnwardLists
  <2>2. CASE ReadPendingSame /\ pc' = "same"
    <3>1. io' = Save(job.dir, data')
      BY <2>2 DEF ReadPendingSame, Issue
    <3>2. Issuing(Save(job.dir, data'), job.dir, data')
      BY IssuingLists
    <3> QED BY <1>1, <2>2, <3>1, <3>2, MildLists DEF Issuing
  <2> QED BY <1>1, <2>1, <2>2
<1>7. DirsRoll' /\ OthersRoll'
  BY <1>1, <1>2, <1>3, <1>6 DEF DirsRoll, OthersRoll, Requested
<1>8. GlobalRolls'
  BY <1>1, <1>2, <1>3, <1>6 DEF GlobalRolls, Steady, Unwinding
<1>9. ProfileRolls'
  <2>1. CASE job'.files = NoSnapshot /\ before'.views[job'.dir] # NoFile
    <3>1. job'.pending = NoMode /\ disk[job.dir] # NoSnapshot
      BY <1>1, <1>2, <1>3, <1>4, <1>5, <2>1, Known
    <3>2. pc' = "migrate"
      <4>1. ASSUME ReadPendingSame, pc' = "same" PROVE job'.pending # NoMode
        <5>1. /\ job' = [job EXCEPT !.pending = PendingMode, !.files = disk[path],
                                    !.global = disk[Global]]
              /\ PendingMode # NoMode
          BY <4>1 DEF ReadPendingSame, NoMode
        <5>2. job'.pending = PendingMode
          BY <1>1, <5>1 DEF Jobs
        <5> QED BY <5>1, <5>2
      <4> QED BY <3>1, <4>1
    <3> QED BY <1>1, <1>2, <1>3, <1>6, <2>1, <3>1, <3>2, Known DEF ProfileRolls, Steady
  <2>2. CASE job'.files # NoSnapshot
    BY <1>1, <1>2, <1>3, <2>2, Known DEF ProfileRolls
  <2> QED BY <2>1, <2>2 DEF ProfileRolls
<1> QED BY <1>1, <1>3, <1>7, <1>8, <1>9 DEF RollInv

\* The steps after the snapshot that save at most the settings of the application.
LEMMA ActivationRoll ==
  ASSUME Honest, Honest', UndoInv, First, First', Same \/ Clear \/ Open \/ Commit \/ PublishGlobal
  PROVE  RollInv'
<1>1. /\ RollInv /\ job.dir \in Dirs /\ GlobalRolls
  BY DEF UndoInv, RollInv
<1>2. /\ UNCHANGED <<disk, exists, before>>
      /\ pc \in Changing /\ pc' \in Changing
      /\ pc' \notin Clearing => pc \notin Clearing
  BY DEF Same, Clear, Open, Commit, PublishGlobal, Issue, fileVars, dirVars, ghostVars, At, Changing,
         Unwinding, Giving, Given, Clearing
<1>3. job \in Jobs /\ (job' = job \/ job' = [job EXCEPT !.committing = TRUE])
  BY DEF Same, Clear, Open, Commit, PublishGlobal, Honest, IInv, JobInv
<1>4. /\ UNCHANGED <<job.dir, job.created, job.files, job.global, job.pending>>
      /\ pc' \in {"publish", "retire"} => job'.committing
  <2>1. UNCHANGED <<job.dir, job.created, job.files, job.global, job.pending>>
    BY <1>3 DEF Jobs
  <2>2. CASE Commit
    BY <1>3, <2>1, <2>2 DEF Commit, Jobs
  <2>3. CASE PublishGlobal
    BY <1>1, <2>1, <2>3 DEF PublishGlobal, GlobalRolls, At
  <2>4. CASE Same \/ Clear \/ Open
    BY <2>1, <2>4 DEF Same, Clear, Open
  <2> QED BY <2>1, <2>2, <2>3, <2>4
<1>5. /\ \/ io' = <<>> \/ io' = <<Repair(Global)>> \/ io' = <<Repair(job.dir)>>
         \/ \E content : io' = <<Write(Global, content)>>
      /\ pc' \notin Clearing => io' = <<>> \/ io' = <<Repair(Global)>> \/ io' = <<Repair(job.dir)>>
  BY DEF Same, Clear, Open, Commit, PublishGlobal, Issue, fileVars, Clearing, At
<1>6. /\ \A i \in 1..Len(io') : io'[i].at \in {job.dir, Global}
      /\ \A content : Mild(io', job.dir, content)
  BY <1>1, <1>5, OnwardLists
<1>7. pc' \notin Clearing => Mild(io', Global, before.views[Global])
  BY <1>5, MildLists, <1>1, Apart
<1>8. pc' # "undo"
  BY <1>2 DEF Changing, Unwinding
<1> QED BY <1>1, <1>2, <1>4, <1>6, <1>7, <1>8, Onward

\* A failure begins the rollback.
LEMMA FailRoll ==
  ASSUME Honest, Honest', UndoInv, First', Fail, pc' = "undo"
  PROVE  RollInv'
<1>1. /\ UNCHANGED <<disk, exists, before>> /\ io' = <<>>
      /\ job \in Jobs /\ pc \in Giving
  <2>1. pc # "idle" /\ pc \in Labels
    BY DEF Honest, GoodInv, KeptInv, Fail
  <2>2. pc \notin Unprotected
    BY DEF Fail
  <2> QED BY <2>1, <2>2 DEF Fail, dirVars, ghostVars, Honest, IInv, JobInv, Unprotected, Labels,
          Giving, Given, Clearing
<1>2. pc \in Changing /\ First
  <2>1. /\ spent \in Spent /\ before.fails \in Nat
        /\ spent'.fails = spent.fails + 1
        /\ pc \in Unwinding => before.fails < spent.fails
    BY DEF Honest, UndoInv, BeforeInv, Fail, Spend, Spent
  <2>2. spent'.fails = before.fails + 1
    BY <1>1 DEF First, Changing, Unwinding
  <2>3. spent.fails = before.fails
    BY <2>1, <2>2 DEF Spent
  <2> QED BY <1>1, <2>1, <2>3 DEF First, Changing, Spent
<1>3. RollInv /\ job.dir \in Dirs /\ GlobalRolls
  BY <1>2 DEF UndoInv, RollInv
<1>4. /\ UNCHANGED <<job.dir, job.created, job.files, job.global, job.pending>>
      /\ ~job'.committing => ~job.committing /\ pc \notin {"same", "clear", "cleared"}
  <2>1. PICK b \in BOOLEAN : /\ job' = [job EXCEPT !.committing = b]
                             /\ b = (job.committing \/ pc \in {"same", "clear", "cleared"})
    BY ZenonT(60), <1>1 DEF Fail, Unprotected, Changing
  <2> QED BY <1>1, <2>1 DEF Jobs
<1>5. ~job'.committing => pc \in Changing \ Clearing
  BY <1>2, <1>3, <1>4 DEF GlobalRolls, Clearing
<1>6. /\ \A i \in 1..Len(io') : io'[i].at \in {job.dir, Global}
      /\ \A content : Mild(io', job.dir, content) /\ Mild(io', Global, content)
  BY <1>1, MildLists
<1> QED BY <1>1, <1>2, <1>3, <1>4, <1>5, <1>6, Onward DEF Unwinding, Changing

\* A field of a record that is replaced.
LEMMA FieldIsSet ==
  ASSUME NEW A, NEW B, NEW C, NEW r \in [backend: A, pending: B, home: C]
  PROVE  [r EXCEPT !.pending = r.pending] = r
OBVIOUS

\* The settings of a profile that are complete are saved as they are.
LEMMA MergedIsOwn ==
  ASSUME Honest, UndoInv, Merge, job.dir \in Dirs, ~job.created, job.pending = NoMode,
         NEW v \in Values, View(disk[job.dir]) = v
  PROVE  data' = v
<1>1. path = job.dir /\ io = <<>> /\ pc = "merge"
  BY DEF Merge, At, UndoInv, TreeInv, Opened, Changing, Unwinding, Giving
<1>2. Main(path) = v /\ Valid(Main(path))
  <2>1. Ready(job.dir)
    BY <1>1 DEF UndoInv, MergeInv, Prepared
  <2> QED BY <1>1, <2>1, Seen DEF Ready, Valid, Main, Bak
<1>3. v \in Own(path) /\ v \in Setting /\ v.home # Unset
  <2>1. Whole(Main(path)) /\ Fits(path, Main(path))
    BY <1>1, Known DEF UndoInv, WholeInv, Honest, IInv, FilesInv, FitFiles, Main
  <2> QED BY <1>1, <1>2, <2>1, Known DEF Whole, Fits
<1>4. Loaded(path, v) = v
  <2>1. path # Global
    BY <1>1, Apart
  <2>2. Loaded(path, v) = [v EXCEPT !.pending = NoMode]
    BY <1>2, <2>1 DEF Loaded, NoMode
  <2>3. v.pending = NoMode
    BY <1>3 DEF Own, NoMode
  <2>4. [v EXCEPT !.pending = v.pending] = v
    BY <1>3, FieldIsSet DEF Setting
  <2> QED BY <2>2, <2>3, <2>4
<1>5. Rebase(v) = v
  BY DEF Rebase, Honest, IInv, CopyInv
<1>6. WithMode(v, job.pending) = v
  BY DEF WithMode, NoMode
<1> DEFINE own    == IF Valid(Main(path)) THEN Loaded(path, Main(path)) ELSE data
           merged == WithMode(Rebase(own), job.pending)
<1>7. data' = IF merged.home = Unset THEN [merged EXCEPT !.home = path] ELSE merged
  BY DEF Merge
<1>8. own = v
  BY <1>2, <1>4
<1>9. merged = v
  BY <1>5, <1>6, <1>8
<1> HIDE DEF own, merged
<1> QED BY <1>3, <1>7, <1>9

\* The settings of the profile are completed and saved.
LEMMA MergeRoll ==
  ASSUME Honest, Honest', UndoInv, First, First', Merge
  PROVE  RollInv'
<1>1. /\ RollInv /\ job.dir \in Dirs /\ ProfileRolls /\ job.dir # Global /\ job.dir \in Scopes
      /\ UNCHANGED <<disk, exists, before, job>>
      /\ pc = "merge" /\ pc' = "commit" /\ path' = path /\ path = job.dir
  BY Apart, Known DEF UndoInv, RollInv, Merge, Issue, At, dirVars, TreeInv, Opened, Changing,
     Unwinding, Giving
<1>2. PICK d, v : d = job.dir /\ v = data'
  OBVIOUS
<1>3. io' = Save(d, v) \o Save(d, v) \/ io' = <<>> \o Save(d, v)
  BY <1>1, <1>2, MergeSaves
<1>4. Save(d, v) \in Seq(Fitting) /\ <<>> \in Seq(Fitting)
  <2>1. data' \in Setting /\ (path' \in Dirs => data' \in Own(path'))
    BY DEF Honest, IInv, MemoryInv
  <2>2. d \in Dirs /\ d \in Scopes /\ v \in Setting /\ v \in Own(d)
    BY <1>1, <1>2, <2>1
  <2> QED BY Zenon, <2>2, SaveIsFitting, OwnFits, EmptySeq
<1>5. \A i \in 1..Len(io') : io'[i].at \in {d, Global}
  <2>1. Issuing(<<>>, d, v) /\ Issuing(Save(d, v), d, v)
    BY IssuingLists
  <2>2. Issuing(io', d, v)
    BY <1>3, <1>4, <2>1, IssuingBoth
  <2> QED BY <2>2 DEF Issuing
<1>6. ASSUME NEW s, NEW content, d # s \/ v = content
      PROVE  Mild(io', s, content)
  <2>1. Mild(<<>>, s, content) /\ Mild(Save(d, v), s, content)
    BY <1>6, MildLists
  <2> QED BY <1>3, <1>4, <2>1, MildBoth
<1>7. ASSUME ~job.created, before.views[job.dir] # NoFile, job.files = NoSnapshot
      PROVE  Mild(io', job.dir, before.views[job.dir])
  <2>1. /\ View(disk[job.dir]) = before.views[job.dir] /\ job.pending = NoMode
        /\ before.views[job.dir] \in Values
    BY <1>1, <1>7 DEF ProfileRolls, Steady, UndoInv, BeforeInv
  <2>2. data' = before.views[job.dir]
    BY <1>1, <1>7, <2>1, MergedIsOwn
  <2> QED BY <1>2, <1>6, <2>2
<1>8. Mild(io', Global, before.views[Global])
  BY <1>1, <1>2, <1>6
<1>9. pc \in Changing /\ pc' \in Changing /\ pc \in Changing \ Clearing
  BY <1>1 DEF Changing, Unwinding, Giving, Given, Clearing
<1> QED BY <1>1, <1>2, <1>5, <1>7, <1>8, <1>9, Onward

\* The directory is made, or the files are copied into it.
LEMMA MigrateRoll ==
  ASSUME Honest, Honest', UndoInv, First, First', Migrate
  PROVE  RollInv'
<1>1. /\ RollInv /\ job.dir \in Dirs /\ job.dir # Global /\ job.dir \in Scopes /\ Global \in Scopes
      /\ DirsRoll /\ OthersRoll /\ GlobalRolls /\ ProfileRolls
      /\ pc = "migrate" /\ pc' = "open" /\ io' = io /\ io = <<>> /\ before' = before
      /\ job \in Jobs /\ disk \in [Scopes -> Files] /\ ~job.created
  BY Apart, Known DEF UndoInv, RollInv, Migrate, Publish, fileVars, ghostVars, At, Honest, IInv,
     JobInv, FilesInv, CopyInv, Copying
<1>2. pc \in Changing /\ pc' \in Changing /\ pc \in Changing \ Clearing /\ pc' \in Changing \ Clearing
  BY <1>1 DEF Changing, Unwinding, Giving, Given, Clearing
<1>3. /\ \A i \in 1..Len(io') : io'[i].at \in {job.dir, Global}
      /\ \A s, content : Mild(io', s, content)
  BY <1>1, MildLists
<1>4. CASE UNCHANGED <<disk, exists, job>>
  BY <1>1, <1>2, <1>3, <1>4, Onward
<1>5. ASSUME NEW source, Publish(job.dir, source), job.dir \notin exists PROVE RollInv'
  <2>1. /\ exists' = exists \cup {job.dir}
        /\ \E files : disk' = [disk EXCEPT ![job.dir] = files]
        /\ job' = [job EXCEPT !.source = source, !.created = TRUE]
    BY <1>5 DEF Publish
  <2>2. /\ UNCHANGED <<job.dir, job.global, job.committing>> /\ job'.created
        /\ \A s \in Scopes : s # job.dir => disk'[s] = disk[s]
    BY <1>1, <2>1 DEF Jobs
  <2>3. job.dir \notin before.exists /\ exists = before.exists
    BY <1>1, <1>5 DEF DirsRoll
  <2>4. before.views[job.dir] = NoFile
    <3>1. disk[job.dir] = NoFiles /\ job.files = NoSnapshot
      BY <1>1, <1>5 DEF UndoInv, TreeInv
    <3>2. View(NoFiles) = NoFile
      BY FileAssumption DEF View, NoFiles, Valid
    <3> QED BY <1>1, <3>1, <3>2 DEF ProfileRolls, Steady
  <2>5. DirsRoll' /\ OthersRoll'
    BY <1>1, <1>3, <2>1, <2>2, <2>3, <2>4 DEF DirsRoll, OthersRoll, Requested
  <2>6. GlobalRolls'
    BY <1>1, <1>2, <1>3, <2>2 DEF GlobalRolls, Steady, Unwinding
  <2>7. ProfileRolls'
    BY <2>2 DEF ProfileRolls
  <2> QED BY <1>1, <2>2, <2>5, <2>6, <2>7 DEF RollInv
<1> QED BY <1>4, <1>5 DEF Migrate, fileVars, dirVars

\* What is in one of two lists is in both of them in a row.
LEMMA InBoth ==
  ASSUME NEW S, NEW p \in Seq(S), NEW q \in Seq(S)
  PROVE  /\ \A k \in 1..Len(p) : \E i \in 1..Len(p \o q) : (p \o q)[i] = p[k]
         /\ \A k \in 1..Len(q) : \E i \in 1..Len(p \o q) : (p \o q)[i] = q[k]
<1> DEFINE m == Len(p)
           n == Len(q)
           r == p \o q
<1>1. /\ m \in Nat /\ n \in Nat /\ Len(r) = m + n
      /\ \A k \in 1..m : r[k] = p[k]
      /\ \A k \in (m + 1)..(m + n) : r[k] = q[k - m]
  OBVIOUS
<1> HIDE DEF m, n, r
<1>2. ASSUME NEW k \in 1..m PROVE \E i \in 1..Len(r) : r[i] = p[k]
  BY <1>1
<1>3. ASSUME NEW k \in 1..n PROVE \E i \in 1..Len(r) : r[i] = q[k]
  <2>1. m + k \in (m + 1)..(m + n) /\ m + k \in 1..Len(r) /\ (m + k) - m = k
    BY <1>1
  <2>2. r[m + k] = q[(m + k) - m]
    BY <1>1, <2>1
  <2> QED BY <2>1, <2>2
<1> QED BY <1>2, <1>3 DEF m, n, r

\* The rollback asks for all of a snapshot.
LEMMA UndoAsks ==
  ASSUME Undo
  PROVE  /\ ~job.created /\ job.files # NoSnapshot =>
              /\ \E i \in 1..Len(io') : io'[i] = Request("putmain", job.dir, job.files.main)
              /\ \E i \in 1..Len(io') : io'[i] = Request("putbak", job.dir, job.files.bak)
         /\ job.committing =>
              /\ \E i \in 1..Len(io') : io'[i] = Request("putmain", Global, job.global.main)
              /\ \E i \in 1..Len(io') : io'[i] = Request("putbak", Global, job.global.bak)
<1> DEFINE a == Request("putmain", job.dir, job.files.main)
           b == Request("putbak", job.dir, job.files.bak)
           c == Request("putmain", Global, job.global.main)
           d == Request("putbak", Global, job.global.bak)
           one == IF ~job.created /\ job.files # NoSnapshot THEN <<a, b>> ELSE <<>>
           two == IF job.committing THEN <<c, d>> ELSE <<>>
<1>1. io' = one \o two
  BY DEF Undo, Restore
<1> HIDE DEF a, b, c, d
<1> DEFINE S == {a, b, c, d}
<1>2. one \in Seq(S) /\ two \in Seq(S)
  <2>1. <<a, b>> \in Seq(S) /\ <<c, d>> \in Seq(S) /\ <<>> \in Seq(S)
    OBVIOUS
  <2> QED BY <2>1
<1>3. /\ Len(<<a, b>>) = 2 /\ <<a, b>>[1] = a /\ <<a, b>>[2] = b
      /\ Len(<<c, d>>) = 2 /\ <<c, d>>[1] = c /\ <<c, d>>[2] = d /\ 1 \in 1..2 /\ 2 \in 1..2
  OBVIOUS
<1>4. ~job.created /\ job.files # NoSnapshot =>
        (\E k \in 1..Len(one) : one[k] = a) /\ \E k \in 1..Len(one) : one[k] = b
  BY <1>3
<1>5. job.committing =>
        (\E k \in 1..Len(two) : two[k] = c) /\ \E k \in 1..Len(two) : two[k] = d
  BY <1>3
<1> HIDE DEF S, one, two
<1>6. /\ \A k \in 1..Len(one) : \E i \in 1..Len(io') : io'[i] = one[k]
      /\ \A k \in 1..Len(two) : \E i \in 1..Len(io') : io'[i] = two[k]
  BY <1>1, <1>2, InBoth
<1> QED BY <1>4, <1>5, <1>6 DEF a, b, c, d

\* The rollback puts the snapshot back, and removes the directory it made.
LEMMA UndoRoll ==
  ASSUME Honest, Honest', UndoInv, First', Undo
  PROVE  RollInv'
<1>1. /\ pc = "undo" /\ pc' = "undone" /\ job' = job /\ before' = before
      /\ disk \in [Scopes -> Files] /\ Global \in Scopes
  BY Known DEF Undo, At, Honest, IInv, FilesInv
<1>2. spent' = spent /\ ~Spend("fails", MaxFails) /\ First
  <2>1. /\ spent \in Spent /\ before.fails \in Nat /\ before.fails < spent.fails
        /\ spent' = spent \/ Spend("fails", MaxFails)
        /\ Spend("fails", MaxFails) => spent'.fails = spent.fails + 1
    BY <1>1 DEF Honest, UndoInv, BeforeInv, Undo, Spend, Spent, Unwinding
  <2>2. spent'.fails = before.fails + 1
    BY <1>1 DEF First, Changing, Unwinding
  <2>3. ~Spend("fails", MaxFails)
    BY <2>1, <2>2 DEF Spent
  <2> QED BY <1>1, <2>1, <2>2, <2>3 DEF First, Unwinding
<1>3. /\ job.dir \in Dirs /\ job.dir # Global /\ DirsRoll /\ OthersRoll /\ GlobalRolls /\ ProfileRolls
      /\ job.dir \in Scopes
  BY <1>2, Apart, Known DEF UndoInv, RollInv
<1>4. /\ job.created => exists' = exists \ {job.dir}
      /\ ~job.created => exists' = exists /\ disk' = disk
      /\ \A s \in Scopes : s # job.dir => disk'[s] = disk[s]
  BY <1>1, <1>2, <1>3 DEF Undo, Remove, dirVars
<1>5. DirsRoll'
  BY <1>1, <1>3, <1>4 DEF DirsRoll
<1>6. OthersRoll'
  BY <1>1, <1>3, <1>4, UndoRequests DEF OthersRoll, Requested
<1>7. GlobalRolls'
  <2>1. View(job'.global) = before'.views[Global]
    BY <1>1, <1>3 DEF GlobalRolls
  <2>2. ASSUME ~job.committing, before.views[Global] # NoFile
        PROVE  View(disk'[Global]) = before.views[Global] /\ Mild(io', Global, before.views[Global])
    <3>1. View(disk'[Global]) = before.views[Global]
      BY <1>1, <1>3, <1>4, <2>2 DEF GlobalRolls, Steady, Unwinding
    <3>2. \A i \in 1..Len(io') : io'[i].at # Global
      BY <1>3, <2>2, UndoRequests
    <3> QED BY <3>1, <3>2 DEF Mild
  <2>3. job.committing => PutBack(Global, job.global)'
    BY <1>1, <1>3, UndoAsks, UndoRequests DEF PutBack, Requested
  <2> QED BY <1>1, <2>1, <2>2, <2>3 DEF GlobalRolls, Steady, Changing, Unwinding
<1>8. ProfileRolls'
  <2>1. ASSUME ~job.created, before.views[job.dir] # NoFile, job.files = NoSnapshot
        PROVE  View(disk'[job.dir]) = before.views[job.dir] /\ Mild(io', job.dir, before.views[job.dir])
    <3>1. \A i \in 1..Len(io') : io'[i].at # job.dir
      BY <1>3, <2>1, UndoRequests
    <3> QED BY <1>3, <1>4, <2>1, <3>1 DEF Mild, ProfileRolls, Steady
  <2>2. ASSUME ~job.created, job.files # NoSnapshot PROVE PutBack(job.dir, job.files)'
    BY <1>1, <1>3, <2>2, UndoAsks, UndoRequests DEF PutBack, Requested
  <2> QED BY <1>1, <1>3, <2>1, <2>2 DEF ProfileRolls, Steady
<1> QED BY <1>1, <1>3, <1>5, <1>6, <1>7, <1>8 DEF RollInv

\* A request is executed.
LEMMA RequestRoll ==
  ASSUME Honest, Honest', UndoInv, DoRequest
  PROVE  RollInv'
<1>1. FilesInv /\ GhostInv /\ HeadInv /\ Execute /\ UNCHANGED <<pc, job, exists, before, spent>>
  BY DEF Honest, IInv, GoodInv, DoRequest, dirVars, ghostVars, Undamaged
<1>2. PICK z, value : z = This.at /\ value = This.value
  OBVIOUS
<1>3. z \in Scopes
  <2>1. io # <<>> /\ io \in Seq(Fitting)
    BY <1>1 DEF Execute, DoRepair, DoRebuild, DoBackup, DoReplace, DoPut, Doing, FilesInv
  <2> QED BY <1>2, <2>1, QueueMoves DEF Fitting, Requests
<1> SUFFICES ASSUME First PROVE RollInv'
  BY <1>1 DEF First, RollInv
<1>4. PICK dir, files, global, views : /\ dir = job.dir /\ files = job.files /\ global = job.global
                                       /\ views = before.views
  OBVIOUS
<1>5. /\ dir \in Dirs /\ DirsRoll /\ OthersRoll /\ GlobalRolls /\ ProfileRolls
      /\ Global \in Scopes /\ dir \in Scopes /\ \A s \in Scopes : views[s] \in Values \cup {NoFile}
  BY <1>4, Known DEF UndoInv, RollInv, BeforeInv
<1>6. /\ \A s \in Scopes : \A content \in Values : Steady(s, content) => Steady(s, content)'
      /\ \A s \in Scopes : \A f : PutBack(s, f) => PutBack(s, f)'
  <2>1. ASSUME NEW s \in Scopes, NEW content \in Values, Steady(s, content)
        PROVE  Steady(s, content)'
    <3>1. View(disk'[s]) = content /\ Mild(io', s, content)
      BY <1>1, <1>2, <1>3, <2>1, SteadyStays
    <3> QED BY <3>1 DEF Steady
  <2>2. ASSUME NEW s \in Scopes, NEW f, PutBack(s, f) PROVE PutBack(s, f)'
    BY <1>1, <1>2, <1>3, <2>2, PutBackStays
  <2> QED BY <2>1, <2>2
<1>7. DirsRoll'
  BY <1>1, <1>5 DEF DirsRoll
<1>8. OthersRoll'
  <2>1. PICK T : T = {dir, Global}
    OBVIOUS
  <2>2. \A i \in Requested : io[i].at \in T
    BY <1>4, <1>5, <2>1 DEF OthersRoll
  <2>3. /\ \A i \in 1..Len(io') : io'[i].at \in T
        /\ \A s \in Scopes \ T : disk'[s] = disk[s]
    BY <1>1, <1>2, <1>3, <2>2, ScopesStay
  <2> QED BY <1>1, <1>4, <1>5, <2>1, <2>3 DEF OthersRoll, Requested
<1>9. GlobalRolls'
  <2>1. Steady(Global, views[Global]) /\ views[Global] # NoFile => Steady(Global, views[Global])'
    BY <1>5, <1>6
  <2>2. PutBack(Global, global) => PutBack(Global, global)'
    BY <1>5, <1>6
  <2> QED BY <1>1, <1>4, <1>5, <2>1, <2>2 DEF GlobalRolls
<1>10. ProfileRolls'
  <2>1. Steady(dir, views[dir]) /\ views[dir] # NoFile => Steady(dir, views[dir])'
    BY <1>5, <1>6
  <2>2. PutBack(dir, files) => PutBack(dir, files)'
    BY <1>5, <1>6
  <2> QED BY <1>1, <1>4, <1>5, <2>1, <2>2 DEF ProfileRolls
<1> QED BY <1>1, <1>4, <1>5, <1>7, <1>8, <1>9, <1>10 DEF RollInv

\* The profile is opened by its repair.
LEMMA NextMerge ==
  ASSUME Honest, Honest', UndoInv, [Next]_vars, ~DamageFile
  PROVE  MergeInv'
<1> SUFFICES ASSUME pc' = "merge"
             PROVE  IF io' = <<>>
                    THEN Valid(disk'[job'.dir].main) \/ ~Valid(disk'[job'.dir].bak)
                    ELSE Len(io') = 1 /\ io'[1].at = job'.dir /\ io'[1].do \in Chain
  BY DEF MergeInv, Prepared, Ready, Main, Bak
<1>1. CASE DoRequest
  <2>1. FilesInv /\ GhostInv /\ Execute /\ job' = job /\ pc = "merge" /\ job.dir \in Dirs
        /\ Prepared(job.dir)
    BY <1>1 DEF Honest, IInv, GoodInv, DoRequest, UndoInv, MergeInv, JobInv, Working
  <2>2. PICK dir, value : dir = job.dir /\ value = This.value
    OBVIOUS
  <2>3. Prepared(dir)'
    BY <2>1, <2>2, LoneRequest, Known
  <2> QED BY <2>1, <2>2, <2>3 DEF Prepared, Ready, Main, Bak
<1>2. CASE UNCHANGED vars
  <2>1. io' = io /\ disk' = disk /\ job' = job /\ pc = "merge"
    BY <1>2 DEF vars, fileVars
  <2> QED BY <2>1 DEF UndoInv, MergeInv, Prepared, Ready, Main, Bak
<1>3. CASE Open
  <2>1. /\ disk' = disk /\ job' = job /\ io = <<>>
        /\ \/ io' = <<Repair(job.dir)>>
           \/ io' = <<>> /\ disk[job.dir] = NoFiles
    BY <1>3 DEF Open, At, Issue, fileVars
  <2>2. CASE io' = <<Repair(job.dir)>>
    <3>1. Len(io') = 1 /\ io'[1] = Repair(job.dir) /\ io' # <<>>
      BY <2>2
    <3> QED BY <2>1, <3>1 DEF Repair, Request, Chain
  <2>3. CASE io' = <<>> /\ disk[job.dir] = NoFiles
    <3>1. ~Valid(disk'[job'.dir].bak)
      BY <2>1, <2>3, FileAssumption DEF NoFiles, Valid
    <3> QED BY <2>3, <3>1
  <2> QED BY <2>1, <2>2, <2>3
<1> QED BY <1>1, <1>2, <1>3, Arrival DEF Giving

\* Every step keeps what can be given back.
LEMMA NextRoll ==
  ASSUME Honest, Honest', UndoInv, BeforeInv', [Next]_vars, ~DamageFile
  PROVE  RollInv'
<1>1. CASE DoRequest
  BY <1>1, RequestRoll
<1>2. CASE UNCHANGED vars
  BY <1>2 DEF UndoInv, RollInv, First, DirsRoll, OthersRoll, GlobalRolls, ProfileRolls, Steady,
     PutBack, Requested, Main, Bak, vars, fileVars, dirVars, ghostVars
<1> SUFFICES ASSUME First', ~DoRequest, ~UNCHANGED vars PROVE RollInv'
  BY <1>1, <1>2 DEF RollInv
<1>3. pc' \in Giving
  BY DEF First, Changing, Unwinding, Giving
<1>4. CASE Same \/ Clear \/ Migrate \/ Open \/ Merge \/ Commit \/ PublishGlobal
  <2>1. /\ pc \in Changing /\ pc' \in Changing /\ pc' \notin Unwinding /\ before' = before
        /\ spent' = spent \/ Spend("fails", MaxFails)
    BY <1>4 DEF Same, Clear, Migrate, Publish, Open, Merge, Commit, PublishGlobal, At, ghostVars,
       Changing, Unwinding, Giving, Given, Clearing
  <2>2. /\ spent'.fails = before.fails /\ before.fails <= spent.fails /\ before.fails \in Nat
        /\ spent \in Spent
    BY <2>1 DEF First, UndoInv, BeforeInv, Honest
  <2>3. spent.fails = before.fails
    BY <2>1, <2>2 DEF Spend, Spent
  <2>4. First
    BY <2>1, <2>3 DEF First
  <2> QED BY <1>4, <2>4, ActivationRoll, MergeRoll, MigrateRoll
<1>5. CASE (Snapshot /\ pc' = "migrate") \/ (ReadPendingSame /\ pc' = "same")
  BY <1>5, EnterRoll
<1>6. CASE Fail /\ pc' = "undo"
  BY <1>6, FailRoll
<1>7. CASE Undo
  BY <1>7, UndoRoll
<1> QED BY ZenonT(60), <1>3, <1>4, <1>5, <1>6, <1>7, Arrival

\* Nothing is active at first.
LEMMA InitUndo == Init => UndoInv
<1> SUFFICES ASSUME Init PROVE UndoInv
  OBVIOUS
<1>1. /\ io = <<>> /\ job = NoJob /\ pc = "idle" /\ path = Global
      /\ disk = [s \in Scopes |-> [main |-> newest[s], bak |-> NoFile]]
      /\ before = [exists |-> {}, views |-> newest, fails |-> 0]
      /\ \A dir \in Dirs : dir \in exists \/ newest[dir] = NoFile
  BY Known DEF Init
<1>2. Len(io) = 0 /\ GhostInv
  BY <1>1, InitGood DEF GoodInv
<1>3. TreeInv
  BY <1>1, <1>2, NoJobIsIdle, Known DEF TreeInv, There, Requested, Opened, Changing, Giving, Given,
     Clearing, NoFiles
<1>4. BeforeInv
  BY <1>1, <1>2 DEF BeforeInv, GhostInv, Changing, Unwinding, Giving, Given, Clearing
<1>5. MergeInv /\ RollInv
  BY <1>1 DEF MergeInv, RollInv, First, Changing, Unwinding, Giving, Given, Clearing
<1> QED BY <1>3, <1>4, <1>5, InitWhole DEF UndoInv

\* Every step that destroys nothing keeps what the rollback rests on.
LEMMA NextUndo ==
  ASSUME Honest, Honest', UndoInv, [Next]_vars, ~DamageFile
  PROVE  UndoInv'
<1>1. TreeInv' /\ WholeInv' /\ BeforeInv'
  BY NextTree, NextWhole, NextBefore DEF UndoInv
<1> QED BY <1>1, NextMerge, NextRoll DEF UndoInv

\* Until something is destroyed, what an activation changes can be given back.
LEMMA UndoInvariance == Spec => [](spent.damage = 0 => UndoInv)
<1>1. Init => (spent.damage = 0 => UndoInv)
  BY InitUndo
<1>2. IInv /\ IInv' /\ HonestInv /\ HonestInv' /\ (spent.damage = 0 => UndoInv) /\ [Next]_vars
        => (spent.damage = 0 => UndoInv)'
  BY Counting, NextUndo DEF HonestInv, Honest, GoodInv
<1> QED BY <1>1, <1>2, StoreInvariance, HonestInvariance, PTL DEF Spec

\* An activation that fails once leaves every settings file with what it held, and no
\* directory of its own (the rollback of activate_device_profile).
THEOREM RollbackSafety == Spec => []FailedActivationChangesNothing
<1>1. HonestInv /\ (spent.damage = 0 => UndoInv) => FailedActivationChangesNothing
  <2> SUFFICES ASSUME UndoInv, pc = "undone", io = <<>>, spent.fails = before.fails + 1
               PROVE  /\ exists = before.exists
                      /\ \A s \in Scopes :
                            before.views[s] # NoFile => View(disk[s]) = before.views[s]
    BY DEF FailedActivationChangesNothing, At
  <2>1. First /\ Len(io) = 0
    BY DEF First, Unwinding
  <2>2. DirsRoll /\ OthersRoll /\ GlobalRolls /\ ProfileRolls
    BY <2>1 DEF UndoInv, RollInv
  <2>3. ASSUME NEW s, NEW files, PutBack(s, files) PROVE View(disk[s]) = View(files)
    BY <2>1, <2>3 DEF PutBack, Requested, View, Main, Bak
  <2>4. before.views[Global] # NoFile => View(disk[Global]) = before.views[Global]
    BY <2>2, <2>3 DEF GlobalRolls, Steady, Unwinding
  <2>5. before.views[job.dir] # NoFile => View(disk[job.dir]) = before.views[job.dir]
    BY <2>2, <2>3 DEF ProfileRolls, DirsRoll, Steady
  <2> QED BY <2>2, <2>4, <2>5 DEF DirsRoll, OthersRoll
<1> QED BY <1>1, HonestInvariance, UndoInvariance, PTL
=============================================================================
