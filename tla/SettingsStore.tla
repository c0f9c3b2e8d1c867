---------------------------- MODULE SettingsStore ----------------------------
(***************************************************************************)
(* SettingsManager (openadb/core/settings_manager.py): the application's   *)
(* settings and those of the device profiles, the access mode chosen while *)
(* no device is there, and the activation of a profile with its migration, *)
(* commit and rollback.                                                    *)
(*                                                                         *)
(* Every operation runs under _save_lock, so there is one thread; what     *)
(* happens between its steps is that a file operation fails or that the    *)
(* program is stopped and started again.                                   *)
(***************************************************************************)
EXTENDS SettingsFiles

CONSTANTS Serials,      \* serial numbers of devices
          Backends,     \* access modes, "standard" among them
          InitialDirs,  \* profiles that may be there from earlier versions
          MaxOps,       \* bound on what the user and the devices do
          MaxCrashes,   \* bound on crashes
          MaxFails,     \* bound on failing file operations
          MaxDamage     \* bound on files destroyed from outside

Places == {"devices", "Phones", "TVs"}
Dirs   == Serials \X Places
Global == <<"OpenADB", "OpenADB">>
Unset  == <<"", "">>

AllScopes  == Dirs \cup {Global}
Setting    == [backend: Backends, pending: Backends \cup {""}, home: AllScopes \cup {Unset}]
Standard   == [backend |-> "standard", pending |-> "", home |-> Unset]

ASSUME StoreAssumption == /\ Scopes = AllScopes
                          /\ Values = Setting
                          /\ Defaults = Standard
                          /\ "standard" \in Backends
                          /\ InitialDirs \subseteq Dirs

VARIABLES
  exists,    \* the profile directories
  holds,     \* those with the latest backup of their device
  running,   \* whether the program runs
  pc,        \* where its operation is
  path,      \* SettingsManager.path: Global, or the active profile
  data,      \* SettingsManager.data
  job,       \* the local variables of the operation
  spent,     \* how many operations, crashes, failures and damages there have been
  owed,      \* the choice made without a device and not yet given to one
  taker,     \* the profile it is being given to
  before,    \* what an activation found before it changed anything
  takers     \* the profiles that have been saved with it

dirVars    == <<exists, holds>>
memoryVars == <<running, path, data>>
ghostVars  == <<owed, taker, takers, before>>
vars       == <<fileVars, dirVars, memoryVars, pc, job, spent, ghostVars>>

NoSnapshot == [main |-> Damaged, bak |-> Damaged]

NoJob == [dir |-> Unset, pending |-> "", source |-> Unset, created |-> FALSE,
          committing |-> FALSE, path |-> Global, data |-> Defaults,
          files |-> NoSnapshot, global |-> NoSnapshot]

Labels == {"idle", "boot", "booted", "save", "queue", "queued", "pending", "same", "clear",
           "cleared", "snapshot", "migrate", "open", "merge", "commit", "publish", "retire",
           "undo", "undone"}

Serial(dir) == dir[1]

TypeOK ==
  /\ FilesTypeOK
  /\ exists \subseteq Dirs
  /\ holds \subseteq Dirs
  /\ running \in BOOLEAN
  /\ pc \in Labels
  /\ path \in Scopes
  /\ data \in Values
  /\ job.dir \in Dirs \cup {Unset}
  /\ owed \in Backends \cup {""}
  /\ taker \in Dirs \cup {Unset}
  /\ takers \subseteq Dirs
  /\ \A dir \in Dirs : disk[dir] # NoFiles => dir \in exists

Init ==
  /\ exists \in SUBSET InitialDirs
  /\ holds = exists
  /\ \E mode \in Backends :
        newest = [s \in Scopes |->
                    IF s \in exists
                    THEN [backend |-> mode, pending |-> "", home |-> s] ELSE NoFile]
  /\ older = newest
  /\ disk = [s \in Scopes |-> [main |-> newest[s], bak |-> NoFile]]
  /\ io = <<>>
  /\ running = FALSE
  /\ pc = "idle"
  /\ path = Global
  /\ data = Defaults
  /\ job = NoJob
  /\ spent = [ops |-> 0, crashes |-> 0, fails |-> 0, damage |-> 0]
  /\ owed = ""
  /\ taker = Unset
  /\ takers = {}
  /\ before = [exists |-> {}, views |-> newest, fails |-> 0]

-----------------------------------------------------------------------------
(* Helpers *)

Spend(what, max) == spent[what] < max /\ spent' = [spent EXCEPT ![what] = @ + 1]

At(label) == running /\ pc = label /\ io = <<>>

Begin == At("idle") /\ Spend("ops", MaxOps)

Issue(requests) == io' = requests /\ UNCHANGED <<disk, newest, older>>

\* What is merged into DEFAULT_SETTINGS when the global file is changed.
GlobalSettings == IF Valid(Main(Global)) THEN Main(Global) ELSE Defaults

Queued(backend, pending) ==
  [GlobalSettings EXCEPT !.backend = backend, !.pending = pending]

\* Mutant: no scope keeps a pending mode when it is loaded.
LoadedUnqueued(scope, content) ==
  IF ~Valid(content) THEN Defaults ELSE [content EXCEPT !.pending = ""]

\* _normalize_privilege_settings: only the global scope has a pending mode.
Loaded(scope, content) ==
  IF ~Valid(content) THEN Defaults
  ELSE IF scope = Global THEN content ELSE [content EXCEPT !.pending = ""]

\* Mutant: a new profile starts with all of the application's settings.
InitialProfileWithMarker == data

\* _initial_profile_data: the access mode is local to a profile, and so is nothing
\* of a pending choice.
InitialProfile == Defaults

WithMode(settings, mode) ==
  IF mode = "" THEN settings ELSE [settings EXCEPT !.backend = mode]

-----------------------------------------------------------------------------
(* Start and stop *)

\* __init__: the global settings are loaded ...
Start ==
  /\ ~running
  /\ running' = TRUE
  /\ path' = Global
  /\ pc' = "boot"
  /\ Issue(<<Repair(Global)>>)
  /\ UNCHANGED <<dirVars, data, job, spent, ghostVars>>

\* A choice that has been given to a profile and taken from the queue is settled.
Settled == owed # "" /\ taker # Unset /\ View(disk[Global]) # NoFile
             /\ View(disk[Global]).pending = "" /\ View(disk[taker]) # NoFile
             /\ View(disk[taker]).backend = owed

\* ... and the folders set, which saves them.
Boot ==
  /\ At("boot")
  /\ LET loaded == Loaded(Global, Main(Global))
     IN  /\ data' = IF loaded.home = Unset THEN [loaded EXCEPT !.home = Global] ELSE loaded
         /\ Issue(IF loaded.home = Unset THEN Save(Global, data') ELSE <<>>)
  /\ pc' = "booted"
  /\ owed' = IF Settled THEN "" ELSE owed
  /\ UNCHANGED <<dirVars, running, path, job, spent, taker, takers, before>>

Crash ==
  /\ running
  /\ Spend("crashes", MaxCrashes)
  /\ running' = FALSE
  /\ pc' = "idle"
  /\ path' = Global
  /\ data' = Defaults
  /\ io' = <<>>
  /\ job' = NoJob
  /\ UNCHANGED <<disk, newest, older, dirVars, ghostVars>>

\* The operation has returned.
Return ==
  /\ At("save") \/ At("booted")
  /\ pc' = "idle"
  /\ UNCHANGED <<fileVars, dirVars, memoryVars, job, spent, ghostVars>>

-----------------------------------------------------------------------------
(* The user *)

\* select_privilege_backend with the active profile's device there.
SelectForProfile(mode) ==
  /\ Begin
  /\ path # Global
  /\ data' = [data EXCEPT !.backend = mode]
  /\ Issue(Save(path, data'))
  /\ pc' = "save"
  /\ UNCHANGED <<dirVars, running, path, job, ghostVars>>

\* ... and without it: the choice waits in the global settings.
SelectOffline(mode) ==
  /\ Begin
  /\ data' = IF path = Global THEN [data EXCEPT !.backend = mode, !.pending = mode] ELSE data
  /\ Issue(IF path = Global THEN Save(Global, data') ELSE <<Repair(Global)>>)
  /\ job' = [job EXCEPT !.pending = mode]
  /\ pc' = IF path = Global THEN "queued" ELSE "queue"
  /\ owed' = ""
  /\ UNCHANGED <<dirVars, running, path, taker, takers, before>>

Queue ==
  /\ At("queue")
  /\ Issue(<<Write(Global, Queued(job.pending, job.pending))>>)
  /\ pc' = "queued"
  /\ UNCHANGED <<dirVars, memoryVars, job, spent, ghostVars>>

QueueDone ==
  /\ At("queued")
  /\ owed' = job.pending
  /\ taker' = Unset
  /\ takers' = {}
  /\ job' = NoJob
  /\ pc' = "idle"
  /\ UNCHANGED <<fileVars, dirVars, memoryVars, spent, before>>

\* A backup is made into the active profile's folder, which is created if need be.
MakeBackup ==
  /\ Begin
  /\ path # Global
  /\ holds' = {dir \in holds : Serial(dir) # Serial(path)} \cup {data.home}
  /\ exists' = exists \cup {data.home}
  /\ UNCHANGED <<fileVars, memoryVars, pc, job, ghostVars>>

-----------------------------------------------------------------------------
(* activate_device_profile *)

Activate(dir) ==
  /\ Begin
  /\ job' = [NoJob EXCEPT !.dir = dir, !.path = path, !.data = data]
  /\ Issue(IF path = Global THEN <<>> ELSE <<Repair(Global)>>)
  /\ pc' = "pending"
  /\ UNCHANGED <<dirVars, memoryVars, ghostVars>>

\* What a reader finds now; the failures so far are counted with it.
Remembered == [exists |-> exists, views |-> [s \in Scopes |-> View(disk[s])],
               fails |-> spent.fails]

PendingMode == IF path = Global THEN data.pending ELSE GlobalSettings.pending

\* The profile that is active already: only a pending choice is given to it.
ReadPendingSame ==
  /\ At("pending")
  /\ job.dir = path
  /\ IF PendingMode = ""
     THEN /\ pc' = "idle"
          /\ job' = NoJob
          /\ UNCHANGED <<fileVars, data, taker, before>>
     ELSE /\ job' = [job EXCEPT !.pending = PendingMode, !.files = disk[path],
                                !.global = disk[Global]]
          /\ data' = WithMode(data, PendingMode)
          /\ Issue(Save(path, data'))
          /\ taker' = path
          /\ before' = Remembered
          /\ pc' = "same"
  /\ UNCHANGED <<dirVars, running, path, spent, owed, takers>>

Same ==
  /\ At("same")
  /\ Issue(<<Repair(Global)>>)
  /\ takers' = takers \cup {path}
  /\ pc' = "clear"
  /\ UNCHANGED <<dirVars, memoryVars, job, spent, owed, taker, before>>

\* _clear_pending_privilege_backend
Clear ==
  /\ At("clear")
  /\ Issue(<<Write(Global, Queued("standard", ""))>>)
  /\ pc' = "cleared"
  /\ UNCHANGED <<dirVars, memoryVars, job, spent, ghostVars>>

Cleared ==
  /\ At("cleared")
  /\ owed' = ""
  /\ job' = NoJob
  /\ pc' = "idle"
  /\ UNCHANGED <<fileVars, dirVars, memoryVars, spent, taker, takers, before>>

\* Another profile: what is in memory is saved, and the global scope repaired before
\* it is looked at.
ReadPending ==
  /\ At("pending")
  /\ job.dir # path
  /\ job' = [job EXCEPT !.pending = PendingMode]
  /\ Issue(Save(path, data) \o <<Repair(Global)>>)
  /\ pc' = "snapshot"
  /\ UNCHANGED <<dirVars, memoryVars, spent, ghostVars>>

Snapshot ==
  /\ At("snapshot")
  /\ job' = [job EXCEPT
               !.global = disk[Global],
               !.files = IF job.pending # "" /\ job.dir \in exists
                         THEN disk[job.dir] ELSE NoSnapshot]
  /\ before' = Remembered
  /\ pc' = "migrate"
  /\ UNCHANGED <<fileVars, dirVars, memoryVars, spent, owed, taker, takers>>

\* The older layout, and the profile of the other kind.
Opposite(dir) == <<Serial(dir), IF dir[2] = "TVs" THEN "Phones" ELSE "TVs">>
Legacy(dir)   == <<Serial(dir), "devices">>
Sources(dir)  == {Legacy(dir), Opposite(dir)} \cap exists
BothThere(dir) == Sources(dir) = {Legacy(dir), Opposite(dir)}

\* Mutant: the source is moved.
PublishByMove(dir, source) ==
  /\ exists' = (exists \ {source}) \cup {dir}
  /\ holds' = IF source \in holds THEN (holds \ {source}) \cup {dir} ELSE holds
  /\ disk' = [s \in Scopes |-> IF s = source THEN NoFiles
                             ELSE IF s = dir /\ source # Unset THEN disk[source] ELSE disk[s]]
  /\ newest' = [newest EXCEPT ![dir] = NoFile]
  /\ older' = [older EXCEPT ![dir] = NoFile]
  /\ job' = [job EXCEPT !.source = source, !.created = TRUE]
  /\ pc' = "open"
  /\ UNCHANGED io

\* _publish_profile_candidate: a copy of the source appears with one rename.
Publish(dir, source) ==
  /\ exists' = exists \cup {dir}
  /\ holds' = IF source \in holds THEN holds \cup {dir} ELSE holds
  /\ disk' = [disk EXCEPT ![dir] = IF source = Unset THEN NoFiles ELSE disk[source]]
  /\ newest' = [newest EXCEPT ![dir] = IF source = Unset THEN NoFile ELSE newest[source]]
  /\ older' = [older EXCEPT ![dir] = IF source = Unset THEN NoFile ELSE older[source]]
  /\ job' = [job EXCEPT !.source = source, !.created = TRUE]
  /\ pc' = "open"
  /\ UNCHANGED io

\* The older layout is copied, then, if there is none or that fails, the other kind.
Migrate ==
  /\ At("migrate")
  /\ \/ /\ job.dir \in exists
        /\ pc' = "open"
        /\ UNCHANGED <<fileVars, dirVars, job, spent>>
     \/ /\ job.dir \notin exists
        /\ Publish(job.dir, IF Sources(job.dir) = {} THEN Unset
                            ELSE IF Legacy(job.dir) \in exists THEN Legacy(job.dir)
                            ELSE Opposite(job.dir))
        /\ UNCHANGED spent
     \/ /\ job.dir \notin exists /\ BothThere(job.dir)
        /\ Spend("fails", MaxFails)
        /\ Publish(job.dir, Opposite(job.dir))
  /\ UNCHANGED <<memoryVars, ghostVars>>

\* The profile's own settings, or those of a new profile.
Open ==
  /\ At("open")
  /\ path' = job.dir
  /\ IF disk[job.dir] # NoFiles
     THEN data' = Defaults /\ Issue(<<Repair(job.dir)>>)
     ELSE data' = InitialProfile /\ UNCHANGED fileVars
  /\ pc' = "merge"
  /\ UNCHANGED <<dirVars, running, job, spent, ghostVars>>

\* _rebase_migrated_profile_paths
Rebase(settings) ==
  IF job.source # Unset /\ settings.home = job.source
  THEN [settings EXCEPT !.home = job.dir] ELSE settings

\* The loaded settings are completed; default folders are saved on their own.
Merge ==
  /\ At("merge")
  /\ LET own     == IF Valid(Main(path)) THEN Loaded(path, Main(path)) ELSE data
         merged  == WithMode(Rebase(own), job.pending)
     IN  /\ data' = IF merged.home = Unset THEN [merged EXCEPT !.home = path] ELSE merged
         /\ Issue((IF merged.home = Unset THEN Save(path, data') ELSE <<>>)
                    \o Save(path, data'))
  /\ taker' = IF job.pending = "" THEN taker ELSE path
  /\ pc' = "commit"
  /\ UNCHANGED <<dirVars, running, path, job, spent, owed, takers, before>>

\* The profile is complete: the global settings name it, and the choice is consumed.
Commit ==
  /\ At("commit")
  /\ Issue(<<Repair(Global)>>)
  /\ job' = [job EXCEPT !.committing = TRUE]
  /\ takers' = IF job.pending = "" THEN takers ELSE takers \cup {path}
  /\ pc' = "publish"
  /\ UNCHANGED <<dirVars, memoryVars, spent, owed, taker, before>>

\* _write_global_active_device
PublishGlobal ==
  /\ At("publish")
  /\ Issue(<<Write(Global, IF job.pending = "" THEN GlobalSettings
                           ELSE Queued("standard", ""))>>)
  /\ pc' = "retire"
  /\ UNCHANGED <<dirVars, memoryVars, job, spent, ghostVars>>

\* A directory disappears, with the settings in it.
Remove(dir) ==
  /\ exists' = exists \ {dir}
  /\ holds' = holds \ {dir}
  /\ disk' = [disk EXCEPT ![dir] = NoFiles]
  /\ newest' = [newest EXCEPT ![dir] = NoFile]
  /\ older' = [older EXCEPT ![dir] = NoFile]

\* _retire_migrated_profile; that the source cannot be removed is ignored.
Retire ==
  /\ At("retire")
  /\ \/ /\ job.source = Unset
        /\ UNCHANGED <<fileVars, dirVars, spent>>
     \/ /\ job.source # Unset
        /\ Remove(job.source)
        /\ UNCHANGED <<io, spent>>
     \/ /\ job.source # Unset
        /\ Spend("fails", MaxFails)
        /\ UNCHANGED <<fileVars, dirVars>>
  /\ owed' = IF job.pending = "" THEN owed ELSE ""
  /\ job' = NoJob
  /\ pc' = "idle"
  /\ UNCHANGED <<memoryVars, taker, takers, before>>

-----------------------------------------------------------------------------
(* Failing file operations *)

\* Mutant: only a directory created for the activation is taken back.
UndoCandidateOnly ==
  /\ At("undo")
  /\ path' = job.path
  /\ data' = job.data
  /\ IF job.created THEN Remove(job.dir) ELSE UNCHANGED <<disk, newest, older, dirVars>>
  /\ UNCHANGED <<io, spent>>
  /\ takers' = takers \ {job.dir}
  /\ pc' = "undone"
  /\ UNCHANGED <<running, job, owed, taker, before>>

\* The exception handler: memory, then the profile, then the global settings.
Undo ==
  /\ At("undo")
  /\ path' = job.path
  /\ data' = job.data
  /\ io' = (IF ~job.created /\ job.files # NoSnapshot
            THEN Restore(job.dir, job.files) ELSE <<>>)
           \o (IF job.committing THEN Restore(Global, job.global) ELSE <<>>)
  /\ \/ job.created /\ Remove(job.dir) /\ UNCHANGED spent
     \/ ~job.created /\ UNCHANGED <<disk, newest, older, dirVars, spent>>
     \/ /\ job.created /\ Spend("fails", MaxFails)
        /\ UNCHANGED <<disk, newest, older, dirVars>>
  /\ takers' = takers \ {job.dir}
  /\ pc' = "undone"
  /\ UNCHANGED <<running, job, owed, taker, before>>

Undone ==
  /\ At("undone")
  /\ job' = NoJob
  /\ pc' = "idle"
  /\ UNCHANGED <<fileVars, dirVars, memoryVars, spent, ghostVars>>

Unprotected == {"boot", "booted", "save", "queue", "queued", "pending", "snapshot", "undone"}

\* A request, or the copy of a migration, raises an OSError; during the start nobody
\* catches it.
Fail ==
  /\ running
  /\ \/ io # <<>>
     \/ pc = "migrate" /\ job.dir \notin exists /\ ~BothThere(job.dir)
  /\ Spend("fails", MaxFails)
  /\ io' = <<>>
  /\ running' = (pc \notin {"boot", "booted"})
  /\ IF pc \in Unprotected
     THEN pc' = "idle" /\ job' = NoJob
     ELSE /\ pc' = "undo"
          /\ job' = [job EXCEPT !.committing = @ \/ pc \in {"same", "clear", "cleared"}]
  /\ UNCHANGED <<disk, newest, older, dirVars, path, data, ghostVars>>

-----------------------------------------------------------------------------

DoRequest ==
  /\ running
  /\ Execute
  /\ UNCHANGED <<dirVars, memoryVars, pc, job, spent, ghostVars>>

DamageFile ==
  /\ Spend("damage", MaxDamage)
  /\ \E scope \in Scopes : Damage(scope)
  /\ UNCHANGED <<dirVars, memoryVars, pc, job, ghostVars>>

Next ==
  \/ Start \/ Boot \/ Crash \/ Return
  \/ \E mode \in Backends : SelectForProfile(mode) \/ SelectOffline(mode)
  \/ Queue \/ QueueDone
  \/ MakeBackup
  \/ \E dir \in {d \in Dirs : d[2] # "devices"} : Activate(dir)
  \/ ReadPendingSame \/ Same \/ Clear \/ Cleared
  \/ ReadPending \/ Snapshot \/ Migrate \/ Open \/ Merge \/ Commit \/ PublishGlobal
  \/ Retire
  \/ Undo \/ Undone \/ Fail
  \/ DoRequest
  \/ DamageFile

Spec == Init /\ [][Next]_vars

-----------------------------------------------------------------------------
(* Safety *)

\* A choice made without a device is not lost, whatever fails and wherever the program
\* is stopped, until it has been saved with the profile it is given to; only the
\* destruction of a file can take it back (activate_device_profile).
PendingChoiceIsKept ==
  owed # "" /\ spent.damage = 0 =>
     \/ View(disk[Global]) # NoFile /\ View(disk[Global]).pending = owed
     \/ Settled

\* The latest backup of a device is in one of its directories, however often it is
\* migrated from one to another (_migrate_device_profile, _retire_migrated_profile).
BackupsSurvive ==
  [][\A dir \in holds : \E other \in holds' \cap exists' : Serial(other) = Serial(dir)]_vars

\* An activation that fails once leaves every settings file with what it held, and no
\* directory of its own (the rollback of activate_device_profile).
FailedActivationChangesNothing ==
  At("undone") /\ spent.fails = before.fails + 1 /\ spent.damage = 0 =>
     /\ exists = before.exists
     /\ \A s \in Scopes : before.views[s] # NoFile => View(disk[s]) = before.views[s]

\* A profile never holds a pending choice, which it would give to the next profile.
ProfilesHoldNoPendingChoice ==
  \A dir \in Dirs : \A content \in {Main(dir), Bak(dir)} :
     Valid(content) => content.pending = ""

\* A choice made without a device is given to one device only.
PendingChoiceIsAppliedOnce ==
  \A one, other \in takers : Serial(one) = Serial(other)

\* When a profile has been activated, its folders are its own.
FoldersFollowTheProfile ==
  running /\ pc = "idle" /\ path # Global => data.home = path
=============================================================================
