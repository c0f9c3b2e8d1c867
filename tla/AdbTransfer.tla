----------------------------- MODULE AdbTransfer -----------------------------
(***************************************************************************)
(* adb_transfer_strategy.py under file_transfer_controller.py: a transfer  *)
(* of several entries through Platform Tools, by the method each calls     *)
(* for.  A single file is streamed to a staging name and published whole;  *)
(* a folder comes as a TAR archive whose members are staged, committed one *)
(* by one over backups of what they replace, and rolled back on failure;   *)
(* everything else is left to adb push and adb pull.  Another program may  *)
(* change the files on the PC meanwhile.                                   *)
(***************************************************************************)
EXTENDS CommandRunner, Sequences, FiniteSets

VARIABLES
  plan,     \* what is transferred, and over what
  job,      \* the worker's progress through the strategy
  target,   \* file -> what the destination holds
  temp,     \* file -> its staging name: "none", "part" or "full"
  saved,    \* file -> what its backup holds, or "none"
  shell,    \* file -> its finalizing shell: "none", "running", "moved", "refused"
  late,     \* the files of pulls whose pump outlived its command
  touched,  \* files that another program changed
  verdict   \* what the user is told

fileVars     == <<target, temp, saved>>
sideVars     == <<shell, late, touched>>
transferVars == <<plan, job, fileVars, sideVars, verdict>>

\* Two files stand for the contents of a folder.
FilesOf(i) == IF plan.entries[i].dir THEN {i} \X {1, 2} ELSE {<<i, 1>>}
AllFiles   == UNION {FilesOf(i) : i \in DOMAIN plan.entries}

IdleJob == [at |-> "off", entry |-> 0, method |-> "none", tar |-> FALSE, file |-> <<>>,
            left |-> {}, moved |-> {}, failed |-> {}, good |-> TRUE, changed |-> FALSE,
            seen |-> "none", warned |-> {}, leftover |-> {}, results |-> <<>>]

TransferInit ==
  /\ job = IF plan.entries = <<>> THEN IdleJob ELSE [IdleJob EXCEPT !.at = "new"]
  /\ target = [f \in AllFiles |-> IF f[2] = 1 THEN "old" ELSE "none"]
  /\ temp = [f \in AllFiles |-> "none"]
  /\ saved = [f \in AllFiles |-> "none"]
  /\ shell = [f \in AllFiles |-> "none"]
  /\ late = {} /\ touched = {}
  /\ verdict = "running"

At(label)      == job' = [job EXCEPT !.at = label]
Entry          == plan.entries[job.entry]
Here           == FilesOf(job.entry)
CommandEnded   == cmd.at = "done"
Succeeded      == cmd.outcome = "success" /\ ~cancel
Sets(var, f, v) == [var EXCEPT ![f] = v]

\* What leaves an entry: its result joins those of the others.
EndEntryLeaving(good, files) ==
  /\ job' = [IdleJob EXCEPT !.at = "entry", !.entry = job.entry + 1, !.tar = job.tar,
                            !.warned = job.warned, !.leftover = files,
                            !.results = Append(job.results, [method |-> job.method,
                                                             good |-> good])]
  /\ cmd' = IdleCmd
  /\ late' = IF Entry.pull /\ cmd.pump = "running" THEN late \cup Here ELSE late

EndEntry(good) == EndEntryLeaving(good, job.leftover)

\* The staging files of a failed pull are removed; when the file system refuses, the
\* file stays and nobody is told.
Sweep ==
  \/ /\ temp' = [f \in AllFiles |-> IF f \in Here THEN "none" ELSE temp[f]]
     /\ EndEntry(FALSE)
     /\ UNCHANGED faults
  \/ \E kept \in Here :
       /\ Fails
       /\ temp[kept] # "none"
       /\ temp' = [f \in AllFiles |-> IF f \in Here \ {kept} THEN "none" ELSE temp[f]]
       /\ EndEntryLeaving(FALSE, job.leftover \cup {kept})

-----------------------------------------------------------------------------
(* Preparation and the choice of a method *)

\* _should_use_fast_tar_push, _should_use_fast_tar_pull
FastTar(e, tar) == e.dir /\ tar /\ (plan.wireless \/ e.protected \/ e.many)

\* _should_use_single_file_stream: whatever is one file.
Method(e, tar) == IF FastTar(e, tar) THEN "tar" ELSE IF ~e.dir THEN "stream" ELSE "native"

\* The controller checks the plan; the strategy measures the entries and looks for
\* tar and for root on the device.
Prepare ==
  /\ job.at = "new"
  /\ \/ cancel /\ At("finish") /\ UNCHANGED faults
     \/ ~cancel /\ job' = [job EXCEPT !.at = "entry", !.entry = 1, !.tar = TRUE] /\ UNCHANGED faults
     \/ ~cancel /\ job' = [job EXCEPT !.at = "entry", !.entry = 1] /\ Fails
  /\ UNCHANGED <<cmd, gate, cancel, plan, fileVars, sideVars, verdict>>

BeginEntry ==
  /\ job.at = "entry"
  /\ ~cancel /\ job.entry <= Len(plan.entries)
  /\ LET method == Method(Entry, job.tar)
         label  == IF method = "native" THEN "copying"
                   ELSE IF Entry.pull
                   THEN (IF method = "tar" THEN "unpacking" ELSE "receiving")
                   ELSE IF method = "tar" THEN "packing" ELSE "stream"
     IN  /\ job' = [job EXCEPT !.at = label, !.method = method,
                               !.left = IF label = "stream" THEN Here ELSE {}]
         /\ IF label = "stream" THEN UNCHANGED cmd
            ELSE Request(IF method = "native" THEN "polled"
                         ELSE IF Entry.pull THEN "output" ELSE "input")
  /\ UNCHANGED <<gate, cancel, faults, plan, fileVars, sideVars, verdict>>

LeaveEntries ==
  /\ job.at = "entry"
  /\ cancel \/ job.entry > Len(plan.entries)
  /\ At("finish")
  /\ UNCHANGED <<runnerVars, plan, fileVars, sideVars, verdict>>

\* _normalize_result, _finish_tracker: the cancel event overrules the strategy, and
\* only a transfer whose every entry is complete is a success.
Finish ==
  /\ job.at = "finish"
  /\ verdict' = IF cancel THEN "cancelled"
                ELSE IF \A i \in DOMAIN job.results : job.results[i].good THEN "success"
                ELSE "failed"
  /\ At("ended")
  /\ UNCHANGED <<runnerVars, plan, fileVars, sideVars>>

PumpStops(how) == cmd' = [cmd EXCEPT !.pump = how]
CutOff         == cmd.process \in {"killed", "broken", "stuck"}
Pumping(label) == job.at = label /\ cmd.pump = "running"

-----------------------------------------------------------------------------
(* One file from Android: stage, compare the size, replace *)

\* stdout_writer of run_binary_output_to_file.  The end of the output comes early
\* when the process was killed or the connection broke.
ReceiveFile ==
  LET f == <<job.entry, 1>>
  IN  /\ Pumping("receiving")
      /\ \/ temp[f] = "none" /\ temp' = Sets(temp, f, "part") /\ UNCHANGED <<cmd, faults>>
         \/ /\ temp[f] = "part" /\ ~cancel
            /\ temp' = Sets(temp, f, "full") /\ PumpStops("done")
            /\ UNCHANGED faults
         \/ CutOff /\ PumpStops("done") /\ UNCHANGED <<temp, faults>>
         \/ cancel /\ PumpStops("failed") /\ UNCHANGED <<temp, faults>>
         \/ /\ cmd.process = "alive" /\ Fails
            /\ cmd' = [cmd EXCEPT !.pump = "done", !.process = "ended"]
            /\ UNCHANGED temp
  /\ UNCHANGED <<gate, cancel, plan, job, target, saved, sideVars, verdict>>

\* Mutant: a clean exit is taken for a complete file.
PublishUnmeasured ==
  LET f == <<job.entry, 1>>
  IN  /\ job.at = "receiving" /\ CommandEnded
      /\ \/ /\ Succeeded
            /\ target' = Sets(target, f, IF temp[f] = "full" THEN "new" ELSE "part")
            /\ temp' = Sets(temp, f, "none")
            /\ EndEntry(TRUE)
            /\ UNCHANGED faults
         \/ /\ IF Succeeded THEN Fails ELSE UNCHANGED faults
            /\ temp' = Sets(temp, f, "none")
            /\ EndEntry(FALSE)
            /\ UNCHANGED target
      /\ UNCHANGED <<gate, cancel, plan, saved, shell, touched, verdict>>

\* A file of the announced size replaces the target; otherwise, or when the rename
\* fails, the staging name is removed, if it can be, and the target is left as it was.
PublishPulled ==
  LET f == <<job.entry, 1>>
  IN  /\ job.at = "receiving" /\ CommandEnded
      /\ \/ /\ Succeeded /\ temp[f] = "full"
            /\ target' = Sets(target, f, "new")
            /\ temp' = Sets(temp, f, "none")
            /\ EndEntry(TRUE)
            /\ UNCHANGED faults
         \/ /\ Succeeded /\ temp[f] = "full"
            /\ Fails
            /\ temp' \in {temp, Sets(temp, f, "none")}
            /\ EndEntryLeaving(FALSE, IF temp' = temp THEN job.leftover \cup {f} ELSE job.leftover)
            /\ UNCHANGED target
         \/ /\ ~(Succeeded /\ temp[f] = "full")
            /\ Sweep
            /\ UNCHANGED target
      /\ UNCHANGED <<gate, cancel, plan, saved, shell, touched, verdict>>

-----------------------------------------------------------------------------
(* A folder from Android as a TAR stream *)

\* output_writer: every member goes to a staging file of its own.  A stream that ends
\* between two members ends the archive without an error.
Unpack ==
  /\ Pumping("unpacking")
  /\ \/ /\ ~cancel
        /\ \E f \in Here : temp[f] = "none" /\ temp' = Sets(temp, f, "full")
        /\ UNCHANGED <<cmd, faults>>
     \/ (\A f \in Here : temp[f] = "full") /\ PumpStops("done") /\ UNCHANGED <<temp, faults>>
     \/ CutOff /\ PumpStops("done") /\ UNCHANGED <<temp, faults>>
     \/ cancel /\ PumpStops("failed") /\ UNCHANGED <<temp, faults>>
     \/ cmd.process = "alive" /\ Fails /\ PumpStops("failed") /\ UNCHANGED temp
     \/ /\ cmd.process = "alive" /\ Fails
        /\ cmd' = [cmd EXCEPT !.pump = "done", !.process = "ended"]
        /\ UNCHANGED temp
  /\ UNCHANGED <<gate, cancel, plan, job, target, saved, sideVars, verdict>>

\* Mutant: the staging files of a stream that broke off are left.
UnpackedLeaving ==
  /\ job.at = "unpacking" /\ CommandEnded
  /\ IF Succeeded
     THEN /\ job' = [job EXCEPT !.at = "commit", !.left = {f \in Here : temp[f] = "full"}]
          /\ UNCHANGED <<cmd, late>>
     ELSE EndEntry(FALSE)
  /\ UNCHANGED <<gate, cancel, faults, plan, fileVars, shell, touched, verdict>>

\* Without a complete result nothing is committed and the staging files go.
Unpacked ==
  /\ job.at = "unpacking" /\ CommandEnded
  /\ IF Succeeded
     THEN /\ job' = [job EXCEPT !.at = "commit", !.left = {f \in Here : temp[f] = "full"}]
          /\ UNCHANGED <<cmd, faults, temp, late>>
     ELSE Sweep
  /\ UNCHANGED <<gate, cancel, plan, target, saved, shell, touched, verdict>>

CommitRests == UNCHANGED <<cmd, gate, cancel, plan, shell, late, touched, verdict>>

\* The next member: what its target holds is moved to a reserved backup name.
SetAside ==
  /\ job.at = "commit" /\ ~cancel
  /\ \E f \in job.left :
       \/ /\ job' = [job EXCEPT !.at = "link", !.file = f]
          /\ saved' = Sets(saved, f, target[f])
          /\ target' = Sets(target, f, "none")
          /\ UNCHANGED faults
       \/ At("undoing") /\ Fails /\ UNCHANGED <<saved, target>>
  /\ UNCHANGED temp
  /\ CommitRests

\* _install_local_staged_file: a hard link never replaces a target that somebody has
\* created meanwhile.
Link ==
  LET f == job.file
  IN  /\ job.at = "link"
      /\ \/ /\ target[f] = "none"
            /\ target' = Sets(target, f, "new")
            /\ temp' = Sets(temp, f, "none")
            /\ job' = [job EXCEPT !.at = "compare", !.moved = @ \cup {f}]
            /\ UNCHANGED faults
         \/ target[f] # "none" /\ At("undoing") /\ UNCHANGED <<target, temp, faults>>
         \/ target[f] = "none" /\ Fails /\ At("undoing") /\ UNCHANGED <<target, temp>>
      /\ UNCHANGED saved
      /\ CommitRests

\* The fingerprint of the target must be that of the staged file.
Compare ==
  /\ job.at = "compare"
  /\ job' = IF target[job.file] = "new"
            THEN [job EXCEPT !.at = "commit", !.left = @ \ {job.file}]
            ELSE [job EXCEPT !.at = "undoing"]
  /\ UNCHANGED <<faults, fileVars>>
  /\ CommitRests

\* All members are in: the backups are dropped.  A cancellation still undoes it all.
Commit ==
  /\ job.at = "commit"
  /\ \/ /\ cancel
        /\ At("undoing")
        /\ UNCHANGED <<cmd, late, temp, saved>>
     \/ /\ ~cancel /\ job.left = {}
        /\ saved' = [f \in AllFiles |-> IF f \in Here THEN "none" ELSE saved[f]]
        /\ temp' = [f \in AllFiles |-> IF f \in Here THEN "none" ELSE temp[f]]
        /\ EndEntry(TRUE)
  /\ UNCHANGED <<gate, cancel, faults, plan, target, shell, touched, verdict>>

ToUndo == {f \in Here : saved[f] # "none" \/ f \in job.moved} \ job.warned

\* rollback_replacements looks at a target before it touches it.
LookBack ==
  /\ job.at = "undoing"
  /\ \E f \in ToUndo :
       job' = [job EXCEPT !.at = "undo", !.file = f,
                          !.seen = IF target[f] = "none" THEN "none"
                                   ELSE IF target[f] = "new" /\ f \in job.moved THEN "ours"
                                   ELSE "theirs"]
  /\ UNCHANGED <<faults, fileVars>>
  /\ CommitRests

Warn(f) == job' = [job EXCEPT !.at = "undoing", !.warned = @ \cup {f}, !.moved = @ \ {f}]

\* The original comes back, or the new file goes, unless the target is somebody
\* else's by now or the file system refuses: then the user is warned and the backup
\* is kept.
Undo ==
  LET f == job.file
  IN  /\ job.at = "undo"
      /\ \/ /\ job.seen # "theirs"
            /\ job' = [job EXCEPT !.at = "undoing", !.moved = @ \ {f}]
            /\ target' = IF saved[f] = "none" /\ job.seen = "none" THEN target
                         ELSE Sets(target, f, saved[f])
            /\ saved' = Sets(saved, f, "none")
            /\ UNCHANGED faults
         \/ job.seen = "theirs" /\ Warn(f) /\ UNCHANGED <<target, saved, faults>>
         \/ job.seen # "theirs" /\ Fails /\ Warn(f) /\ UNCHANGED <<target, saved>>
      /\ UNCHANGED temp
      /\ CommitRests

RolledBack ==
  /\ job.at = "undoing" /\ ToUndo = {}
  /\ Sweep
  /\ UNCHANGED <<gate, cancel, plan, target, saved, shell, touched, verdict>>

\* Another program writes or deletes a file in the destination folder.
Outsider ==
  /\ job.at \in {"commit", "link", "compare", "undoing", "undo"}
  /\ \E f \in Here, what \in {"other", "none"} :
       /\ target[f] # what
       /\ target' = Sets(target, f, what)
       /\ touched' = touched \cup {f}
  /\ Fails
  /\ UNCHANGED <<cmd, gate, cancel, plan, job, temp, saved, shell, late, verdict>>

-----------------------------------------------------------------------------
(* One file to Android: stream to a staging name, verify, move *)

\* _stream_push_file_to_android_target, for a single file and for each file that an
\* adb push of a folder could not read.
BeginStream ==
  /\ job.at = "stream"
  /\ IF job.left = {}
     THEN EndEntry(job.good /\ job.failed = {})
     ELSE \E f \in job.left :
            /\ Request("input")
            /\ job' = [job EXCEPT !.at = "sending", !.file = f, !.changed = FALSE]
            /\ UNCHANGED late
  /\ UNCHANGED <<gate, cancel, faults, plan, fileVars, shell, touched, verdict>>

\* input_writer: it fails on a cancellation or a broken pipe; a source that changed
\* meanwhile only ends it.
SendFile ==
  LET f == job.file
  IN  /\ Pumping("sending")
      /\ \/ /\ temp[f] = "none" /\ cmd.process = "alive"
            /\ temp' = Sets(temp, f, "part")
            /\ UNCHANGED <<cmd, job, faults>>
         \/ ~cancel /\ temp[f] = "part" /\ PumpStops("done") /\ UNCHANGED <<temp, job, faults>>
         \/ /\ ~cancel /\ temp[f] = "part" /\ Fails
            /\ PumpStops("done") /\ job' = [job EXCEPT !.changed = TRUE] /\ UNCHANGED temp
         \/ cancel /\ PumpStops("failed") /\ UNCHANGED <<temp, job, faults>>
         \/ CutOff /\ PumpStops("failed") /\ UNCHANGED <<temp, job, faults>>
  /\ UNCHANGED <<gate, cancel, plan, target, saved, sideVars, verdict>>

\* Android's storage shows the whole file some time after adb accepted it.
Flush ==
  LET f == job.file
  IN  /\ job.at \in {"sending", "finalizing", "proving"}
      /\ cmd.kind = "input" /\ cmd.pump = "done" /\ ~job.changed
      /\ temp[f] = "part"
      /\ temp' = Sets(temp, f, "full")
      /\ UNCHANGED <<runnerVars, plan, job, target, saved, sideVars, verdict>>

StreamRests == UNCHANGED <<gate, cancel, plan, late, touched, verdict>>

Sent ==
  /\ job.at = "sending" /\ CommandEnded
  /\ IF Succeeded /\ ~job.changed
     THEN At("finalizing") /\ shell' = Sets(shell, job.file, "running")
     ELSE At("discarding") /\ UNCHANGED shell
  /\ UNCHANGED <<cmd, faults, fileVars>>
  /\ StreamRests

\* The finalizing shell on Android goes on even when nobody waits for it any more.
\* Mutant: it moves whatever has arrived.
MoveUnmeasured(f) ==
  /\ shell[f] = "running"
  /\ \/ /\ temp[f] # "none"
        /\ shell' = Sets(shell, f, "moved")
        /\ target' = Sets(target, f, IF temp[f] = "full" THEN "new" ELSE "part")
        /\ temp' = Sets(temp, f, "none")
     \/ temp[f] = "none" /\ shell' = Sets(shell, f, "refused") /\ UNCHANGED <<target, temp>>
  /\ UNCHANGED <<runnerVars, plan, job, saved, late, touched, verdict>>

\* It waits up to twenty seconds for the announced size, then moves or refuses.
RemoteMove(f) ==
  /\ shell[f] = "running"
  /\ \/ /\ temp[f] = "full"
        /\ shell' = Sets(shell, f, "moved")
        /\ target' = Sets(target, f, "new")
        /\ temp' = Sets(temp, f, "none")
        /\ UNCHANGED faults
     \/ /\ temp[f] # "full"
        /\ IF temp[f] = "none" THEN UNCHANGED faults ELSE Fails
        /\ shell' = Sets(shell, f, "refused")
        /\ UNCHANGED <<target, temp>>
  /\ UNCHANGED <<cmd, gate, cancel, plan, job, saved, late, touched, verdict>>

StreamEnds(good) ==
  job' = [job EXCEPT !.at = "stream", !.left = @ \ {job.file},
                     !.failed = IF good THEN @ ELSE @ \cup {job.file}]

\* The local side of the finalizing shell: its answer, a cancellation or a timeout.
Finalize ==
  /\ job.at = "finalizing"
  /\ LET moving == shell[job.file]
     IN  \/ moving = "moved" /\ StreamEnds(~cancel) /\ UNCHANGED faults
         \/ moving = "refused" /\ At("discarding") /\ UNCHANGED faults
         \/ /\ moving = "running" /\ (cancel \/ gate = "closed")
            /\ At("discarding") /\ UNCHANGED faults
         \/ /\ moving = "running" /\ ~cancel /\ Fails
            /\ At(IF Entry.protected THEN "discarding" ELSE "proving")
  /\ UNCHANGED <<cmd, shell, fileVars>>
  /\ StreamRests

\* _public_push_commit_verified: after a timeout only the absence of the unique
\* staging name together with the target proves that the move happened.
Prove ==
  /\ job.at = "proving"
  /\ IF /\ ~cancel /\ gate = "open"
        /\ temp[job.file] = "none" /\ target[job.file] = "new"
     THEN StreamEnds(TRUE) ELSE At("discarding")
  /\ UNCHANGED <<cmd, faults, shell, fileVars>>
  /\ StreamRests

\* The staging name is removed whatever happened; nothing checks that it worked, and
\* after a shutdown the command is refused.
Discard ==
  LET f == job.file
  IN  /\ job.at = "discarding"
      /\ \/ gate = "open" /\ temp' = Sets(temp, f, "none") /\ StreamEnds(FALSE) /\ UNCHANGED faults
         \/ /\ IF gate = "open" THEN Fails ELSE UNCHANGED faults
            /\ job' = [job EXCEPT !.at = "stream", !.left = @ \ {f}, !.failed = @ \cup {f},
                                  !.leftover = @ \cup {f}]
            /\ UNCHANGED temp
      /\ UNCHANGED <<cmd, shell, target, saved>>
      /\ StreamRests

-----------------------------------------------------------------------------
(* Folders to Android as TAR, and what adb itself transfers *)

\* The exit status of the tar on Android does not reach the desktop: after an archive
\* that was sent whole, any part of it may be there.
Pack ==
  /\ Pumping("packing")
  /\ \/ cmd.process = "alive" /\ ~cancel /\ PumpStops("done") /\ UNCHANGED faults
        /\ \E stored \in SUBSET Here :
             target' = [f \in AllFiles |-> IF f \in stored THEN "new" ELSE target[f]]
     \/ (cancel \/ CutOff) /\ PumpStops("failed") /\ UNCHANGED <<target, faults>>
  /\ UNCHANGED <<gate, cancel, plan, job, temp, saved, sideVars, verdict>>

Packed ==
  /\ job.at = "packing" /\ CommandEnded
  /\ EndEntry(Succeeded)
  /\ UNCHANGED <<gate, cancel, faults, plan, fileVars, shell, touched, verdict>>

\* adb push and adb pull write the targets themselves; a push skips the files whose
\* names it cannot read.
NativeCopy ==
  /\ job.at = "copying" /\ cmd.process = "alive" /\ cmd.at = "running"
  /\ \E f \in Here \ (job.moved \cup job.failed) :
       \/ /\ job' = [job EXCEPT !.moved = @ \cup {f}]
          /\ target' = Sets(target, f, "new") /\ UNCHANGED faults
       \/ /\ ~Entry.pull /\ Fails
          /\ job' = [job EXCEPT !.failed = @ \cup {f}] /\ UNCHANGED target
  /\ UNCHANGED <<cmd, gate, cancel, plan, temp, saved, sideVars, verdict>>

\* The skipped files are streamed one by one afterwards.
Copied ==
  /\ job.at = "copying" /\ CommandEnded
  /\ IF ~cancel /\ job.failed # {}
     THEN /\ job' = [job EXCEPT !.at = "stream", !.left = job.failed, !.failed = {},
                                !.good = cmd.outcome = "success"]
          /\ UNCHANGED <<cmd, late>>
     ELSE EndEntry(Succeeded)
  /\ UNCHANGED <<gate, cancel, faults, plan, fileVars, shell, touched, verdict>>

\* A pump that outlived its command may still stage a file.
LatePump ==
  /\ \E f \in late : temp[f] = "none" /\ temp' = Sets(temp, f, "part")
  /\ UNCHANGED <<runnerVars, plan, job, target, saved, sideVars, verdict>>

\* The next command of the transfer may only take its turn when the process has done
\* its part; the rest of the command runner is as it is.
CommandSteps ==
  /\ job.at \in {"receiving", "unpacking", "packing", "sending", "copying"}
  /\ \/ Start \/ Poll \/ AwaitKilled \/ Join
     \/ /\ ProcessEnds
        /\ job.at = "copying" /\ cmd'.process = "ended" => Here \subseteq job.moved \cup job.failed
  /\ UNCHANGED transferVars

CancelTransfer ==
  /\ ~cancel /\ job.at \notin {"off", "ended"}
  /\ cancel' = TRUE
  /\ UNCHANGED <<cmd, gate, faults, transferVars>>

ShutdownRunner ==
  /\ job.at # "off" /\ plan.closes
  /\ CloseGate \/ KillRegistered
  /\ UNCHANGED transferVars

Strategy ==
  \/ Prepare \/ BeginEntry \/ LeaveEntries \/ Finish
  \/ ReceiveFile \/ PublishPulled
  \/ Unpack \/ Unpacked \/ SetAside \/ Link \/ Compare \/ Commit
  \/ LookBack \/ Undo \/ RolledBack
  \/ BeginStream \/ SendFile \/ Flush \/ Sent \/ Finalize \/ Prove \/ Discard
  \/ Pack \/ Packed \/ NativeCopy \/ Copied
  \/ CommandSteps

TransferNext ==
  \/ Strategy
  \/ (\E f \in AllFiles : RemoteMove(f)) \/ LatePump \/ Outsider
  \/ CancelTransfer \/ ShutdownRunner

\* Transfers of any entries, with any number of faults.
TransferEntries == [pull : BOOLEAN, dir : BOOLEAN, many : BOOLEAN, protected : BOOLEAN]
TransferPlans   == [entries : Seq(TransferEntries), wireless : BOOLEAN, closes : BOOLEAN,
                    faults : Nat]

TransferSpec ==
  /\ plan \in TransferPlans /\ faults = plan.faults /\ RunnerInit /\ TransferInit
  /\ [][TransferNext]_<<runnerVars, transferVars>>

-----------------------------------------------------------------------------
(* Properties *)

TransferTypeOK ==
  /\ target \in [AllFiles -> {"none", "old", "new", "other", "part"}]
  /\ temp \in [AllFiles -> {"none", "part", "full"}]
  /\ saved \in [AllFiles -> {"none", "old", "other"}]
  /\ shell \in [AllFiles -> {"none", "running", "moved", "refused"}]
  /\ late \subseteq AllFiles /\ touched \subseteq AllFiles
  /\ verdict \in {"running", "success", "failed", "cancelled"}

\* What a transfer announces as complete is there, for every method that could know:
\* a clean exit of adb is never taken for a complete file, because the size of the
\* staged file decides, on the PC as on Android.
TransferSuccessIsTrue ==
  verdict = "success" =>
    \A i \in DOMAIN plan.entries : \A f \in FilesOf(i) :
      job.results[i].method # "tar" => target[f] = "new"

Committing(f) == job.at \in {"commit", "link", "compare", "undoing", "undo"} /\ f[1] = job.entry

Result(f) == IF f[1] \in DOMAIN job.results THEN job.results[f[1]]
             ELSE [method |-> Method(plan.entries[f[1]], job.tar), good |-> FALSE]

\* A file that a transfer is to replace is never lost or left half written: whatever
\* fails and whoever cancels, its target holds the old content or all of the new one,
\* or a backup does.  A failed pull leaves the old content, or tells where it is
\* (rollback_replacements), and none of its own files.
ExistingTargetsAreSafe ==
  \A f \in AllFiles \ touched :
    LET pull == plan.entries[f[1]].pull
        kept == IF f[2] = 1 THEN "old" ELSE "none"
    IN  Result(f).method = "stream" \/ (Result(f).method = "tar" /\ pull) =>
          /\ target[f] \in {kept, "new"} \/ saved[f] = kept
          /\ pull /\ ~Committing(f) /\ ~Result(f).good =>
               target[f] = kept \/ f \in job.warned

\* No staging file is left on either side, unless its removal was refused or a pump
\* outlived the two seconds it is given.
NoStagingIsLeft ==
  verdict # "running" => \A f \in AllFiles : temp[f] # "none" => f \in late \cup job.leftover
===============================================================================
