------------------------- MODULE AdbTransferProofs -------------------------
(***************************************************************************)
(* Proofs about AdbTransfer under CommandRunner, for transfers of any      *)
(* number of files and folders, by every method, with any number of        *)
(* faults, with and without a shutdown.                                    *)
(*                                                                         *)
(* The invariant splits the files by the entry they belong to.  Entries    *)
(* the strategy has not reached are as they were (FreshInv).  Those it is  *)
(* done with are vouched for by their result (ResultInv).  For the current *)
(* entry the label of the worker says what can have happened: nothing yet  *)
(* to the targets of a pull that is arriving (CommitInv, first part), one  *)
(* of four states per member while a TAR pull is committed or rolled back  *)
(* (CommitInv), and for streams and adb push that what is neither waiting  *)
(* nor failed is complete (StreamInv).  StagingInv says who is responsible *)
(* for a staging name.  So each step has to be looked at for the files of  *)
(* its own entry only; the lemmas EndStep, InsideKeeps, WithinCommit and   *)
(* WithinStreams carry the other entries.                                  *)
(***************************************************************************)
EXTENDS AdbTransfer, SequenceTheorems, TLAPS

(* Files, and the labels of the worker by what they work on.               *)
Names   == Nat \X {1, 2}
Methods == {"tar", "stream", "native"}
Pulling == {"receiving", "unpacking"}
Commits == {"commit", "link", "compare", "undoing", "undo"}
Streams == {"stream", "sending", "finalizing", "proving", "discarding"}
Sends   == Streams \ {"stream"}
Busy    == Pulling \cup Commits \cup Streams \cup {"packing", "copying"}
Results == [method : Methods, good : BOOLEAN]
Held    == {"none", "old", "other"}

Labels  == Busy \cup {"off", "new", "entry", "finish", "ended"}

(* The records the variables range over.                                   *)
Jobs ==
  [at : Labels, entry : Nat,
   method : Methods \cup {"none"}, tar : BOOLEAN, file : Names \cup {<<>>},
   left : SUBSET Names, moved : SUBSET Names, failed : SUBSET Names, good : BOOLEAN,
   changed : BOOLEAN, seen : {"none", "ours", "theirs"}, warned : SUBSET Names,
   leftover : SUBSET Names, results : Seq(Results)]

Cmds ==
  [kind : CommandKinds \cup {"none"},
   at : {"idle", "starting", "running", "stopping", "joining", "done"},
   process : {"none", "alive", "killed", "ended", "broken", "stuck"},
   pump : {"none", "running", "done", "failed"},
   error : Outcomes \ {"success"}, outcome : Outcomes]

RunnerTypeInv ==
  cmd \in Cmds /\ gate \in {"open", "closing", "closed"} /\ cancel \in BOOLEAN /\ faults \in Nat

FilesTypeInv ==
  /\ target \in [AllFiles -> {"none", "old", "new", "other", "part"}]
  /\ temp \in [AllFiles -> {"none", "part", "full"}]
  /\ saved \in [AllFiles -> Held]
  /\ shell \in [AllFiles -> {"none", "running", "moved", "refused"}]
  /\ late \in SUBSET AllFiles /\ touched \in SUBSET AllFiles
  /\ verdict \in {"running", "success", "failed", "cancelled"}

TypeInv == RunnerTypeInv /\ plan \in TransferPlans /\ job \in Jobs /\ FilesTypeInv

(* A finished command has a result, success takes a clean exit, and a      *)
(* closed runner has no process.                                           *)
CmdInv ==
  /\ cmd.outcome # "none" => cmd.at = "done"
  /\ cmd.outcome = "success" => cmd.process = "ended"
  /\ gate = "closed" => cmd.process # "alive"

(* What a target held before the transfer, and whether it is on the PC.    *)
Kept(f) == IF f[2] = 1 THEN "old" ELSE "none"
Pull(f) == plan.entries[f[1]].pull

(* One result for every entry left behind; a verdict only at the end, and  *)
(* success only after all entries with good results.                       *)
EntryInv ==
  /\ job.entry <= Len(plan.entries) + 1
  /\ Len(job.results) = IF job.entry = 0 THEN 0 ELSE job.entry - 1
  /\ job.at \in {"off", "new"} => job.entry = 0
  /\ job.at \in Busy \cup {"entry"} => job.entry > 0
  /\ job.at \in Busy => job.entry <= Len(plan.entries) /\ job.method = Method(Entry, job.tar)
  /\ job.at = "off" => plan.entries = <<>>
  /\ job.at \in {"off", "new", "entry"} =>
       /\ job.left = {} /\ job.moved = {} /\ job.failed = {} /\ job.good
  /\ job.at = "finish" /\ ~cancel => job.entry = Len(plan.entries) + 1
  /\ verdict # "running" => job.at = "ended"
  /\ verdict = "success" =>
       /\ job.entry = Len(plan.entries) + 1
       /\ \A i \in DOMAIN job.results : job.results[i].good

(* The label fits the method and the direction of the entry.               *)
LabelInv ==
  /\ job.at = "receiving" => job.method = "stream" /\ Entry.pull
  /\ job.at \in {"unpacking"} \cup Commits => job.method = "tar" /\ Entry.pull
  /\ job.at = "packing" => job.method = "tar" /\ ~Entry.pull
  /\ job.at = "copying" =>
       job.method = "native" /\ job.failed \subseteq Here /\ (job.failed # {} => ~Entry.pull)
  /\ job.at \in Streams => job.method \in {"stream", "native"} /\ ~Entry.pull
  /\ job.at \in Streams \cup {"commit", "link", "compare"} => job.left \subseteq Here
  /\ job.at \in Sends \cup {"link", "compare"} => job.file \in job.left
  /\ job.at = "undo" => job.file \in Here

(* Nothing has happened to a file whose entry has not begun.               *)
Fresh(f) == f[1] > job.entry \/ (f[1] = job.entry /\ job.at \notin Busy)

FreshInv ==
  \A f \in AllFiles : Fresh(f) =>
    temp[f] = "none" /\ saved[f] = "none" /\ target[f] = Kept(f) /\ shell[f] = "none"

(* What a result says of a file, given the content of the target, the      *)
(* backup and the files the user was warned of.                            *)
Vouched(f, r, held, backup, warned) ==
  /\ r.good /\ r.method # "tar" => held = "new"
  /\ f \notin touched /\ (r.method = "stream" \/ (r.method = "tar" /\ Pull(f))) =>
       /\ held \in {Kept(f), "new"} \/ backup = Kept(f)
       /\ Pull(f) /\ ~r.good => held = Kept(f) \/ f \in warned

ResultInv ==
  \A f \in AllFiles : f[1] \in DOMAIN job.results =>
    /\ job.results[f[1]].method = Method(plan.entries[f[1]], job.tar)
    /\ Vouched(f, job.results[f[1]], target[f], saved[f], job.warned)

(* Finalizing shells are of pushes; late pumps are of entries left behind. *)
SideInv ==
  /\ \A f \in AllFiles : shell[f] # "none" => ~Pull(f)
  /\ \A f \in late : f[1] < job.entry

(* The staging name of a file exists while its entry or its stream is      *)
(* worked on, or because a pump is late or a removal was refused.          *)
Staged(f) ==
  \/ job.at \in Pulling \cup Commits /\ f \in Here
  \/ job.at \in Sends /\ f = job.file

StagingInv == \A f \in AllFiles : temp[f] # "none" => Staged(f) \/ f \in late \cup job.leftover

(* A member of a TAR pull during its commit: untouched, moved aside,       *)
(* replaced, or left to the user with a warning.                           *)
Original(f) == target[f] = Kept(f) /\ saved[f] = "none" /\ f \notin job.moved
Aside(f)    == target[f] = "none" /\ saved[f] = Kept(f) /\ f \notin job.moved
Replaced(f) == target[f] = "new" /\ saved[f] = Kept(f) /\ f \in job.moved
Warned(f)   == /\ f \in job.warned /\ f \notin job.moved
               /\ saved[f] = Kept(f) /\ target[f] \in {"none", "new"}

(* A member that is still to be installed.                                 *)
Waiting(f) == target[f] \in Held /\ f \notin job.moved /\ (f \notin touched => Original(f))

CommitInv ==
  /\ job.at \in Pulling => \A f \in Here : Original(f)
  /\ job.at \in {"commit", "link", "compare"} =>
       /\ \A f \in job.left : Waiting(f) \/ (f = job.file /\ job.at # "commit")
       /\ \A f \in Here \ touched :
            Original(f) \/ Replaced(f) \/ (f = job.file /\ job.at = "link" /\ Aside(f))
  /\ job.at = "link" => job.file \notin job.moved
  /\ job.at \in {"undoing", "undo"} =>
       \A f \in Here \ touched : Original(f) \/ Aside(f) \/ Replaced(f) \/ Warned(f)
  /\ job.at = "undo" /\ job.file \notin touched =>
       \/ job.seen = "ours" /\ Replaced(job.file)
       \/ job.seen = "none" /\ (Aside(job.file) \/ Original(job.file))

(* What is neither to be sent nor failed is complete, and a finalizing     *)
(* shell that reports success has moved the whole file.                    *)
StreamInv ==
  /\ job.at \in Streams =>
       /\ job.good => \A f \in Here : f \in job.left \cup job.failed \/ target[f] = "new"
       /\ job.method = "stream" => \A f \in Here : target[f] \in {Kept(f), "new"}
  /\ job.at = "finalizing" /\ shell[job.file] = "moved" =>
       temp[job.file] = "none" /\ target[job.file] = "new"
  /\ job.at = "copying" =>
       /\ \A f \in Here : f \in job.moved => target[f] = "new"
       /\ cmd.process = "ended" => Here \subseteq job.moved \cup job.failed

(* The inductive invariant.                                                *)
IInv == /\ TypeInv /\ CmdInv /\ EntryInv /\ LabelInv /\ FreshInv /\ ResultInv /\ SideInv
        /\ StagingInv /\ CommitInv /\ StreamInv

transferAll == <<runnerVars, transferVars>>

-----------------------------------------------------------------------------
(* FilesOf divides AllFiles by entry.                                      *)
LEMMA FileFacts ==
  ASSUME plan \in TransferPlans
  PROVE  /\ \A i \in DOMAIN plan.entries :
              /\ i \in Nat /\ plan.entries[i] \in TransferEntries
              /\ FilesOf(i) \subseteq AllFiles /\ <<i, 1>> \in FilesOf(i)
              /\ ~plan.entries[i].dir => FilesOf(i) = {<<i, 1>>}
         /\ \A f \in AllFiles : f \in Names /\ f[1] \in DOMAIN plan.entries
         /\ \A i \in DOMAIN plan.entries, f \in AllFiles : f \in FilesOf(i) <=> f[1] = i
<1>1. /\ plan.entries \in Seq(TransferEntries) /\ DOMAIN plan.entries \subseteq Nat
      /\ \A i \in DOMAIN plan.entries : plan.entries[i] \in TransferEntries
  BY DEF TransferPlans
<1>2. \A i \in DOMAIN plan.entries : FilesOf(i) \subseteq AllFiles
  BY DEF AllFiles
<1>3. \A i \in DOMAIN plan.entries : \A f \in FilesOf(i) : f \in Names /\ f[1] = i
  BY <1>1 DEF FilesOf, Names
<1>4. \A f \in AllFiles : \E i \in DOMAIN plan.entries : f \in FilesOf(i)
  BY DEF AllFiles
<1>5. \A i \in DOMAIN plan.entries :
         /\ <<i, 1>> \in FilesOf(i)
         /\ ~plan.entries[i].dir => FilesOf(i) = {<<i, 1>>}
  BY <1>1 DEF FilesOf
<1>6. \A f \in AllFiles : f \in Names /\ f[1] \in DOMAIN plan.entries /\ f \in FilesOf(f[1])
  BY <1>3, <1>4
<1> QED BY <1>1, <1>2, <1>3, <1>5, <1>6

(* Here, the files of the current entry, while the worker is in it.        *)
LEMMA HereFacts ==
  ASSUME plan \in TransferPlans, job \in Jobs, EntryInv, job.at \in Busy
  PROVE  /\ job.entry \in DOMAIN plan.entries /\ job.entry \in Nat
         /\ Entry \in TransferEntries /\ Here \subseteq AllFiles
         /\ Here \subseteq Names
         /\ \A f \in AllFiles : f \in Here <=> f[1] = job.entry
         /\ \A f \in Here : Pull(f) = Entry.pull
         /\ job.method = Method(Entry, job.tar)
         /\ <<job.entry, 1>> \in Here
         /\ job.method = "stream" => Here = {<<job.entry, 1>>}
<1>1. job.entry \in 1..Len(plan.entries) /\ job.method = Method(Entry, job.tar)
  BY DEF EntryInv, Jobs, TransferPlans
<1>2. job.entry \in DOMAIN plan.entries
  BY <1>1 DEF TransferPlans
<1>3. job.method = "stream" => ~Entry.dir
  BY <1>1 DEF Method
<1> QED BY <1>1, <1>2, <1>3, FileFacts DEF Here, Entry, Pull

(* The files of a transfer never change.                                   *)
LEMMA PlanStays ==
  ASSUME plan' = plan
  PROVE  /\ AllFiles' = AllFiles
         /\ job'.entry = job.entry => Here' = Here
<1>1. \A i : FilesOf(i)' = FilesOf(i)
  BY DEF FilesOf
<1> QED BY <1>1 DEF AllFiles, Here, FilesOf

-----------------------------------------------------------------------------
(* Types of the runner's variables under each kind of change: its own      *)
(* steps, a new request, the pumps, and the end of an entry (EndEntry).    *)
LEMMA RunnerTyped ==
  ASSUME RunnerTypeInv,
         \/ Start \/ Poll \/ AwaitKilled \/ Join \/ ProcessEnds \/ CloseGate \/ KillRegistered
  PROVE  RunnerTypeInv'
<1>1. faults' \in Nat /\ gate' \in {"open", "closing", "closed"} /\ cancel' \in BOOLEAN
  <2> USE DEF RunnerTypeInv, Fails
  <2>1. CASE Start BY <2>1 DEF Start
  <2>2. CASE Poll BY <2>2 DEF Poll
  <2>3. CASE AwaitKilled BY <2>3 DEF AwaitKilled
  <2>4. CASE Join BY <2>4 DEF Join, Ended
  <2>5. CASE ProcessEnds BY <2>5 DEF ProcessEnds
  <2>6. CASE CloseGate BY <2>6 DEF CloseGate
  <2>7. CASE KillRegistered BY <2>7 DEF KillRegistered
  <2> QED BY <2>1, <2>2, <2>3, <2>4, <2>5, <2>6, <2>7
<1> USE DEF RunnerTypeInv, Cmds, CommandKinds, Outcomes
<1>2. CASE Start
  <2> DEFINE pump == IF cmd.kind \in {"input", "output"} THEN "running" ELSE cmd.pump
  <2>1. Started = [cmd EXCEPT !.at = "running", !.process = "alive", !.pump = pump]
    BY DEF Started
  <2>2. pump \in {"none", "running", "done", "failed"}
    OBVIOUS
  <2> HIDE DEF pump
  <2>3. Started \in Cmds
    BY ZenonT(60), <2>1, <2>2
  <2> QED BY ZenonT(60), <1>1, <1>2, <2>3 DEF Start, Ended
<1>3. CASE Poll BY ZenonT(60), <1>1, <1>3 DEF Poll, Kill
<1>4. CASE AwaitKilled BY ZenonT(60), <1>1, <1>4 DEF AwaitKilled
<1>5. CASE Join
  <2>1. \A late1 \in BOOLEAN : Verdict(late1) \in Outcomes BY DEF Verdict
  <2> QED BY ZenonT(60), <1>1, <1>5, <2>1 DEF Join, Ended
<1>6. CASE ProcessEnds BY <1>1, <1>6 DEF ProcessEnds
<1>7. CASE CloseGate BY <1>1, <1>7 DEF CloseGate
<1>8. CASE KillRegistered BY <1>1, <1>8 DEF KillRegistered
<1> QED BY <1>2, <1>3, <1>4, <1>5, <1>6, <1>7, <1>8

LEMMA RequestTyped ==
  ASSUME NEW kind \in CommandKinds, Request(kind)
  PROVE  cmd' \in Cmds
BY DEF Request, IdleCmd, Cmds, CommandKinds, Outcomes

LEMMA PumpTyped ==
  ASSUME RunnerTypeInv, NEW how \in {"done", "failed"},
         PumpStops(how) \/ cmd' = [cmd EXCEPT !.pump = how, !.process = "ended"]
  PROVE  cmd' \in Cmds
BY DEF PumpStops, RunnerTypeInv, Cmds

LEMMA LeaveTyped ==
  ASSUME TypeInv, EntryInv, job.at \in Busy, plan' = plan, NEW good \in BOOLEAN,
         NEW files \in SUBSET Names, EndEntryLeaving(good, files)
  PROVE  cmd' \in Cmds /\ job' \in Jobs /\ late' \in SUBSET AllFiles
<1>1. cmd' \in Cmds
  BY DEF EndEntryLeaving, IdleCmd, Cmds, CommandKinds, Outcomes
<1>2. job.method \in Methods
  BY DEF TypeInv, EntryInv, Method, Methods
<1>3. Append(job.results, [method |-> job.method, good |-> good]) \in Seq(Results)
  BY <1>2 DEF TypeInv, Jobs, Results
<1>4. job' \in Jobs
  <2> DEFINE results == Append(job.results, [method |-> job.method, good |-> good])
  <2>1. job' = [at |-> "entry", entry |-> job.entry + 1, method |-> "none", tar |-> job.tar,
                file |-> <<>>, left |-> {}, moved |-> {}, failed |-> {}, good |-> TRUE,
                changed |-> FALSE, seen |-> "none", warned |-> job.warned,
                leftover |-> files, results |-> results]
    BY DEF EndEntryLeaving, IdleJob
  <2>2. results \in Seq(Results)
    BY <1>3
  <2>3. job.entry + 1 \in Nat /\ job.tar \in BOOLEAN /\ job.warned \in SUBSET Names
    BY DEF TypeInv, Jobs
  <2> HIDE DEF results
  <2> QED BY <2>1, <2>2, <2>3 DEF Jobs, Labels
<1>5. late' \in SUBSET AllFiles
  BY HereFacts DEF EndEntryLeaving, TypeInv, FilesTypeInv
<1> QED BY <1>1, <1>4, <1>5

LEMMA EndTyped ==
  ASSUME TypeInv, EntryInv, job.at \in Busy, plan' = plan, NEW good \in BOOLEAN, EndEntry(good)
  PROVE  cmd' \in Cmds /\ job' \in Jobs /\ late' \in SUBSET AllFiles
BY LeaveTyped DEF EndEntry, TypeInv, Jobs

(* The end of an entry whose staging files are gone but for the ones that  *)
(* could not be removed.                                                   *)
Leaves(good, files) ==
  /\ EndEntryLeaving(good, files) /\ job.leftover \subseteq files
  /\ temp' \in [AllFiles -> {"none", "part", "full"}]
  /\ \A f \in AllFiles \ Here : temp'[f] = temp[f]
  /\ \A f \in Here : temp'[f] # "none" => f \in files
  /\ faults' \in Nat

(* Sweep is such an end.                                                   *)
LEMMA Swept ==
  ASSUME TypeInv, EntryInv, job.at \in Busy, Sweep
  PROVE  \E files \in SUBSET Names : Leaves(FALSE, files)
<1>1. /\ job.leftover \in SUBSET Names /\ Here \subseteq Names /\ Here \subseteq AllFiles
      /\ temp \in [AllFiles -> {"none", "part", "full"}] /\ faults \in Nat
  BY HereFacts DEF TypeInv, Jobs, FilesTypeInv, RunnerTypeInv
<1>2. CASE /\ temp' = [f \in AllFiles |-> IF f \in Here THEN "none" ELSE temp[f]]
           /\ EndEntry(FALSE) /\ UNCHANGED faults
  <2>1. Leaves(FALSE, job.leftover)
    BY <1>1, <1>2 DEF Leaves, EndEntry
  <2> QED BY <1>1, <2>1
<1>3. ASSUME NEW kept \in Here, Fails,
             temp' = [f \in AllFiles |-> IF f \in Here \ {kept} THEN "none" ELSE temp[f]],
             EndEntryLeaving(FALSE, job.leftover \cup {kept})
      PROVE  \E files \in SUBSET Names : Leaves(FALSE, files)
  <2>3. faults' \in Nat
    BY <1>1, <1>3 DEF Fails
  <2>4. /\ temp' \in [AllFiles -> {"none", "part", "full"}]
        /\ \A f \in AllFiles \ Here : temp'[f] = temp[f]
        /\ \A f \in Here : temp'[f] # "none" => f \in job.leftover \cup {kept}
    BY <1>1, <1>3
  <2>1. Leaves(FALSE, job.leftover \cup {kept})
    BY <1>3, <2>3, <2>4 DEF Leaves
  <2>2. job.leftover \cup {kept} \in SUBSET Names
    BY <1>1, <1>3
  <2> QED BY <2>1, <2>2
<1> QED BY <1>2, <1>3 DEF Sweep

(* So is the end of a pull of one file, published or not.                  *)
LEMMA Published ==
  ASSUME TypeInv, EntryInv, LabelInv, PublishPulled
  PROVE  \E good \in BOOLEAN, files \in SUBSET Names :
           /\ Leaves(good, files)
           /\ target' = IF good THEN Sets(target, <<job.entry, 1>>, "new") ELSE target
<1> DEFINE f == <<job.entry, 1>>
<1>1. job.at \in Busy /\ job.method = "stream"
  BY DEF PublishPulled, Busy, Pulling, LabelInv
<1>2. /\ job.leftover \in SUBSET Names /\ Here = {f} /\ f \in Names /\ f \in AllFiles
      /\ temp \in [AllFiles -> {"none", "part", "full"}] /\ faults \in Nat
  BY <1>1, HereFacts DEF TypeInv, Jobs, FilesTypeInv, RunnerTypeInv
<1>3. Sets(temp, f, "none") \in [AllFiles -> {"none", "part", "full"}]
      /\ Sets(temp, f, "none")[f] = "none"
      /\ \A g \in AllFiles \ Here : Sets(temp, f, "none")[g] = temp[g]
  BY <1>2 DEF Sets
<1> HIDE DEF f
<1>4. CASE /\ target' = Sets(target, f, "new") /\ temp' = Sets(temp, f, "none")
           /\ EndEntry(TRUE) /\ UNCHANGED faults
  <2>1. Leaves(TRUE, job.leftover)
    BY <1>2, <1>3, <1>4 DEF Leaves, EndEntry
  <2> QED BY <1>2, <1>4, <2>1 DEF f
<1>5. CASE /\ Fails /\ temp' \in {temp, Sets(temp, f, "none")} /\ UNCHANGED target
           /\ EndEntryLeaving(FALSE, IF temp' = temp THEN job.leftover \cup {f}
                                                     ELSE job.leftover)
  <2>3. faults' \in Nat
    BY <1>2, <1>5 DEF Fails
  <2>1. CASE temp' = temp
    <3>1. Leaves(FALSE, job.leftover \cup {f})
      BY <1>2, <1>5, <2>1, <2>3 DEF Leaves
    <3> QED BY <1>2, <1>5, <3>1
  <2>2. CASE temp' # temp
    <3>1. Leaves(FALSE, job.leftover)
      BY <1>2, <1>3, <1>5, <2>2, <2>3 DEF Leaves
    <3> QED BY <1>2, <1>5, <3>1
  <2> QED BY <2>1, <2>2
<1>6. CASE Sweep /\ UNCHANGED target
  BY <1>1, <1>6, Swept
<1> QED BY <1>4, <1>5, <1>6 DEF PublishPulled, f

(* Types of job under the two updates that many actions share.             *)
LEMMA AtTyped ==
  ASSUME job \in Jobs, NEW label \in Labels, At(label)
  PROVE  job' \in Jobs
BY DEF At, Jobs

LEMMA StreamEndTyped ==
  ASSUME job \in Jobs, job.file \in Names, NEW good \in BOOLEAN, StreamEnds(good)
  PROVE  job' \in Jobs
<1>1. CASE good BY <1>1 DEF StreamEnds, Jobs, Labels, Busy, Streams
<1>2. CASE ~good BY <1>2 DEF StreamEnds, Jobs, Labels, Busy, Streams
<1> QED BY <1>1, <1>2

(* Every action keeps the types. SetAside needs more than the types: what  *)
(* it moves to a backup name is never a half or a new file (Waiting).      *)
LEMMA TypeStep ==
  ASSUME TypeInv, EntryInv, LabelInv, CommitInv, TransferNext
  PROVE  TypeInv'
<1> SUFFICES plan' = plan /\ RunnerTypeInv' /\ job' \in Jobs /\ FilesTypeInv'
  BY SMTT(30) DEF TypeInv
<1>0. plan' = plan
  BY DEF TransferNext, Strategy, Prepare, BeginEntry, LeaveEntries, Finish, ReceiveFile,
    PublishPulled, Unpack, Unpacked, SetAside, Link, Compare, Commit, LookBack, Undo,
    RolledBack, BeginStream, SendFile, Flush, Sent, Finalize, Prove, Discard, Pack, Packed,
    NativeCopy, Copied, CommandSteps, RemoteMove, LatePump, Outsider, CancelTransfer,
    ShutdownRunner, CommitRests, StreamRests, transferVars
<1>1. AllFiles' = AllFiles
  BY <1>0, PlanStays
<1>2. job.at \in Busy => Here \subseteq AllFiles /\ Here \subseteq Names
  BY HereFacts DEF TypeInv
<1> SUFFICES RunnerTypeInv' /\ job' \in Jobs /\ FilesTypeInv'
  BY <1>0
<1>3. CASE Prepare
  <2>1. RunnerTypeInv'
    BY <1>3 DEF Prepare, TypeInv, RunnerTypeInv, Fails
  <2>2. job' \in Jobs
    <3>1. CASE At("finish") BY <3>1, AtTyped DEF TypeInv, Labels
    <3>2. CASE job' = [job EXCEPT !.at = "entry", !.entry = 1, !.tar = TRUE]
      BY <3>2 DEF TypeInv, Jobs, Labels
    <3>3. CASE job' = [job EXCEPT !.at = "entry", !.entry = 1]
      BY <3>3 DEF TypeInv, Jobs, Labels
    <3> QED BY <1>3, <3>1, <3>2, <3>3 DEF Prepare
  <2> QED BY <1>1, <1>3, <2>1, <2>2 DEF Prepare, TypeInv, FilesTypeInv, fileVars, sideVars
<1>4. CASE BeginEntry
  <2>1. Entry \in TransferEntries /\ Here \subseteq Names
    <3>1. job.entry > 0 /\ job.entry <= Len(plan.entries) /\ job.entry \in Nat
      BY <1>4 DEF BeginEntry, EntryInv, TypeInv, Jobs
    <3>2. job.entry \in DOMAIN plan.entries
      BY <3>1 DEF TypeInv, TransferPlans
    <3> QED BY <3>2, FileFacts DEF TypeInv, Here, Entry
  <2>2. RunnerTypeInv'
    BY <1>4, RequestTyped DEF BeginEntry, TypeInv, RunnerTypeInv, CommandKinds
  <2>3. job' \in Jobs
    BY ZenonT(60), <1>4, <2>1
    DEF BeginEntry, TypeInv, Jobs, Labels, Method, Methods, Busy, Streams, Pulling
  <2> QED BY <1>1, <1>4, <2>2, <2>3 DEF BeginEntry, TypeInv, FilesTypeInv, fileVars, sideVars
<1>5. CASE LeaveEntries \/ Finish
  <2>1. job' \in Jobs
    BY <1>5, AtTyped DEF LeaveEntries, Finish, TypeInv, Labels
  <2> QED BY <1>1, <1>5, <2>1 DEF LeaveEntries, Finish, TypeInv, FilesTypeInv, RunnerTypeInv,
        fileVars, sideVars, runnerVars
<1>6. CASE ReceiveFile \/ Unpack
  <2>1. RunnerTypeInv'
    BY <1>6, PumpTyped DEF ReceiveFile, Unpack, TypeInv, RunnerTypeInv, Fails
  <2>2. temp' \in [AllFiles -> {"none", "part", "full"}]
    <3>1. temp' = temp \/ \E f \in AllFiles, v \in {"part", "full"} : temp' = Sets(temp, f, v)
      BY <1>6, <1>2, HereFacts
         DEF ReceiveFile, Unpack, Pumping, Busy, Pulling, TypeInv
    <3> QED BY <3>1 DEF Sets, TypeInv, FilesTypeInv
  <2> QED BY <1>1, <1>6, <2>1, <2>2 DEF ReceiveFile, Unpack, TypeInv, FilesTypeInv, sideVars
<1>7. CASE PublishPulled
  <2>1. PICK good \in BOOLEAN, files \in SUBSET Names :
          /\ Leaves(good, files)
          /\ target' = IF good THEN Sets(target, <<job.entry, 1>>, "new") ELSE target
    BY <1>7, Published
  <2>2. cmd' \in Cmds /\ job' \in Jobs /\ late' \in SUBSET AllFiles
    <3>1. job.at \in Busy
      BY <1>7 DEF PublishPulled, Busy, Pulling
    <3> QED BY <1>0, <2>1, <3>1, LeaveTyped DEF Leaves
  <2>3. RunnerTypeInv'
    <3>1. faults' \in Nat /\ gate' = gate /\ cancel' = cancel
      BY <1>7, <2>1 DEF PublishPulled, Leaves
    <3> QED BY <2>2, <3>1 DEF TypeInv, RunnerTypeInv
  <2>4. /\ temp' \in [AllFiles -> {"none", "part", "full"}]
        /\ target' \in [AllFiles -> {"none", "old", "new", "other", "part"}]
    BY <2>1 DEF Leaves, TypeInv, FilesTypeInv, Sets
  <2> QED BY <1>1, <1>7, <2>2, <2>3, <2>4 DEF PublishPulled, TypeInv, FilesTypeInv
<1>8. CASE Unpacked
  <2>1. /\ RunnerTypeInv' /\ job' \in Jobs /\ late' \in SUBSET AllFiles
        /\ temp' \in [AllFiles -> {"none", "part", "full"}]
    <3>1. CASE Succeeded
      <4>1. {f \in Here : temp[f] = "full"} \in SUBSET Names
        BY <1>2, <1>8 DEF Unpacked, Busy, Pulling
      <4>2. job' \in Jobs
        BY ZenonT(60), <1>8, <3>1, <4>1 DEF Unpacked, TypeInv, Jobs, Labels, Busy, Commits
      <4> QED BY <1>8, <3>1, <4>2 DEF Unpacked, TypeInv, RunnerTypeInv, FilesTypeInv
    <3>2. CASE ~Succeeded
      <4>1. Sweep /\ job.at \in Busy
        BY <1>8, <3>2 DEF Unpacked, Busy, Pulling
      <4>2. PICK files \in SUBSET Names : Leaves(FALSE, files)
        BY <4>1, Swept
      <4>3. cmd' \in Cmds /\ job' \in Jobs /\ late' \in SUBSET AllFiles
        BY <1>0, <4>1, <4>2, LeaveTyped DEF Leaves
      <4> QED BY <1>8, <4>2, <4>3 DEF Unpacked, Leaves, TypeInv, RunnerTypeInv
    <3> QED BY <3>1, <3>2
  <2> QED BY <1>1, <1>8, <2>1 DEF Unpacked, TypeInv, FilesTypeInv
<1>9. CASE SetAside \/ Link \/ Compare
  <2>1. job.left \subseteq AllFiles /\ job.left \subseteq Names
    BY <1>9, <1>2 DEF SetAside, Link, Compare, LabelInv, Busy, Commits
  <2>2. RunnerTypeInv'
    <3>1. faults' \in Nat
      <4>1. CASE SetAside BY <4>1 DEF SetAside, TypeInv, RunnerTypeInv, Fails
      <4>2. CASE Link BY <4>2 DEF Link, TypeInv, RunnerTypeInv, Fails
      <4>3. CASE Compare BY <4>3 DEF Compare, TypeInv, RunnerTypeInv
      <4> QED BY <1>9, <4>1, <4>2, <4>3
    <3>2. CommitRests
      BY <1>9 DEF SetAside, Link, Compare
    <3> QED BY <3>1, <3>2 DEF CommitRests, TypeInv, RunnerTypeInv
  <2>3. CASE SetAside
    <3>1. job' \in Jobs
      <4>1. CASE At("undoing") BY <4>1, AtTyped DEF TypeInv, Labels, Busy, Commits
      <4>2. ASSUME NEW f \in job.left, job' = [job EXCEPT !.at = "link", !.file = f]
            PROVE  job' \in Jobs
        BY <2>1, <4>2 DEF TypeInv, Jobs, Labels, Busy, Commits
      <4> QED BY <2>3, <4>1, <4>2 DEF SetAside
    <3>2. \A f \in job.left : target[f] \in Held
      BY <2>1, <2>3 DEF SetAside, CommitInv, Waiting
    <3>3. /\ target' \in [AllFiles -> {"none", "old", "new", "other", "part"}]
          /\ saved' \in [AllFiles -> Held]
      BY <2>1, <2>3, <3>2 DEF SetAside, Sets, TypeInv, FilesTypeInv
    <3> QED BY <1>1, <2>2, <2>3, <3>1, <3>3 DEF SetAside, CommitRests, TypeInv, FilesTypeInv
  <2>4. CASE Link
    <3>1. job' \in Jobs
      <4>1. CASE At("undoing") BY <4>1, AtTyped DEF TypeInv, Labels, Busy, Commits
      <4>2. CASE job' = [job EXCEPT !.at = "compare", !.moved = @ \cup {job.file}]
        <5>1. job.file \in Names
          BY <2>1, <2>4 DEF Link, LabelInv
        <5> QED BY <4>2, <5>1 DEF TypeInv, Jobs, Labels, Busy, Commits
      <4> QED BY <2>4, <4>1, <4>2 DEF Link
    <3> QED BY <1>1, <2>2, <2>4, <3>1 DEF Link, CommitRests, TypeInv, FilesTypeInv, Sets
  <2>5. CASE Compare
    <3>1. job' \in Jobs
      BY <2>5 DEF Compare, TypeInv, Jobs, Labels, Busy, Commits
    <3> QED BY <1>1, <2>2, <2>5, <3>1 DEF Compare, CommitRests, TypeInv, FilesTypeInv, fileVars
  <2> QED BY <1>9, <2>3, <2>4, <2>5
<1>10. CASE Commit
  <2>1. job.at \in Busy
    BY <1>10 DEF Commit, Busy, Commits
  <2>2. RunnerTypeInv' /\ job' \in Jobs /\ late' \in SUBSET AllFiles
    <3>1. CASE At("undoing") /\ UNCHANGED <<cmd, late, temp, saved>>
      BY <1>10, <3>1, AtTyped DEF Commit, TypeInv, RunnerTypeInv, FilesTypeInv, Labels, Busy,
         Commits
    <3>2. CASE EndEntry(TRUE)
      BY <1>0, <1>10, <2>1, <3>2, EndTyped DEF Commit, TypeInv, RunnerTypeInv
    <3> QED BY <1>10, <3>1, <3>2 DEF Commit
  <2>3. /\ temp' \in [AllFiles -> {"none", "part", "full"}]
        /\ saved' \in [AllFiles -> Held]
    <3>1. CASE UNCHANGED <<temp, saved>>
      BY <3>1 DEF TypeInv, FilesTypeInv
    <3>2. CASE /\ temp' = [f \in AllFiles |-> IF f \in Here THEN "none" ELSE temp[f]]
               /\ saved' = [f \in AllFiles |-> IF f \in Here THEN "none" ELSE saved[f]]
      BY <3>2 DEF TypeInv, FilesTypeInv, Held
    <3> QED BY <1>10, <3>1, <3>2 DEF Commit
  <2> QED BY <1>1, <1>10, <2>2, <2>3 DEF Commit, TypeInv, FilesTypeInv
<1>11. CASE LookBack \/ Undo
  <2>1. RunnerTypeInv'
    <3>1. faults' \in Nat
      <4>1. CASE LookBack BY <4>1 DEF LookBack, TypeInv, RunnerTypeInv
      <4>2. CASE Undo BY <4>2 DEF Undo, TypeInv, RunnerTypeInv, Fails
      <4> QED BY <1>11, <4>1, <4>2
    <3>2. CommitRests
      BY <1>11 DEF LookBack, Undo
    <3> QED BY <3>1, <3>2 DEF CommitRests, TypeInv, RunnerTypeInv
  <2>2. CASE LookBack
    <3>1. job' \in Jobs
      <4>1. PICK f \in Here, look \in {"none", "ours", "theirs"} :
              job' = [job EXCEPT !.at = "undo", !.file = f, !.seen = look]
        BY <2>2 DEF LookBack, ToUndo
      <4>2. f \in Names
        BY <1>2, <2>2 DEF LookBack, Busy, Commits
      <4> QED BY <4>1, <4>2 DEF TypeInv, Jobs, Labels, Busy, Commits
    <3> QED BY <1>1, <2>1, <2>2, <3>1 DEF LookBack, CommitRests, TypeInv, FilesTypeInv, fileVars
  <2>3. CASE Undo
    <3>1. job.file \in Names /\ job.file \in AllFiles
      BY <1>2, <2>3 DEF Undo, LabelInv, Busy, Commits
    <3>2. job' \in Jobs
      <4>1. CASE Warn(job.file)
        BY <3>1, <4>1 DEF Warn, TypeInv, Jobs, Labels, Busy, Commits
      <4>2. CASE job' = [job EXCEPT !.at = "undoing", !.moved = @ \ {job.file}]
        BY <4>2 DEF TypeInv, Jobs, Labels, Busy, Commits
      <4> QED BY <2>3, <4>1, <4>2 DEF Undo
    <3>3. /\ target' \in [AllFiles -> {"none", "old", "new", "other", "part"}]
          /\ saved' \in [AllFiles -> Held]
      BY <2>3, <3>1 DEF Undo, Sets, TypeInv, FilesTypeInv, Held
    <3> QED BY <1>1, <2>1, <2>3, <3>2, <3>3 DEF Undo, CommitRests, TypeInv, FilesTypeInv
  <2> QED BY <1>11, <2>2, <2>3
<1>12. CASE RolledBack \/ Packed
  <2>1. job.at \in Busy
    BY <1>12 DEF RolledBack, Packed, Busy, Commits
  <2>2. /\ cmd' \in Cmds /\ job' \in Jobs /\ late' \in SUBSET AllFiles
        /\ faults' \in Nat /\ temp' \in [AllFiles -> {"none", "part", "full"}]
    <3>1. CASE RolledBack
      <4>1. PICK files \in SUBSET Names : Leaves(FALSE, files)
        BY <2>1, <3>1, Swept DEF RolledBack
      <4> QED BY <1>0, <2>1, <4>1, LeaveTyped DEF Leaves
    <3>2. CASE Packed
      <4>1. PICK good \in BOOLEAN : EndEntry(good)
        BY <3>2 DEF Packed, Succeeded
      <4> QED BY <1>0, <2>1, <3>2, <4>1, EndTyped
            DEF Packed, TypeInv, RunnerTypeInv, FilesTypeInv, fileVars
    <3> QED BY <1>12, <3>1, <3>2
  <2>3. RunnerTypeInv'
    BY <1>12, <2>2 DEF RolledBack, Packed, TypeInv, RunnerTypeInv
  <2>4. temp' \in [AllFiles -> {"none", "part", "full"}]
    BY <2>2
  <2> QED BY <1>1, <1>12, <2>2, <2>3, <2>4 DEF RolledBack, Packed, TypeInv, FilesTypeInv, fileVars
<1>13. CASE Outsider
  <2>1. Here \subseteq AllFiles
    BY <1>2, <1>13 DEF Outsider, Busy, Commits
  <2>2. RunnerTypeInv'
    BY <1>13 DEF Outsider, TypeInv, RunnerTypeInv, Fails
  <2> QED BY <1>1, <1>13, <2>1, <2>2 DEF Outsider, Sets, TypeInv, FilesTypeInv
<1>14. CASE BeginStream
  <2>1. job.at \in Busy /\ job.left \subseteq Names
    BY <1>2, <1>14 DEF BeginStream, Busy, Streams, LabelInv
  <2>2. cmd' \in Cmds /\ job' \in Jobs /\ late' \in SUBSET AllFiles
    <3>1. CASE job.left = {}
      <4>1. (job.good /\ job.failed = {}) \in BOOLEAN
        BY DEF TypeInv, Jobs
      <4> QED BY <1>0, <1>14, <2>1, <3>1, <4>1, EndTyped DEF BeginStream, TypeInv
    <3>2. CASE job.left # {}
      <4>1. PICK f \in job.left :
              /\ Request("input") /\ UNCHANGED late
              /\ job' = [job EXCEPT !.at = "sending", !.file = f, !.changed = FALSE]
        BY <1>14, <3>2 DEF BeginStream
      <4>2. cmd' \in Cmds
        BY <4>1, RequestTyped DEF CommandKinds
      <4>3. job' \in Jobs
        BY <2>1, <4>1 DEF TypeInv, Jobs, Labels, Busy, Streams
      <4> QED BY <4>1, <4>2, <4>3 DEF TypeInv, FilesTypeInv
    <3> QED BY <3>1, <3>2
  <2> QED BY <1>1, <1>14, <2>2 DEF BeginStream, TypeInv, RunnerTypeInv, FilesTypeInv, fileVars
<1>15. CASE SendFile
  <2>1. job.file \in AllFiles
    BY <1>2, <1>15 DEF SendFile, Pumping, Busy, Streams, Sends, LabelInv
  <2>2. RunnerTypeInv'
    <3>1. cmd' \in Cmds
      BY <1>15, PumpTyped DEF SendFile, TypeInv, RunnerTypeInv
    <3>2. faults' \in Nat
      BY <1>15 DEF SendFile, TypeInv, RunnerTypeInv, Fails
    <3> QED BY <1>15, <3>1, <3>2 DEF SendFile, TypeInv, RunnerTypeInv
  <2>3. job' \in Jobs
    <3>1. CASE job' = [job EXCEPT !.changed = TRUE] BY <3>1 DEF TypeInv, Jobs
    <3>2. CASE job' = job BY <3>2 DEF TypeInv
    <3> QED BY <1>15, <3>1, <3>2 DEF SendFile
  <2>4. temp' \in [AllFiles -> {"none", "part", "full"}]
    BY <1>15, <2>1 DEF SendFile, Sets, TypeInv, FilesTypeInv
  <2> QED BY <1>1, <1>15, <2>2, <2>3, <2>4 DEF SendFile, sideVars, TypeInv, FilesTypeInv
<1>16. CASE Flush
  BY <1>1, <1>16 DEF Flush, Sets, runnerVars, sideVars, TypeInv, RunnerTypeInv, FilesTypeInv
<1>17. CASE Sent \/ Prove \/ Discard
  <2>1. /\ job.file \in AllFiles /\ job.file \in Names
        /\ job.at \in {"sending", "proving", "discarding"}
    BY <1>2, <1>17 DEF Sent, Prove, Discard, Busy, Streams, Sends, LabelInv
  <2>2. RunnerTypeInv' /\ StreamRests
    <3>1. faults' \in Nat
      <4>1. CASE Discard BY <4>1 DEF Discard, StreamEnds, TypeInv, RunnerTypeInv, Fails
      <4>2. CASE Sent \/ Prove BY <4>2 DEF Sent, Prove, TypeInv, RunnerTypeInv
      <4> QED BY <1>17, <4>1, <4>2
    <3>2. StreamRests /\ cmd' = cmd
      BY <1>17 DEF Sent, Prove, Discard
    <3> QED BY <3>1, <3>2 DEF StreamRests, TypeInv, RunnerTypeInv
  <2>3. job' \in Jobs
    <3>1. \A label \in {"finalizing", "discarding"} : At(label) => job' \in Jobs
      BY AtTyped DEF TypeInv, Labels, Busy, Streams
    <3>2. \A good \in BOOLEAN : StreamEnds(good) => job' \in Jobs
      BY <2>1, StreamEndTyped DEF TypeInv
    <3>3. ASSUME job' = [job EXCEPT !.at = "stream", !.left = @ \ {job.file},
                                    !.failed = @ \cup {job.file},
                                    !.leftover = @ \cup {job.file}]
          PROVE  job' \in Jobs
      BY <2>1, <3>3 DEF TypeInv, Jobs, Labels, Busy, Streams
    <3> QED BY <1>17, <3>1, <3>2, <3>3 DEF Sent, Prove, Discard
  <2>4. /\ temp' \in [AllFiles -> {"none", "part", "full"}]
        /\ shell' \in [AllFiles -> {"none", "running", "moved", "refused"}]
        /\ target' = target /\ saved' = saved
    BY <1>17, <2>1 DEF Sent, Prove, Discard, Sets, fileVars, TypeInv, FilesTypeInv
  <2> QED BY <1>1, <2>2, <2>3, <2>4 DEF StreamRests, TypeInv, FilesTypeInv
<1>18. CASE Finalize
  <2>1. job.file \in Names
    BY <1>2, <1>18 DEF Finalize, Busy, Streams, Sends, LabelInv
  <2>2. job' \in Jobs
    <3>1. \A label \in {"proving", "discarding"} : At(label) => job' \in Jobs
      BY AtTyped DEF TypeInv, Labels, Busy, Streams
    <3>2. \A good \in BOOLEAN : StreamEnds(good) => job' \in Jobs
      BY <2>1, StreamEndTyped DEF TypeInv
    <3>3. (~cancel) \in BOOLEAN
      OBVIOUS
    <3> QED BY <1>18, <3>1, <3>2, <3>3 DEF Finalize
  <2>3. faults' \in Nat
    BY <1>18 DEF Finalize, TypeInv, RunnerTypeInv, Fails
  <2> QED BY <1>1, <1>18, <2>2, <2>3 DEF Finalize, StreamRests, fileVars, TypeInv, FilesTypeInv,
        RunnerTypeInv
<1>19. CASE Pack \/ NativeCopy
  <2>1. Here \subseteq AllFiles /\ Here \subseteq Names
    BY <1>2, <1>19 DEF Pack, NativeCopy, Pumping, Busy
  <2>2. CASE Pack
    <3>1. cmd' \in Cmds
      BY <2>2, PumpTyped DEF Pack, TypeInv
    <3>2. target' \in [AllFiles -> {"none", "old", "new", "other", "part"}]
      BY <2>2 DEF Pack, TypeInv, FilesTypeInv
    <3> QED BY <1>1, <2>2, <3>1, <3>2 DEF Pack, sideVars, TypeInv, FilesTypeInv, RunnerTypeInv
  <2>3. CASE NativeCopy
    <3>1. PICK f \in Here :
            \/ job' = [job EXCEPT !.moved = @ \cup {f}] /\ target' = Sets(target, f, "new")
               /\ UNCHANGED faults
            \/ job' = [job EXCEPT !.failed = @ \cup {f}] /\ UNCHANGED target /\ Fails
      BY <2>3 DEF NativeCopy
    <3>2. job' \in Jobs
      BY <2>1, <3>1 DEF TypeInv, Jobs
    <3>3. /\ target' \in [AllFiles -> {"none", "old", "new", "other", "part"}]
          /\ faults' \in Nat
      BY <2>1, <3>1 DEF Sets, Fails, TypeInv, FilesTypeInv, RunnerTypeInv
    <3> QED BY <1>1, <2>3, <3>2, <3>3 DEF NativeCopy, sideVars, TypeInv, FilesTypeInv,
            RunnerTypeInv
  <2> QED BY <1>19, <2>2, <2>3
<1>20. CASE Copied
  <2>1. cmd' \in Cmds /\ job' \in Jobs /\ late' \in SUBSET AllFiles
    <3>1. CASE /\ UNCHANGED <<cmd, late>>
               /\ job' = [job EXCEPT !.at = "stream", !.left = job.failed, !.failed = {},
                                     !.good = cmd.outcome = "success"]
      BY ZenonT(60), <3>1 DEF TypeInv, RunnerTypeInv, FilesTypeInv, Jobs, Labels, Busy, Streams
    <3>2. CASE EndEntry(Succeeded)
      <4>1. Succeeded \in BOOLEAN /\ job.at \in Busy
        BY <1>20 DEF Copied, Succeeded, Busy
      <4> QED BY <1>0, <3>2, <4>1, EndTyped DEF TypeInv
    <3> QED BY <1>20, <3>1, <3>2 DEF Copied
  <2> QED BY <1>1, <1>20, <2>1 DEF Copied, TypeInv, RunnerTypeInv, FilesTypeInv, fileVars
<1>21. CASE CommandSteps \/ ShutdownRunner
  <2>1. RunnerTypeInv'
    BY <1>21, RunnerTyped DEF CommandSteps, ShutdownRunner, TypeInv
  <2> QED BY <1>1, <1>21, <2>1 DEF CommandSteps, ShutdownRunner, TypeInv, FilesTypeInv,
        transferVars, fileVars, sideVars
<1>22. CASE CancelTransfer
  BY <1>1, <1>22 DEF CancelTransfer, TypeInv, FilesTypeInv, RunnerTypeInv, transferVars,
    fileVars, sideVars
<1>23. CASE LatePump
  <2>1. \A f \in late : f \in AllFiles
    BY DEF TypeInv, FilesTypeInv
  <2> QED BY <1>1, <1>23, <2>1 DEF LatePump, Sets, TypeInv, FilesTypeInv, RunnerTypeInv,
        runnerVars, sideVars
<1>24. CASE \E f \in AllFiles : RemoteMove(f)
  <2>1. PICK f \in AllFiles : RemoteMove(f)
    BY <1>24
  <2>2. faults' \in Nat
    BY <2>1 DEF RemoteMove, Fails, TypeInv, RunnerTypeInv
  <2> QED BY <1>1, <2>1, <2>2 DEF RemoteMove, Sets, TypeInv, FilesTypeInv, RunnerTypeInv
<1> QED BY <1>3, <1>4, <1>5, <1>6, <1>7, <1>8, <1>9, <1>10, <1>11, <1>12, <1>13, <1>14, <1>15,
       <1>16, <1>17, <1>18, <1>19, <1>20, <1>21, <1>22, <1>23, <1>24
    DEF TransferNext, Strategy

-----------------------------------------------------------------------------
(* Whatever the strategy does, to the command it does one of these.        *)
CmdMoves ==
  \/ Start \/ Poll \/ AwaitKilled \/ Join \/ ProcessEnds \/ CloseGate \/ KillRegistered
  \/ /\ gate' = gate
     /\ \/ cmd' = cmd \/ cmd' = IdleCmd \/ \E kind \in CommandKinds : Request(kind)
        \/ \E how \in {"done", "failed"} :
             \/ PumpStops(how)
             \/ cmd.process = "alive" /\ cmd' = [cmd EXCEPT !.pump = how, !.process = "ended"]

LEMMA CmdMoved ==
  ASSUME TransferNext
  PROVE  CmdMoves
<1> USE DEF CmdMoves
<1>1. CASE Prepare \/ LeaveEntries \/ Finish
  BY <1>1 DEF Prepare, LeaveEntries, Finish, runnerVars
<1>2. CASE BeginEntry BY <1>2 DEF BeginEntry, CommandKinds
<1>3. CASE ReceiveFile BY <1>3 DEF ReceiveFile
<1>4. CASE Unpack BY <1>4 DEF Unpack
<1>5. CASE PublishPulled \/ RolledBack \/ Packed
  BY <1>5 DEF PublishPulled, RolledBack, Packed, Sweep, EndEntry, EndEntryLeaving
<1>6. CASE Unpacked BY <1>6 DEF Unpacked, Sweep, EndEntry, EndEntryLeaving
<1>7. CASE SetAside \/ Link \/ Compare \/ LookBack \/ Undo
  BY <1>7 DEF SetAside, Link, Compare, LookBack, Undo, CommitRests
<1>8. CASE Commit BY <1>8 DEF Commit, EndEntry, EndEntryLeaving
<1>9. CASE Copied BY <1>9 DEF Copied, EndEntry, EndEntryLeaving
<1>10. CASE BeginStream BY <1>10 DEF BeginStream, EndEntry, EndEntryLeaving, CommandKinds
<1>11. CASE SendFile BY <1>11 DEF SendFile
<1>12. CASE Sent \/ Finalize \/ Prove \/ Discard
  BY <1>12 DEF Sent, Finalize, Prove, Discard, StreamRests
<1>13. CASE Pack BY <1>13 DEF Pack
<1>14. CASE NativeCopy \/ Outsider BY <1>14 DEF NativeCopy, Outsider
<1>15. CASE Flush \/ LatePump BY <1>15 DEF Flush, LatePump, runnerVars
<1>16. CASE CommandSteps BY <1>16 DEF CommandSteps
<1>17. CASE ShutdownRunner BY <1>17 DEF ShutdownRunner
<1>18. CASE CancelTransfer BY <1>18 DEF CancelTransfer
<1>19. CASE \E f \in AllFiles : RemoteMove(f) BY <1>19 DEF RemoteMove
<1> QED BY <1>1, <1>2, <1>3, <1>4, <1>5, <1>6, <1>7, <1>8, <1>9, <1>10, <1>11, <1>12, <1>13,
       <1>14, <1>15, <1>16, <1>17, <1>18, <1>19
    DEF TransferNext, Strategy

(* The gate under the process lock (Start) and the kills of shutdown       *)
(* (KillRegistered) together leave no process alive.                       *)
LEMMA CmdStep ==
  ASSUME RunnerTypeInv, CmdInv, CmdMoves
  PROVE  CmdInv'
<1> USE DEF CmdInv, RunnerTypeInv, Cmds
<1>1. CASE Start BY <1>1 DEF Start, Started, Ended
<1>2. CASE Poll BY <1>2 DEF Poll, Kill
<1>3. CASE AwaitKilled BY <1>3 DEF AwaitKilled
<1>4. CASE Join
  <2>1. \A slow \in BOOLEAN : Verdict(slow) = "success" => cmd.process = "ended"
    BY DEF Verdict
  <2> QED BY <1>4, <2>1 DEF Join, Ended
<1>5. CASE ProcessEnds BY <1>5 DEF ProcessEnds
<1>6. CASE CloseGate BY <1>6 DEF CloseGate
<1>7. CASE KillRegistered BY <1>7 DEF KillRegistered
<1>8. CASE gate' = gate /\ (cmd' = cmd \/ cmd' = IdleCmd)
  BY <1>8 DEF IdleCmd
<1>9. CASE gate' = gate /\ \E kind \in CommandKinds : Request(kind)
  BY <1>9 DEF Request, IdleCmd
<1>10. ASSUME gate' = gate, NEW how \in {"done", "failed"}, PumpStops(how)
       PROVE  CmdInv'
  BY <1>10 DEF PumpStops
<1>11. ASSUME gate' = gate, NEW how \in {"done", "failed"}, cmd.process = "alive",
              cmd' = [cmd EXCEPT !.pump = how, !.process = "ended"]
       PROVE  CmdInv'
  BY <1>11
<1> QED BY <1>1, <1>2, <1>3, <1>4, <1>5, <1>6, <1>7, <1>8, <1>9, <1>10, <1>11 DEF CmdMoves

-----------------------------------------------------------------------------
(* A step inside the current entry, which touches no file of another one.  *)
SameFields ==
  /\ job'.entry = job.entry /\ job'.method = job.method /\ job'.tar = job.tar
  /\ job'.results = job.results

Elsewhere ==
  \A f \in AllFiles \ Here : /\ target'[f] = target[f] /\ temp'[f] = temp[f]
                             /\ saved'[f] = saved[f] /\ shell'[f] = shell[f]

Inside ==
  /\ job.at \in Busy /\ job'.at \in Busy /\ SameFields
  /\ job.warned \subseteq job'.warned /\ job.leftover \subseteq job'.leftover
  /\ touched \subseteq touched' /\ UNCHANGED <<plan, late, verdict>>
  /\ Elsewhere

(* Such a step keeps what is known of the other entries.                   *)
LEMMA InsideStep ==
  ASSUME IInv, TypeInv', Inside
  PROVE  EntryInv' /\ FreshInv' /\ ResultInv' /\ (\A f \in late' : f[1] < job'.entry)
<1>1. /\ plan \in TransferPlans /\ job \in Jobs /\ job' \in Jobs /\ plan' = plan
      /\ job.at \in Busy /\ job'.at \in Busy /\ AllFiles' = AllFiles
      /\ EntryInv /\ FreshInv /\ ResultInv
  BY PlanStays DEF IInv, TypeInv, Inside
<1>2. /\ \A f \in AllFiles : f \in Here <=> f[1] = job.entry
      /\ job.entry \in Nat
  BY <1>1, HereFacts
<1>3. EntryInv'
  BY <1>1 DEF EntryInv, Inside, SameFields, Busy, Pulling, Commits, Streams, Entry, Method,
                   FastTar
<1>4. FreshInv'
  <2>1. \A f \in AllFiles : Fresh(f)' => Fresh(f) /\ f \notin Here
    BY <1>1, <1>2 DEF Fresh, Inside, SameFields
  <2> QED BY <1>1, <2>1 DEF FreshInv, Inside, Elsewhere
<1>5. ResultInv'
  <2> SUFFICES ASSUME NEW f \in AllFiles, f[1] \in DOMAIN job.results
               PROVE  /\ job'.results[f[1]].method = Method(plan'.entries[f[1]], job'.tar)
                      /\ Vouched(f, job.results[f[1]], target[f], saved[f], job.warned)'
    BY <1>1 DEF ResultInv, Inside, SameFields, Method, FastTar
  <2>1. f[1] # job.entry
    BY <1>1, <1>2 DEF EntryInv, Jobs
  <2>2. target'[f] = target[f] /\ saved'[f] = saved[f] /\ touched \subseteq touched'
        /\ job.warned \subseteq job'.warned /\ job'.results = job.results
    BY <1>2, <2>1 DEF Inside, Elsewhere, SameFields
  <2>3. /\ job.results[f[1]].method = Method(plan.entries[f[1]], job.tar)
        /\ Vouched(f, job.results[f[1]], target[f], saved[f], job.warned)
    BY <1>1 DEF ResultInv
  <2>4. Vouched(f, job.results[f[1]], target[f], saved[f], job.warned)'
    BY <1>1, <2>2, <2>3 DEF Vouched, Pull, Kept
  <2> QED BY <1>1, <2>3, <2>4 DEF Inside, SameFields
<1>6. \A f \in late' : f[1] < job'.entry
  BY DEF Inside, SameFields, IInv, SideInv
<1> QED BY <1>3, <1>4, <1>5, <1>6

(* The part of the invariant that is not about types and the command.      *)
StrategyInv == EntryInv /\ LabelInv /\ FreshInv /\ ResultInv /\ SideInv /\ StagingInv /\ CommitInv
        /\ StreamInv

(* EndEntryLeaving: the result must vouch for the files of the entry, and no *)
(* staging name may be left without a reason.                              *)
LEMMA LeaveStep ==
  ASSUME IInv, TypeInv', job.at \in Busy, NEW good \in BOOLEAN,
         NEW files \in SUBSET Names, EndEntryLeaving(good, files), job.leftover \subseteq files,
         plan' = plan, touched' = touched, verdict' = verdict, shell' = shell, Elsewhere,
         \A f \in Here :
           /\ Vouched(f, [method |-> job.method, good |-> good], target'[f], saved'[f],
                      job.warned)
           /\ temp'[f] # "none" => f \in late' \cup files
  PROVE  StrategyInv'
<1> DEFINE result == [method |-> job.method, good |-> good]
<1>1. /\ plan \in TransferPlans /\ job \in Jobs /\ AllFiles' = AllFiles
      /\ EntryInv /\ FreshInv /\ ResultInv /\ SideInv /\ StagingInv
  BY PlanStays DEF IInv, TypeInv
<1>2. /\ job.entry \in DOMAIN plan.entries /\ job.entry \in Nat
      /\ \A f \in AllFiles : f \in Here <=> f[1] = job.entry
      /\ job.method = Method(Entry, job.tar)
      /\ \A f \in Here : f[1] = job.entry /\ f \in AllFiles
  BY <1>1, HereFacts
<1>3. /\ job'.at = "entry" /\ job'.entry = job.entry + 1 /\ job'.tar = job.tar
      /\ job'.left = {} /\ job'.moved = {} /\ job'.failed = {} /\ job'.good = TRUE
      /\ job'.warned = job.warned /\ job'.leftover = files
      /\ job'.results = Append(job.results, result)
  BY DEF EndEntryLeaving, IdleJob
<1>4. late \subseteq late' /\ late' \subseteq late \cup Here
  BY DEF EndEntryLeaving
<1>5. job.results \in Seq(Results) /\ Len(job.results) = job.entry - 1 /\ job.entry > 0
  BY <1>1, <1>2 DEF EntryInv, Jobs
<1>13. result \in Results
  BY <1>2 DEF Results, Methods, Method
<1> HIDE DEF result
<1>6. /\ Len(job'.results) = job.entry /\ DOMAIN job'.results = 1..job.entry
      /\ job'.results[job.entry] = result
      /\ \A i \in 1..(job.entry - 1) : job'.results[i] = job.results[i]
  <2>1. /\ Append(job.results, result) \in Seq(Results)
        /\ Len(Append(job.results, result)) = Len(job.results) + 1
        /\ \A i \in 1..Len(job.results) : Append(job.results, result)[i] = job.results[i]
        /\ Append(job.results, result)[Len(job.results) + 1] = result
    BY <1>5, <1>13, AppendProperties
  <2>2. Len(job.results) = job.entry - 1 /\ Len(job.results) + 1 = job.entry
    BY <1>2, <1>5
  <2>3. DOMAIN Append(job.results, result) = 1..job.entry
    BY <2>1, <2>2
  <2> QED BY <1>3, <2>1, <2>2, <2>3
<1>7. EntryInv'
  <2>1. job.entry <= Len(plan.entries) /\ Len(plan.entries) \in Nat
    BY <1>1, <1>2 DEF TransferPlans
  <2>2. verdict = "running"
    BY <1>1 DEF EntryInv, Busy, Pulling, Commits, Streams
  <2> QED BY <1>2, <1>3, <1>6, <2>1, <2>2 DEF EntryInv, Busy, Pulling, Commits, Streams
<1>8. LabelInv' /\ CommitInv' /\ StreamInv'
  BY <1>3 DEF LabelInv, CommitInv, StreamInv, Pulling, Commits, Streams, Sends
<1>9. FreshInv'
  <2>1. \A f \in AllFiles : Fresh(f)' => Fresh(f) /\ f \notin Here
    BY <1>1, <1>2, <1>3, FileFacts DEF Fresh, Names
  <2> QED BY <1>1, <2>1 DEF FreshInv, Elsewhere, Kept
<1>10. ResultInv'
  <2> SUFFICES ASSUME NEW f \in AllFiles, f[1] \in 1..job.entry
               PROVE  /\ job'.results[f[1]].method = Method(plan.entries[f[1]], job.tar)
                      /\ Vouched(f, job'.results[f[1]], target'[f], saved'[f], job.warned)
    BY <1>1, <1>3, <1>6 DEF ResultInv, Method, FastTar, Vouched, Pull, Kept
  <2>1. CASE f[1] = job.entry
    BY <1>2, <1>6, <2>1 DEF result, Entry
  <2>2. CASE f[1] # job.entry
    <3>1. f[1] \in 1..(job.entry - 1) /\ f[1] \in DOMAIN job.results /\ f \notin Here
      BY <1>2, <1>5, <2>2
    <3>2. /\ job'.results[f[1]] = job.results[f[1]]
          /\ target'[f] = target[f] /\ saved'[f] = saved[f]
      BY <1>6, <3>1 DEF Elsewhere
    <3> QED BY <1>1, <3>1, <3>2 DEF ResultInv
  <2> QED BY <2>1, <2>2
<1>11. SideInv'
  <2>1. \A f \in late' : f[1] < job'.entry
    BY <1>1, <1>2, <1>3, <1>4, FileFacts DEF SideInv, Names, IInv, TypeInv, FilesTypeInv
  <2> QED BY <1>1, <2>1 DEF SideInv, Pull
<1>12. StagingInv'
  <2> SUFFICES ASSUME NEW f \in AllFiles, temp'[f] # "none"
               PROVE  f \in late' \cup files
    BY <1>1, <1>3 DEF StagingInv
  <2>1. CASE f \in Here BY <2>1
  <2>2. CASE f \notin Here
    <3>1. temp[f] # "none" /\ ~Staged(f)
      <4>1. ~Staged(f)
        <5>1. job.at \in Sends => job.file \in Here
          BY DEF IInv, LabelInv, Sends, Streams
        <5> QED BY <2>2, <5>1 DEF Staged
      <4> QED BY <2>2, <4>1 DEF Elsewhere
    <3> QED BY <1>1, <1>4, <3>1 DEF StagingInv
  <2> QED BY <2>1, <2>2
<1> QED BY <1>7, <1>8, <1>9, <1>10, <1>11, <1>12 DEF StrategyInv

LEMMA EndStep ==
  ASSUME IInv, TypeInv', job.at \in Busy, NEW good \in BOOLEAN, EndEntry(good),
         plan' = plan, touched' = touched, verdict' = verdict, shell' = shell, Elsewhere,
         \A f \in Here :
           /\ Vouched(f, [method |-> job.method, good |-> good], target'[f], saved'[f],
                      job.warned)
           /\ temp'[f] # "none" => f \in late' \cup job.leftover
  PROVE  StrategyInv'
<1>1. job.leftover \in SUBSET Names /\ EndEntryLeaving(good, job.leftover)
  BY DEF IInv, TypeInv, Jobs, EndEntry
<1> QED BY <1>1, LeaveStep

(* A step inside an entry has to keep only what concerns the entry.        *)
LEMMA InsideKeeps ==
  ASSUME IInv, TypeInv', Inside, LabelInv', CommitInv', StreamInv',
         \A f \in AllFiles : shell'[f] # "none" => ~Pull(f),
         \A f \in Here : temp'[f] # "none" => Staged(f)' \/ f \in late \cup job'.leftover
  PROVE  StrategyInv'
<1>1. /\ AllFiles' = AllFiles /\ late' = late /\ StagingInv /\ LabelInv
      /\ job.leftover \subseteq job'.leftover
  BY PlanStays DEF IInv, Inside
<1>2. SideInv'
  BY <1>1, InsideStep DEF SideInv, Pull, Inside
<1>3. StagingInv'
  <2> SUFFICES ASSUME NEW f \in AllFiles, temp'[f] # "none"
               PROVE  Staged(f)' \/ f \in late' \cup job'.leftover
    BY <1>1 DEF StagingInv
  <2>1. CASE f \in Here BY <1>1, <2>1
  <2>2. CASE f \notin Here
    <3>1. ~Staged(f)
      <4>1. job.at \in Sends => job.file \in Here
        BY <1>1 DEF LabelInv, Sends, Streams
      <4> QED BY <2>2, <4>1 DEF Staged
    <3>2. temp[f] # "none"
      BY <2>2 DEF Inside, Elsewhere
    <3> QED BY <1>1, <3>1, <3>2 DEF StagingInv
  <2> QED BY <2>1, <2>2
<1> QED BY <1>2, <1>3, InsideStep DEF StrategyInv

LEMMA LabelKept ==
  ASSUME LabelInv, job' = job, plan' = plan
  PROVE  LabelInv' /\ Here' = Here
<1>1. Here' = Here /\ Entry' = Entry
  BY PlanStays DEF Entry
<1> QED BY <1>1 DEF LabelInv

LEMMA NotCommitting == job'.at \notin Pulling \cup Commits => CommitInv'
BY DEF CommitInv, Pulling, Commits

LEMMA NotStreaming == job'.at \notin Streams \cup {"copying"} => StreamInv'
BY DEF StreamInv, Streams

-----------------------------------------------------------------------------
(* Arrival of a pull (output_writer, stdout_writer): nothing reaches a     *)
(* target before the size or the archive is known to be complete.          *)
LEMMA PullStep ==
  ASSUME IInv, TypeInv', ReceiveFile \/ PublishPulled \/ Unpack \/ Unpacked
  PROVE  StrategyInv'
<1>1. /\ plan' = plan /\ touched' = touched /\ verdict' = verdict /\ shell' = shell
      /\ plan \in TransferPlans /\ job \in Jobs /\ job' \in Jobs /\ FilesTypeInv
      /\ EntryInv /\ LabelInv /\ CommitInv /\ SideInv /\ FreshInv /\ StagingInv
      /\ job.at \in Pulling /\ job.at \in Busy
  BY DEF ReceiveFile, PublishPulled, Unpack, Unpacked, Pumping, IInv, TypeInv, sideVars, Pulling,
         Busy
<1>2. /\ AllFiles' = AllFiles
      /\ job.entry \in DOMAIN plan.entries /\ job.entry \in Nat
      /\ \A f \in AllFiles : f \in Here <=> f[1] = job.entry
      /\ Here \subseteq AllFiles
      /\ <<job.entry, 1>> \in Here
      /\ job.method = "stream" => Here = {<<job.entry, 1>>}
      /\ \A f \in Here : Pull(f) = Entry.pull
  BY <1>1, HereFacts, PlanStays
<1>3. \A f \in Here : target[f] = Kept(f) /\ saved[f] = "none"
  BY <1>1 DEF CommitInv, Original
<1>4. ASSUME ReceiveFile \/ Unpack
      PROVE  StrategyInv'
  <2>1. job' = job /\ target' = target /\ saved' = saved /\ late' = late
    BY <1>4 DEF ReceiveFile, Unpack, sideVars
  <2>2. \A f \in AllFiles \ Here : temp'[f] = temp[f]
    <3>1. temp' = temp \/ \E f \in Here, v \in {"part", "full"} : temp' = Sets(temp, f, v)
      BY <1>2, <1>4 DEF ReceiveFile, Unpack
    <3> QED BY <1>1, <1>2, <3>1 DEF Sets, FilesTypeInv
  <2>3. Inside
    BY <1>1, <2>1, <2>2 DEF Inside, SameFields, Elsewhere
  <2>4. LabelInv' /\ Here' = Here
    BY <1>1, <2>1, LabelKept
  <2>5. CommitInv' /\ StreamInv'
    BY <1>1, <2>1, <2>4, NotStreaming
       DEF CommitInv, Original, Kept, Pulling, Commits, Streams
  <2>6. \A f \in Here : Staged(f)'
    BY <1>1, <2>1, <2>4 DEF Staged
  <2> QED BY <1>1, <2>3, <2>4, <2>5, <2>6, InsideKeeps DEF SideInv
<1>5. ASSUME PublishPulled
      PROVE  StrategyInv'
  <2> DEFINE f == <<job.entry, 1>>
  <2>1. Here = {f} /\ job.method = "stream" /\ f \in AllFiles
    BY <1>1, <1>2, <1>5 DEF PublishPulled, LabelInv
  <2>2. saved' = saved
    BY <1>5 DEF PublishPulled
  <2>5. PICK good \in BOOLEAN, files \in SUBSET Names :
          /\ Leaves(good, files)
          /\ target' = IF good THEN Sets(target, f, "new") ELSE target
    BY <1>5, Published DEF IInv
  <2>3. Elsewhere
    BY <1>1, <2>1, <2>2, <2>5 DEF Sets, Elsewhere, FilesTypeInv, Leaves
  <2>4. /\ temp'[f] # "none" => f \in files
        /\ EndEntryLeaving(good, files) /\ job.leftover \subseteq files
    BY <2>1, <2>5 DEF Leaves
  <2>6. target'[f] = IF good THEN "new" ELSE Kept(f)
    BY <1>1, <1>3, <2>1, <2>5 DEF Sets, FilesTypeInv
  <2> HIDE DEF f
  <2>7. Vouched(f, [method |-> job.method, good |-> good], target'[f], saved'[f], job.warned)
    BY <2>1, <2>6 DEF Vouched
  <2> QED BY <1>1, <2>1, <2>3, <2>4, <2>7, LeaveStep
<1>6. ASSUME Unpacked, Succeeded
      PROVE  StrategyInv'
  <2>1. /\ job' = [job EXCEPT !.at = "commit", !.left = {f \in Here : temp[f] = "full"}]
        /\ UNCHANGED <<target, temp, saved, late>> /\ job.at = "unpacking"
    BY <1>6 DEF Unpacked
  <2>2. /\ job'.at = "commit" /\ job'.left \subseteq Here /\ SameFields
        /\ job'.moved = job.moved /\ job'.warned = job.warned /\ job'.leftover = job.leftover
    BY <1>1, <2>1 DEF Jobs, SameFields
  <2>3. Here' = Here /\ Entry' = Entry
    BY <1>1, <2>2, PlanStays DEF SameFields, Entry
  <2>4. Inside
    BY <1>1, <2>1, <2>2 DEF Inside, Elsewhere, Busy, Commits
  <2>5. LabelInv'
    BY <1>1, <2>1, <2>2, <2>3 DEF LabelInv, SameFields, Commits, Streams, Sends
  <2>6. \A f \in Here : Original(f)' /\ target'[f] \in Held /\ f \notin job'.moved
    BY <1>1, <2>1, <2>2 DEF CommitInv, Original, Kept, Held
  <2>7. CommitInv'
    BY <2>2, <2>3, <2>6 DEF CommitInv, Pulling, Commits, Waiting
  <2>8. \A f \in Here : Staged(f)'
    BY <2>2, <2>3 DEF Staged, Commits
  <2>9. StreamInv'
    BY <2>2, NotStreaming DEF Streams
  <2> QED BY <1>1, <2>4, <2>5, <2>7, <2>8, <2>9, InsideKeeps DEF SideInv
<1>7. ASSUME Unpacked, ~Succeeded
      PROVE  StrategyInv'
  <2>1. Sweep /\ target' = target /\ saved' = saved /\ job.at = "unpacking"
    BY <1>7 DEF Unpacked
  <2>5. PICK files \in SUBSET Names : Leaves(FALSE, files)
    BY <1>1, <2>1, Swept DEF IInv
  <2>2. Elsewhere
    BY <1>1, <2>1, <2>5 DEF Elsewhere, Leaves
  <2>3. /\ \A f \in Here : temp'[f] # "none" => f \in files
        /\ EndEntryLeaving(FALSE, files) /\ job.leftover \subseteq files
    BY <2>5 DEF Leaves
  <2>4. \A f \in Here : Vouched(f, [method |-> job.method, good |-> FALSE], target'[f], saved'[f],
                                job.warned)
    BY <1>3, <2>1 DEF Vouched
  <2> QED BY <1>1, <2>1, <2>2, <2>3, <2>4, LeaveStep
<1> QED BY <1>4, <1>5, <1>6, <1>7

-----------------------------------------------------------------------------
(* A step of the commit or of the rollback of a TAR pull has to keep       *)
(* CommitInv.                                                              *)
LEMMA WithinCommit ==
  ASSUME IInv, TypeInv', job.at \in Commits, job'.at \in Commits, plan' = plan, SameFields,
         late' = late, verdict' = verdict, shell' = shell, touched \subseteq touched',
         job.warned \subseteq job'.warned, job'.leftover = job.leftover,
         \A f \in AllFiles \ Here :
           target'[f] = target[f] /\ temp'[f] = temp[f] /\ saved'[f] = saved[f],
         job'.at \in {"commit", "link", "compare"} => job'.left \subseteq Here,
         job'.at \in {"link", "compare"} => job'.file \in job'.left,
         job'.at = "undo" => job'.file \in Here,
         CommitInv'
  PROVE  StrategyInv'
<1>1. LabelInv /\ plan \in TransferPlans /\ job \in Jobs /\ EntryInv /\ SideInv
  BY DEF IInv, TypeInv
<1>2. job.method = "tar" /\ Entry.pull
  BY <1>1 DEF LabelInv
<1>3. Here' = Here /\ Entry' = Entry /\ job'.method = job.method
  BY PlanStays DEF SameFields, Entry
<1>4. Inside
  BY DEF Inside, Elsewhere, Busy
<1>5. LabelInv'
  BY <1>2, <1>3 DEF LabelInv, Commits, Streams, Sends
<1>6. \A f \in Here : Staged(f)'
  BY <1>3 DEF Staged
<1>7. StreamInv'
  BY NotStreaming DEF Streams, Commits
<1> QED BY <1>1, <1>4, <1>5, <1>6, <1>7, InsideKeeps DEF SideInv

LEMMA CommitContext ==
  ASSUME IInv, job.at \in Commits, plan' = plan
  PROVE  /\ AllFiles' = AllFiles /\ Here \subseteq AllFiles /\ job \in Jobs /\ FilesTypeInv
         /\ CommitInv /\ LabelInv /\ EntryInv /\ StagingInv /\ plan \in TransferPlans
         /\ job.method = "tar" /\ Entry.pull
         /\ job.at \in {"commit", "link", "compare"} => job.left \subseteq Here
         /\ job'.entry = job.entry => Here' = Here
         /\ job.at \in Busy
         /\ \A f \in Here : Pull(f)
<1>1. job.at \in Busy /\ plan \in TransferPlans /\ job \in Jobs /\ EntryInv /\ LabelInv
  BY DEF Busy, IInv, TypeInv
<1> QED BY <1>1, HereFacts, PlanStays DEF IInv, TypeInv, LabelInv

(* The commit of one member: the original to its backup name, the staged   *)
(* file to the target by a hard link, the fingerprint compared.            *)
LEMMA InstallStep ==
  ASSUME IInv, TypeInv', SetAside \/ Link \/ Compare
  PROVE  StrategyInv'
<1>1. /\ job.at \in {"commit", "link", "compare"} /\ CommitRests
  BY DEF SetAside, Link, Compare
<1>2. /\ plan' = plan /\ touched' = touched /\ verdict' = verdict /\ shell' = shell
      /\ late' = late /\ job.at \in Commits
  BY <1>1 DEF CommitRests, Commits
<1>3. /\ AllFiles' = AllFiles /\ Here \subseteq AllFiles /\ job \in Jobs /\ FilesTypeInv
      /\ CommitInv /\ LabelInv /\ job.left \subseteq Here
      /\ job'.entry = job.entry => Here' = Here
  BY <1>1, <1>2, CommitContext
<1>4. /\ \A f \in job.left : Waiting(f) \/ (f = job.file /\ job.at # "commit")
      /\ \A f \in Here \ touched :
           Original(f) \/ Replaced(f) \/ (f = job.file /\ job.at = "link" /\ Aside(f))
  BY <1>1, <1>3 DEF CommitInv
<1>5. ASSUME At("undoing"), saved' = saved, temp' = temp, target' = target
      PROVE  StrategyInv'
  <2>1. /\ job'.at = "undoing" /\ SameFields /\ job'.moved = job.moved
        /\ job'.warned = job.warned /\ job'.leftover = job.leftover
    BY <1>3, <1>5 DEF At, Jobs, SameFields
  <2>2. CommitInv'
    BY <1>2, <1>3, <1>4, <1>5, <2>1
       DEF CommitInv, Pulling, SameFields, Original, Aside, Replaced, Kept
  <2> QED BY <1>2, <1>5, <2>1, <2>2, WithinCommit DEF Commits
<1>6. ASSUME NEW f \in job.left, job.at = "commit",
             job' = [job EXCEPT !.at = "link", !.file = f],
             saved' = Sets(saved, f, target[f]), target' = Sets(target, f, "none"), temp' = temp
      PROVE  StrategyInv'
  <2>1. /\ job'.at = "link" /\ job'.file = f /\ SameFields /\ job'.moved = job.moved
        /\ job'.warned = job.warned /\ job'.leftover = job.leftover /\ job'.left = job.left
    BY <1>3, <1>6 DEF Jobs, SameFields
  <2>2. /\ saved'[f] = target[f] /\ target'[f] = "none"
        /\ \A g \in AllFiles \ {f} : saved'[g] = saved[g] /\ target'[g] = target[g]
    BY <1>3, <1>6 DEF Sets, FilesTypeInv
  <2>3. Waiting(f) /\ f \in Here
    BY <1>3, <1>4, <1>6
  <2>4. /\ f \notin touched => Aside(f)'
        /\ f \notin job'.moved
    BY <2>1, <2>2, <2>3 DEF Waiting, Original, Aside, Kept
  <2>5. \A g \in Here \ {f} : /\ Waiting(g) => Waiting(g)'
                              /\ Original(g) => Original(g)'
                              /\ Replaced(g) => Replaced(g)'
    BY <1>2, <1>3, <2>1, <2>2 DEF Waiting, Original, Replaced, Kept
  <2>6. CommitInv'
    BY <1>2, <1>3, <1>4, <1>6, <2>1, <2>4, <2>5 DEF CommitInv, Pulling, SameFields
  <2> QED BY <1>2, <1>3, <1>6, <2>1, <2>2, <2>6, WithinCommit DEF Commits
<1>7. ASSUME job.at = "link", target[job.file] = "none",
             target' = Sets(target, job.file, "new"), temp' = Sets(temp, job.file, "none"),
             saved' = saved, job' = [job EXCEPT !.at = "compare", !.moved = @ \cup {job.file}]
      PROVE  StrategyInv'
  <2> DEFINE f == job.file
  <2>1. /\ job'.at = "compare" /\ job'.file = f /\ SameFields /\ job'.moved = job.moved \cup {f}
        /\ job'.warned = job.warned /\ job'.leftover = job.leftover /\ job'.left = job.left
    BY <1>3, <1>7 DEF Jobs, SameFields
  <2>2. f \in job.left /\ f \in Here /\ f \notin job.moved
    BY <1>3, <1>7 DEF LabelInv, CommitInv
  <2>3. /\ target'[f] = "new"
        /\ \A g \in AllFiles \ {f} : temp'[g] = temp[g] /\ target'[g] = target[g]
    BY <1>3, <1>7, <2>2 DEF Sets, FilesTypeInv
  <2>4. f \notin touched => Replaced(f)'
    BY <1>4, <1>7, <2>1, <2>2, <2>3 DEF Original, Replaced, Aside, Kept
  <2>5. \A g \in Here \ {f} : /\ Waiting(g) => Waiting(g)'
                              /\ Original(g) => Original(g)'
                              /\ Replaced(g) => Replaced(g)'
    BY <1>2, <1>3, <1>7, <2>1, <2>3 DEF Waiting, Original, Replaced, Kept
  <2> HIDE DEF f
  <2>6. CommitInv'
    BY <1>2, <1>3, <1>4, <1>7, <2>1, <2>4, <2>5 DEF CommitInv, Pulling, SameFields, f
  <2> QED BY <1>2, <1>3, <1>7, <2>1, <2>2, <2>3, <2>6, WithinCommit DEF Commits
<1>8. ASSUME job.at = "compare", saved' = saved, temp' = temp, target' = target,
             job' = [job EXCEPT !.at = "commit", !.left = @ \ {job.file}]
      PROVE  StrategyInv'
  <2>1. /\ job'.at = "commit" /\ SameFields /\ job'.moved = job.moved
        /\ job'.warned = job.warned /\ job'.leftover = job.leftover
        /\ job'.left = job.left \ {job.file}
    BY <1>3, <1>8 DEF Jobs, SameFields
  <2>2. \A g \in Here : /\ Waiting(g) => Waiting(g)'
                        /\ Original(g) => Original(g)'
                        /\ Replaced(g) => Replaced(g)'
    BY <1>2, <1>8, <2>1 DEF Waiting, Original, Replaced, Kept
  <2>3. CommitInv'
    BY <1>2, <1>3, <1>4, <1>8, <2>1, <2>2 DEF CommitInv, Pulling, SameFields
  <2> QED BY <1>2, <1>3, <1>8, <2>1, <2>3, WithinCommit DEF Commits
<1>9. CASE SetAside
  BY <1>5, <1>6, <1>9 DEF SetAside
<1>10. CASE Link
  BY <1>5, <1>7, <1>10 DEF Link
<1>11. CASE Compare
  BY <1>5, <1>8, <1>11 DEF Compare, At, fileVars
<1> QED BY <1>9, <1>10, <1>11

(* The end of a commit drops the backups; the end of a rollback leaves     *)
(* none without a warning.                                                 *)
LEMMA CommitStep ==
  ASSUME IInv, TypeInv', Commit \/ RolledBack
  PROVE  StrategyInv'
<1>1. /\ job.at \in {"commit", "undoing"} /\ job.at \in Commits
      /\ plan' = plan /\ touched' = touched /\ verdict' = verdict /\ shell' = shell
      /\ target' = target
  BY DEF Commit, RolledBack, Commits
<1>2. /\ AllFiles' = AllFiles /\ Here \subseteq AllFiles /\ job \in Jobs /\ FilesTypeInv
      /\ CommitInv /\ LabelInv /\ job.at \in Busy
      /\ job'.entry = job.entry => Here' = Here
      /\ job.method = "tar" /\ \A f \in Here : Pull(f)
  BY <1>1, CommitContext
<1>3. ASSUME job.at = "commit", At("undoing"), UNCHANGED <<late, temp, saved>>
      PROVE  StrategyInv'
  <2>1. /\ job'.at = "undoing" /\ SameFields /\ job'.moved = job.moved
        /\ job'.warned = job.warned /\ job'.leftover = job.leftover
    BY <1>2, <1>3 DEF At, Jobs, SameFields
  <2>2. CommitInv'
    BY <1>1, <1>2, <1>3, <2>1
       DEF CommitInv, Pulling, SameFields, Original, Aside, Replaced, Kept
  <2> QED BY <1>1, <1>2, <1>3, <2>1, <2>2, WithinCommit DEF Commits
<1>4. ASSUME job.at = "commit", EndEntry(TRUE),
             saved' = [f \in AllFiles |-> IF f \in Here THEN "none" ELSE saved[f]],
             temp' = [f \in AllFiles |-> IF f \in Here THEN "none" ELSE temp[f]]
      PROVE  StrategyInv'
  <2>1. Elsewhere
    BY <1>1, <1>4 DEF Elsewhere
  <2>2. \A f \in Here : temp'[f] = "none"
    BY <1>2, <1>4
  <2>3. \A f \in Here \ touched : target[f] \in {Kept(f), "new"}
    BY <1>2, <1>4 DEF CommitInv, Original, Replaced
  <2>4. \A f \in Here : Vouched(f, [method |-> job.method, good |-> TRUE], target'[f], saved'[f],
                                job.warned)
    BY <1>1, <1>2, <2>3 DEF Vouched
  <2> QED BY <1>1, <1>2, <1>4, <2>1, <2>2, <2>4, EndStep
<1>5. ASSUME RolledBack
      PROVE  StrategyInv'
  <2>1. Sweep /\ saved' = saved /\ job.at = "undoing" /\ ToUndo = {}
    BY <1>5 DEF RolledBack
  <2>8. PICK files \in SUBSET Names : Leaves(FALSE, files)
    BY <1>2, <2>1, Swept DEF IInv
  <2>2. Elsewhere
    BY <1>1, <2>1, <2>8 DEF Elsewhere, Leaves
  <2>3. /\ \A f \in Here : temp'[f] # "none" => f \in files
        /\ EndEntryLeaving(FALSE, files) /\ job.leftover \subseteq files
    BY <2>8 DEF Leaves
  <2>4. \A f \in Here : f \in job.warned \/ (saved[f] = "none" /\ f \notin job.moved)
    BY <2>1 DEF ToUndo
  <2>5. \A f \in Here \ touched : Original(f) \/ Aside(f) \/ Replaced(f) \/ Warned(f)
    BY <1>2, <2>1 DEF CommitInv
  <2>6. \A f \in Here \ touched :
          /\ target[f] \in {Kept(f), "new"} \/ saved[f] = Kept(f)
          /\ target[f] = Kept(f) \/ f \in job.warned
    BY <2>4, <2>5 DEF Original, Aside, Replaced, Warned
  <2>7. \A f \in Here : Vouched(f, [method |-> job.method, good |-> FALSE], target'[f], saved'[f],
                                job.warned)
    BY <1>1, <1>2, <2>1, <2>6 DEF Vouched
  <2> QED BY <1>1, <1>2, <2>1, <2>2, <2>3, <2>7, LeaveStep
<1> QED BY <1>3, <1>4, <1>5 DEF Commit

(* rollback_replacements decides by a look at the target before it acts;   *)
(* what it saw still holds unless another program touched the file.        *)
LEMMA UndoStep ==
  ASSUME IInv, TypeInv', LookBack \/ Undo
  PROVE  StrategyInv'
<1>1. /\ job.at \in {"undoing", "undo"} /\ job.at \in Commits
      /\ plan' = plan /\ touched' = touched /\ verdict' = verdict /\ shell' = shell
      /\ late' = late /\ temp' = temp
  BY DEF LookBack, Undo, CommitRests, Commits, fileVars
<1>2. /\ AllFiles' = AllFiles /\ Here \subseteq AllFiles /\ job \in Jobs /\ FilesTypeInv
      /\ CommitInv /\ LabelInv
      /\ job'.entry = job.entry => Here' = Here
  BY <1>1, CommitContext
<1>3. \A f \in Here \ touched : Original(f) \/ Aside(f) \/ Replaced(f) \/ Warned(f)
  BY <1>1, <1>2 DEF CommitInv
<1>4. CASE LookBack
  <2>1. PICK f \in ToUndo :
          job' = [job EXCEPT !.at = "undo", !.file = f,
                             !.seen = IF target[f] = "none" THEN "none"
                                      ELSE IF target[f] = "new" /\ f \in job.moved THEN "ours"
                                      ELSE "theirs"]
    BY <1>4 DEF LookBack
  <2>2. target' = target /\ saved' = saved
    BY <1>4 DEF LookBack, fileVars
  <2>3. /\ job'.at = "undo" /\ job'.file = f /\ SameFields /\ job'.moved = job.moved
        /\ job'.warned = job.warned /\ job'.leftover = job.leftover
        /\ job'.seen = IF target[f] = "none" THEN "none"
                       ELSE IF target[f] = "new" /\ f \in job.moved THEN "ours" ELSE "theirs"
    BY <1>2, <2>1 DEF Jobs, SameFields
  <2>4. f \in Here /\ f \notin job.warned /\ (saved[f] # "none" \/ f \in job.moved)
    BY DEF ToUndo
  <2>5. f \notin touched => \/ job'.seen = "ours" /\ Replaced(f)
                            \/ job'.seen = "none" /\ Aside(f)
    BY <1>3, <2>3, <2>4 DEF Original, Aside, Replaced, Warned
  <2>6. \A g \in Here : /\ Original(g) => Original(g)'
                        /\ Aside(g) => Aside(g)'
                        /\ Replaced(g) => Replaced(g)'
                        /\ Warned(g) => Warned(g)'
    BY <2>2, <2>3 DEF Original, Aside, Replaced, Warned, Kept
  <2>7. CommitInv'
    BY <1>1, <1>2, <1>3, <2>3, <2>4, <2>5, <2>6 DEF CommitInv, Pulling, SameFields
  <2> QED BY <1>1, <2>2, <2>3, <2>4, <2>7, WithinCommit DEF Commits
<1>5. CASE Undo
  <2>0. PICK f : f = job.file
    OBVIOUS
  <2>1. /\ job.at = "undo" /\ f \in Here
        /\ f \notin touched => \/ job.seen = "ours" /\ Replaced(f)
                               \/ job.seen = "none" /\ (Aside(f) \/ Original(f))
    BY <1>2, <1>5, <2>0 DEF Undo, LabelInv, CommitInv
  <2>2. \/ Warn(f) /\ target' = target /\ saved' = saved
        \/ /\ job.seen # "theirs" /\ job' = [job EXCEPT !.at = "undoing", !.moved = @ \ {f}]
           /\ target' = IF saved[f] = "none" /\ job.seen = "none" THEN target
                        ELSE Sets(target, f, saved[f])
           /\ saved' = Sets(saved, f, "none")
    BY <1>5, <2>0 DEF Undo
  <2>3. /\ job'.at = "undoing" /\ SameFields /\ job'.moved = job.moved \ {f}
        /\ job'.leftover = job.leftover
        /\ job'.warned = IF Warn(f) THEN job.warned \cup {f} ELSE job.warned
    <3>1. CASE Warn(f) BY <1>2, <3>1 DEF Warn, Jobs, SameFields
    <3>2. CASE ~Warn(f) BY <1>2, <2>2, <3>2 DEF Jobs, SameFields
    <3> QED BY <3>1, <3>2
  <2>4. \A g \in AllFiles \ {f} : target'[g] = target[g] /\ saved'[g] = saved[g]
    BY <1>2, <2>1, <2>2 DEF Sets, FilesTypeInv
  <2>5. f \notin touched => Original(f)' \/ Warned(f)'
    <3>1. CASE Warn(f) /\ target' = target /\ saved' = saved
      BY <2>1, <2>3, <3>1 DEF Original, Aside, Replaced, Warned, Kept
    <3>2. CASE /\ target' = IF saved[f] = "none" /\ job.seen = "none" THEN target
                            ELSE Sets(target, f, saved[f])
               /\ saved' = Sets(saved, f, "none")
      <4>1. /\ saved'[f] = "none"
            /\ target'[f] = IF saved[f] = "none" /\ job.seen = "none" THEN target[f]
                            ELSE saved[f]
        BY <1>2, <2>1, <3>2 DEF Sets, FilesTypeInv
      <4> QED BY <2>1, <2>3, <4>1 DEF Original, Aside, Replaced, Kept
    <3> QED BY <2>2, <3>1, <3>2
  <2>6. \A g \in Here \ {f} : /\ Original(g) => Original(g)'
                              /\ Aside(g) => Aside(g)'
                              /\ Replaced(g) => Replaced(g)'
                              /\ Warned(g) => Warned(g)'
    BY <1>2, <2>3, <2>4 DEF Original, Aside, Replaced, Warned, Kept
  <2>7. CommitInv'
    BY <1>1, <1>2, <1>3, <2>3, <2>5, <2>6 DEF CommitInv, Pulling, SameFields
  <2>8. f \in Here /\ job.warned \subseteq job'.warned
    BY <2>1, <2>3
  <2> QED BY <1>1, <2>3, <2>4, <2>7, <2>8, WithinCommit DEF Commits
<1> QED BY <1>4, <1>5

(* Another program's change voids what is known of its file only.          *)
LEMMA OutsiderStep ==
  ASSUME IInv, TypeInv', Outsider
  PROVE  StrategyInv'
<1>1. /\ job.at \in Commits /\ plan' = plan /\ verdict' = verdict /\ shell' = shell
      /\ late' = late /\ temp' = temp /\ saved' = saved /\ job' = job
  BY DEF Outsider, Commits
<1>2. /\ AllFiles' = AllFiles /\ Here \subseteq AllFiles /\ job \in Jobs /\ FilesTypeInv
      /\ CommitInv /\ LabelInv
      /\ job.at \in {"commit", "link", "compare"} => job.left \subseteq Here
      /\ Here' = Here
  BY <1>1, CommitContext
<1>3. PICK f \in Here, what \in {"other", "none"} :
        target' = Sets(target, f, what) /\ touched' = touched \cup {f}
  BY DEF Outsider
<1>4. /\ target'[f] = what /\ f \in touched'
      /\ \A g \in AllFiles \ {f} : target'[g] = target[g] /\ (g \in touched' <=> g \in touched)
  BY <1>2, <1>3 DEF Sets, FilesTypeInv
<1>5. \A g \in Here \ {f} : /\ Original(g) => Original(g)'
                            /\ Aside(g) => Aside(g)'
                            /\ Replaced(g) => Replaced(g)'
                            /\ Warned(g) => Warned(g)'
                            /\ Waiting(g) => Waiting(g)'
  BY <1>1, <1>2, <1>4 DEF Original, Aside, Replaced, Warned, Waiting, Kept
<1>6. Waiting(f) => Waiting(f)'
  BY <1>1, <1>4 DEF Waiting, Held
<1>7. /\ SameFields
      /\ job.at \in {"link", "compare"} => job.file \in job.left
      /\ job.at = "undo" => job.file \in Here
  BY <1>1, <1>2 DEF SameFields, LabelInv
<1>8. CommitInv'
  BY <1>1, <1>2, <1>4, <1>5, <1>6, <1>7 DEF CommitInv, Pulling, Commits
<1> QED BY <1>1, <1>2, <1>3, <1>4, <1>7, <1>8, WithinCommit

-----------------------------------------------------------------------------
(* The same for a file streamed to Android.                                *)
LEMMA StreamContext ==
  ASSUME IInv, job.at \in Streams, plan' = plan
  PROVE  /\ AllFiles' = AllFiles /\ Here \subseteq AllFiles /\ job \in Jobs /\ FilesTypeInv
         /\ StreamInv /\ LabelInv /\ EntryInv /\ StagingInv /\ plan \in TransferPlans
         /\ job.method \in {"stream", "native"} /\ ~Entry.pull
         /\ job.left \subseteq Here
         /\ job.at \in Sends => job.file \in job.left
         /\ job'.entry = job.entry => Here' = Here
         /\ job.at \in Busy
         /\ \A f \in Here : ~Pull(f)
<1>1. job.at \in Busy /\ plan \in TransferPlans /\ job \in Jobs /\ EntryInv /\ LabelInv
  BY DEF Busy, IInv, TypeInv
<1> QED BY <1>1, HereFacts, PlanStays DEF IInv, TypeInv, LabelInv

LEMMA WithinStreams ==
  ASSUME IInv, TypeInv', job.at \in Streams, job'.at \in Streams, plan' = plan, SameFields,
         UNCHANGED <<late, verdict, touched, target, saved>>,
         job'.warned = job.warned, job.leftover \subseteq job'.leftover, job'.good = job.good,
         job'.left \subseteq Here,
         job'.at \in Sends => job'.file \in job'.left,
         \A f \in AllFiles \ Here : temp'[f] = temp[f] /\ shell'[f] = shell[f],
         \A f \in Here : f \in job.left \cup job.failed =>
           f \in job'.left \cup job'.failed \/ target[f] = "new",
         job'.at = "finalizing" /\ shell'[job'.file] = "moved" =>
           temp'[job'.file] = "none" /\ target[job'.file] = "new",
         \A f \in Here : temp'[f] # "none" =>
           (job'.at \in Sends /\ f = job'.file) \/ f \in late \cup job'.leftover
  PROVE  StrategyInv'
<1>1. /\ LabelInv /\ StreamInv /\ SideInv /\ Here' = Here
      /\ job.method \in {"stream", "native"} /\ ~Entry.pull /\ job.at \in Busy
      /\ \A f \in Here : ~Pull(f)
      /\ Here \subseteq AllFiles /\ AllFiles' = AllFiles
  BY StreamContext DEF SameFields, IInv
<1>2. Entry' = Entry /\ job'.method = job.method
  BY DEF SameFields, Entry
<1>3. Inside
  BY <1>1 DEF Inside, Elsewhere, Busy
<1>4. LabelInv'
  BY <1>1, <1>2 DEF LabelInv, Commits, Streams, Sends
<1>5. StreamInv'
  <2>1. \A f \in Here : Kept(f)' = Kept(f)
    BY DEF Kept
  <2>2. /\ job.good => \A f \in Here : f \in job.left \cup job.failed \/ target[f] = "new"
        /\ job.method = "stream" => \A f \in Here : target[f] \in {Kept(f), "new"}
    BY <1>1 DEF StreamInv
  <2>3. job'.at # "copying"
    BY DEF Streams
  <2> QED BY <1>1, <1>2, <2>1, <2>2, <2>3 DEF StreamInv
<1>6. CommitInv'
  BY NotCommitting DEF Pulling, Commits, Streams
<1>7. \A f \in Here : temp'[f] # "none" => Staged(f)' \/ f \in late \cup job'.leftover
  BY DEF Staged
<1>8. \A f \in AllFiles : shell'[f] # "none" => ~Pull(f)
  BY <1>1 DEF SideInv
<1> QED BY <1>3, <1>4, <1>5, <1>6, <1>7, <1>8, InsideKeeps

(* _stream_push_file_to_android_target: a file counts as sent only when    *)
(* the finalizing shell, or the look after its timeout, proves it.         *)
LEMMA StreamStep ==
  ASSUME IInv, TypeInv', BeginStream \/ SendFile \/ Flush \/ Sent \/ Finalize \/ Prove \/ Discard
  PROVE  StrategyInv'
<1>1. /\ job.at \in Streams /\ plan' = plan
      /\ UNCHANGED <<verdict, touched, target, saved>>
  BY DEF BeginStream, SendFile, Flush, Sent, Finalize, Prove, Discard, Pumping, StreamRests,
         sideVars, fileVars, Streams
<1>2. /\ AllFiles' = AllFiles /\ Here \subseteq AllFiles /\ job \in Jobs /\ FilesTypeInv
      /\ StreamInv /\ LabelInv /\ StagingInv
      /\ job.method \in {"stream", "native"} /\ ~Entry.pull
      /\ job.left \subseteq Here
      /\ job.at \in Sends => job.file \in job.left
      /\ job.at \in Busy
      /\ \A f \in Here : ~Pull(f)
  BY <1>1, StreamContext
<1>3. \A f \in Here : temp[f] # "none" =>
        (job.at \in Sends /\ f = job.file) \/ f \in late \cup job.leftover
  BY <1>1, <1>2 DEF StagingInv, Staged, Pulling, Commits, Streams
<1>4. CASE BeginStream
  <2>1. temp' = temp /\ shell' = shell /\ job.at = "stream"
    BY <1>4 DEF BeginStream, fileVars
  <2>2. CASE job.left = {}
    <3> DEFINE good == job.good /\ job.failed = {}
    <3>1. EndEntry(good) /\ good \in BOOLEAN
      BY <1>2, <1>4, <2>2 DEF BeginStream, Jobs
    <3>2. \A f \in Here : Vouched(f, [method |-> job.method, good |-> good], target'[f], saved'[f],
                                  job.warned)
      BY <1>1, <1>2, <2>1, <2>2 DEF StreamInv, Vouched
    <3>3. Elsewhere
      BY <1>1, <2>1 DEF Elsewhere
    <3>4. \A f \in Here : temp'[f] # "none" => f \in late' \cup job.leftover
      BY <1>3, <2>1, <3>1 DEF EndEntry, EndEntryLeaving, Sends
    <3> HIDE DEF good
    <3> QED BY <1>1, <1>2, <2>1, <3>1, <3>2, <3>3, <3>4, EndStep
  <2>3. CASE job.left # {}
    <3>1. PICK f \in job.left :
            job' = [job EXCEPT !.at = "sending", !.file = f, !.changed = FALSE]
            /\ late' = late
      BY <1>4, <2>3 DEF BeginStream
    <3>2. /\ job'.at = "sending" /\ job'.file = f /\ SameFields /\ job'.warned = job.warned
          /\ job'.leftover = job.leftover /\ job'.good = job.good /\ job'.left = job.left
          /\ job'.failed = job.failed
      BY <1>2, <3>1 DEF Jobs, SameFields
    <3> QED BY <1>1, <1>2, <1>3, <2>1, <3>1, <3>2, WithinStreams DEF Streams, Sends
  <2> QED BY <2>2, <2>3
<1>5. CASE SendFile \/ Flush
  <2>1. job.at \in Sends /\ late' = late /\ shell' = shell
    BY <1>5 DEF SendFile, Flush, Pumping, sideVars, Sends, Streams
  <2>2. /\ job'.at = job.at /\ job'.file = job.file /\ SameFields /\ job'.warned = job.warned
        /\ job'.leftover = job.leftover /\ job'.good = job.good /\ job'.left = job.left
        /\ job'.failed = job.failed
    <3>1. job' = job \/ job' = [job EXCEPT !.changed = TRUE]
      BY <1>5 DEF SendFile, Flush
    <3> QED BY <1>2, <3>1 DEF Jobs, SameFields
  <2>3. temp' = temp \/ \E v \in {"part", "full"} : temp' = Sets(temp, job.file, v)
    BY <1>5 DEF SendFile, Flush
  <2>4. \A f \in AllFiles \ {job.file} : temp'[f] = temp[f]
    BY <1>2, <2>3 DEF Sets, FilesTypeInv
  <2>5. job.at = "finalizing" /\ shell[job.file] = "moved" =>
          temp'[job.file] = "none" /\ target[job.file] = "new"
    <3>1. job.at = "finalizing" => temp[job.file] = "part" /\ Flush
      BY <1>5 DEF SendFile, Flush, Pumping
    <3> QED BY <1>2, <3>1 DEF StreamInv
  <2> QED BY <1>1, <1>2, <1>3, <2>1, <2>2, <2>4, <2>5, WithinStreams
<1>6. CASE Sent \/ Finalize \/ Prove \/ Discard
  <2> PICK f : f = job.file OBVIOUS
  <2>1. job.at \in Sends /\ late' = late /\ f \in job.left /\ f \in Here
    <3>1. job.at \in Sends /\ late' = late
      BY <1>6 DEF Sent, Finalize, Prove, Discard, StreamRests, Sends, Streams
    <3> QED BY <1>2, <3>1
  <2>2. ASSUME NEW label \in {"finalizing", "proving", "discarding"}, At(label), temp' = temp,
               \A g \in AllFiles \ {f} : shell'[g] = shell[g],
               label = "finalizing" => shell'[f] # "moved"
        PROVE  StrategyInv'
    <3>1. /\ job'.at = label /\ job'.file = f /\ SameFields /\ job'.warned = job.warned
          /\ job'.leftover = job.leftover /\ job'.good = job.good /\ job'.left = job.left
          /\ job'.failed = job.failed
      BY <1>2, <2>2 DEF At, Jobs, SameFields
    <3> QED BY <1>1, <1>2, <1>3, <2>1, <2>2, <3>1, WithinStreams DEF Streams, Sends
  <2>3. ASSUME NEW good \in BOOLEAN, StreamEnds(good), shell' = shell,
               good => target[f] = "new", temp'[f] = "none",
               \A g \in AllFiles \ {f} : temp'[g] = temp[g]
        PROVE  StrategyInv'
    <3>1. /\ job'.at = "stream" /\ SameFields /\ job'.warned = job.warned
          /\ job'.leftover = job.leftover /\ job'.good = job.good
          /\ job'.left = job.left \ {f}
          /\ job'.failed = IF good THEN job.failed ELSE job.failed \cup {f}
      BY <1>2, <2>3 DEF StreamEnds, Jobs, SameFields
    <3>2. job'.at \notin Sends /\ job'.at # "finalizing" /\ job'.at \in Streams
      BY <3>1 DEF Sends, Streams
    <3>3. \A g \in Here : temp'[g] # "none" => g \in late \cup job'.leftover
      BY <1>2, <1>3, <2>3, <3>1
    <3>4. \A g \in Here : g \in job.left \cup job.failed =>
            g \in job'.left \cup job'.failed \/ target[g] = "new"
      BY <2>3, <3>1
    <3>5. job'.left \subseteq Here /\ \A g \in AllFiles \ Here : temp'[g] = temp[g]
      BY <1>2, <2>1, <2>3, <3>1
    <3> QED BY <1>1, <2>1, <2>3, <3>1, <3>2, <3>3, <3>4, <3>5, WithinStreams
  <2>4. CASE Sent
    <3>1. temp' = temp
      BY <2>4 DEF Sent, fileVars
    <3>2. CASE At("discarding") /\ shell' = shell
      BY <2>2, <3>1, <3>2
    <3>3. CASE At("finalizing") /\ shell' = Sets(shell, job.file, "running")
      <4>1. shell'[f] = "running" /\ \A g \in AllFiles \ {f} : shell'[g] = shell[g]
        BY <1>2, <2>1, <3>3 DEF Sets, FilesTypeInv
      <4> QED BY <2>2, <3>1, <3>3, <4>1
    <3> QED BY <2>4, <3>2, <3>3 DEF Sent
  <2>5. CASE Finalize
    <3>1. temp' = temp /\ shell' = shell /\ job.at = "finalizing"
      BY <2>5 DEF Finalize, fileVars
    <3>2. CASE shell[job.file] = "moved" /\ StreamEnds(~cancel)
      <4>1. temp[f] = "none" /\ target[f] = "new" /\ (~cancel) \in BOOLEAN
        BY <1>2, <3>1, <3>2 DEF StreamInv
      <4> QED BY <2>3, <3>1, <3>2, <4>1
    <3>3. CASE At("discarding") \/ At("proving")
      BY <2>2, <3>1, <3>3
    <3> QED BY <2>5, <3>2, <3>3 DEF Finalize
  <2>6. CASE Prove
    <3>1. temp' = temp /\ shell' = shell
      BY <2>6 DEF Prove, fileVars
    <3>2. CASE temp[job.file] = "none" /\ target[job.file] = "new" /\ StreamEnds(TRUE)
      BY <2>3, <3>1, <3>2
    <3>3. CASE At("discarding")
      BY <2>2, <3>1, <3>3
    <3> QED BY <2>6, <3>2, <3>3 DEF Prove
  <2>7. CASE Discard
    <3>1. shell' = shell
      BY <2>7 DEF Discard
    <3>2. CASE temp' = Sets(temp, f, "none") /\ StreamEnds(FALSE)
      <4>1. temp'[f] = "none" /\ \A g \in AllFiles \ {f} : temp'[g] = temp[g]
        BY <1>2, <2>1, <3>2 DEF Sets, FilesTypeInv
      <4> QED BY <2>3, <3>1, <3>2, <4>1
    <3>3. CASE /\ temp' = temp
               /\ job' = [job EXCEPT !.at = "stream", !.left = @ \ {f}, !.failed = @ \cup {f},
                                     !.leftover = @ \cup {f}]
      <4>1. /\ job'.at = "stream" /\ SameFields /\ job'.warned = job.warned
            /\ job'.leftover = job.leftover \cup {f} /\ job'.good = job.good
            /\ job'.left = job.left \ {f} /\ job'.failed = job.failed \cup {f}
        BY <1>2, <3>3 DEF Jobs, SameFields
      <4>2. job'.at \notin Sends /\ job'.at # "finalizing" /\ job'.at \in Streams
        BY <4>1 DEF Sends, Streams
      <4> QED BY <1>1, <1>2, <1>3, <2>1, <3>1, <3>3, <4>1, <4>2, WithinStreams
    <3> QED BY <2>7, <3>2, <3>3 DEF Discard
  <2> QED BY <1>6, <2>4, <2>5, <2>6, <2>7
<1> QED BY <1>4, <1>5, <1>6

-----------------------------------------------------------------------------
(* adb push, adb pull and the TAR push: after a clean exit every file of   *)
(* adb push was copied or is streamed now.                                 *)
LEMMA CopyStep ==
  ASSUME IInv, TypeInv', Pack \/ Packed \/ NativeCopy \/ Copied
  PROVE  StrategyInv'
<1>1. /\ job.at \in {"packing", "copying"} /\ job.at \in Busy /\ plan' = plan
      /\ UNCHANGED <<verdict, touched, temp, saved, shell>>
      /\ plan \in TransferPlans /\ job \in Jobs /\ FilesTypeInv /\ RunnerTypeInv /\ CmdInv
      /\ EntryInv /\ LabelInv /\ SideInv /\ StagingInv /\ StreamInv
  BY DEF Pack, Packed, NativeCopy, Copied, Pumping, sideVars, fileVars, Busy, IInv, TypeInv
<1>2. /\ AllFiles' = AllFiles /\ Here \subseteq AllFiles
      /\ \A f \in Here : Pull(f) = Entry.pull
      /\ job'.entry = job.entry => Here' = Here
  BY <1>1, HereFacts, PlanStays
<1>3. \A f \in Here : temp[f] # "none" => f \in late \cup job.leftover
  BY <1>1, <1>2 DEF StagingInv, Staged, Pulling, Commits, Sends, Streams
<1>4. \A f \in AllFiles : shell'[f] # "none" => ~Pull(f)
  BY <1>1 DEF SideInv
<1>5. CASE Pack
  <2>1. job' = job /\ late' = late /\ job.at = "packing"
    BY <1>5 DEF Pack, Pumping, sideVars
  <2>2. \A f \in AllFiles \ Here : target'[f] = target[f]
    BY <1>5 DEF Pack
  <2>3. Inside
    BY <1>1, <2>1, <2>2 DEF Inside, SameFields, Elsewhere
  <2>4. LabelInv'
    BY <1>1, <2>1, LabelKept
  <2>5. CommitInv' /\ StreamInv'
    BY <2>1, NotCommitting, NotStreaming DEF Pulling, Commits, Streams
  <2> QED BY <1>1, <1>3, <1>4, <2>1, <2>3, <2>4, <2>5, InsideKeeps
<1>6. CASE Packed
  <2>1. PICK good \in BOOLEAN : EndEntry(good)
    BY <1>6 DEF Packed, Succeeded
  <2>2. target' = target /\ job.method = "tar" /\ ~Entry.pull
    BY <1>1, <1>6 DEF Packed, fileVars, LabelInv
  <2>3. Elsewhere
    BY <1>1, <2>2 DEF Elsewhere
  <2>4. \A f \in Here : Vouched(f, [method |-> job.method, good |-> good], target'[f], saved'[f],
                                job.warned)
    BY <1>2, <2>2 DEF Vouched
  <2>5. \A f \in Here : temp'[f] # "none" => f \in late' \cup job.leftover
    BY <1>1, <1>3, <2>1 DEF EndEntry, EndEntryLeaving
  <2> QED BY <1>1, <2>1, <2>3, <2>4, <2>5, EndStep
<1>7. CASE NativeCopy
  <2>1. PICK f \in Here :
          \/ job' = [job EXCEPT !.moved = @ \cup {f}] /\ target' = Sets(target, f, "new")
          \/ job' = [job EXCEPT !.failed = @ \cup {f}] /\ target' = target /\ ~Entry.pull
    BY <1>7 DEF NativeCopy
  <2>2. job.at = "copying" /\ late' = late /\ cmd' = cmd /\ cmd.process = "alive"
    BY <1>7 DEF NativeCopy, sideVars
  <2>3. /\ SameFields /\ job'.at = "copying" /\ job'.warned = job.warned
        /\ job'.leftover = job.leftover
        /\ \/ job'.moved = job.moved \cup {f} /\ job'.failed = job.failed
              /\ target' = Sets(target, f, "new")
           \/ job'.moved = job.moved /\ job'.failed = job.failed \cup {f}
              /\ target' = target /\ ~Entry.pull
    BY <1>1, <2>1, <2>2 DEF Jobs, SameFields
  <2>4. target'[f] = "new" \/ (target' = target /\ job'.moved = job.moved)
    BY <1>1, <1>2, <2>3 DEF Sets, FilesTypeInv
  <2>5. \A g \in AllFiles \ {f} : target'[g] = target[g]
    BY <1>1, <1>2, <2>3 DEF Sets, FilesTypeInv
  <2>6. Here' = Here /\ Entry' = Entry /\ job'.method = job.method
    BY <1>1, <1>2, <2>3 DEF SameFields, Entry
  <2>7. Inside
    BY <1>1, <2>2, <2>3, <2>5 DEF Inside, Elsewhere
  <2>8. LabelInv'
    BY <1>1, <2>2, <2>3, <2>6 DEF LabelInv, Commits, Streams, Sends
  <2>9. StreamInv'
    <3>1. \A g \in Here : g \in job'.moved => target'[g] = "new"
      BY <1>1, <1>2, <2>2, <2>3, <2>4, <2>5 DEF StreamInv
    <3> QED BY <2>2, <2>3, <2>6, <3>1 DEF StreamInv, Streams
  <2>10. CommitInv'
    BY <2>3, NotCommitting DEF Pulling, Commits
  <2> QED BY <1>1, <1>3, <1>4, <2>3, <2>7, <2>8, <2>9, <2>10, InsideKeeps
<1>8. CASE Copied
  <2>1. /\ target' = target /\ job.at = "copying" /\ job.method = "native"
        /\ job.failed \subseteq Here /\ (job.failed # {} => ~Entry.pull)
        /\ \A f \in Here : f \in job.moved => target[f] = "new"
        /\ cmd.outcome = "success" => Here \subseteq job.moved \cup job.failed
    BY <1>1, <1>8 DEF Copied, fileVars, LabelInv, StreamInv, CmdInv
  <2>2. CASE job.failed # {} /\ UNCHANGED <<cmd, late>>
             /\ job' = [job EXCEPT !.at = "stream", !.left = job.failed, !.failed = {},
                                   !.good = cmd.outcome = "success"]
    <3>1. /\ SameFields /\ job'.at = "stream" /\ job'.warned = job.warned
          /\ job'.leftover = job.leftover /\ job'.left = job.failed /\ job'.failed = {}
          /\ job'.good = (cmd.outcome = "success")
      BY <1>1, <2>2 DEF Jobs, SameFields
    <3>2. Here' = Here /\ Entry' = Entry /\ job'.method = job.method
      BY <1>1, <1>2, <3>1 DEF SameFields, Entry
    <3>3. Inside
      BY <1>1, <2>1, <2>2, <3>1 DEF Inside, Elsewhere, Busy, Streams
    <3>4. LabelInv'
      BY <2>1, <2>2, <3>1, <3>2 DEF LabelInv, Commits, Streams, Sends
    <3>5. StreamInv'
      BY <2>1, <3>1, <3>2 DEF StreamInv
    <3>6. CommitInv'
      BY <3>1, NotCommitting DEF Pulling, Commits
    <3> QED BY <1>1, <1>3, <1>4, <3>1, <3>3, <3>4, <3>5, <3>6, InsideKeeps
  <2>3. CASE EndEntry(Succeeded) /\ (cancel \/ job.failed = {})
    <3>1. Succeeded \in BOOLEAN
      BY DEF Succeeded
    <3>2. Succeeded => \A f \in Here : target[f] = "new"
      BY <2>1, <2>3 DEF Succeeded
    <3>3. Elsewhere
      BY <1>1, <2>1 DEF Elsewhere
    <3>4. PICK good \in BOOLEAN : good = Succeeded
      BY <3>1
    <3>5. \A f \in Here : Vouched(f, [method |-> job.method, good |-> good], target'[f],
                                  saved'[f], job.warned)
      BY <2>1, <3>2, <3>4 DEF Vouched
    <3>6. \A f \in Here : temp'[f] # "none" => f \in late' \cup job.leftover
      BY <1>1, <1>3, <2>3 DEF EndEntry, EndEntryLeaving
    <3>7. EndEntry(good)
      BY <2>3, <3>4
    <3> QED BY <1>1, <3>3, <3>5, <3>6, <3>7, EndStep
  <2> QED BY <1>8, <2>2, <2>3 DEF Copied
<1> QED BY <1>5, <1>6, <1>7, <1>8

(* The beginning of an entry: all its files are fresh.                     *)
LEMMA BeginStep ==
  ASSUME IInv, TypeInv', BeginEntry
  PROVE  StrategyInv'
<1>1. /\ job.at = "entry" /\ plan' = plan /\ job.entry <= Len(plan.entries)
      /\ UNCHANGED <<fileVars, sideVars, verdict, cancel>>
      /\ plan \in TransferPlans /\ job \in Jobs /\ FilesTypeInv
      /\ EntryInv /\ LabelInv /\ SideInv /\ StagingInv /\ FreshInv /\ ResultInv
  BY DEF BeginEntry, IInv, TypeInv
<1>2. /\ job.entry > 0 /\ job.entry \in Nat /\ job.entry \in DOMAIN plan.entries
      /\ job.left = {} /\ job.moved = {} /\ job.failed = {}
      /\ AllFiles' = AllFiles
  BY <1>1, PlanStays DEF EntryInv, Jobs, TransferPlans
<1>3. /\ Here \subseteq AllFiles /\ Entry \in TransferEntries
      /\ \A f \in AllFiles : f \in Here <=> f[1] = job.entry
      /\ \A f \in Here : Pull(f) = Entry.pull
  BY <1>1, <1>2, FileFacts DEF Here, Entry, Pull
<1> DEFINE method == Method(Entry, job.tar)
           label  == IF method = "native" THEN "copying"
                     ELSE IF Entry.pull
                     THEN (IF method = "tar" THEN "unpacking" ELSE "receiving")
                     ELSE IF method = "tar" THEN "packing" ELSE "stream"
<1>4. /\ job' = [job EXCEPT !.at = label, !.method = method,
                            !.left = IF label = "stream" THEN Here ELSE {}]
      /\ label = "copying" => Request("polled")
  BY DEF BeginEntry
<1>5. /\ job'.at = label /\ job'.method = method /\ job'.entry = job.entry
      /\ job'.tar = job.tar /\ job'.results = job.results
      /\ job'.left = IF label = "stream" THEN Here ELSE {}
      /\ job'.moved = {} /\ job'.failed = {} /\ job'.warned = job.warned
      /\ job'.leftover = job.leftover
  BY <1>1, <1>2, <1>4 DEF Jobs
<1>6. Here' = Here /\ Entry' = Entry /\ Method(Entry, job.tar)' = method
  BY <1>1, <1>5, PlanStays DEF Entry, Method, FastTar
<1>7. /\ label \in {"copying", "unpacking", "receiving", "packing", "stream"}
      /\ method \in {"tar", "stream", "native"}
      /\ label = "copying" => method = "native"
      /\ label \in {"unpacking", "packing"} => method = "tar"
      /\ label = "receiving" => method = "stream"
      /\ label = "stream" => method = "stream"
      /\ label \in {"receiving", "unpacking"} => Entry.pull
      /\ label \in {"stream", "packing"} => ~Entry.pull
  BY DEF Method
<1>8. label = "copying" => cmd'.process = "none"
  BY <1>4 DEF Request, IdleCmd
<1> HIDE DEF method, label
<1>9. \A f \in Here : /\ temp[f] = "none" /\ saved[f] = "none" /\ target[f] = Kept(f)
                      /\ shell[f] = "none"
  BY <1>1, <1>3 DEF FreshInv, Fresh, Busy, Pulling, Commits, Streams
<1>10. job'.at \in Busy
  BY <1>5, <1>7 DEF Busy, Pulling, Streams
<1>11. EntryInv'
  <2>1. verdict = "running"
    BY <1>1 DEF EntryInv
  <2>2. /\ job'.at \notin {"off", "new", "entry", "finish", "ended"}
    BY <1>5, <1>7
  <2> QED BY <1>1, <1>2, <1>5, <1>6, <1>10, <2>1, <2>2 DEF EntryInv
<1>12. LabelInv'
  BY <1>5, <1>6, <1>7 DEF LabelInv, Commits, Streams, Sends
<1>13. FreshInv'
  <2>1. \A f \in AllFiles : Fresh(f)' => Fresh(f)
    BY <1>5, <1>10 DEF Fresh
  <2> QED BY <1>1, <1>2, <2>1 DEF FreshInv, fileVars, sideVars, Kept
<1>14. ResultInv'
  BY <1>1, <1>2, <1>5 DEF ResultInv, fileVars, sideVars, Kept, Pull, Vouched, Method, FastTar
<1>15. SideInv'
  BY <1>1, <1>2, <1>5 DEF SideInv, sideVars, Pull
<1>16. StagingInv'
  BY <1>1, <1>2, <1>5 DEF StagingInv, Staged, Pulling, Commits, Sends, Streams, fileVars, sideVars
<1>17. CommitInv'
  <2>1. \A f \in Here : Original(f)'
    BY <1>1, <1>5, <1>9 DEF Original, Kept, fileVars
  <2> QED BY <1>5, <1>6, <1>7, <2>1 DEF CommitInv, Pulling
<1>18. StreamInv'
  <2>1. \A f \in Here : target'[f] = Kept(f)'
    BY <1>1, <1>9 DEF Kept, fileVars
  <2> QED BY <1>5, <1>6, <1>7, <1>8, <2>1 DEF StreamInv, Streams
<1> QED BY <1>11, <1>12, <1>13, <1>14, <1>15, <1>16, <1>17, <1>18 DEF StrategyInv

-----------------------------------------------------------------------------
(* Steps that change no file and not the job.                              *)
LEMMA OnlyCommandMoves ==
  ASSUME IInv, TypeInv', job' = job, UNCHANGED <<plan, target, temp, saved, shell, late, touched,
                                                 verdict>>,
         cancel => cancel',
         job.at = "copying" /\ cmd'.process = "ended" =>
           cmd.process = "ended" \/ Here \subseteq job.moved \cup job.failed
  PROVE  StrategyInv'
<1>1. /\ AllFiles' = AllFiles /\ Here' = Here /\ Entry' = Entry
      /\ EntryInv /\ LabelInv /\ FreshInv /\ ResultInv /\ SideInv /\ StagingInv /\ CommitInv
      /\ StreamInv
  BY PlanStays DEF IInv, Entry
<1>2. EntryInv' BY <1>1 DEF EntryInv, Method, FastTar
<1>3. LabelInv' BY <1>1 DEF LabelInv
<1>4. FreshInv' BY <1>1 DEF FreshInv, Fresh, Kept
<1>5. ResultInv' BY <1>1 DEF ResultInv, Vouched, Method, FastTar, Kept, Pull
<1>6. SideInv' BY <1>1 DEF SideInv, Pull
<1>7. StagingInv' BY <1>1 DEF StagingInv, Staged
<1>8. CommitInv'
  BY <1>1 DEF CommitInv, Original, Aside, Replaced, Warned, Waiting, Kept
<1>9. StreamInv' BY <1>1 DEF StreamInv, Kept
<1> QED BY <1>2, <1>3, <1>4, <1>5, <1>6, <1>7, <1>8, <1>9 DEF StrategyInv

LEMMA CommandStep ==
  ASSUME IInv, TypeInv', CommandSteps \/ ShutdownRunner \/ CancelTransfer
  PROVE  StrategyInv'
<1>1. cmd \in Cmds
  BY DEF IInv, TypeInv, RunnerTypeInv
<1>2. job' = job /\ UNCHANGED <<plan, target, temp, saved, shell, late, touched, verdict>>
  BY DEF CommandSteps, ShutdownRunner, CancelTransfer, transferVars, fileVars, sideVars
<1>3. CASE CommandSteps
  <2>1. cancel' = cancel
    BY <1>3 DEF CommandSteps, Start, Poll, AwaitKilled, Join, ProcessEnds
  <2>2. CASE Start \/ Poll \/ AwaitKilled \/ Join
    <3>1. cmd'.process = "ended" => cmd.process = "ended"
      <4>1. CASE Start BY <1>1, <4>1 DEF Start, Started, Ended, Cmds
      <4>2. CASE Poll BY <1>1, <4>2 DEF Poll, Kill, Cmds
      <4>3. CASE AwaitKilled BY <1>1, <4>3 DEF AwaitKilled, Cmds
      <4>4. CASE Join BY <1>1, <4>4 DEF Join, Ended, Cmds
      <4> QED BY <2>2, <4>1, <4>2, <4>3, <4>4
    <3> QED BY <1>2, <2>1, <3>1, OnlyCommandMoves
  <2>3. CASE job.at = "copying" /\ cmd'.process = "ended" =>
               Here \subseteq job.moved \cup job.failed
    BY <1>2, <2>1, <2>3, OnlyCommandMoves
  <2> QED BY <1>3, <2>2, <2>3 DEF CommandSteps
<1>4. CASE ShutdownRunner
  <2>1. cancel' = cancel /\ (cmd'.process = "ended" => cmd.process = "ended")
    BY <1>1, <1>4 DEF ShutdownRunner, CloseGate, KillRegistered, Cmds
  <2> QED BY <1>2, <2>1, OnlyCommandMoves
<1>5. CASE CancelTransfer
  BY <1>2, <1>5, OnlyCommandMoves DEF CancelTransfer
<1> QED BY <1>3, <1>4, <1>5

(* The steps between the entries, and the verdict (_finish_tracker).       *)
LEMMA OuterStep ==
  ASSUME IInv, TypeInv', Prepare \/ LeaveEntries \/ Finish
  PROVE  StrategyInv'
<1>1. /\ job.at \in {"new", "entry", "finish"} /\ plan' = plan
      /\ UNCHANGED <<target, temp, saved, shell, late, touched, cancel>>
      /\ plan \in TransferPlans /\ job \in Jobs /\ cancel \in BOOLEAN
      /\ EntryInv /\ SideInv /\ StagingInv /\ FreshInv /\ ResultInv
  BY DEF Prepare, LeaveEntries, Finish, fileVars, sideVars, runnerVars, IInv, TypeInv,
         RunnerTypeInv
<1>2. AllFiles' = AllFiles /\ job.entry \in Nat /\ Len(plan.entries) \in Nat
  BY <1>1, PlanStays DEF Jobs, TransferPlans
<1>3. /\ job'.at \in {"entry", "finish", "ended"} /\ job'.results = job.results
      /\ job'.warned = job.warned /\ job'.leftover = job.leftover
      /\ job'.left = job.left /\ job'.moved = job.moved /\ job'.failed = job.failed
      /\ job'.good = job.good
      /\ \/ job'.entry = job.entry /\ job'.tar = job.tar
         \/ job.at = "new" /\ job'.entry = 1 /\ job'.at = "entry"
      /\ job'.at = "finish" /\ ~cancel => job'.entry = Len(plan.entries) + 1
      /\ job'.at = "ended" => job.at = "finish" /\ job'.entry = job.entry
      /\ job'.at = "entry" => job.at = "new" /\ job'.entry = 1
  <2>1. CASE Prepare
    BY <1>1, <2>1 DEF Prepare, At, Jobs
  <2>2. CASE LeaveEntries
    <3>1. job'.at = "finish" /\ job'.entry = job.entry
      BY <1>1, <2>2 DEF LeaveEntries, At, Jobs
    <3>2. ~cancel => job.entry = Len(plan.entries) + 1
      BY <1>1, <1>2, <2>2 DEF LeaveEntries, EntryInv
    <3> QED BY <1>1, <2>2, <3>1, <3>2 DEF LeaveEntries, At, Jobs
  <2>3. CASE Finish
    BY <1>1, <2>3 DEF Finish, At, Jobs
  <2> QED BY <2>1, <2>2, <2>3
<1>4. EntryInv'
  <2>1. /\ verdict' # "running" => job'.at = "ended"
        /\ verdict' = "success" =>
             /\ job.entry = Len(plan.entries) + 1
             /\ \A i \in DOMAIN job.results : job.results[i].good
    <3>1. CASE Finish
      BY <1>1, <1>3, <3>1 DEF Finish, EntryInv, At, Jobs
    <3>2. CASE Prepare \/ LeaveEntries
      BY <1>1, <3>2 DEF Prepare, LeaveEntries, EntryInv
    <3> QED BY <3>1, <3>2
  <2>2. job'.at \notin Busy \cup {"off", "new"}
    BY <1>3 DEF Busy, Pulling, Commits, Streams
  <2>3. job'.entry <= Len(plan.entries) + 1
    BY <1>1, <1>2, <1>3 DEF EntryInv
  <2>4. Len(job'.results) = IF job'.entry = 0 THEN 0 ELSE job'.entry - 1
    BY <1>1, <1>2, <1>3 DEF EntryInv
  <2>5. /\ job'.at = "entry" =>
             /\ job'.left = {} /\ job'.moved = {} /\ job'.failed = {} /\ job'.good
             /\ job'.entry > 0
        /\ job'.at = "ended" => job'.entry = job.entry
    BY <1>1, <1>3 DEF EntryInv
  <2> QED BY <1>1, <1>3, <2>1, <2>2, <2>3, <2>4, <2>5 DEF EntryInv
<1>5. LabelInv' /\ CommitInv' /\ StreamInv'
  BY <1>3 DEF LabelInv, CommitInv, StreamInv, Pulling, Commits, Streams, Sends
<1>6. FreshInv'
  <2>1. job.entry <= job'.entry /\ job'.entry \in Nat
    BY <1>1, <1>2, <1>3 DEF EntryInv
  <2>2. \A f \in AllFiles : Fresh(f)' => Fresh(f)
    <3>1. job.at \notin Busy
      BY <1>1 DEF Busy, Pulling, Commits, Streams
    <3> QED BY <1>1, <1>2, <2>1, <3>1, FileFacts DEF Fresh, Names
  <2> QED BY <1>1, <1>2, <2>2 DEF FreshInv, Kept
<1>7. ResultInv'
  <2>1. job.results # <<>> => job'.tar = job.tar
    <3>1. job.at = "new" => Len(job.results) = 0
      BY <1>1 DEF EntryInv
    <3>2. job.results \in Seq(Results)
      BY <1>1 DEF Jobs
    <3>3. job.at = "new" => job.results = <<>>
      BY <3>1, <3>2, EmptySeq
    <3> QED BY <1>3, <3>3
  <2>2. CASE job.results = <<>>
    BY <1>3, <2>2 DEF ResultInv
  <2>3. CASE job'.tar = job.tar
    BY <1>1, <1>2, <1>3, <2>3 DEF ResultInv, Vouched, Method, FastTar, Kept, Pull
  <2> QED BY <2>1, <2>2, <2>3
<1>8. SideInv'
  <2>1. job.entry <= job'.entry /\ job'.entry \in Nat
    BY <1>1, <1>2, <1>3 DEF EntryInv
  <2>2. \A f \in late : f[1] \in Nat
    BY <1>1, FileFacts DEF IInv, TypeInv, FilesTypeInv, Names
  <2> QED BY <1>1, <1>2, <2>1, <2>2 DEF SideInv, Pull
<1>9. StagingInv'
  BY <1>1, <1>2, <1>3 DEF StagingInv, Staged, Pulling, Commits, Sends, Streams
<1> QED BY <1>4, <1>5, <1>6, <1>7, <1>8, <1>9 DEF StrategyInv

(* A pump that outlived its command stages a file of an entry left behind. *)
LEMMA LateStep ==
  ASSUME IInv, TypeInv', LatePump
  PROVE  StrategyInv'
<1>1. /\ job' = job /\ UNCHANGED <<plan, target, saved, shell, late, touched, verdict, cmd, cancel>>
      /\ plan \in TransferPlans /\ job \in Jobs /\ FilesTypeInv
      /\ EntryInv /\ LabelInv /\ FreshInv /\ ResultInv /\ SideInv /\ StagingInv /\ CommitInv
      /\ StreamInv
  BY DEF LatePump, runnerVars, sideVars, IInv, TypeInv
<1>2. PICK f \in late : temp[f] = "none" /\ temp' = Sets(temp, f, "part")
  BY DEF LatePump
<1>3. /\ f \in AllFiles /\ f[1] < job.entry /\ f[1] \in Nat /\ job.entry \in Nat
      /\ \A g \in AllFiles \ {f} : temp'[g] = temp[g]
  BY <1>1, <1>2, FileFacts DEF FilesTypeInv, SideInv, Sets, Names, Jobs
<1>4. AllFiles' = AllFiles /\ Here' = Here /\ Entry' = Entry
  BY <1>1, PlanStays DEF Entry
<1>5. EntryInv' BY <1>1, <1>4 DEF EntryInv, Method, FastTar
<1>6. LabelInv' BY <1>1, <1>4 DEF LabelInv
<1>7. FreshInv'
  <2>1. ~Fresh(f)
    BY <1>3 DEF Fresh
  <2> QED BY <1>1, <1>3, <1>4, <2>1 DEF FreshInv, Fresh, Kept
<1>8. ResultInv' BY <1>1, <1>4 DEF ResultInv, Vouched, Method, FastTar, Kept, Pull
<1>9. SideInv' BY <1>1, <1>4 DEF SideInv, Pull
<1>10. StagingInv' BY <1>1, <1>2, <1>3, <1>4 DEF StagingInv, Staged
<1>11. CommitInv'
  BY <1>1, <1>4 DEF CommitInv, Original, Aside, Replaced, Warned, Waiting, Kept
<1>12. StreamInv'
  <2>1. job.at = "finalizing" => job.file # f
    <3>1. job.at = "finalizing" => job.file \in Here /\ job.at \in Busy
      BY <1>1 DEF LabelInv, Sends, Streams, Busy
    <3> QED BY <1>1, <1>3, <3>1, HereFacts
  <2>2. job.at = "finalizing" => job.file \in AllFiles
    <3>1. job.at = "finalizing" => job.file \in Here /\ job.at \in Busy
      BY <1>1 DEF LabelInv, Sends, Streams, Busy
    <3> QED BY <1>1, <3>1, HereFacts
  <2> QED BY <1>1, <1>3, <1>4, <2>1, <2>2 DEF StreamInv, Kept
<1> QED BY <1>5, <1>6, <1>7, <1>8, <1>9, <1>10, <1>11, <1>12 DEF StrategyInv

(* The finalizing shell on Android moves only complete files, whether or   *)
(* not somebody waits for it any more.                                     *)
LEMMA RemoteStep ==
  ASSUME IInv, TypeInv', NEW f \in AllFiles, RemoteMove(f)
  PROVE  StrategyInv'
<1>1. /\ job' = job /\ UNCHANGED <<plan, saved, late, touched, verdict, cmd, cancel>>
      /\ plan \in TransferPlans /\ job \in Jobs /\ FilesTypeInv
      /\ EntryInv /\ LabelInv /\ FreshInv /\ ResultInv /\ SideInv /\ StagingInv /\ CommitInv
      /\ StreamInv
  BY DEF RemoteMove, IInv, TypeInv
<1>2. /\ shell[f] = "running" /\ ~Pull(f) /\ ~Fresh(f)
      /\ \/ /\ shell'[f] = "moved" /\ target'[f] = "new" /\ temp'[f] = "none"
            /\ target' = Sets(target, f, "new") /\ temp' = Sets(temp, f, "none")
         \/ shell'[f] = "refused" /\ target' = target /\ temp' = temp
      /\ shell'[f] # "none"
      /\ \A g \in AllFiles \ {f} : shell'[g] = shell[g]
  <2>1. shell[f] = "running"
    BY DEF RemoteMove
  <2>2. ~Pull(f) /\ ~Fresh(f)
    BY <1>1, <2>1 DEF SideInv, FreshInv
  <2> QED BY <1>1, <2>1, <2>2 DEF RemoteMove, Sets, FilesTypeInv
<1>3. /\ \A g \in AllFiles \ {f} : target'[g] = target[g] /\ temp'[g] = temp[g]
      /\ \A g \in AllFiles : /\ target'[g] = target[g] \/ target'[g] = "new"
                             /\ temp'[g] # "none" => temp[g] # "none"
  BY <1>1, <1>2 DEF Sets, FilesTypeInv
<1>4. AllFiles' = AllFiles /\ Here' = Here /\ Entry' = Entry
  BY <1>1, PlanStays DEF Entry
<1>5. EntryInv' BY <1>1, <1>4 DEF EntryInv, Method, FastTar
<1>6. LabelInv' BY <1>1, <1>4 DEF LabelInv
<1>7. FreshInv'
  BY <1>1, <1>2, <1>3, <1>4 DEF FreshInv, Fresh, Kept
<1>8. ResultInv'
  <2> SUFFICES ASSUME NEW g \in AllFiles, g[1] \in DOMAIN job.results
               PROVE  /\ job.results[g[1]].method = Method(plan.entries[g[1]], job.tar)
                      /\ Vouched(g, job.results[g[1]], target'[g], saved[g], job.warned)
    BY <1>1, <1>4 DEF ResultInv, Method, FastTar, Vouched, Pull, Kept
  <2>1. Vouched(g, job.results[g[1]], target[g], saved[g], job.warned)
        /\ job.results[g[1]].method = Method(plan.entries[g[1]], job.tar)
    BY <1>1 DEF ResultInv
  <2>2. CASE g = f
    BY <1>2, <1>3, <2>1, <2>2 DEF Vouched
  <2>3. CASE g # f
    BY <1>3, <2>1, <2>3
  <2> QED BY <2>2, <2>3
<1>9. SideInv' BY <1>1, <1>2, <1>4 DEF SideInv, Pull
<1>10. StagingInv' BY <1>1, <1>3, <1>4 DEF StagingInv, Staged
<1>11. CommitInv'
  <2>1. CASE job.at \in Pulling \cup Commits
    <3>1. \A g \in Here : Pull(g) /\ g \in AllFiles
      BY <1>1, <2>1, HereFacts DEF LabelInv, Busy, Pulling
    <3>2. /\ \A g \in Here : target'[g] = target[g] /\ saved'[g] = saved[g]
          /\ job.at \in {"commit", "link", "compare"} => job.left \subseteq Here
          /\ job.at = "undo" => job.file \in Here
      BY <1>1, <1>2, <1>3, <3>1 DEF LabelInv
    <3>3. \A g \in Here : /\ Original(g)' <=> Original(g)
                          /\ Aside(g)' <=> Aside(g)
                          /\ Replaced(g)' <=> Replaced(g)
                          /\ Warned(g)' <=> Warned(g)
                          /\ Waiting(g)' <=> Waiting(g)
      BY <1>1, <3>2 DEF Original, Aside, Replaced, Warned, Waiting, Kept
    <3> QED BY <1>1, <1>4, <3>2, <3>3 DEF CommitInv, Pulling
  <2>2. CASE job.at \notin Pulling \cup Commits
    BY <1>1, <2>2, NotCommitting
  <2> QED BY <2>1, <2>2
<1>12. StreamInv'
  <2>1. CASE job.at \in Streams \cup {"copying"}
    <3>1. /\ Here \subseteq AllFiles
          /\ job.at = "finalizing" => job.file \in Here
      BY <1>1, <2>1, HereFacts DEF LabelInv, Sends, Streams, Busy
    <3>2. job.at = "finalizing" /\ shell'[job.file] = "moved" =>
            temp'[job.file] = "none" /\ target'[job.file] = "new"
      <4> SUFFICES ASSUME job.at = "finalizing", shell'[job.file] = "moved"
                   PROVE  temp'[job.file] = "none" /\ target'[job.file] = "new"
        OBVIOUS
      <4>1. CASE job.file = f BY <1>2, <4>1
      <4>2. CASE job.file # f BY <1>1, <1>2, <1>3, <3>1, <4>2 DEF StreamInv
      <4> QED BY <4>1, <4>2
    <3> QED BY <1>1, <1>3, <1>4, <3>1, <3>2 DEF StreamInv, Kept
  <2>2. CASE job.at \notin Streams \cup {"copying"}
    BY <1>1, <2>2, NotStreaming
  <2> QED BY <2>1, <2>2
<1> QED BY <1>5, <1>6, <1>7, <1>8, <1>9, <1>10, <1>11, <1>12 DEF StrategyInv

-----------------------------------------------------------------------------
LEMMA InitHolds ==
  ASSUME plan \in TransferPlans, faults = plan.faults, RunnerInit, TransferInit
  PROVE  IInv
<1>1. /\ plan.entries \in Seq(TransferEntries) /\ plan.faults \in Nat
      /\ Len(plan.entries) \in Nat
  BY DEF TransferPlans
<1>2. /\ job = [IdleJob EXCEPT !.at = job.at]
      /\ job.at = IF plan.entries = <<>> THEN "off" ELSE "new"
  BY DEF TransferInit, IdleJob
<1>3. /\ job.entry = 0 /\ job.results = <<>> /\ job.left = {} /\ job.moved = {}
      /\ job.failed = {} /\ job.good /\ job.leftover = {}
      /\ Len(job.results) = 0 /\ DOMAIN job.results = {}
  BY <1>2 DEF IdleJob
<1>4. TypeInv
  <2>1. RunnerTypeInv
    BY <1>1 DEF RunnerInit, RunnerTypeInv, Cmds, IdleCmd, CommandKinds, Outcomes
  <2>2. job \in Jobs
    <3>1. IdleJob \in Jobs
      <4>1. <<>> \in Seq(Results)
        OBVIOUS
      <4> QED BY <4>1 DEF IdleJob, Jobs, Labels
    <3>2. job.at \in Labels
      BY <1>2 DEF Labels
    <3> QED BY <1>2, <3>1, <3>2 DEF Jobs
  <2>3. FilesTypeInv
    BY DEF TransferInit, FilesTypeInv, Held
  <2> QED BY <2>1, <2>2, <2>3 DEF TypeInv
<1>5. CmdInv
  BY DEF RunnerInit, CmdInv, IdleCmd
<1>6. job.at \in {"off", "new"} /\ job.at \notin Busy
  BY <1>2 DEF Busy, Pulling, Commits, Streams
<1>7. EntryInv
  BY <1>1, <1>2, <1>3, <1>6 DEF EntryInv, TransferInit
<1>8. LabelInv /\ CommitInv /\ StreamInv
  BY <1>6 DEF LabelInv, CommitInv, StreamInv, Pulling, Commits, Streams, Sends
<1>9. FreshInv /\ SideInv /\ StagingInv
  BY DEF TransferInit, FreshInv, SideInv, StagingInv, Kept
<1>10. ResultInv
  BY <1>3 DEF ResultInv
<1> QED BY <1>4, <1>5, <1>7, <1>8, <1>9, <1>10 DEF IInv

(* All actions together.                                                   *)
LEMMA NextHolds ==
  ASSUME IInv, TransferNext
  PROVE  IInv'
<1>1. TypeInv'
  BY TypeStep DEF IInv
<1>2. CmdInv'
  BY CmdMoved, CmdStep DEF IInv, TypeInv
<1>3. StrategyInv'
  <2>1. CASE Prepare \/ LeaveEntries \/ Finish BY <1>1, <2>1, OuterStep
  <2>2. CASE BeginEntry BY <1>1, <2>2, BeginStep
  <2>3. CASE ReceiveFile \/ PublishPulled \/ Unpack \/ Unpacked BY <1>1, <2>3, PullStep
  <2>4. CASE SetAside \/ Link \/ Compare BY <1>1, <2>4, InstallStep
  <2>5. CASE Commit \/ RolledBack BY <1>1, <2>5, CommitStep
  <2>6. CASE LookBack \/ Undo BY <1>1, <2>6, UndoStep
  <2>7. CASE Outsider BY <1>1, <2>7, OutsiderStep
  <2>8. CASE BeginStream \/ SendFile \/ Flush \/ Sent \/ Finalize \/ Prove \/ Discard
    BY <1>1, <2>8, StreamStep
  <2>9. CASE Pack \/ Packed \/ NativeCopy \/ Copied BY <1>1, <2>9, CopyStep
  <2>10. CASE CommandSteps \/ ShutdownRunner \/ CancelTransfer BY <1>1, <2>10, CommandStep
  <2>11. CASE LatePump BY <1>1, <2>11, LateStep
  <2>12. CASE \E f \in AllFiles : RemoteMove(f) BY <1>1, <2>12, RemoteStep
  <2> QED BY <2>1, <2>2, <2>3, <2>4, <2>5, <2>6, <2>7, <2>8, <2>9, <2>10, <2>11, <2>12
         DEF TransferNext, Strategy
<1> QED BY <1>1, <1>2, <1>3 DEF IInv, StrategyInv

LEMMA StutterHolds ==
  ASSUME IInv, UNCHANGED transferAll
  PROVE  IInv'
<1>1. UNCHANGED <<cmd, gate, cancel, faults, plan, job, target, temp, saved, shell, late, touched,
                  verdict>>
  BY DEF transferAll, runnerVars, transferVars, fileVars, sideVars
<1>2. AllFiles' = AllFiles
  BY <1>1, PlanStays
<1>3. TypeInv' /\ CmdInv'
  BY <1>1, <1>2 DEF IInv, TypeInv, RunnerTypeInv, FilesTypeInv, CmdInv
<1>4. StrategyInv'
  BY <1>1, <1>3, OnlyCommandMoves
<1> QED BY <1>3, <1>4 DEF IInv, StrategyInv

(* The invariant holds in every reachable state of the transfers of        *)
(* adb_transfer_strategy.py.                                               *)
THEOREM TransferInvariant == TransferSpec => []IInv
<1>1. plan \in TransferPlans /\ faults = plan.faults /\ RunnerInit /\ TransferInit => IInv
  BY InitHolds
<1>2. IInv /\ [TransferNext]_transferAll => IInv'
  BY NextHolds, StutterHolds
<1> QED BY <1>1, <1>2, PTL DEF TransferSpec, transferAll

(* command_runner.py: after shutdown closed the gate and killed what was   *)
(* registered, no process of a transfer is left alone.                     *)
THEOREM NothingOutlivesTheRunner == TransferSpec => []NothingRunsAfterShutdown
<1>1. IInv => NothingRunsAfterShutdown
  BY DEF IInv, CmdInv, NothingRunsAfterShutdown
<1> QED BY <1>1, TransferInvariant, PTL

(* A transfer announced as a success has every file in place that a size   *)
(* check, a finalizing shell or adb itself answers for: all but those of   *)
(* TAR transfers (TransferSuccessIsTrue).                                  *)
THEOREM SuccessIsComplete == TransferSpec => []TransferSuccessIsTrue
<1>1. IInv => TransferSuccessIsTrue
  <2> SUFFICES ASSUME IInv, verdict = "success", NEW i \in DOMAIN plan.entries,
                      NEW f \in FilesOf(i), job.results[i].method # "tar"
               PROVE  target[f] = "new"
    BY DEF TransferSuccessIsTrue
  <2>1. /\ plan \in TransferPlans /\ job \in Jobs /\ EntryInv /\ ResultInv
    BY DEF IInv, TypeInv
  <2>2. /\ job.entry = Len(plan.entries) + 1 /\ Len(job.results) = Len(plan.entries)
        /\ \A k \in DOMAIN job.results : job.results[k].good
    <3>1. Len(plan.entries) \in Nat
      BY <2>1 DEF TransferPlans
    <3> QED BY <2>1, <3>1 DEF EntryInv
  <2>3. DOMAIN job.results = DOMAIN plan.entries
    BY <2>1, <2>2 DEF Jobs, TransferPlans
  <2>4. f \in AllFiles /\ f[1] = i
    BY <2>1, FileFacts
  <2> QED BY <2>1, <2>2, <2>3, <2>4 DEF ResultInv, Vouched
<1> QED BY <1>1, TransferInvariant, PTL

(* When a transfer has ended, the staging names left are those of late     *)
(* pumps and of refused removals (NoStagingIsLeft).                        *)
THEOREM StagingIsRemoved == TransferSpec => []NoStagingIsLeft
<1>1. IInv => NoStagingIsLeft
  <2> SUFFICES ASSUME IInv, verdict # "running", NEW f \in AllFiles, temp[f] # "none"
               PROVE  f \in late \cup job.leftover
    BY DEF NoStagingIsLeft
  <2>1. job.at = "ended"
    BY DEF IInv, EntryInv
  <2> QED BY <2>1 DEF IInv, StagingInv, Staged, Pulling, Commits, Sends, Streams
<1> QED BY <1>1, TransferInvariant, PTL

(* Whatever fails and whoever cancels, a target of a streamed or TAR pull  *)
(* and of a streamed push keeps its old content, has all of the new one,   *)
(* or has a backup; a failed pull leaves the old one or warns              *)
(* (ExistingTargetsAreSafe).                                               *)
THEOREM TargetsAreSafe == TransferSpec => []ExistingTargetsAreSafe
<1>1. IInv => ExistingTargetsAreSafe
  <2> SUFFICES ASSUME IInv, NEW f \in AllFiles, f \notin touched,
                      Result(f).method = "stream" \/ (Result(f).method = "tar" /\ Pull(f))
               PROVE  /\ target[f] \in {Kept(f), "new"} \/ saved[f] = Kept(f)
                      /\ Pull(f) /\ ~Committing(f) /\ ~Result(f).good =>
                           target[f] = Kept(f) \/ f \in job.warned
    BY DEF ExistingTargetsAreSafe, Pull, Kept
  <2>1. /\ plan \in TransferPlans /\ job \in Jobs /\ EntryInv /\ ResultInv /\ FreshInv
        /\ LabelInv /\ CommitInv /\ StreamInv
    BY DEF IInv, TypeInv
  <2>2. f[1] \in Nat /\ f[1] > 0 /\ job.entry \in Nat
    BY <2>1, FileFacts DEF Names, TransferPlans, Jobs
  <2>3. CASE f[1] \in DOMAIN job.results
    BY <2>1, <2>3 DEF ResultInv, Vouched, Result
  <2>4. CASE f[1] \notin DOMAIN job.results
    <3>1. /\ Result(f).method = Method(plan.entries[f[1]], job.tar) /\ ~Result(f).good
      BY <2>4 DEF Result
    <3>2. f[1] >= job.entry
      BY <2>1, <2>2, <2>4 DEF EntryInv, Jobs
    <3>3. CASE Fresh(f)
      BY <2>1, <3>3 DEF FreshInv
    <3>4. CASE ~Fresh(f)
      <4>1. f[1] = job.entry /\ job.at \in Busy
        BY <2>2, <3>2, <3>4 DEF Fresh
      <4>2. f \in Here /\ Pull(f) = Entry.pull /\ job.method = Result(f).method
        BY <2>1, <3>1, <4>1, HereFacts DEF Entry
      <4>3. CASE job.at \in Pulling
        BY <2>1, <4>2, <4>3 DEF CommitInv, Original
      <4>4. CASE job.at \in Commits
        <5>1. Original(f) \/ Aside(f) \/ Replaced(f) \/ Warned(f)
          BY <2>1, <4>2, <4>4 DEF CommitInv, Commits
        <5>2. Committing(f)
          BY <4>1, <4>4 DEF Committing, Commits
        <5> QED BY <5>1, <5>2 DEF Original, Aside, Replaced, Warned
      <4>5. CASE job.at \in Streams
        BY <2>1, <4>2, <4>5 DEF StreamInv, LabelInv
      <4>6. CASE job.at \in {"packing", "copying"}
        BY <2>1, <4>2, <4>6 DEF LabelInv
      <4> QED BY <4>1, <4>3, <4>4, <4>5, <4>6 DEF Busy
    <3> QED BY <3>3, <3>4
  <2> QED BY <2>3, <2>4
<1> QED BY <1>1, TransferInvariant, PTL
=============================================================================
