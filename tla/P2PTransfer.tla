------------------------------ MODULE P2PTransfer ------------------------------
(***************************************************************************)
(* One upload over ACBridge P2P: the desktop's coordinator and its stream  *)
(* threads (acbridge_p2p.py, p2p_transfer_strategy.py), the threads of the *)
(* Android service (P2PTransferService.java), the control channel through  *)
(* an adb forward, and the LAN connection that carries the files.          *)
(*                                                                         *)
(* A stream owns one session.  On the desktop it walks through             *)
(*   waiting start control ack status grant | connect sending reply fetch  *)
(*   cleanup done,                                                         *)
(* the part before the bar under the session-preparation lock; on Android  *)
(*   listening accepted access ready receiving payload verified placing    *)
(*   copying ended.                                                        *)
(* Everything that may fail, time out or break draws on scenario.faults;   *)
(* only the deletions that end a session may fail besides, for the error   *)
(* that ends it is likely to be theirs too.                                *)
(***************************************************************************)
EXTENDS Integers, FiniteSets, P2PPlan

CONSTANTS
  Files, Dirs,    \* the selected entries
  Olds,           \* the files that exist at the destination
  Scenarios,      \* file sizes, parallelism value, storage access, provider, faults
  MaxSessions     \* bound on the sessions of an upload, retry included

ASSUME P2PAssumption ==
  /\ Files \cap Dirs = {} /\ Olds \subseteq Files
  /\ IsFiniteSet(Files) /\ IsFiniteSet(Dirs) /\ "tag" \notin Files \cup Dirs
  /\ MaxSessions \in Nat \ {0}
  /\ Scenarios \subseteq [size : [Files -> Nat], value : Nat, renames : BOOLEAN,
                          granted : {"none", "saf", "direct"}, faults : Nat]

Entries  == Files \cup Dirs
Sessions == 1 .. MaxSessions

VARIABLES
  phase,     \* the coordinator: "new", "uploading", "granting" or "ended"
  outcome,   \* what the strategy reports
  primary,   \* primary_error of the parallel upload, by kind
  streams,   \* the sessions of the current attempt
  reaped,    \* those of them whose future was collected
  contested, \* history: an attempt began beside a session of an earlier one
  cancel,    \* the user's cancel event
  abort,     \* the attempt's abort_event
  lock,      \* the holder of _session_prepare_lock, or 0
  pc,        \* Session -> the stream thread on the desktop
  forwards,  \* the sessions whose adb forward exists
  lost,      \* the forwards adb failed to remove or never told of
  link,      \* Session -> control channel and data connection
  dev,       \* Session -> the session's threads on Android, its temporary files (temps),
             \* those whose deletion was refused (litter), and the targets where a refused
             \* deletion left half a copy (torn)
  store,     \* Entry -> what the destination holds under its name
  granted,   \* the storage access Android gives ACBridge
  scenario,  \* what the upload starts from; scenario.faults bounds the failures
  faults     \* failures so far

coordVars == <<phase, outcome, primary, streams, reaped, contested>>
envVars   == <<granted, scenario>>
vars == <<coordVars, cancel, abort, lock, pc, forwards, lost, link, dev, store,
          envVars, faults>>

PcLabels == {"unused", "waiting", "start", "control", "ack", "status",
             "grant", "connect", "sending", "reply", "fetch", "cleanup", "done"}
DevLabels == {"none", "listening", "accepted", "access", "ready", "receiving",
              "payload", "verified", "placing", "copying", "ended"}
Kinds == {"none", "cancel", "error", "permission"}

IdleStream  == [at |-> "unused", batch |-> <<>>, sent |-> 0, fail |-> "none",
                started |-> FALSE, signal |-> FALSE]
IdleDevice  == [at |-> "none", got |-> 0, cancelled |-> FALSE, ready |-> FALSE,
                asked |-> FALSE, file |-> "none",
                temps |-> {}, litter |-> {}, torn |-> {}]
IdleLink    == [ctl |-> "none", down |-> <<>>, up |-> <<>>, data |-> "none",
                frames |-> <<>>, reply |-> FALSE]

Init ==
  /\ phase = "new" /\ outcome = "running" /\ primary = "none"
  /\ streams = {} /\ reaped = {} /\ contested = FALSE
  /\ cancel = FALSE /\ abort = FALSE /\ lock = 0
  /\ pc = [s \in Sessions |-> IdleStream]
  /\ forwards = {} /\ lost = {}
  /\ link = [s \in Sessions |-> IdleLink]
  /\ dev = [s \in Sessions |-> IdleDevice]
  /\ store = [e \in Entries |-> IF e \in Olds THEN "old" ELSE "none"]
  /\ scenario \in Scenarios
  /\ granted = scenario.granted
  /\ faults = 0

Fails == faults < scenario.faults /\ faults' = faults + 1
Cancelled == cancel \/ abort
PcAt(s, label)  == pc' = [pc EXCEPT ![s].at = label]
DevAt(s, label) == dev' = [dev EXCEPT ![s].at = label]

-----------------------------------------------------------------------------
(* The coordinator: upload_entries, _upload_parallel_entries, the strategy *)

StreamCount ==
  LET sizes == {scenario.size[f] : f \in Files}
  IN  ChooseParallelism(Cardinality(Files), MapThenSumSet(LAMBDA f : scenario.size[f], Files),
                        IF sizes = {} THEN 0 ELSE Max(sizes), scenario.value)

\* One session takes everything, or the files are spread over several.
PlannedBatches ==
  IF StreamCount <= 1 \/ Cardinality(Files) <= 1
  THEN <<SetToSeq(Dirs) \o SetToSeq(Files)>>
  ELSE Batches(Files, Dirs, scenario.size, StreamCount)

Fresh == {s \in Sessions : pc[s].at = "unused"}

\* The streams start together; each gets a session of its own.
StartStreams ==
  LET batches == PlannedBatches
      first   == Cardinality(Sessions \ Fresh)
      chosen  == (first + 1) .. (first + StreamCount)
  IN  /\ chosen \subseteq Sessions
      /\ phase' = "uploading"
      /\ streams' = chosen
      /\ reaped' = {}
      /\ primary' = "none"
      /\ abort' = FALSE
      /\ pc' = [s \in Sessions |->
                  IF s \in chosen
                  THEN [IdleStream EXCEPT !.at = "waiting", !.batch = batches[s - first]]
                  ELSE pc[s]]

\* upload_entries: the plan; a volume mounted read-only is refused before that.
Plan ==
  /\ phase = "new"
  /\ \/ StartStreams /\ UNCHANGED <<outcome, faults>>
     \/ /\ \/ cancel /\ outcome' = "cancelled" /\ UNCHANGED faults
           \/ Fails /\ outcome' = "failed"
        /\ phase' = "ended"
        /\ UNCHANGED <<primary, streams, reaped, abort, pc>>
  /\ UNCHANGED <<contested, cancel, lock, forwards, lost, link, dev, store, envVars>>

\* A finished future: the first failure aborts the others, and a failure that is
\* not a cancellation is preferred as the error to report.
Reap(s) ==
  /\ phase = "uploading"
  /\ s \in streams \ reaped
  /\ pc[s].at = "done"
  /\ reaped' = reaped \cup {s}
  /\ IF pc[s].fail = "none" THEN UNCHANGED <<primary, abort>>
     ELSE /\ abort' = TRUE
          /\ primary' = IF primary = "none" \/ pc[s].fail # "cancel"
                        THEN pc[s].fail ELSE primary
  /\ UNCHANGED <<phase, outcome, streams, contested, cancel, lock, pc, forwards, lost,
                 link, dev, store, envVars, faults>>

\* All futures are in.  A write that Android denied is worth a storage grant and
\* a second upload, once; everything else is final.
Conclude ==
  /\ phase = "uploading"
  /\ reaped = streams
  /\ IF primary = "none"
     THEN /\ phase' = "ended"
          /\ outcome' = IF cancel /\ Cardinality(streams) > 1 THEN "cancelled" ELSE "success"
     ELSE IF primary = "permission" /\ ~cancel /\ 1 \in streams
          THEN phase' = "granting" /\ UNCHANGED outcome
          ELSE /\ phase' = "ended"
               /\ outcome' = IF cancel THEN "cancelled" ELSE "failed"
  /\ UNCHANGED <<primary, streams, reaped, contested, cancel, abort, lock, pc, forwards,
                 lost, link, dev, store, envVars, faults>>

\* grant_storage_access and the second upload.  Nothing waits for the sessions of the
\* first one to end on Android.
GrantAndRetry ==
  /\ phase = "granting"
  /\ ~cancel
  /\ StartStreams
  /\ granted' = "saf"
  /\ contested' = (contested \/ \E s \in streams : dev[s].at \notin {"none", "ended"})
  /\ UNCHANGED <<outcome, cancel, lock, forwards, lost, link, dev, store, scenario,
                 faults>>

GrantRefused ==
  /\ phase = "granting"
  /\ phase' = "ended"
  /\ outcome' = IF cancel THEN "cancelled" ELSE "failed"
  /\ UNCHANGED <<primary, streams, reaped, contested, cancel, abort, lock, pc, forwards,
                 lost, link, dev, store, envVars, faults>>

Cancel ==
  /\ ~cancel
  /\ phase # "ended"
  /\ cancel' = TRUE
  /\ UNCHANGED <<coordVars, abort, lock, pc, forwards, lost, link, dev, store, envVars,
                 faults>>

Coordinator ==
  \/ Plan
  \/ \E s \in Sessions : Reap(s)
  \/ Conclude
  \/ GrantAndRetry
  \/ GrantRefused

-----------------------------------------------------------------------------
(* A stream thread: _prepare_session *)

\* What a stream step leaves alone besides its own record.
PcFrame == UNCHANGED <<coordVars, cancel, abort, envVars, store>>

Fail(s, kind, label, signal) ==
  pc' = [pc EXCEPT ![s].at = label, ![s].fail = kind, ![s].signal = signal]

\* The lock is polled, so that a cancelled waiter leaves without it.  Under it:
\* trust and addresses, then adb forward.  When adb answers with an error the
\* forward may exist all the same; it is looked up and removed, if adb can.
CreateForward(s) ==
  /\ pc[s].at = "waiting"
  /\ \/ /\ Cancelled
        /\ Fail(s, "cancel", "done", FALSE)
        /\ UNCHANGED <<lock, forwards, lost, faults>>
     \/ /\ ~Cancelled
        /\ lock = 0
        /\ lock' = s
        /\ forwards' = forwards \cup {s}
        /\ PcAt(s, "start")
        /\ UNCHANGED <<lost, faults>>
     \/ /\ lock = 0
        /\ Fails
        /\ Fail(s, "error", "done", FALSE)
        /\ \/ UNCHANGED <<forwards, lost>>
           \/ forwards' = forwards \cup {s} /\ lost' = lost \cup {s}
        /\ UNCHANGED lock
  /\ UNCHANGED <<link, dev>>
  /\ PcFrame

\* am start: it fails, or its answer is lost (or cut short by a cancellation)
\* although the service received the intent.
StartService(s) ==
  /\ pc[s].at = "start"
  /\ \/ /\ Cancelled
        /\ Fail(s, "cancel", "cleanup", FALSE)
        /\ UNCHANGED <<dev, faults>>
     \/ /\ ~Cancelled
        /\ Fails
        /\ Fail(s, "error", "cleanup", FALSE)
        /\ UNCHANGED dev
     \/ /\ ~Cancelled
        /\ DevAt(s, "listening")
        /\ pc' = [pc EXCEPT ![s].at = "control", ![s].started = TRUE]
        /\ UNCHANGED faults
     \/ /\ IF Cancelled THEN UNCHANGED faults ELSE Fails
        /\ DevAt(s, "listening")
        /\ Fail(s, IF Cancelled THEN "cancel" ELSE "error", "cleanup", FALSE)
  /\ UNCHANGED <<lock, forwards, lost, link>>
  /\ PcFrame

\* The control connection is retried until the service listens, or a deadline.
ConnectControl(s) ==
  /\ pc[s].at = "control"
  /\ \/ /\ Cancelled
        /\ Fail(s, "cancel", "cleanup", pc[s].started)
        /\ UNCHANGED <<link, dev, faults>>
     \/ /\ ~Cancelled
        /\ dev[s].at = "listening"
        /\ DevAt(s, "accepted")
        /\ link' = [link EXCEPT ![s].ctl = "open"]
        /\ PcAt(s, "ack")
        /\ UNCHANGED faults
     \/ /\ IF dev[s].at = "listening" THEN Fails ELSE UNCHANGED faults
        /\ Fail(s, "error", "cleanup", pc[s].started)
        /\ UNCHANGED <<link, dev>>
  /\ UNCHANGED <<lock, forwards, lost>>
  /\ PcFrame

ReadUp(s) == link' = [link EXCEPT ![s].up = Tail(@)]

\* The peer is gone and its last line was read.
ControlEof(s) == link[s].ctl # "open" /\ link[s].up = <<>>

\* Only the service's own acknowledgement makes the channel usable; any other end of
\* the wait closes the socket, and the cleanup knows of no channel then.
ReadAcknowledgement(s) ==
  /\ pc[s].at = "ack"
  /\ \/ /\ Cancelled
        /\ Fail(s, "cancel", "cleanup", pc[s].started)
        /\ link' = [link EXCEPT ![s].ctl = "shut"]
        /\ UNCHANGED faults
     \/ /\ ~Cancelled
        /\ link[s].up # <<>>
        /\ \/ /\ Head(link[s].up) = "ACCEPTED"
              /\ ReadUp(s)
              /\ PcAt(s, "status")
           \/ /\ Head(link[s].up) # "ACCEPTED"
              /\ link' = [link EXCEPT ![s].up = Tail(@), ![s].ctl = "shut"]
              /\ Fail(s, "error", "cleanup", pc[s].started)
        /\ UNCHANGED faults
     \/ /\ IF ControlEof(s) THEN UNCHANGED faults ELSE Fails
        /\ PcAt(s, "control")
        /\ link' = [link EXCEPT ![s].ctl = "shut"]
  /\ UNCHANGED <<lock, forwards, lost, dev>>
  /\ PcFrame

\* The service asked for access and will not ask again, but has none: the desktop's
\* deadline is what ends the wait.
Silent(s) == dev[s].at = "access" /\ dev[s].asked /\ granted = "none"

\* The status lines until READY, whose proof is checked, ends the preparation.
ReadStatus(s) ==
  /\ pc[s].at = "status"
  /\ \/ /\ Cancelled
        /\ Fail(s, "cancel", "cleanup", TRUE)
        /\ UNCHANGED <<link, lock, faults>>
     \/ /\ ~Cancelled
        /\ link[s].up # <<>>
        /\ ReadUp(s)
        /\ \/ /\ Head(link[s].up) = "ERROR"
              /\ Fail(s, "error", "cleanup", FALSE)
              /\ UNCHANGED lock
           \/ /\ Head(link[s].up) = "PERMISSION_REQUIRED"
              /\ PcAt(s, "grant")
              /\ UNCHANGED lock
           \/ /\ Head(link[s].up) = "READY"
              /\ PcAt(s, "connect")
              /\ lock' = 0
        /\ UNCHANGED faults
     \/ /\ IF ControlEof(s) \/ (link[s].up = <<>> /\ Silent(s))
           THEN UNCHANGED faults ELSE Fails
        /\ Fail(s, "error", "cleanup", TRUE)
        /\ UNCHANGED <<link, lock>>
  /\ UNCHANGED <<forwards, lost, dev>>
  /\ PcFrame

\* Android's picker, up to ten minutes, with the preparation lock held.
GrantAccess(s) ==
  /\ pc[s].at = "grant"
  /\ \/ Cancelled /\ Fail(s, "cancel", "cleanup", TRUE) /\ UNCHANGED granted
     \/ granted' = "saf" /\ PcAt(s, "status")
     \/ Fail(s, "error", "cleanup", TRUE) /\ UNCHANGED granted
  /\ UNCHANGED <<coordVars, cancel, abort, lock, forwards, lost, link, dev, store,
                 scenario, faults>>

-----------------------------------------------------------------------------
(* A stream thread: _upload_entry_batch *)

\* The service's data socket takes one connection while it waits for it.
ConnectData(s) ==
  /\ pc[s].at = "connect"
  /\ \/ /\ Cancelled
        /\ Fail(s, "cancel", "cleanup", TRUE)
        /\ UNCHANGED <<link, faults>>
     \/ /\ ~Cancelled
        /\ dev[s].at = "ready"
        /\ link' = [link EXCEPT ![s].data = "open"]
        /\ PcAt(s, "sending")
        /\ UNCHANGED faults
     \/ /\ IF dev[s].at = "ready" THEN Fails ELSE UNCHANGED faults
        /\ Fail(s, "error", "fetch", TRUE)
        /\ UNCHANGED link
  /\ UNCHANGED <<lock, forwards, lost, dev>>
  /\ PcFrame

Frame(entry, intact) == [entry |-> entry, intact |-> intact]
Tag == Frame("tag", TRUE)

\* One entry, or the transcript's tag after the last; an entry may be damaged on
\* its way, and its file may turn out to have changed on disk.
Send(s) ==
  /\ pc[s].at = "sending"
  /\ \/ /\ Cancelled
        /\ Fail(s, "cancel", "cleanup", TRUE)
        /\ UNCHANGED <<link, faults>>
     \/ /\ ~Cancelled
        /\ link[s].data = "open"
        /\ pc[s].sent < Len(pc[s].batch)
        /\ \E intact \in BOOLEAN :
             /\ IF intact THEN UNCHANGED faults ELSE Fails
             /\ link' = [link EXCEPT ![s].frames =
                           Append(@, Frame(pc[s].batch[pc[s].sent + 1], intact))]
        /\ pc' = [pc EXCEPT ![s].sent = @ + 1]
     \/ /\ ~Cancelled
        /\ link[s].data = "open"
        /\ pc[s].sent = Len(pc[s].batch)
        /\ link' = [link EXCEPT ![s].frames = Append(@, Tag)]
        /\ PcAt(s, "reply")
        /\ UNCHANGED faults
     \/ /\ IF link[s].data = "open" THEN Fails ELSE UNCHANGED faults
        /\ Fail(s, "error", "fetch", TRUE)
        /\ UNCHANGED link
  /\ UNCHANGED <<lock, forwards, lost, dev>>
  /\ PcFrame

\* Mutant: a closed connection passes for the service's answer.
ReadReplyOrEof(s) ==
  /\ pc[s].at = "reply"
  /\ link[s].reply \/ link[s].data = "shut"
  /\ Fail(s, "none", "cleanup", FALSE)
  /\ UNCHANGED <<lock, forwards, lost, link, dev, faults>>
  /\ PcFrame

\* Mutant: the wait for the answer knows neither a timeout nor the end of the stream.
AwaitReply(s) ==
  /\ pc[s].at = "reply"
  /\ \/ /\ Cancelled
        /\ Fail(s, "cancel", "cleanup", TRUE)
     \/ /\ ~Cancelled
        /\ link[s].reply
        /\ Fail(s, "none", "cleanup", FALSE)
  /\ UNCHANGED <<lock, forwards, lost, link, dev, faults>>
  /\ PcFrame

\* Only the authenticated answer with the right counts is success.
ReadReply(s) ==
  /\ pc[s].at = "reply"
  /\ \/ /\ Cancelled
        /\ Fail(s, "cancel", "cleanup", TRUE)
        /\ UNCHANGED faults
     \/ /\ ~Cancelled
        /\ link[s].reply
        /\ Fail(s, "none", "cleanup", FALSE)
        /\ UNCHANGED faults
     \/ /\ IF link[s].data = "shut" /\ ~link[s].reply THEN UNCHANGED faults ELSE Fails
        /\ Fail(s, "error", "fetch", TRUE)
  /\ UNCHANGED <<lock, forwards, lost, link, dev>>
  /\ PcFrame

\* One more second for the service's own account of the failure.  ERROR lines
\* that tell of a denied write are told from the others.
FetchError(s) ==
  /\ pc[s].at = "fetch"
  /\ \/ /\ ~Cancelled
        /\ link[s].up # <<>>
        /\ Fail(s, IF Head(link[s].up) = "DENIED" THEN "permission" ELSE "error",
                "cleanup", FALSE)
        /\ ReadUp(s)
     \/ /\ PcAt(s, "cleanup")
        /\ UNCHANGED link
  /\ UNCHANGED <<lock, forwards, lost, dev, faults>>
  /\ PcFrame

\* The channel half of the cleanup: the data socket is closed, CANCEL or CLOSE is
\* said, and the control socket is closed.
Disconnect(s) ==
  link' = [link EXCEPT
             ![s].data = IF @ = "open" THEN "shut" ELSE @,
             ![s].down = IF link[s].ctl # "open" THEN @
                         ELSE Append(@, IF pc[s].signal THEN "CANCEL" ELSE "CLOSE"),
             ![s].ctl = IF @ = "open" THEN "shut" ELSE @]

\* Mutant: a cancellation that Android did not acknowledge ends the cleanup.
CleanUpUnlessRefused(s) ==
  /\ pc[s].at = "cleanup"
  /\ Disconnect(s)
  /\ \/ /\ dev' = [dev EXCEPT ![s].cancelled = @ \/ (pc[s].signal /\ pc[s].started)]
        /\ forwards' = forwards \ {s}
        /\ UNCHANGED faults
     \/ pc[s].signal /\ pc[s].started /\ Fails /\ UNCHANGED <<dev, forwards>>
  /\ lock' = IF lock = s THEN 0 ELSE lock
  /\ PcAt(s, "done")
  /\ UNCHANGED lost
  /\ PcFrame

\* _cleanup_session_files pops the handle, so that it runs once: the channel, then
\* an intent that cancels this session alone, then adb forward --remove whether or
\* not Android acknowledged; the lock goes last, when the stream still holds it.
CleanUp(s) ==
  /\ pc[s].at = "cleanup"
  /\ Disconnect(s)
  /\ \/ /\ dev' = [dev EXCEPT ![s].cancelled = @ \/ (pc[s].signal /\ pc[s].started)]
        /\ forwards' = forwards \ {s}
        /\ UNCHANGED <<lost, faults>>
     \/ /\ pc[s].signal /\ pc[s].started
        /\ Fails
        /\ forwards' = forwards \ {s}
        /\ UNCHANGED <<dev, lost>>
     \/ /\ Fails
        /\ dev' = [dev EXCEPT ![s].cancelled = @ \/ (pc[s].signal /\ pc[s].started)]
        /\ lost' = lost \cup {s}
        /\ UNCHANGED forwards
  /\ lock' = IF lock = s THEN 0 ELSE lock
  /\ PcAt(s, "done")
  /\ PcFrame

Stream(s) ==
  \/ CreateForward(s) \/ StartService(s)
  \/ ConnectControl(s) \/ ReadAcknowledgement(s) \/ ReadStatus(s)
  \/ GrantAccess(s)
  \/ ConnectData(s) \/ Send(s) \/ ReadReply(s) \/ FetchError(s)
  \/ CleanUp(s)

-----------------------------------------------------------------------------
(* Android: runSession and the threads beside it *)

DevFrame == UNCHANGED <<coordVars, cancel, abort, lock, pc, forwards, lost>>
Waits    == {"listening", "accepted", "access", "ready", "receiving", "payload"}

\* The end of runSession: an error is told over the control channel unless the
\* session was cancelled; every socket goes.  So does the temporary file of the entry
\* being received, unless the provider or the volume refuses: the cleanup ignores that.
EndLeaving(s, line, half) ==
  /\ \E kept \in SUBSET (dev[s].temps \cap {dev[s].file}) :
       dev' = [dev EXCEPT ![s].at = "ended",
                          ![s].temps  = (@ \ {dev[s].file}) \cup kept,
                          ![s].litter = @ \cup kept,
                          ![s].torn   = @ \cup half]
  /\ link' = [link EXCEPT
                ![s].up = IF line # "none" /\ link[s].ctl = "open" /\ ~dev[s].cancelled
                          THEN Append(@, line) ELSE @,
                ![s].ctl = IF @ = "open" THEN "shut" ELSE @,
                ![s].data = IF @ = "open" THEN "shut" ELSE @]

End(s, line) == EndLeaving(s, line, {})

\* Every wait of a session looks at its cancelled flag, and cancel closes the
\* sockets that the session reads.
StopWhenCancelled(s) ==
  /\ dev[s].at \in Waits
  /\ dev[s].cancelled
  /\ End(s, "none")
  /\ UNCHANGED <<store, envVars, faults>>
  /\ DevFrame

\* Mutant: a session that waits for its peer waits for ever.
NeverExpire(s) ==
  /\ dev[s].at = "access"
  /\ dev[s].asked
  /\ Fails
  /\ End(s, "ERROR")
  /\ UNCHANGED <<store, envVars>>
  /\ DevFrame

\* The bounded waits: the control accept, the request, the grant, the data accept
\* and the socket timeout.  While the desktop still serves the session a timeout
\* counts as a fault, afterwards it is a matter of time.
Expire(s) ==
  /\ dev[s].at \in Waits
  /\ IF pc[s].at = "done" THEN UNCHANGED faults ELSE Fails
  /\ End(s, "ERROR")
  /\ UNCHANGED <<store, envVars>>
  /\ DevFrame

\* The request is parsed and acknowledged, unless the channel is gone already.
Acknowledge(s) ==
  /\ dev[s].at = "accepted"
  /\ ~dev[s].cancelled
  /\ IF link[s].ctl = "open"
     THEN /\ link' = [link EXCEPT ![s].up = Append(@, "ACCEPTED")]
          /\ DevAt(s, "access")
     ELSE End(s, "none")
  /\ UNCHANGED <<store, envVars, faults>>
  /\ DevFrame

\* waitForDestinationAccess: resolved access is pinned and READY published; a
\* missing grant is asked for once.
ResolveAccess(s) ==
  /\ dev[s].at = "access"
  /\ ~dev[s].cancelled
  /\ IF link[s].ctl # "open" THEN (granted # "none" \/ ~dev[s].asked) /\ End(s, "none")
     ELSE \/ /\ granted # "none"
             /\ link' = [link EXCEPT ![s].up = Append(@, "READY")]
             /\ dev' = [dev EXCEPT ![s].at = "ready", ![s].ready = TRUE]
          \/ /\ granted = "none"
             /\ ~dev[s].asked
             /\ link' = [link EXCEPT ![s].up = Append(@, "PERMISSION_REQUIRED")]
             /\ dev' = [dev EXCEPT ![s].asked = TRUE]
  /\ UNCHANGED <<store, envVars, faults>>
  /\ DevFrame

\* A persisted tree whose provider is gone or refuses the write probe is discarded,
\* and a direct fallback that fails its probe loses its approval: access must be
\* granted anew.
DiscardAccess(s) ==
  /\ dev[s].at = "access"
  /\ ~dev[s].cancelled
  /\ granted # "none"
  /\ Fails
  /\ granted' = "none"
  /\ UNCHANGED <<dev, link, store, scenario>>
  /\ DevFrame

\* The control monitor.  Before READY a closed channel cancels the session, after
\* READY the authenticated transfer may go on without it.
Monitor(s) ==
  /\ dev[s].at \notin {"none", "listening", "accepted", "ended"}
  /\ ~dev[s].cancelled
  /\ \/ /\ link[s].down # <<>>
        /\ link' = [link EXCEPT ![s].down = Tail(@)]
        /\ dev' = [dev EXCEPT ![s].cancelled =
                     Head(link[s].down) = "CANCEL" \/ ~dev[s].ready]
     \/ /\ link[s].down = <<>>
        /\ link[s].ctl = "shut"
        /\ ~dev[s].ready
        /\ dev' = [dev EXCEPT ![s].cancelled = TRUE]
        /\ UNCHANGED link
  /\ UNCHANGED <<store, envVars, faults>>
  /\ DevFrame

\* The only connection is accepted; a session of no entries is refused.
AcceptData(s) ==
  /\ dev[s].at = "ready"
  /\ ~dev[s].cancelled
  /\ link[s].data # "none"
  /\ IF pc[s].batch = <<>> THEN End(s, "ERROR")
     ELSE DevAt(s, "receiving") /\ UNCHANGED link
  /\ UNCHANGED <<store, envVars, faults>>
  /\ DevFrame

-----------------------------------------------------------------------------
(* Android: handleUpload, receiveFile and receiveDirectFile *)

Broken(s) == link[s].data = "shut"

\* A temporary file beside the target; a direct write may be denied on removable
\* storage.
BeginFile(s) ==
  /\ dev[s].at = "receiving"
  /\ ~dev[s].cancelled
  /\ link[s].frames # <<>>
  /\ Head(link[s].frames).entry \in Files
  /\ \/ /\ dev' = [dev EXCEPT ![s].at = "payload",
                              ![s].file  = Head(link[s].frames).entry,
                              ![s].temps = @ \cup {Head(link[s].frames).entry}]
        /\ UNCHANGED <<link, faults>>
     \/ /\ granted = "direct"
        /\ Fails
        /\ End(s, "DENIED")
  /\ UNCHANGED <<store, envVars>>
  /\ DevFrame

\* A directory is looked up or created under the directory mutation lock.
MakeDirectory(s) ==
  /\ dev[s].at = "receiving"
  /\ ~dev[s].cancelled
  /\ link[s].frames # <<>>
  /\ Head(link[s].frames).entry \in Dirs
  /\ store' = [store EXCEPT ![Head(link[s].frames).entry] = "new"]
  /\ dev' = [dev EXCEPT ![s].got = @ + 1]
  /\ link' = [link EXCEPT ![s].frames = Tail(@)]
  /\ UNCHANGED <<envVars, faults>>
  /\ DevFrame

\* receiveVerifiedPayload: size, digest and authenticator of the payload.
VerifyPayload(s) ==
  /\ dev[s].at = "payload"
  /\ ~dev[s].cancelled
  /\ IF Head(link[s].frames).intact
     THEN /\ link' = [link EXCEPT ![s].frames = Tail(@)]
          /\ DevAt(s, "verified")
     ELSE End(s, "ERROR")
  /\ UNCHANGED <<store, envVars, faults>>
  /\ DevFrame

\* The connection ends in the middle of an entry or between two.
ConnectionEnds(s) ==
  /\ dev[s].at \in {"receiving", "payload"}
  /\ Broken(s)
  /\ End(s, "ERROR")
  /\ UNCHANGED <<store, envVars, faults>>
  /\ DevFrame

\* From here to the next read a cancellation is not noticed.  The old target is
\* deleted first, when there is one.
DeleteTarget(s) ==
  /\ dev[s].at = "verified"
  /\ \/ /\ store' = [store EXCEPT ![dev[s].file] = "none"]
        /\ DevAt(s, "placing")
        /\ UNCHANGED <<link, faults>>
     \/ /\ store[dev[s].file] # "none"
        /\ Fails
        /\ End(s, "ERROR")
        /\ UNCHANGED store
  /\ UNCHANGED envVars
  /\ DevFrame

\* The target is complete; its temporary file has become it, or was deleted after the
\* copy, or stays because that deletion failed and nobody looks at its result.
Stored(s, kept) ==
  /\ store' = [store EXCEPT ![dev[s].file] = "new"]
  /\ dev' = [dev EXCEPT ![s].at = "receiving", ![s].got = @ + 1, ![s].file = "none",
                        ![s].temps  = (@ \ {dev[s].file}) \cup kept,
                        ![s].litter = @ \cup kept]
  /\ UNCHANGED link

\* Rename the temporary file; where the provider cannot, copy it.
PlaceTarget(s) ==
  /\ dev[s].at = "placing"
  /\ IF scenario.renames THEN Stored(s, {})
     ELSE /\ store' = [store EXCEPT ![dev[s].file] = "partial"]
          /\ DevAt(s, "copying")
          /\ UNCHANGED link
  /\ UNCHANGED <<envVars, faults>>
  /\ DevFrame

\* A copy that is done: the temporary file is of no more use.
Copied(s) ==
  \/ Stored(s, {}) /\ UNCHANGED faults
  \/ Fails /\ Stored(s, {dev[s].file})

\* Mutant: a copy that fails half way is left where it is.
CopyOrLeave(s) ==
  /\ dev[s].at = "copying"
  /\ \/ Copied(s)
     \/ Fails /\ End(s, "ERROR") /\ UNCHANGED store
  /\ UNCHANGED envVars
  /\ DevFrame

\* copyDocument and copyDirectFile: a failed copy is deleted, unless that fails as well.
\* When it is the deletion of the temporary document that throws, the session ends
\* with an error although the target is complete.
CopyTarget(s) ==
  /\ dev[s].at = "copying"
  /\ \/ Copied(s)
     \/ /\ Fails
        /\ store' = [store EXCEPT ![dev[s].file] = "none"]
        /\ End(s, "ERROR")
     \/ /\ Fails
        /\ EndLeaving(s, "ERROR", {dev[s].file})
        /\ UNCHANGED store
     \/ /\ granted # "direct"
        /\ Fails
        /\ store' = [store EXCEPT ![dev[s].file] = "new"]
        /\ End(s, "ERROR")
  /\ UNCHANGED envVars
  /\ DevFrame

\* All entries are in and the transcript's tag is right: the terminal answer.
Reply(s) ==
  /\ dev[s].at = "receiving"
  /\ ~dev[s].cancelled
  /\ link[s].frames = <<Tag>>
  /\ dev' = [dev EXCEPT ![s].at = "ended"]
  /\ link' = [link EXCEPT ![s].frames = <<>>,
                          ![s].reply = link[s].data = "open",
                          ![s].ctl = IF @ = "open" THEN "shut" ELSE @,
                          ![s].data = "shut"]
  /\ UNCHANGED <<store, envVars, faults>>
  /\ DevFrame

Service(s) ==
  \/ StopWhenCancelled(s) \/ Expire(s)
  \/ Acknowledge(s) \/ ResolveAccess(s) \/ AcceptData(s)
  \/ BeginFile(s) \/ MakeDirectory(s) \/ VerifyPayload(s) \/ ConnectionEnds(s)
  \/ DeleteTarget(s) \/ PlaceTarget(s) \/ CopyTarget(s) \/ Reply(s)

-----------------------------------------------------------------------------
(* The network, and Android stopping the service *)

LoseControl(s) ==
  /\ link[s].ctl = "open"
  /\ Fails
  /\ link' = [link EXCEPT ![s].ctl = "shut"]
  /\ UNCHANGED <<dev, store, envVars>>
  /\ DevFrame

LoseData(s) ==
  /\ link[s].data = "open"
  /\ Fails
  /\ link' = [link EXCEPT ![s].data = "shut"]
  /\ UNCHANGED <<dev, store, envVars>>
  /\ DevFrame

\* onDestroy cancels every session of the service.
DestroyService ==
  /\ \E s \in Sessions : dev[s].at \notin {"none", "ended"}
  /\ Fails
  /\ dev' = [s \in Sessions |->
               IF dev[s].at \in {"none", "ended"} THEN dev[s]
               ELSE [dev[s] EXCEPT !.cancelled = TRUE]]
  /\ UNCHANGED <<link, store, envVars>>
  /\ DevFrame

Next ==
  \/ Coordinator
  \/ Cancel
  \/ \E s \in Sessions : Stream(s) \/ Service(s) \/ Monitor(s)
  \/ \E s \in Sessions : LoseControl(s) \/ LoseData(s) \/ DiscardAccess(s)
  \/ DestroyService

\* The threads keep running; the user and the faults are under no obligation.
Fairness ==
  /\ WF_vars(Coordinator)
  /\ \A s \in Sessions : /\ WF_vars(Stream(s))
                         /\ WF_vars(Service(s))
                         /\ WF_vars(Monitor(s))

Spec == Init /\ [][Next]_vars /\ Fairness

-----------------------------------------------------------------------------
(* Properties *)

TypeOK ==
  /\ phase \in {"new", "uploading", "granting", "ended"}
  /\ outcome \in {"running", "success", "failed", "cancelled"}
  /\ primary \in Kinds
  /\ streams \subseteq Sessions /\ reaped \subseteq streams /\ contested \in BOOLEAN
  /\ cancel \in BOOLEAN /\ abort \in BOOLEAN
  /\ lock \in Sessions \cup {0}
  /\ \A s \in Sessions : /\ pc[s].at \in PcLabels
                         /\ pc[s].fail \in Kinds
                         /\ dev[s].at \in DevLabels
                         /\ link[s].ctl \in {"none", "open", "shut"}
                         /\ link[s].data \in {"none", "open", "shut"}
  /\ forwards \subseteq Sessions /\ lost \subseteq Sessions
  /\ store \in [Entries -> {"none", "old", "new", "partial"}]
  /\ faults \in 0 .. scenario.faults

\* What a file holds for the promise: half a copy is not content yet, and what was
\* stored without verification is foreign.
Delivery == INSTANCE FileDelivery WITH
  Files   <- Entries,
  content <- [e \in Entries |-> IF store[e] = "partial" THEN "none" ELSE store[e]]

\* ACBridge P2P implements the promise of a transfer: success is announced only when
\* every entry is stored, and nothing changes a stored file after that
\* (_read_authenticated_response, handleUpload, the commit of receiveFile), unless the
\* second upload began while a session of the first was still at work.
DeliveryIsHonest == Delivery!Spec

\* A target is incomplete only while its session is copying it, and a session has no
\* temporary file but that of the entry it is receiving, whatever ends it: cancellation,
\* network loss, an error of the provider.  What stays otherwise, Android refused to
\* delete ("Partial files use temporary SAF documents and are removed after cancellation
\* or failure", README.md; the finally blocks of receiveFile and receiveDirectFile).
NoResidue ==
  /\ \A e \in Entries :
       store[e] = "partial" =>
         \E s \in Sessions : (dev[s].at = "copying" /\ dev[s].file = e) \/ e \in dev[s].torn
  /\ \A s \in Sessions, f \in Files :
       f \in dev[s].temps =>
         \/ f \in dev[s].litter
         \/ dev[s].file = f /\ dev[s].at \in {"payload", "verified", "placing", "copying"}

\* Whatever way a stream ends, its adb forward is gone, unless adb itself failed to
\* remove it; and the preparation lock is free for the next stream.
NothingIsHeld ==
  \A s \in Sessions : pc[s].at = "done" => (s \in forwards => s \in lost) /\ lock # s

\* An upload always comes to an end, whatever fails on the way.
UploadEnds == <>[](outcome # "running")

\* A session that Android started ends, also when the desktop never learned that it
\* was started, lost its connection, or cancelled while the session was committing.
SessionsEnd == \A s \in Sessions : (dev[s].at # "none") ~> (dev[s].at = "ended")
===============================================================================
