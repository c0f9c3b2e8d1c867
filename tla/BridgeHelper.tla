---------------------------- MODULE BridgeHelper ----------------------------
(***************************************************************************)
(* The ACBridge helper on the phone and the calls of OpenADB that install  *)
(* and use it (ACBridgeClient in core/acbridge.py).  `setup` is the        *)
(* automatic update of the main window (update_if_outdated); `work` is a   *)
(* worker that deletes a path, asks for storage access or loads the data   *)
(* of applications, each after ensure_trusted.  Every command of adb is a  *)
(* step, so the two calls, the user of the phone and the activities that   *)
(* earlier calls have started run in between.  `bridgeCalls` is the        *)
(* computer, `phone` the device.                                           *)
(***************************************************************************)
EXTENDS Naturals

CONSTANTS
  MaxCalls,   \* bound: the calls that are made
  MaxUpsets   \* bound: commands that fail, intents that are lost, packages that others change

ASSUME BridgeBounds == MaxCalls \in Nat /\ MaxUpsets \in Nat

VARIABLES bridgeCalls, phone

bridgeVars == <<bridgeCalls, phone>>

Callers == {"setup", "work"}

-----------------------------------------------------------------------------
(* The package on the phone: none, an older one of the same signature or of *)
(* another, one that has the bundled versionCode and other bytes, the       *)
(* bundled one, a newer one.                                                *)

HelperPackages == {"absent", "older", "alien", "lookalike", "exact", "newer"}

VERSION_CODE == 2

VersionCode(p) ==
  CASE p = "absent" -> 0
    [] p \in {"older", "alien"} -> 1
    [] p \in {"lookalike", "exact"} -> VERSION_CODE
    [] OTHER -> VERSION_CODE + 1

Outdated(p) == VersionCode(p) < VERSION_CODE

\* PackageManager takes the bundled APK over a package of its signature that is not newer.
Accepts(p) == p \notin {"alien", "newer"}

\* What pm path, pm list packages and dumpsys together report: the version, 0 for no
\* package, or this.
Unreadable == VERSION_CODE + 2

BridgePaths == 0..MaxCalls

\* A call: what it is for, its path, where it stands, and what it knows.  `surprised` is a
\* history variable: somebody else has changed the package since the call last looked at it.
FreshCall(k, p) ==
  [at |-> "lock", kind |-> k, path |-> p, cancelled |-> FALSE, installed |-> FALSE,
   tries |-> 0, surprised |-> FALSE, verdict |-> "none"]

NoCall == [FreshCall("setup", 0) EXCEPT !.at = "idle"]

BridgeKinds == {"setup", "delete", "grant", "export"}

\* The phone: the package, the picker of storage trees, delete_result.txt, whether there
\* is an export, the paths that exist, and the runs of CommandActivity.
FreshPhone(p, picker) ==
  [package |-> p, picker |-> picker, result |-> "none", export |-> FALSE,
   paths |-> BridgePaths, runs |-> {}, made |-> 0, upsets |-> MaxUpsets]

BridgeRun(k, p) == [op |-> k, path |-> p, at |-> "queued", says |-> "ok"]

BridgeRuns ==
  [op : BridgeKinds, path : BridgePaths, at : {"queued", "working", "writing"},
   says : {"ok", "error"}]

BridgeInit ==
  /\ bridgeCalls = [c \in Callers |-> NoCall]
  /\ phone \in {FreshPhone(p, t) : p \in HelperPackages, t \in {"there", "missing", "disabled"}}

-----------------------------------------------------------------------------
(* The computer.                                                            *)

CallEnds(call, v) == [call EXCEPT !.at = "done", !.verdict = v]

CallGoes(c, call) == bridgeCalls' = [bridgeCalls EXCEPT ![c] = call]

\* Nearly every command is followed by a look at the cancellation event.
Becomes(c, call) ==
  CallGoes(c, IF bridgeCalls[c].cancelled THEN CallEnds(bridgeCalls[c], "cancelled") ELSE call)

Keeps == phone' = phone

Upset == phone.upsets > 0 /\ phone' = [phone EXCEPT !.upsets = @ - 1]

BeginCall(c, k) ==
  /\ bridgeCalls[c].at \in {"idle", "done"} /\ phone.made < MaxCalls
  /\ c = "setup" <=> k = "setup"
  /\ bridgeCalls' = [bridgeCalls EXCEPT ![c] = FreshCall(k, phone.made + 1)]
  /\ phone' = [phone EXCEPT !.made = @ + 1]

\* The user cancels, the device or its mode changes: token.cancel() sets the event.
CancelCall(c) ==
  /\ bridgeCalls[c].at \notin {"idle", "done"} /\ ~bridgeCalls[c].cancelled
  /\ bridgeCalls' = [bridgeCalls EXCEPT ![c].cancelled = TRUE]
  /\ UNCHANGED phone

\* update_if_outdated verifies the APK inside the guard, ensure_trusted after it.
HoldsGuard(call) ==
  \/ call.at \in {"path", "confirm", "version", "install"}
  \/ call.at = "verify" /\ call.kind = "setup"

\* Mutant: each client has a lock of its own.
EnterOwnGuard(c) ==
  /\ bridgeCalls[c].at = "lock"
  /\ Becomes(c, [bridgeCalls[c] EXCEPT !.at = "path"])
  /\ Keeps

\* _INSTALL_LOCK belongs to the class: all clients share it.
EnterGuard(c) ==
  /\ bridgeCalls[c].at = "lock"
  /\ bridgeCalls[c].cancelled \/ \A d \in Callers : ~HoldsGuard(bridgeCalls[d])
  /\ Becomes(c, [bridgeCalls[c] EXCEPT !.at = "path"])
  /\ Keeps

\* What a call does with what a probe reports: before the installation it installs over
\* nothing and over what is older, afterwards it wants the version it installed.  Only
\* update_if_outdated asks again and tells a newer helper apart.
Decided(call, v) ==
  LET seen == [call EXCEPT !.surprised = FALSE]
      setup == call.kind = "setup" IN
  CASE call.installed /\ setup /\ v \in {0, Unreadable} /\ call.tries < 2 ->
         [seen EXCEPT !.at = "path", !.tries = @ + 1]
    [] v = Unreadable -> CallEnds(seen, "query_failed")
    [] v = VERSION_CODE \/ (~setup /\ v > VERSION_CODE) -> [seen EXCEPT !.at = "verify"]
    [] call.installed -> CallEnds(seen, "failed")
    [] v > VERSION_CODE -> CallEnds(seen, "newer")
    [] OTHER -> [seen EXCEPT !.at = "install"]

\* `pm path`: without a package it prints nothing or fails, and what fails is ambiguous.
QueryPath(c) ==
  LET call == bridgeCalls[c] IN
  /\ call.at = "path"
  /\ \/ /\ phone.package # "absent" /\ Keeps
        /\ Becomes(c, [call EXCEPT !.at = "version"])
     \/ /\ phone.package = "absent" /\ Keeps
        /\ Becomes(c, Decided(call, 0)) \/ Becomes(c, [call EXCEPT !.at = "confirm"])
     \/ /\ Upset
        /\ \/ Becomes(c, Decided(call, Unreadable))
           \/ Becomes(c, [call EXCEPT !.at = "confirm"])

\* `pm list packages`: only a list without the package says that there is none.
ConfirmAbsence(c) ==
  LET call == bridgeCalls[c] IN
  /\ call.at = "confirm"
  /\ \/ /\ phone.package = "absent" /\ Keeps
        /\ Becomes(c, Decided(call, 0))
     \/ /\ (phone.package # "absent" /\ Keeps) \/ Upset
        /\ Becomes(c, Decided(call, Unreadable))

\* `dumpsys package`: one positive versionCode, or nothing is known.
QueryVersion(c) ==
  LET call == bridgeCalls[c] IN
  /\ call.at = "version"
  /\ \/ /\ phone.package # "absent" /\ Keeps
        /\ Becomes(c, Decided(call, VersionCode(phone.package)))
     \/ /\ (phone.package = "absent" /\ Keeps) \/ Upset
        /\ Becomes(c, Decided(call, Unreadable))

\* `adb install -r`: it may fail on the way, before or after the phone has done it.
InstallHelper(c) ==
  LET call == bridgeCalls[c]
      placed == [phone EXCEPT !.package = "exact"] IN
  /\ call.at = "install"
  /\ \/ /\ Accepts(phone.package) /\ phone' = placed
        /\ Becomes(c, [call EXCEPT !.at = "path", !.installed = TRUE])
     \/ /\ \/ ~Accepts(phone.package) /\ Keeps
           \/ Upset
           \/ call.cancelled /\ Keeps
           \/ /\ Accepts(phone.package) /\ phone.upsets > 0
              /\ phone' = [placed EXCEPT !.upsets = @ - 1]
        /\ Becomes(c, CallEnds(call, "failed"))

\* update_if_outdated ends with a trusted helper, a worker begins with it.
Verified(call) ==
  CASE call.kind = "grant" -> [call EXCEPT !.at = "picker"]
    [] call.kind # "setup" -> [call EXCEPT !.at = "prepare"]
    [] call.installed -> CallEnds(call, "installed")
    [] OTHER -> CallEnds(call, "current")

\* Mutant: the versionCode is enough.
VerifyVersion(c) ==
  LET call == [bridgeCalls[c] EXCEPT !.surprised = FALSE] IN
  /\ call.at = "verify" /\ Keeps
  /\ Becomes(c, IF VersionCode(phone.package) = VERSION_CODE THEN Verified(call)
                                                            ELSE CallEnds(call, "unverified"))

\* verify_bundled_apk: the path, the size and at last the digest of the bytes read back.
VerifyHelper(c) ==
  LET call == [bridgeCalls[c] EXCEPT !.surprised = FALSE] IN
  /\ call.at = "verify"
  /\ \/ /\ phone.package = "exact" /\ Keeps
        /\ Becomes(c, Verified(call))
     \/ /\ (phone.package # "exact" /\ Keeps) \/ Upset
        /\ Becomes(c, CallEnds(call, "unverified"))

-----------------------------------------------------------------------------
(* What the call is for, once the helper is trusted.                        *)

\* _restore_storage_tree_picker_if_needed: a stock picker that this user does not have is
\* installed again, a disabled one is left alone; the answer is not looked at.
RestorePicker(c) ==
  LET call == bridgeCalls[c] IN
  /\ call.at = "picker"
  /\ \/ Keeps
     \/ phone.picker = "missing" /\ phone' = [phone EXCEPT !.picker = "there"]
  /\ Becomes(c, [call EXCEPT !.at = "prepare"])

\* One command removes the results of earlier requests.  Only a grant looks whether it
\* did; a delete and an export go on.
PrepareRequest(c) ==
  LET call == bridgeCalls[c]
      prepared == [call EXCEPT !.at = "start"] IN
  /\ call.at = "prepare"
  /\ \/ /\ phone' = IF call.kind = "export" THEN [phone EXCEPT !.export = FALSE]
                                           ELSE [phone EXCEPT !.result = "none"]
        /\ Becomes(c, prepared)
     \/ /\ Upset
        /\ Becomes(c, IF call.kind = "grant" THEN CallEnds(call, "failed") ELSE prepared)

\* `am start`: the activity may come up although the command fails, and the other way
\* round.  From here on a delete and a grant look at the results of their commands only,
\* which a cancellation makes fail unless they have already ended.
Proceeds(c, call) == IF call.kind = "export" THEN Becomes(c, call) ELSE CallGoes(c, call)

StartRequest(c) ==
  LET call == bridgeCalls[c]
      waits == [call EXCEPT !.at = "wait"]
      started == [phone EXCEPT !.runs = @ \cup {BridgeRun(call.kind, call.path)}] IN
  /\ call.at = "start"
  /\ \/ /\ phone.package # "absent" /\ phone' = started
        /\ Proceeds(c, waits)
     \/ /\ Upset
        /\ Proceeds(c, waits) \/ Proceeds(c, CallEnds(call, "failed"))
     \/ /\ phone.package # "absent" /\ phone.upsets > 0
        /\ phone' = [started EXCEPT !.upsets = @ - 1]
        /\ Proceeds(c, CallEnds(call, "failed"))
     \/ /\ phone.package = "absent" \/ call.cancelled
        /\ Keeps /\ Proceeds(c, CallEnds(call, "failed"))

\* Mutant: the answer that was read decides.
BelieveAnswer(c) ==
  LET call == bridgeCalls[c] IN
  /\ call.at = "wait" /\ call.kind # "export" /\ phone.result # "none" /\ Keeps
  /\ CallGoes(c, CallEnds(call, IF phone.result = "ok" THEN "deleted" ELSE "failed"))

\* The result files have fixed names: the answer may be that of an earlier request, and
\* while an activity replaces the file the script prints none, which counts as success.
ReadAnswer(c) ==
  LET call == bridgeCalls[c] IN
  /\ call.at = "wait" /\ call.kind # "export" /\ phone.result # "none" /\ Keeps
  /\ \E read \in {phone.result} \cup IF phone.runs = {} THEN {} ELSE {"garbled"} :
       CallGoes(c, CASE read = "error" -> CallEnds(call, "failed")
                 [] call.kind = "grant" -> CallEnds(call, "granted")
                 [] OTHER -> [call EXCEPT !.at = "check"])

\* So may the export be.
ExportIsThere(c) ==
  LET call == bridgeCalls[c] IN
  /\ call.at = "wait" /\ call.kind = "export" /\ phone.export /\ Keeps
  /\ Becomes(c, [call EXCEPT !.at = "download"])

\* The script's loop ends, the command fails or is cancelled.
AnswerMissing(c) ==
  LET call == bridgeCalls[c] IN
  /\ call.at = "wait" /\ Keeps
  /\ Proceeds(c, CallEnds(call, "failed"))

\* A file is read through the shell or pulled; an empty one is no file.
Fetched == phone.export /\ Keeps

\* Without the labels the call has loaded nothing; another run may have removed them.
DownloadExport(c) ==
  LET call == bridgeCalls[c] IN
  /\ call.at = "download"
  /\ \/ Fetched /\ Becomes(c, CallEnds(call, "loaded"))
     \/ /\ (~phone.export /\ Keeps) \/ Upset
        /\ Becomes(c, CallEnds(call, "failed"))

\* `[ -e path ]` after what counted as success.
CheckDeleted(c) ==
  LET call == bridgeCalls[c] IN
  /\ call.at = "check"
  /\ \/ call.path \notin phone.paths /\ Keeps /\ CallGoes(c, CallEnds(call, "deleted"))
     \/ /\ ((call.path \in phone.paths \/ call.cancelled) /\ Keeps) \/ Upset
        /\ CallGoes(c, CallEnds(call, "failed"))

-----------------------------------------------------------------------------
(* The phone.                                                               *)

Advanced(r, next, with) ==
  phone' = [with EXCEPT !.runs = (@ \ {r}) \cup next]

\* The activity removes the old results; a grant leaves them.
BeginRun(r) ==
  /\ r \in phone.runs /\ r.at = "queued"
  /\ Advanced(r, {[r EXCEPT !.at = "working"]},
       CASE r.op = "export" -> [phone EXCEPT !.export = FALSE]
         [] r.op = "delete" -> [phone EXCEPT !.result = "none"]
         [] OTHER -> phone)
  /\ UNCHANGED bridgeCalls

\* A path that the helper may not see does not exist for it.  The user decides about a
\* grant; without a picker there is only the access to all files, or nothing.
WorkRun(r) ==
  /\ r \in phone.runs /\ r.at = "working"
  /\ \E says \in {"ok", "error"} :
       LET next == {[r EXCEPT !.at = "writing", !.says = says]} IN
       \/ /\ says = "ok" /\ r.op = "delete"
          /\ Advanced(r, next, [phone EXCEPT !.paths = @ \ {r.path}])
       \/ /\ says = "ok" /\ r.op = "delete" /\ phone.upsets > 0
          /\ Advanced(r, next, [phone EXCEPT !.upsets = @ - 1])
       \/ (says = "error" \/ r.op # "delete") /\ Advanced(r, next, phone)
  /\ UNCHANGED bridgeCalls

\* Its process may also be killed: then it writes nothing.
EndRun(r) ==
  /\ r \in phone.runs
  /\ \/ /\ r.at = "writing"
        /\ Advanced(r, {}, CASE r.op # "export" -> [phone EXCEPT !.result = r.says]
                             [] r.says = "ok" -> [phone EXCEPT !.export = TRUE]
                             [] OTHER -> phone)
     \/ phone.upsets > 0 /\ Advanced(r, {}, [phone EXCEPT !.upsets = @ - 1])
  /\ UNCHANGED bridgeCalls

\* Somebody else installs or removes the package.
ChangePackage(p) ==
  /\ phone.upsets > 0 /\ p # phone.package
  /\ phone' = [phone EXCEPT !.package = p, !.upsets = @ - 1]
  /\ bridgeCalls' = [c \in Callers |-> [bridgeCalls[c] EXCEPT !.surprised = TRUE]]

-----------------------------------------------------------------------------
Calling(c) ==
  \/ EnterGuard(c) \/ QueryPath(c) \/ ConfirmAbsence(c) \/ QueryVersion(c)
  \/ InstallHelper(c) \/ VerifyHelper(c) \/ RestorePicker(c)
  \/ PrepareRequest(c) \/ StartRequest(c) \/ ReadAnswer(c) \/ AnswerMissing(c)
  \/ ExportIsThere(c) \/ DownloadExport(c) \/ CheckDeleted(c)

BridgeNext ==
  \/ \E c \in Callers :
       \/ \E k \in BridgeKinds : BeginCall(c, k)
       \/ CancelCall(c)
       \/ Calling(c)
  \/ \E r \in BridgeRuns : BeginRun(r) \/ WorkRun(r) \/ EndRun(r)
  \/ \E p \in HelperPackages : ChangePackage(p)

BridgeSpec == BridgeInit /\ [][BridgeNext]_bridgeVars

-----------------------------------------------------------------------------
BridgeCall ==
  [at : {"idle", "lock", "path", "confirm", "version", "install", "verify", "picker",
         "prepare", "start", "wait", "download", "check", "done"},
   kind : BridgeKinds, path : BridgePaths, cancelled : BOOLEAN, installed : BOOLEAN,
   tries : 0..2, surprised : BOOLEAN,
   verdict : {"none", "cancelled", "query_failed", "failed", "newer", "unverified",
              "current", "installed", "deleted", "granted", "loaded"}]

BridgePhone ==
  [package : HelperPackages, picker : {"there", "missing", "disabled"},
   result : {"none", "ok", "error"}, export : BOOLEAN, paths : SUBSET BridgePaths,
   runs : SUBSET BridgeRuns, made : 0..MaxCalls, upsets : 0..MaxUpsets]

BridgeTypeOK == bridgeCalls \in [Callers -> BridgeCall] /\ phone \in BridgePhone

\* OpenADB runs `adb install` only over an absent or an older helper: a package that it
\* cannot read is never taken for none, a newer one is never downgraded, and a second
\* caller does not install what the first one just did (update_if_outdated,
\* _probe_installed_version, _INSTALL_LOCK in core/acbridge.py).
InstallsAreNeeded ==
  \A c \in Callers : bridgeCalls[c].at = "install" =>
    bridgeCalls[c].surprised \/ Outdated(phone.package)

Trusting(call) ==
  \/ call.at \in {"picker", "prepare", "start", "wait", "download", "check"}
  \/ call.at = "done" /\ call.verdict \in {"current", "installed", "deleted", "granted", "loaded"}

\* Whatever OpenADB starts on the phone, and reports as current or installed, is the
\* bundled helper, byte for byte, until somebody else replaces it (ensure_trusted,
\* verify_bundled_apk).
TrustIsEarned ==
  \A c \in Callers : Trusting(bridgeCalls[c]) =>
    bridgeCalls[c].surprised \/ phone.package = "exact"

\* A path reported as deleted is gone, whatever answer of whichever request was read
\* (delete_path).
DeletedPathIsGone ==
  \A c \in Callers : bridgeCalls[c].verdict = "deleted" =>
    bridgeCalls[c].path \notin phone.paths

=============================================================================
