------------------------- MODULE BridgeHelperProofs -------------------------
(***************************************************************************)
(* Proofs about BridgeHelper, for any number of calls and of upsets: what  *)
(* the run device_work checks of the ACBridge helper.  IInv adds to the    *)
(* three properties that one call at a time holds the installation lock.   *)
(* A caller's step is reduced to what it makes of its own call (Allowed)   *)
(* and of the phone (PhoneKept, PhonePlaced), once for all its steps.      *)
(***************************************************************************)
EXTENDS BridgeHelper, TLAPS

GuardInv ==
  \A c, d \in Callers : HoldsGuard(bridgeCalls[c]) /\ HoldsGuard(bridgeCalls[d]) => c = d

IInv == BridgeTypeOK /\ GuardInv /\ InstallsAreNeeded /\ TrustIsEarned /\ DeletedPathIsGone

\* A caller may take the guard where nobody holds it, goes to install over an outdated
\* package only, trusts the bundled one only, and reports a path that is gone.
Allowed(c, call) ==
  /\ call \in BridgeCall
  /\ HoldsGuard(call) =>
       HoldsGuard(bridgeCalls[c]) \/ \A d \in Callers : ~HoldsGuard(bridgeCalls[d])
  /\ call.at = "install" => Outdated(phone.package)
  /\ Trusting(call) =>
       \/ phone.package = "exact"
       \/ Trusting(bridgeCalls[c]) /\ (bridgeCalls[c].surprised => call.surprised)
  /\ call.verdict = "deleted" =>
       \/ call.path \notin phone.paths
       \/ bridgeCalls[c].verdict = "deleted" /\ call.path = bridgeCalls[c].path

\* The phone keeps its package and the paths.
PhoneKept == phone' \in BridgePhone /\ phone'.package = phone.package
                                    /\ phone'.paths = phone.paths

\* Who holds the guard has installed the bundled helper.
PhonePlaced(c, call) ==
  /\ phone' \in BridgePhone /\ phone'.package = "exact" /\ phone'.paths = phone.paths
  /\ HoldsGuard(bridgeCalls[c]) /\ call.at # "install"

\* What a call that has ended knows.
LEMMA Ended ==
  ASSUME NEW call \in BridgeCall,
         NEW v \in {"cancelled", "query_failed", "failed", "newer", "unverified",
                    "current", "installed", "deleted", "granted", "loaded"}
  PROVE  /\ CallEnds(call, v) \in BridgeCall
         /\ CallEnds(call, v).at = "done"
         /\ CallEnds(call, v).verdict = v
         /\ CallEnds(call, v).path = call.path
         /\ CallEnds(call, v).surprised = call.surprised
BY DEF BridgeCall, CallEnds

\* Giving up is always allowed.
LEMMA GivingUp ==
  ASSUME NEW c \in Callers, NEW call \in BridgeCall,
         NEW v \in {"cancelled", "query_failed", "failed", "newer", "unverified"}
  PROVE  Allowed(c, CallEnds(call, v))
<1>1. /\ CallEnds(call, v) \in BridgeCall
      /\ CallEnds(call, v).at = "done"
      /\ CallEnds(call, v).verdict = v
  BY Ended
<1> QED BY <1>1 DEF Allowed, HoldsGuard, Trusting

\* What is allowed to a caller keeps the invariant.
LEMMA CallStep ==
  ASSUME IInv, NEW c \in Callers, NEW call, Allowed(c, call), CallGoes(c, call),
         PhoneKept \/ PhonePlaced(c, call)
  PROVE  IInv'
<1>1. bridgeCalls \in [Callers -> BridgeCall]
  BY DEF IInv, BridgeTypeOK
<1>2. bridgeCalls'[c] = call /\ \A d \in Callers \ {c} : bridgeCalls'[d] = bridgeCalls[d]
  BY <1>1 DEF CallGoes
<1>3. BridgeTypeOK'
  BY <1>1 DEF CallGoes, Allowed, PhoneKept, PhonePlaced, BridgeTypeOK
<1>4. GuardInv'
  BY <1>2 DEF IInv, GuardInv, Allowed
<1>5. InstallsAreNeeded'
  <2>1. ASSUME NEW d \in Callers, bridgeCalls'[d].at = "install"
        PROVE  bridgeCalls'[d].surprised \/ Outdated(phone'.package)
    <3>1. CASE PhoneKept
      BY <1>2, <2>1, <3>1 DEF IInv, InstallsAreNeeded, Allowed, PhoneKept
    <3>2. CASE PhonePlaced(c, call)
      BY <1>2, <2>1, <3>2 DEF IInv, GuardInv, HoldsGuard, PhonePlaced
    <3> QED BY <3>1, <3>2
  <2> QED BY <2>1 DEF InstallsAreNeeded
<1>6. TrustIsEarned'
  BY <1>2 DEF IInv, TrustIsEarned, Allowed, PhoneKept, PhonePlaced
<1>7. DeletedPathIsGone'
  BY <1>2 DEF IInv, DeletedPathIsGone, Allowed, PhoneKept, PhonePlaced
<1> QED BY <1>3, <1>4, <1>5, <1>6, <1>7 DEF IInv

\* So does the step of a caller that looks at its cancellation event after the command.
LEMMA BecomesStep ==
  ASSUME IInv, NEW c \in Callers, NEW call, Allowed(c, call), Becomes(c, call),
         PhoneKept \/ PhonePlaced(c, call)
  PROVE  IInv'
<1>1. bridgeCalls[c] \in BridgeCall
  BY DEF IInv, BridgeTypeOK
<1>2. CASE CallGoes(c, call)
  BY <1>2, CallStep
<1>3. CASE CallGoes(c, CallEnds(bridgeCalls[c], "cancelled"))
  <2>1. Allowed(c, CallEnds(bridgeCalls[c], "cancelled"))
    BY <1>1, GivingUp
  <2>2. CallEnds(bridgeCalls[c], "cancelled").at # "install"
    BY <1>1, Ended
  <2>3. PhoneKept \/ PhonePlaced(c, CallEnds(bridgeCalls[c], "cancelled"))
    BY <2>2 DEF PhonePlaced
  <2> QED BY <1>3, <2>1, <2>3, CallStep
<1> QED BY <1>2, <1>3 DEF Becomes

\* The phone stays as it is, or something goes wrong on it.
LEMMA Undisturbed == BridgeTypeOK /\ (Keeps \/ Upset) => PhoneKept
BY BridgeBounds DEF BridgeTypeOK, BridgePhone, Keeps, Upset, PhoneKept

\* A call that goes on to another place, inside the guard only where it was in it.
LEMMA GoingOn ==
  ASSUME IInv, NEW c \in Callers, NEW call \in BridgeCall, NEW at,
         call = [bridgeCalls[c] EXCEPT !.at = at],
         \/ at \in {"path", "confirm", "version", "verify"} /\ HoldsGuard(bridgeCalls[c])
         \/ at \in {"picker", "prepare", "start", "wait", "download", "check"}
              /\ Trusting(bridgeCalls[c])
  PROVE  Allowed(c, call)
<1>1. bridgeCalls[c] \in BridgeCall
  BY DEF IInv, BridgeTypeOK
<1>2. /\ call.at = at
      /\ call.path = bridgeCalls[c].path
      /\ call.verdict = bridgeCalls[c].verdict
      /\ call.surprised = bridgeCalls[c].surprised
      /\ call.kind = bridgeCalls[c].kind
  BY <1>1 DEF BridgeCall
<1> QED BY <1>1, <1>2 DEF Allowed, HoldsGuard, Trusting

\* What a call does with what a probe reports, as far as the invariant is concerned.
LEMMA DecidedStep ==
  ASSUME IInv, NEW c \in Callers, HoldsGuard(bridgeCalls[c]), NEW v \in Nat,
         v < VERSION_CODE => Outdated(phone.package)
  PROVE  Allowed(c, Decided(bridgeCalls[c], v))
<1> DEFINE call == bridgeCalls[c]
           seen == [call EXCEPT !.surprised = FALSE]
           again == [seen EXCEPT !.at = "path", !.tries = @ + 1]
           verify == [seen EXCEPT !.at = "verify"]
           install == [seen EXCEPT !.at = "install"]
<1>1. call \in BridgeCall
  BY DEF IInv, BridgeTypeOK
<1>2. /\ seen \in BridgeCall /\ seen.verdict = call.verdict /\ seen.path = call.path
      /\ seen.tries = call.tries
  BY <1>1 DEF BridgeCall
<1>3. ASSUME call.tries < 2
      PROVE  Allowed(c, again)
  <2>1. again \in BridgeCall /\ again.at = "path" /\ again.verdict = call.verdict
                             /\ again.path = call.path
    <3>1. seen.tries + 1 \in 0..2
      BY <1>2, <1>3 DEF BridgeCall
    <3> HIDE DEF seen, call
    <3>2. again \in BridgeCall
      BY <1>2, <3>1 DEF BridgeCall
    <3>3. again.at = "path" /\ again.verdict = seen.verdict /\ again.path = seen.path
      BY <1>2 DEF BridgeCall
    <3> QED BY <1>2, <3>2, <3>3
  <2> QED BY <2>1 DEF Allowed, Trusting
<1>4. Allowed(c, verify)
  <2>1. verify \in BridgeCall /\ verify.at = "verify" /\ verify.verdict = call.verdict
                              /\ verify.path = call.path
    BY <1>1 DEF BridgeCall
  <2> QED BY <2>1 DEF Allowed, Trusting
<1>5. ASSUME v < VERSION_CODE
      PROVE  Allowed(c, install)
  <2>1. install \in BridgeCall /\ install.at = "install" /\ install.verdict = call.verdict
                               /\ install.path = call.path
    BY <1>1 DEF BridgeCall
  <2> QED BY <1>5, <2>1 DEF Allowed, Trusting
<1>6. \A w \in {"query_failed", "failed", "newer"} : Allowed(c, CallEnds(seen, w))
  BY <1>2, GivingUp
<1> HIDE DEF seen
<1>7. \/ Decided(call, v) = again /\ call.tries < 2
      \/ Decided(call, v) = verify
      \/ Decided(call, v) = install /\ v < VERSION_CODE
      \/ \E w \in {"query_failed", "failed", "newer"} : Decided(call, v) = CallEnds(seen, w)
  BY DEF Decided, VERSION_CODE, seen
<1> QED BY <1>3, <1>4, <1>5, <1>6, <1>7

-----------------------------------------------------------------------------
(* One lemma for each step of a caller *)

\* _INSTALL_LOCK lets one call in, and a cancelled call gives up.
LEMMA EnterGuardStep == ASSUME IInv, NEW c \in Callers, EnterGuard(c) PROVE IInv'
<1> DEFINE call == [bridgeCalls[c] EXCEPT !.at = "path"]
<1>1. bridgeCalls[c] \in BridgeCall
  BY DEF IInv, BridgeTypeOK
<1>2. PhoneKept
  BY Undisturbed DEF EnterGuard, IInv
<1>3. CASE bridgeCalls[c].cancelled
  <2>1. CallGoes(c, CallEnds(bridgeCalls[c], "cancelled"))
    BY <1>3 DEF EnterGuard, Becomes
  <2> QED BY <1>1, <1>2, <2>1, GivingUp, CallStep
<1>4. CASE \A d \in Callers : ~HoldsGuard(bridgeCalls[d])
  <2>1. call \in BridgeCall /\ call.at = "path" /\ call.verdict = bridgeCalls[c].verdict
                            /\ call.path = bridgeCalls[c].path
    BY <1>1 DEF BridgeCall
  <2>2. Allowed(c, call)
    BY <1>4, <2>1 DEF Allowed, Trusting
  <2> QED BY <1>2, <2>2, BecomesStep DEF EnterGuard
<1> QED BY <1>3, <1>4 DEF EnterGuard

\* `pm path` alone never tells that there is no package unless there is none.
LEMMA QueryPathStep == ASSUME IInv, NEW c \in Callers, QueryPath(c) PROVE IInv'
<1> DEFINE call == bridgeCalls[c]
<1>1. call \in BridgeCall /\ call.at = "path" /\ HoldsGuard(call)
  BY DEF IInv, BridgeTypeOK, QueryPath, HoldsGuard
<1>2. PhoneKept
  BY Undisturbed DEF QueryPath, IInv
<1>3. Allowed(c, [call EXCEPT !.at = "version"]) /\ Allowed(c, [call EXCEPT !.at = "confirm"])
  <2>1. \A at \in {"version", "confirm"} : [call EXCEPT !.at = at] \in BridgeCall
    BY <1>1 DEF BridgeCall
  <2> QED BY <1>1, <2>1, GoingOn
<1>4. phone.package = "absent" => Allowed(c, Decided(call, 0))
  BY <1>1, DecidedStep DEF Outdated, VersionCode, VERSION_CODE
<1>5. Allowed(c, Decided(call, Unreadable))
  BY <1>1, DecidedStep DEF Unreadable, VERSION_CODE
<1> QED BY <1>2, <1>3, <1>4, <1>5, BecomesStep DEF QueryPath

\* A failed list is not an absence.
LEMMA ConfirmAbsenceStep == ASSUME IInv, NEW c \in Callers, ConfirmAbsence(c) PROVE IInv'
<1> DEFINE call == bridgeCalls[c]
<1>1. HoldsGuard(call)
  BY DEF ConfirmAbsence, HoldsGuard
<1>2. PhoneKept
  BY Undisturbed DEF ConfirmAbsence, IInv
<1>3. phone.package = "absent" => Allowed(c, Decided(call, 0))
  BY <1>1, DecidedStep DEF Outdated, VersionCode, VERSION_CODE
<1>4. Allowed(c, Decided(call, Unreadable))
  BY <1>1, DecidedStep DEF Unreadable, VERSION_CODE
<1> QED BY <1>2, <1>3, <1>4, BecomesStep DEF ConfirmAbsence

\* The versionCode that was read is the package's own.
LEMMA QueryVersionStep == ASSUME IInv, NEW c \in Callers, QueryVersion(c) PROVE IInv'
<1> DEFINE call == bridgeCalls[c]
<1>1. HoldsGuard(call)
  BY DEF QueryVersion, HoldsGuard
<1>2. PhoneKept
  BY Undisturbed DEF QueryVersion, IInv
<1>3. Allowed(c, Decided(call, VersionCode(phone.package)))
  <2>1. VersionCode(phone.package) \in Nat
    BY DEF VersionCode, VERSION_CODE
  <2> QED BY <1>1, <2>1, DecidedStep DEF Outdated
<1>4. Allowed(c, Decided(call, Unreadable))
  BY <1>1, DecidedStep DEF Unreadable, VERSION_CODE
<1> QED BY <1>2, <1>3, <1>4, BecomesStep DEF QueryVersion

\* The installation puts the bundled helper in place under the guard, and then asks again.
LEMMA InstallHelperStep == ASSUME IInv, NEW c \in Callers, InstallHelper(c) PROVE IInv'
<1> DEFINE call == bridgeCalls[c]
           next == [call EXCEPT !.at = "path", !.installed = TRUE]
           placed == [phone EXCEPT !.package = "exact"]
<1>1. call \in BridgeCall /\ HoldsGuard(call) /\ phone \in BridgePhone
  BY DEF IInv, BridgeTypeOK, InstallHelper, HoldsGuard
<1>2. Allowed(c, next) /\ next.at # "install"
  <2>1. next \in BridgeCall /\ next.at = "path" /\ next.verdict = call.verdict
                            /\ next.path = call.path
    BY <1>1 DEF BridgeCall
  <2> QED BY <1>1, <2>1 DEF Allowed, Trusting
<1>3. Allowed(c, CallEnds(call, "failed")) /\ CallEnds(call, "failed").at # "install"
  BY ZenonT(60), <1>1, GivingUp, Ended
<1>4. ASSUME NEW to, to.at # "install", phone' = placed
      PROVE  PhonePlaced(c, to)
  BY <1>1, <1>4 DEF PhonePlaced, BridgePhone, HelperPackages
<1>5. ASSUME NEW to, to.at # "install",
             phone.upsets > 0, phone' = [placed EXCEPT !.upsets = @ - 1]
      PROVE  PhonePlaced(c, to)
  <2>1. placed \in BridgePhone /\ placed.package = "exact" /\ placed.paths = phone.paths
        /\ placed.upsets = phone.upsets
    BY <1>1 DEF BridgePhone, HelperPackages
  <2> HIDE DEF placed
  <2> QED BY <1>1, <1>5, <2>1, BridgeBounds DEF PhonePlaced, BridgePhone
<1>6. Keeps \/ Upset => PhoneKept
  BY Undisturbed DEF IInv
<1> QED BY <1>2, <1>3, <1>4, <1>5, <1>6, BecomesStep DEF InstallHelper

\* The digest makes the call trust the bundled helper and no other.
LEMMA VerifyHelperStep == ASSUME IInv, NEW c \in Callers, VerifyHelper(c) PROVE IInv'
<1> DEFINE call == [bridgeCalls[c] EXCEPT !.surprised = FALSE]
<1>1. call \in BridgeCall
  BY ZenonT(60) DEF IInv, BridgeTypeOK, BridgeCall
<1>2. PhoneKept
  BY Undisturbed DEF VerifyHelper, IInv
<1>3. Allowed(c, CallEnds(call, "unverified"))
  BY <1>1, GivingUp
<1>4. ASSUME phone.package = "exact"
      PROVE  Allowed(c, Verified(call))
  <2>1. ASSUME NEW at \in {"picker", "prepare"}
        PROVE  Allowed(c, [call EXCEPT !.at = at])
    <3> DEFINE next == [call EXCEPT !.at = at]
    <3>1. next \in BridgeCall /\ next.at = at /\ next.verdict = bridgeCalls[c].verdict
                              /\ next.path = bridgeCalls[c].path
      BY <1>1 DEF BridgeCall, IInv, BridgeTypeOK
    <3> QED BY <1>4, <3>1 DEF Allowed, HoldsGuard
  <2>2. ASSUME NEW v \in {"installed", "current"}
        PROVE  Allowed(c, CallEnds(call, v))
    <3>1. /\ CallEnds(call, v) \in BridgeCall
          /\ CallEnds(call, v).at = "done"
          /\ CallEnds(call, v).verdict = v
      BY <1>1, Ended
    <3> QED BY <1>4, <3>1 DEF Allowed, HoldsGuard
  <2> QED BY <2>1, <2>2 DEF Verified
<1> QED BY <1>2, <1>3, <1>4, BecomesStep DEF VerifyHelper

\* The picker is another package.
LEMMA RestorePickerStep == ASSUME IInv, NEW c \in Callers, RestorePicker(c) PROVE IInv'
<1> DEFINE call == bridgeCalls[c]
           next == [call EXCEPT !.at = "prepare"]
<1>1. call \in BridgeCall /\ Trusting(call) /\ phone \in BridgePhone
  BY DEF IInv, BridgeTypeOK, RestorePicker, Trusting
<1>2. PhoneKept
  BY <1>1 DEF RestorePicker, Keeps, PhoneKept, BridgePhone
<1>3. Allowed(c, next)
  <2>1. next \in BridgeCall
    BY <1>1 DEF BridgeCall
  <2> QED BY <1>1, <2>1, GoingOn
<1> QED BY <1>2, <1>3, BecomesStep DEF RestorePicker

\* Old results are removed, or are not.
LEMMA PrepareRequestStep == ASSUME IInv, NEW c \in Callers, PrepareRequest(c) PROVE IInv'
<1> DEFINE call == bridgeCalls[c]
           next == [call EXCEPT !.at = "start"]
<1>1. call \in BridgeCall /\ Trusting(call) /\ phone \in BridgePhone
  BY DEF IInv, BridgeTypeOK, PrepareRequest, Trusting
<1>2. PhoneKept
  <2>1. /\ [phone EXCEPT !.export = FALSE] \in BridgePhone
        /\ [phone EXCEPT !.export = FALSE].package = phone.package
        /\ [phone EXCEPT !.export = FALSE].paths = phone.paths
    BY <1>1 DEF BridgePhone
  <2>2. /\ [phone EXCEPT !.result = "none"] \in BridgePhone
        /\ [phone EXCEPT !.result = "none"].package = phone.package
        /\ [phone EXCEPT !.result = "none"].paths = phone.paths
    BY <1>1 DEF BridgePhone
  <2> QED BY <2>1, <2>2, Undisturbed DEF PrepareRequest, PhoneKept, IInv
<1>3. Allowed(c, next)
  <2>1. next \in BridgeCall
    BY <1>1 DEF BridgeCall
  <2> QED BY <1>1, <2>1, GoingOn
<1>4. Allowed(c, CallEnds(call, "failed"))
  BY <1>1, GivingUp
<1> QED BY <1>2, <1>3, <1>4, BecomesStep DEF PrepareRequest

\* From the start of the activity on, only an export gives up for a cancellation.
LEMMA ProceedsStep ==
  ASSUME IInv, NEW c \in Callers, NEW call, Allowed(c, call), Proceeds(c, call),
         PhoneKept \/ PhonePlaced(c, call)
  PROVE  IInv'
BY CallStep, BecomesStep DEF Proceeds

\* A run comes up or does not.
LEMMA StartRequestStep == ASSUME IInv, NEW c \in Callers, StartRequest(c) PROVE IInv'
<1> DEFINE call == bridgeCalls[c]
           waits == [call EXCEPT !.at = "wait"]
           started == [phone EXCEPT !.runs = @ \cup {BridgeRun(call.kind, call.path)}]
<1>1. call \in BridgeCall /\ Trusting(call) /\ phone \in BridgePhone
  BY DEF IInv, BridgeTypeOK, StartRequest, Trusting
<1>2. /\ started \in BridgePhone
      /\ started.package = phone.package /\ started.paths = phone.paths
      /\ started.upsets = phone.upsets
  <2>1. BridgeRun(call.kind, call.path) \in BridgeRuns
    BY <1>1 DEF BridgeRun, BridgeRuns, BridgeCall
  <2> QED BY <1>1, <2>1 DEF BridgePhone
<1>3. PhoneKept
  <2>1. phone' = started => PhoneKept
    BY <1>2 DEF PhoneKept
  <2>2. phone.upsets > 0 /\ phone' = [started EXCEPT !.upsets = @ - 1] => PhoneKept
    <3> HIDE DEF started
    <3> QED BY <1>1, <1>2, BridgeBounds DEF PhoneKept, BridgePhone
  <2>3. Keeps \/ Upset => PhoneKept
    BY Undisturbed DEF IInv
  <2> QED BY <2>1, <2>2, <2>3 DEF StartRequest
<1>4. Allowed(c, waits)
  <2>1. waits \in BridgeCall
    BY <1>1 DEF BridgeCall
  <2> QED BY <1>1, <2>1, GoingOn
<1>5. Allowed(c, CallEnds(call, "failed"))
  BY <1>1, GivingUp
<1> QED BY <1>3, <1>4, <1>5, ProceedsStep DEF StartRequest

\* An answer ends a grant; a delete has still to look at the path.
LEMMA ReadAnswerStep == ASSUME IInv, NEW c \in Callers, ReadAnswer(c) PROVE IInv'
<1> DEFINE call == bridgeCalls[c]
           checks == [call EXCEPT !.at = "check"]
<1>1. call \in BridgeCall /\ Trusting(call)
  BY DEF IInv, BridgeTypeOK, ReadAnswer, Trusting
<1>2. PhoneKept
  BY Undisturbed DEF ReadAnswer, IInv
<1>3. Allowed(c, CallEnds(call, "failed"))
  BY <1>1, GivingUp
<1>4. Allowed(c, CallEnds(call, "granted"))
  <2>1. /\ CallEnds(call, "granted") \in BridgeCall
        /\ CallEnds(call, "granted").at = "done"
        /\ CallEnds(call, "granted").verdict = "granted"
        /\ CallEnds(call, "granted").surprised = call.surprised
    BY <1>1, Ended
  <2> QED BY <1>1, <2>1 DEF Allowed, HoldsGuard
<1>5. Allowed(c, checks)
  <2>1. checks \in BridgeCall
    BY <1>1 DEF BridgeCall
  <2> QED BY <1>1, <2>1, GoingOn
<1> QED BY <1>2, <1>3, <1>4, <1>5, CallStep DEF ReadAnswer

\* Without an answer the call has failed.
LEMMA AnswerMissingStep == ASSUME IInv, NEW c \in Callers, AnswerMissing(c) PROVE IInv'
<1>1. PhoneKept
  BY Undisturbed DEF AnswerMissing, IInv
<1>2. Allowed(c, CallEnds(bridgeCalls[c], "failed"))
  BY GivingUp DEF IInv, BridgeTypeOK
<1> QED BY <1>1, <1>2, ProceedsStep DEF AnswerMissing

\* The call goes on to the export.
LEMMA ExportIsThereStep == ASSUME IInv, NEW c \in Callers, ExportIsThere(c) PROVE IInv'
<1> DEFINE call == bridgeCalls[c]
           next == [call EXCEPT !.at = "download"]
<1>1. call \in BridgeCall /\ Trusting(call)
  BY DEF IInv, BridgeTypeOK, ExportIsThere, Trusting
<1>2. PhoneKept
  BY Undisturbed DEF ExportIsThere, IInv
<1>3. Allowed(c, next)
  <2>1. next \in BridgeCall
    BY <1>1 DEF BridgeCall
  <2> QED BY <1>1, <2>1, GoingOn
<1> QED BY <1>2, <1>3, BecomesStep DEF ExportIsThere

\* The export is loaded, or is gone.
LEMMA DownloadExportStep == ASSUME IInv, NEW c \in Callers, DownloadExport(c) PROVE IInv'
<1> DEFINE call == bridgeCalls[c]
<1>1. call \in BridgeCall /\ Trusting(call)
  BY DEF IInv, BridgeTypeOK, DownloadExport, Trusting
<1>2. PhoneKept
  BY Undisturbed DEF DownloadExport, Fetched, IInv
<1>3. Allowed(c, CallEnds(call, "failed"))
  BY <1>1, GivingUp
<1>4. Allowed(c, CallEnds(call, "loaded"))
  <2>1. /\ CallEnds(call, "loaded") \in BridgeCall
        /\ CallEnds(call, "loaded").at = "done"
        /\ CallEnds(call, "loaded").verdict = "loaded"
        /\ CallEnds(call, "loaded").surprised = call.surprised
    BY <1>1, Ended
  <2> QED BY <1>1, <2>1 DEF Allowed, HoldsGuard
<1> QED BY <1>2, <1>3, <1>4, BecomesStep DEF DownloadExport

\* delete_path reports what `[ -e path ]` has shown.
LEMMA CheckDeletedStep == ASSUME IInv, NEW c \in Callers, CheckDeleted(c) PROVE IInv'
<1> DEFINE call == bridgeCalls[c]
<1>1. call \in BridgeCall /\ Trusting(call)
  BY DEF IInv, BridgeTypeOK, CheckDeleted, Trusting
<1>2. PhoneKept
  BY Undisturbed DEF CheckDeleted, IInv
<1>3. Allowed(c, CallEnds(call, "failed"))
  BY <1>1, GivingUp
<1>4. ASSUME call.path \notin phone.paths
      PROVE  Allowed(c, CallEnds(call, "deleted"))
  <2>1. /\ CallEnds(call, "deleted") \in BridgeCall
        /\ CallEnds(call, "deleted").at = "done"
        /\ CallEnds(call, "deleted").path = call.path
        /\ CallEnds(call, "deleted").surprised = call.surprised
    BY <1>1, Ended
  <2> QED BY <1>1, <1>4, <2>1 DEF Allowed, HoldsGuard
<1> QED BY <1>2, <1>3, <1>4, CallStep DEF CheckDeleted

-----------------------------------------------------------------------------
(* The steps around the calls *)

\* A fresh call knows nothing.
LEMMA BeginCallStep ==
  ASSUME IInv, NEW c \in Callers, NEW k \in BridgeKinds, BeginCall(c, k) PROVE IInv'
<1> DEFINE call == FreshCall(k, phone.made + 1)
<1>1. phone \in BridgePhone /\ phone.made + 1 \in BridgePaths
  BY BridgeBounds DEF IInv, BridgeTypeOK, BeginCall, BridgePhone, BridgePaths
<1>2. Allowed(c, call)
  <2>1. call \in BridgeCall /\ call.at = "lock" /\ call.verdict = "none"
    BY <1>1 DEF FreshCall, BridgeCall
  <2> QED BY <2>1 DEF Allowed, HoldsGuard, Trusting
<1>3. PhoneKept
  BY <1>1 DEF BeginCall, PhoneKept, BridgePhone, BridgePaths
<1> QED BY <1>2, <1>3, CallStep DEF BeginCall, CallGoes

\* The cancellation event leaves everything else of the call alone.
LEMMA CancelCallStep == ASSUME IInv, NEW c \in Callers, CancelCall(c) PROVE IInv'
<1>1. bridgeCalls \in [Callers -> BridgeCall]
  BY DEF IInv, BridgeTypeOK
<1>2. BridgeTypeOK'
  BY ZenonT(60), <1>1 DEF CancelCall, BridgeCall, BridgeTypeOK, IInv
<1>3. /\ phone' = phone
      /\ \A d \in Callers : /\ bridgeCalls'[d].at = bridgeCalls[d].at
                            /\ bridgeCalls'[d].kind = bridgeCalls[d].kind
                            /\ bridgeCalls'[d].path = bridgeCalls[d].path
                            /\ bridgeCalls'[d].verdict = bridgeCalls[d].verdict
                            /\ bridgeCalls'[d].surprised = bridgeCalls[d].surprised
  BY <1>1 DEF CancelCall, BridgeCall
<1> QED BY <1>2, <1>3 DEF IInv, GuardInv, HoldsGuard, InstallsAreNeeded, TrustIsEarned,
                          Trusting, DeletedPathIsGone

\* What goes on in the phone touches neither the calls nor the package, and brings no
\* path back.
LEMMA PhoneStep ==
  ASSUME IInv, UNCHANGED bridgeCalls, phone' \in BridgePhone,
         phone'.package = phone.package, phone'.paths \subseteq phone.paths
  PROVE  IInv'
BY DEF IInv, BridgeTypeOK, GuardInv, InstallsAreNeeded, TrustIsEarned, DeletedPathIsGone

\* An activity that comes up removes the results.
LEMMA BeginRunStep == ASSUME IInv, NEW r \in BridgeRuns, BeginRun(r) PROVE IInv'
<1>1. phone \in BridgePhone /\ [r EXCEPT !.at = "working"] \in BridgeRuns
  BY DEF IInv, BridgeTypeOK, BridgeRuns
<1>2. phone' \in BridgePhone /\ phone'.package = phone.package /\ phone'.paths = phone.paths
  BY <1>1 DEF BeginRun, Advanced, BridgePhone
<1> QED BY <1>2, PhoneStep DEF BeginRun

\* An activity that works may delete its path.
LEMMA WorkRunStep == ASSUME IInv, NEW r \in BridgeRuns, WorkRun(r) PROVE IInv'
<1>1. /\ phone \in BridgePhone
      /\ \A says \in {"ok", "error"} :
           [r EXCEPT !.at = "writing", !.says = says] \in BridgeRuns
  BY DEF IInv, BridgeTypeOK, BridgeRuns
<1>2. ASSUME NEW next \in SUBSET BridgeRuns, NEW with \in BridgePhone, Advanced(r, next, with)
      PROVE  phone' \in BridgePhone /\ phone'.package = with.package
                                    /\ phone'.paths = with.paths
  BY <1>1, <1>2 DEF Advanced, BridgePhone
<1>3. /\ [phone EXCEPT !.paths = @ \ {r.path}] \in BridgePhone
      /\ [phone EXCEPT !.paths = @ \ {r.path}].package = phone.package
      /\ [phone EXCEPT !.paths = @ \ {r.path}].paths \subseteq phone.paths
  BY <1>1 DEF BridgePhone
<1>4. phone.upsets > 0 =>
      /\ [phone EXCEPT !.upsets = @ - 1] \in BridgePhone
      /\ [phone EXCEPT !.upsets = @ - 1].package = phone.package
      /\ [phone EXCEPT !.upsets = @ - 1].paths = phone.paths
  BY <1>1, BridgeBounds DEF BridgePhone
<1>5. phone' \in BridgePhone /\ phone'.package = phone.package
                             /\ phone'.paths \subseteq phone.paths
  BY <1>1, <1>2, <1>3, <1>4 DEF WorkRun
<1> QED BY <1>5, PhoneStep DEF WorkRun

\* An activity that ends writes a result, or nothing when it is killed.
LEMMA EndRunStep == ASSUME IInv, NEW r \in BridgeRuns, EndRun(r) PROVE IInv'
<1>1. phone \in BridgePhone /\ r.says \in {"ok", "error"}
  BY DEF IInv, BridgeTypeOK, BridgeRuns
<1>2. ASSUME NEW with \in BridgePhone, Advanced(r, {}, with)
      PROVE  phone' \in BridgePhone /\ phone'.package = with.package
                                    /\ phone'.paths = with.paths
  BY <1>2 DEF Advanced, BridgePhone
<1>3. /\ [phone EXCEPT !.result = r.says] \in BridgePhone
      /\ [phone EXCEPT !.result = r.says].package = phone.package
      /\ [phone EXCEPT !.result = r.says].paths = phone.paths
      /\ [phone EXCEPT !.export = TRUE] \in BridgePhone
      /\ [phone EXCEPT !.export = TRUE].package = phone.package
      /\ [phone EXCEPT !.export = TRUE].paths = phone.paths
  BY <1>1 DEF BridgePhone
<1>4. phone.upsets > 0 =>
      /\ [phone EXCEPT !.upsets = @ - 1] \in BridgePhone
      /\ [phone EXCEPT !.upsets = @ - 1].package = phone.package
      /\ [phone EXCEPT !.upsets = @ - 1].paths = phone.paths
  BY <1>1, BridgeBounds DEF BridgePhone
<1>5. phone' \in BridgePhone /\ phone'.package = phone.package /\ phone'.paths = phone.paths
  BY <1>1, <1>2, <1>3, <1>4 DEF EndRun
<1> QED BY <1>5, PhoneStep DEF EndRun

\* Every call is told that somebody else has changed the package.
LEMMA ChangePackageStep ==
  ASSUME IInv, NEW p \in HelperPackages, ChangePackage(p) PROVE IInv'
<1>1. bridgeCalls \in [Callers -> BridgeCall] /\ phone \in BridgePhone
  BY DEF IInv, BridgeTypeOK
<1>2. /\ bridgeCalls' \in [Callers -> BridgeCall]
      /\ \A d \in Callers : /\ bridgeCalls'[d].at = bridgeCalls[d].at
                            /\ bridgeCalls'[d].kind = bridgeCalls[d].kind
                            /\ bridgeCalls'[d].path = bridgeCalls[d].path
                            /\ bridgeCalls'[d].verdict = bridgeCalls[d].verdict
                            /\ bridgeCalls'[d].surprised
  BY ZenonT(60), <1>1 DEF ChangePackage, BridgeCall
<1>3. phone' \in BridgePhone /\ phone'.paths = phone.paths
  <2>1. phone.upsets - 1 \in 0..MaxUpsets
    BY <1>1, BridgeBounds DEF ChangePackage, BridgePhone
  <2> QED BY <1>1, <2>1 DEF ChangePackage, BridgePhone
<1> QED BY <1>2, <1>3 DEF IInv, BridgeTypeOK, GuardInv, HoldsGuard, InstallsAreNeeded,
                          TrustIsEarned, DeletedPathIsGone

-----------------------------------------------------------------------------
(* The theorems *)

\* The strengthened invariant: of all calls one at a time is inside _INSTALL_LOCK, and
\* what each knows of the package and of its path is true.
THEOREM HelperInvariance == BridgeSpec => []IInv
<1>1. BridgeInit => IInv
  <2> SUFFICES ASSUME BridgeInit PROVE IInv
    OBVIOUS
  <2>1. NoCall \in BridgeCall /\ NoCall.at = "idle" /\ NoCall.verdict = "none"
    <3>1. FreshCall("setup", 0) \in BridgeCall /\ FreshCall("setup", 0).verdict = "none"
      BY BridgeBounds DEF FreshCall, BridgeCall, BridgeKinds, BridgePaths
    <3> QED BY <3>1 DEF NoCall, BridgeCall
  <2>2. phone \in BridgePhone
    <3>1. PICK p \in HelperPackages, picker \in {"there", "missing", "disabled"} :
               phone = FreshPhone(p, picker)
      BY DEF BridgeInit
    <3>2. {} \in SUBSET BridgeRuns /\ BridgePaths \in SUBSET BridgePaths
      OBVIOUS
    <3> QED BY <3>1, <3>2, BridgeBounds DEF FreshPhone, BridgePhone
  <2>3. \A c \in Callers : bridgeCalls[c] = NoCall
    BY DEF BridgeInit
  <2> QED BY <2>1, <2>2, <2>3 DEF BridgeInit, IInv, BridgeTypeOK, GuardInv, HoldsGuard,
                                  InstallsAreNeeded, TrustIsEarned, Trusting, DeletedPathIsGone
<1>2. IInv /\ [BridgeNext]_bridgeVars => IInv'
  <2> SUFFICES ASSUME IInv, [BridgeNext]_bridgeVars PROVE IInv'
    OBVIOUS
  <2>1. ASSUME NEW c \in Callers, Calling(c)
        PROVE  IInv'
    BY <2>1, EnterGuardStep, QueryPathStep, ConfirmAbsenceStep, QueryVersionStep,
       InstallHelperStep, VerifyHelperStep, RestorePickerStep, PrepareRequestStep,
       StartRequestStep, ReadAnswerStep, AnswerMissingStep, ExportIsThereStep,
       DownloadExportStep, CheckDeletedStep DEF Calling
  <2>2. CASE UNCHANGED bridgeVars
    BY <2>2 DEF bridgeVars, IInv, BridgeTypeOK, GuardInv, InstallsAreNeeded, TrustIsEarned,
                DeletedPathIsGone
  <2> QED BY <2>1, <2>2, BeginCallStep, CancelCallStep, BeginRunStep, WorkRunStep, EndRunStep,
             ChangePackageStep DEF BridgeNext
<1> QED BY <1>1, <1>2, PTL DEF BridgeSpec

\* update_if_outdated and ensure_trusted install over an absent or an older helper only.
THEOREM InstallSafety == BridgeSpec => []InstallsAreNeeded
BY HelperInvariance, PTL DEF IInv

\* What is started on the phone, and reported as current or installed, is the bundled APK.
THEOREM TrustSafety == BridgeSpec => []TrustIsEarned
BY HelperInvariance, PTL DEF IInv

\* delete_path reports only a path that is gone, whatever answer it has read.
THEOREM DeletionSafety == BridgeSpec => []DeletedPathIsGone
BY HelperInvariance, PTL DEF IInv
=============================================================================
