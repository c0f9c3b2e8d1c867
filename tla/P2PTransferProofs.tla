-------------------------- MODULE P2PTransferProofs --------------------------
(***************************************************************************)
(* Proofs about P2PTransfer, for any set of files and directories, any     *)
(* number of streams and retries, and any number of faults.                *)
(*                                                                         *)
(* A session belongs to one stream thread on the desktop and one worker    *)
(* thread on Android.  Three facts make what they leave behind clean: the  *)
(* sessions in use are the first ones, so that a retry never reuses one    *)
(* (InOrder); a stream that has not prepared its session holds neither a   *)
(* forward nor the lock (Held); and Android knows nothing of a session     *)
(* before `am start` (NotStarted).  With them every step of a stream and   *)
(* every step of a session's worker concerns its own session only          *)
(* (StreamStep, WorkerStep), which is what both invariants need.           *)
(*                                                                         *)
(* The last two sections prove that an upload keeps the promise of         *)
(* FileDelivery.  First the plan: the streams' batches hold every entry    *)
(* once (BatchesSpread).  What a plan computes is found by induction over  *)
(* the files already dealt; the induction is over a set of numbers         *)
(* (AllNat, Iterates), since a theorem of the library that takes a         *)
(* predicate cannot be cited here.  Then the wire: what is under way on a  *)
(* session's socket is what lies between the last entry sent and the last  *)
(* one taken (Wire), so an answer means the whole batch was stored         *)
(* (Answered), and the batches of an attempt together are all entries      *)
(* (Shared).                                                               *)
(***************************************************************************)
EXTENDS P2PTransfer, FiniteSetTheorems, WellFoundedInduction, TLAPS

PcFields  == {"at", "batch", "sent", "fail", "started", "signal"}
DevFields == {"at", "got", "cancelled", "ready", "asked", "file", "temps", "litter",
              "torn"}

(* One record per session on either side, and a content per target.  What  *)
(* a batch holds does not matter here: the refinement below says it.       *)
Shape ==
  /\ DOMAIN pc = Sessions
  /\ \A s \in Sessions : DOMAIN pc[s] = PcFields
  /\ DOMAIN dev = Sessions
  /\ \A s \in Sessions : DOMAIN dev[s] = DevFields
  /\ store \in [Entries -> {"none", "old", "new", "partial"}]

(* The sessions are taken in order, and none twice.                        *)
InOrder == \E n \in Nat : Sessions \ Fresh = 1 .. n

(* Before its preparation a stream holds nothing, after its cleanup only   *)
(* what adb refused to give back.                                          *)
HeldBy(s) ==
  /\ pc[s].at \in {"unused", "waiting"} => s \notin forwards /\ lock # s
  /\ pc[s].at = "done" => (s \in forwards => s \in lost) /\ lock # s
Held == \A s \in Sessions : HeldBy(s)

(* Android knows a session only once `am start` was sent.                  *)
NotStarted ==
  \A s \in Sessions : pc[s].at \in {"unused", "waiting", "start"} => dev[s].at = "none"

(* The inductive invariant.                                                *)
IInv == Shape /\ InOrder /\ Held /\ NotStarted /\ NoResidue

(* What a session has at the destination, and that all of it is accounted  *)
(* for.                                                                    *)
SameTraces(s) ==
  /\ dev'[s].file = dev[s].file     /\ dev'[s].temps = dev[s].temps
  /\ dev'[s].litter = dev[s].litter /\ dev'[s].torn = dev[s].torn

Accounted(s) ==
  \A f \in Files :
    f \in dev[s].temps =>
      \/ f \in dev[s].litter
      \/ dev[s].file = f /\ dev[s].at \in {"payload", "verified", "placing", "copying"}

(* A step of the stream thread of s, for the other streams and Android: it *)
(* touches no other session, and of Android's only starts or accepts it.   *)
StreamStep(s) ==
  /\ Shape'
  /\ UNCHANGED store
  /\ pc[s].at # "unused"
  /\ pc'[s].at \notin {"unused", "waiting"}
  /\ pc'[s].at = "start" => dev'[s].at = "none"
  /\ HeldBy(s)'
  /\ dev'[s].at = dev[s].at \/ dev[s].at \in {"none", "listening"}
  /\ SameTraces(s)
  /\ \A t \in Sessions \ {s} : /\ pc'[t] = pc[t] /\ dev'[t] = dev[t]
                               /\ t \in forwards' => t \in forwards
                               /\ t \in lost => t \in lost'
                               /\ lock' = t => lock = t

Copying(s, e) == dev[s].at = "copying" /\ dev[s].file = e

(* A step of the session's worker on Android: no other session, nothing of *)
(* the desktop; a target becomes partial only when s starts to copy it and *)
(* stays so when s stops copying it only if Android refused to delete it.  *)
WorkerStep(s) ==
  /\ Shape'
  /\ UNCHANGED <<pc, forwards, lost, lock>>
  /\ dev[s].at # "none"
  /\ Accounted(s)'
  /\ dev[s].torn \subseteq dev'[s].torn
  /\ \A t \in Sessions \ {s} : dev'[t] = dev[t]
  /\ \A e \in Entries :
       store'[e] = "partial" =>
         \/ Copying(s, e)' \/ e \in dev'[s].torn
         \/ store[e] = "partial" /\ ~Copying(s, e)

-----------------------------------------------------------------------------

(* choose_p2p_parallelism answers with one stream or more, and with one    *)
(* when there is at most one file.                                         *)
LEMMA StreamCountIsPositive ==
  StreamCount \in Nat \ {0} /\ (Cardinality(Files) <= 1 => StreamCount = 1)
<1>. DEFINE count == Cardinality(Files)
            total == MapThenSumSet(LAMBDA f : scenario.size[f], Files)
            sizes == {scenario.size[f] : f \in Files}
            largest == IF sizes = {} THEN 0 ELSE Max(sizes)
<1>1. count \in Nat
  BY FS_CardinalityType, P2PAssumption
<1>2. \A a, b \in Nat \ {0} : Least(a, b) \in Nat \ {0}
  BY DEF Least
<1>3. \A v : Preference(v) \in Nat
  BY DEF Preference, MaxParallelism
<1>4. \A c, t : AutoStreams(c, t) \in Nat \ {0}
  BY DEF AutoStreams, AutoParallelism
<1>. HIDE DEF count, total, largest
<1>5. \A v : /\ ChooseParallelism(count, total, largest, v) \in Nat \ {0}
             /\ count <= 1 => ChooseParallelism(count, total, largest, v) = 1
  <2>1. \A c : 2 \in Nat \ {0} /\ (~(count <= 1) => count \in Nat \ {0})
    BY <1>1
  <2>. QED  BY <1>1, <1>2, <1>3, <1>4, <2>1 DEF ChooseParallelism
<1>. QED  BY <1>5 DEF StreamCount, count, total, sizes, largest

(* A session number is not the number that stands for no holder.           *)
LEMMA SessionNumbers ==
  \A s \in Sessions : s # 0
BY P2PAssumption DEF Sessions

(* Each step of a stream is a StreamStep: the forward is created only by a *)
(* waiting stream, which gets the lock with it or ends without either, and *)
(* CleanUp gives both back.                                                *)
LEMMA StreamStepLemma ==
  ASSUME Shape, Held, NotStarted, NEW s \in Sessions, Stream(s)
  PROVE  StreamStep(s)
<1>. USE DEF Shape, StreamStep, SameTraces, HeldBy, PcFrame, coordVars, envVars, DevFields,
             PcFields
<1>0. s # 0 /\ \A t \in Sessions : t # 0
  BY SessionNumbers
<1>1. CASE CreateForward(s)
  BY <1>0, <1>1 DEF CreateForward, Fail, PcAt, Held, NotStarted
<1>2. CASE StartService(s)
  <2>1. dev[s].at = "none" /\ pc[s].at = "start"
    BY <1>2 DEF StartService, NotStarted
  <2>. QED  BY <2>1, <1>2 DEF StartService, Fail, DevAt
<1>3. CASE ConnectControl(s)
  BY <1>3 DEF ConnectControl, Fail, PcAt, DevAt
<1>4. CASE ReadAcknowledgement(s)
  BY <1>4 DEF ReadAcknowledgement, Fail, PcAt
<1>5. CASE ReadStatus(s)
  BY <1>0, <1>5 DEF ReadStatus, Fail, PcAt
<1>6. CASE GrantAccess(s)
  BY <1>6 DEF GrantAccess, Fail, PcAt
<1>7. CASE ConnectData(s)
  BY <1>7 DEF ConnectData, Fail, PcAt
<1>8. CASE Send(s)
  BY <1>8 DEF Send, Fail, PcAt
<1>9. CASE ReadReply(s)
  BY <1>9 DEF ReadReply, Fail
<1>10. CASE FetchError(s)
  BY <1>10 DEF FetchError, Fail, PcAt
<1>11. CASE CleanUp(s)
  BY <1>0, <1>11 DEF CleanUp, PcAt
<1>. QED
  BY <1>1, <1>2, <1>3, <1>4, <1>5, <1>6, <1>7, <1>8, <1>9, <1>10, <1>11 DEF Stream

(* The end of a session takes its temporary file with it, or Android       *)
(* refused that.                                                           *)
LEMMA EndIsAccounted ==
  ASSUME Shape, NEW s \in Sessions, Accounted(s), NEW line, NEW half,
         EndLeaving(s, line, half)
  PROVE  /\ DOMAIN dev' = Sessions /\ \A t \in Sessions : DOMAIN dev'[t] = DevFields
         /\ dev'[s].at = "ended" /\ Accounted(s)'
         /\ dev'[s].torn = dev[s].torn \cup half
         /\ \A t \in Sessions \ {s} : dev'[t] = dev[t]
<1>1. PICK kept \in SUBSET (dev[s].temps \cap {dev[s].file}) :
        dev' = [dev EXCEPT ![s].at = "ended",
                           ![s].temps  = (@ \ {dev[s].file}) \cup kept,
                           ![s].litter = @ \cup kept,
                           ![s].torn   = @ \cup half]
  BY DEF EndLeaving
<1>2. DOMAIN dev = Sessions /\ DOMAIN dev[s] = DevFields
  BY DEF Shape
<1>3. /\ dev'[s].at = "ended" /\ dev'[s].torn = dev[s].torn \cup half
      /\ dev'[s].temps = (dev[s].temps \ {dev[s].file}) \cup kept
      /\ dev'[s].litter = dev[s].litter \cup kept
  BY <1>1, <1>2 DEF DevFields
<1>4. Accounted(s)'
  BY <1>3 DEF Accounted
<1>5. DOMAIN dev' = Sessions /\ \A t \in Sessions : DOMAIN dev'[t] = DevFields
  BY <1>1, <1>2 DEF Shape, DevFields
<1>6. \A t \in Sessions \ {s} : dev'[t] = dev[t]
  BY <1>1, <1>2
<1>. QED  BY <1>3, <1>4, <1>5, <1>6

(* So does an end that leaves no half copy.                                *)
LEMMA EndIsClean ==
  ASSUME Shape, NEW s \in Sessions, Accounted(s), NEW line, End(s, line)
  PROVE  /\ DOMAIN dev' = Sessions /\ \A t \in Sessions : DOMAIN dev'[t] = DevFields
         /\ dev'[s].at = "ended" /\ Accounted(s)'
         /\ dev[s].torn \subseteq dev'[s].torn
         /\ \A t \in Sessions \ {s} : dev'[t] = dev[t]
<1>1. EndLeaving(s, line, {})
  BY DEF End
<1>. QED  BY <1>1, EndIsAccounted

(* A target that becomes complete.                                         *)
LEMMA StoredIsAccounted ==
  ASSUME Shape, NEW s \in Sessions, Accounted(s), NEW kept, kept \subseteq {dev[s].file},
         Stored(s, kept)
  PROVE  /\ DOMAIN dev' = Sessions /\ \A t \in Sessions : DOMAIN dev'[t] = DevFields
         /\ Accounted(s)' /\ dev'[s].torn = dev[s].torn
         /\ \A t \in Sessions \ {s} : dev'[t] = dev[t]
         /\ store' \in [Entries -> {"none", "old", "new", "partial"}]
         /\ \A e \in Entries :
              store'[e] = "partial" => store[e] = "partial" /\ e # dev[s].file
<1>1. DOMAIN dev = Sessions /\ DOMAIN dev[s] = DevFields
  BY DEF Shape
<1>2. /\ dev'[s].torn = dev[s].torn /\ dev'[s].litter = dev[s].litter \cup kept
      /\ dev'[s].temps = (dev[s].temps \ {dev[s].file}) \cup kept
  BY <1>1 DEF Stored, DevFields
<1>3. Accounted(s)'
  BY <1>2 DEF Accounted
<1>4. DOMAIN dev' = Sessions /\ \A t \in Sessions : DOMAIN dev'[t] = DevFields
  BY <1>1 DEF Stored, Shape, DevFields
<1>5. \A t \in Sessions \ {s} : dev'[t] = dev[t]
  BY <1>1 DEF Stored
<1>6. /\ store' \in [Entries -> {"none", "old", "new", "partial"}]
      /\ \A e \in Entries :
           store'[e] = "partial" => store[e] = "partial" /\ e # dev[s].file
  BY DEF Stored, Shape
<1>. QED  BY <1>2, <1>3, <1>4, <1>5, <1>6

(* Each step of a session's worker is a WorkerStep: only PlaceTarget makes *)
(* a target partial, and CopyTarget completes it, deletes it, or records   *)
(* in `torn` that Android refused to delete it.                            *)
LEMMA WorkerStepLemma ==
  ASSUME Shape, NoResidue, NEW s \in Sessions, Service(s)
  PROVE  WorkerStep(s)
<1>0. Accounted(s)
  BY DEF Accounted, NoResidue
<1>. USE <1>0 DEF Shape, WorkerStep, Copying, DevFrame, DevFields, PcFields
<1>1. CASE StopWhenCancelled(s)
  BY <1>1, EndIsClean DEF StopWhenCancelled, Waits
<1>2. CASE Expire(s)
  BY <1>2, EndIsClean DEF Expire, Waits
<1>3. CASE Acknowledge(s)
  <2>1. CASE End(s, "none")
    BY <1>3, <2>1, EndIsClean DEF Acknowledge
  <2>2. CASE ~End(s, "none")
    <3>1. Accounted(s)' /\ dev'[s].torn = dev[s].torn
      BY <1>3, <2>2 DEF Acknowledge, DevAt, Accounted
    <3>. QED  BY <1>3, <2>2, <3>1 DEF Acknowledge, DevAt
  <2>. QED  BY <2>1, <2>2
<1>4. CASE ResolveAccess(s)
  <2>1. CASE End(s, "none")
    BY <1>4, <2>1, EndIsClean DEF ResolveAccess
  <2>2. CASE ~End(s, "none")
    <3>1. Accounted(s)' /\ dev'[s].torn = dev[s].torn
      BY <1>4, <2>2 DEF ResolveAccess, Accounted
    <3>. QED  BY <1>4, <2>2, <3>1 DEF ResolveAccess
  <2>. QED  BY <2>1, <2>2
<1>5. CASE AcceptData(s)
  <2>1. CASE End(s, "ERROR")
    BY <1>5, <2>1, EndIsClean DEF AcceptData
  <2>2. CASE ~End(s, "ERROR")
    <3>1. Accounted(s)' /\ dev'[s].torn = dev[s].torn
      BY <1>5, <2>2 DEF AcceptData, DevAt, Accounted
    <3>. QED  BY <1>5, <2>2, <3>1 DEF AcceptData, DevAt
  <2>. QED  BY <2>1, <2>2
<1>6. CASE BeginFile(s)
  <2>1. CASE End(s, "DENIED")
    BY <1>6, <2>1, EndIsClean DEF BeginFile
  <2>2. CASE ~End(s, "DENIED")
    <3>1. /\ dev[s].at = "receiving" /\ UNCHANGED <<pc, forwards, lost, lock, store>>
          /\ dev' = [dev EXCEPT ![s].at = "payload",
                                ![s].file  = Head(link[s].frames).entry,
                                ![s].temps = @ \cup {Head(link[s].frames).entry}]
      BY <1>6, <2>2 DEF BeginFile
    <3>2. Accounted(s)' /\ dev'[s].torn = dev[s].torn
      BY <3>1 DEF Accounted
    <3>. QED  BY <3>1, <3>2
  <2>. QED  BY <2>1, <2>2
<1>7. CASE MakeDirectory(s)
  <2>1. Accounted(s)' /\ dev'[s].torn = dev[s].torn
    BY <1>7 DEF MakeDirectory, Accounted
  <2>. QED  BY <1>7, <2>1 DEF MakeDirectory
<1>8. CASE VerifyPayload(s)
  <2>1. CASE End(s, "ERROR")
    BY <1>8, <2>1, EndIsClean DEF VerifyPayload
  <2>2. CASE DevAt(s, "verified")
    <3>1. Accounted(s)' /\ dev'[s].torn = dev[s].torn
      BY <1>8, <2>2 DEF VerifyPayload, DevAt, Accounted
    <3>. QED  BY <1>8, <2>2, <3>1 DEF VerifyPayload, DevAt
  <2>. QED  BY <1>8, <2>1, <2>2 DEF VerifyPayload
<1>9. CASE ConnectionEnds(s)
  BY <1>9, EndIsClean DEF ConnectionEnds
<1>10. CASE DeleteTarget(s)
  <2>1. CASE End(s, "ERROR")
    BY <1>10, <2>1, EndIsClean DEF DeleteTarget
  <2>2. CASE ~End(s, "ERROR")
    <3>1. /\ dev[s].at = "verified" /\ DevAt(s, "placing")
          /\ store' = [store EXCEPT ![dev[s].file] = "none"]
      BY <1>10, <2>2 DEF DeleteTarget
    <3>2. Accounted(s)' /\ dev'[s].torn = dev[s].torn
      BY <3>1 DEF DevAt, Accounted
    <3>. QED  BY <1>10, <3>1, <3>2 DEF DeleteTarget, DevAt
  <2>. QED  BY <2>1, <2>2
<1>11. CASE PlaceTarget(s)
  <2>1. CASE Stored(s, {})
    BY <1>11, <2>1, StoredIsAccounted DEF PlaceTarget
  <2>2. CASE ~Stored(s, {})
    <3>1. /\ dev[s].at = "placing" /\ DevAt(s, "copying")
          /\ store' = [store EXCEPT ![dev[s].file] = "partial"]
      BY <1>11, <2>2 DEF PlaceTarget
    <3>2. Accounted(s)' /\ dev'[s].torn = dev[s].torn
      BY <3>1 DEF DevAt, Accounted
    <3>. QED  BY <1>11, <3>1, <3>2 DEF PlaceTarget, DevAt
  <2>. QED  BY <2>1, <2>2
<1>12. CASE CopyTarget(s)
  <2>1. CASE Copied(s)
    <3>1. PICK kept : kept \subseteq {dev[s].file} /\ Stored(s, kept)
      BY <2>1 DEF Copied
    <3>. QED  BY <1>12, <3>1, StoredIsAccounted DEF CopyTarget
  <2>2. CASE \E c \in {"none", "new"} : /\ store' = [store EXCEPT ![dev[s].file] = c]
                                        /\ End(s, "ERROR")
    <3>1. /\ dev'[s].at = "ended" /\ Accounted(s)' /\ dev[s].torn \subseteq dev'[s].torn
          /\ DOMAIN dev' = Sessions /\ \A t \in Sessions : DOMAIN dev'[t] = DevFields
          /\ \A t \in Sessions \ {s} : dev'[t] = dev[t]
      BY <2>2, EndIsClean
    <3>2. /\ \A e \in Entries :
               store'[e] = "partial" => store[e] = "partial" /\ e # dev[s].file
          /\ store' \in [Entries -> {"none", "old", "new", "partial"}]
      BY <2>2
    <3>. QED  BY <1>12, <3>1, <3>2 DEF CopyTarget
  <2>3. CASE EndLeaving(s, "ERROR", {dev[s].file}) /\ UNCHANGED store
    <3>1. /\ dev'[s].at = "ended" /\ Accounted(s)'
          /\ dev'[s].torn = dev[s].torn \cup {dev[s].file}
          /\ DOMAIN dev' = Sessions /\ \A t \in Sessions : DOMAIN dev'[t] = DevFields
          /\ \A t \in Sessions \ {s} : dev'[t] = dev[t]
      BY <2>3, EndIsAccounted
    <3>. QED  BY <1>12, <2>3, <3>1 DEF CopyTarget
  <2>. QED  BY <1>12, <2>1, <2>2, <2>3 DEF CopyTarget
<1>13. CASE Reply(s)
  <2>1. Accounted(s)' /\ dev'[s].torn = dev[s].torn
    BY <1>13 DEF Reply, Accounted
  <2>. QED  BY <1>13, <2>1 DEF Reply
<1>. QED
  BY <1>1, <1>2, <1>3, <1>4, <1>5, <1>6, <1>7, <1>8, <1>9, <1>10, <1>11, <1>12, <1>13
  DEF Service

(* With the sessions taken in order, the streams of an attempt get         *)
(* sessions no stream had before.                                          *)
LEMMA ChosenAreFresh ==
  ASSUME InOrder, StartStreams
  PROVE  /\ streams' \subseteq Fresh
         /\ \A s \in Sessions : IF s \in streams' THEN pc'[s].at = "waiting"
                                                      /\ DOMAIN pc'[s] = PcFields
                                ELSE pc'[s] = pc[s]
         /\ DOMAIN pc' = Sessions
         /\ InOrder'
<1>. DEFINE first == Cardinality(Sessions \ Fresh)
<1>1. PICK n \in Nat : Sessions \ Fresh = 1 .. n
  BY DEF InOrder
<1>2. first = n
  <2>1. Cardinality(1 .. n) = IF 1 > n THEN 0 ELSE n - 1 + 1
    BY FS_Interval, <1>1
  <2>2. first = Cardinality(1 .. n)
    BY <1>1, Zenon
  <2>. HIDE DEF first
  <2>. QED  BY <2>1, <2>2, <1>1
<1>. HIDE DEF first
<1>3. streams' = (n + 1) .. (n + StreamCount) /\ streams' \subseteq Sessions
  BY <1>2 DEF StartStreams, first
<1>4. streams' \subseteq Fresh
  <2>1. \A s \in streams' : s \notin 1 .. n
    BY <1>1, <1>3, StreamCountIsPositive
  <2>. QED  BY <2>1, <1>1, <1>3
<1>5. DOMAIN pc' = Sessions
  BY DEF StartStreams
<1>6. ASSUME NEW s \in Sessions
      PROVE  IF s \in streams' THEN pc'[s].at = "waiting" /\ DOMAIN pc'[s] = PcFields
             ELSE pc'[s] = pc[s]
  BY <1>6 DEF StartStreams, IdleStream, PcFields
<1>7. InOrder'
  <2>1. (Sessions \ Fresh)' = (Sessions \ Fresh) \cup streams'
    BY <1>3, <1>4, <1>6 DEF Fresh
  <2>2. (1 .. n) \cup streams' = 1 .. (n + StreamCount)
    BY <1>1, <1>3, StreamCountIsPositive
  <2>3. n + StreamCount \in Nat
    BY <1>1, StreamCountIsPositive
  <2>. QED  BY <2>1, <2>2, <2>3, <1>1 DEF InOrder
<1>. QED  BY <1>4, <1>5, <1>6, <1>7

(* The invariant holds at the start: no session is used, nothing is held.  *)
LEMMA InitIInv == Init => IInv
<1>. SUFFICES ASSUME Init PROVE IInv
  OBVIOUS
<1>1. Shape
  BY DEF Init, Shape, IdleStream, IdleDevice, PcFields, DevFields
<1>2. InOrder
  <2>1. Fresh = Sessions
    BY DEF Init, Fresh, IdleStream
  <2>2. 1 .. 0 = {}
    OBVIOUS
  <2>. QED  BY <2>1, <2>2 DEF InOrder
<1>3. Held
  BY SessionNumbers DEF Init, Held, HeldBy, IdleStream
<1>4. NotStarted
  BY DEF Init, NotStarted, IdleDevice
<1>5. NoResidue
  BY DEF Init, NoResidue, IdleDevice
<1>. QED  BY <1>1, <1>2, <1>3, <1>4, <1>5 DEF IInv

(* A step that leaves the streams, what they hold, Android and the         *)
(* destination alone.                                                      *)
LEMMA Stutter ==
  ASSUME IInv, UNCHANGED <<pc, forwards, lost, lock, dev, store>>
  PROVE  IInv'
BY DEF IInv, Shape, InOrder, Fresh, Held, HeldBy, NotStarted, NoResidue

(* A new attempt: its streams wait, and hold nothing yet.                  *)
LEMMA StartKeepsIInv ==
  ASSUME IInv, StartStreams, UNCHANGED <<forwards, lost, lock, dev, store>>
  PROVE  IInv'
<1>1. /\ streams' \subseteq Fresh
      /\ \A s \in Sessions : IF s \in streams' THEN pc'[s].at = "waiting"
                                                   /\ DOMAIN pc'[s] = PcFields
                             ELSE pc'[s] = pc[s]
      /\ DOMAIN pc' = Sessions
      /\ InOrder'
  BY ChosenAreFresh DEF IInv
<1>2. \A s \in streams' : pc[s].at = "unused"
  BY <1>1 DEF Fresh
<1>3. Shape'
  BY <1>1 DEF IInv, Shape
<1>4. Held'
  BY <1>1, <1>2 DEF IInv, Held, HeldBy
<1>5. NotStarted'
  BY <1>1, <1>2 DEF IInv, NotStarted
<1>6. NoResidue'
  BY DEF IInv, NoResidue
<1>. QED  BY <1>1, <1>3, <1>4, <1>5, <1>6 DEF IInv

(* A step of one stream.                                                   *)
LEMMA StreamKeepsIInv ==
  ASSUME IInv, NEW s \in Sessions, StreamStep(s)
  PROVE  IInv'
<1>1. InOrder'
  <2>1. Fresh' = Fresh
    BY DEF StreamStep, Fresh
  <2>. QED  BY <2>1 DEF IInv, InOrder
<1>2. Held'
  <2>. SUFFICES ASSUME NEW t \in Sessions \ {s} PROVE HeldBy(t)'
    BY DEF Held, StreamStep
  <2>. QED  BY DEF IInv, Held, HeldBy, StreamStep
<1>3. NotStarted'
  BY DEF IInv, NotStarted, StreamStep
<1>4. NoResidue'
  <2>1. \A t \in Sessions : SameTraces(t)
    BY DEF StreamStep, SameTraces
  <2>2. \A t \in Sessions : dev'[t].at = dev[t].at
          \/ (t = s /\ dev[t].at \in {"none", "listening"})
    BY DEF StreamStep
  <2>. QED  BY <2>1, <2>2 DEF IInv, NoResidue, StreamStep, SameTraces
<1>. QED  BY <1>1, <1>2, <1>3, <1>4 DEF IInv, StreamStep

(* A step of one session's worker on Android.                              *)
LEMMA WorkerKeepsIInv ==
  ASSUME IInv, NEW s \in Sessions, WorkerStep(s)
  PROVE  IInv'
<1>1. InOrder' /\ Held'
  BY DEF IInv, InOrder, Fresh, Held, HeldBy, WorkerStep
<1>2. NotStarted'
  BY DEF IInv, NotStarted, WorkerStep
<1>3. NoResidue'
  <2>1. ASSUME NEW e \in Entries, store'[e] = "partial"
        PROVE  \E t \in Sessions : Copying(t, e)' \/ e \in dev'[t].torn
    <3>1. CASE Copying(s, e)' \/ e \in dev'[s].torn
      BY <3>1
    <3>2. CASE store[e] = "partial" /\ ~Copying(s, e)
      <4>1. PICK t \in Sessions : Copying(t, e) \/ e \in dev[t].torn
        BY <3>2 DEF IInv, NoResidue, Copying
      <4>. QED  BY <3>2, <4>1 DEF WorkerStep, Copying
    <3>. QED  BY <2>1, <3>1, <3>2 DEF WorkerStep
  <2>2. \A t \in Sessions : Accounted(t)'
    BY DEF IInv, NoResidue, WorkerStep, Accounted
  <2>. QED  BY <2>1, <2>2 DEF NoResidue, Copying, Accounted
<1>. QED  BY <1>1, <1>2, <1>3 DEF IInv, WorkerStep

(* The coordinator and the user change neither sessions nor destination,   *)
(* except that an attempt begins.                                          *)
LEMMA CoordinatorKeepsIInv ==
  ASSUME IInv, Coordinator \/ Cancel
  PROVE  IInv'
<1>. USE DEF coordVars, envVars
<1>1. CASE Plan
  <2>1. CASE StartStreams
    BY <1>1, <2>1, StartKeepsIInv DEF Plan
  <2>2. CASE ~StartStreams
    BY <1>1, <2>2, Stutter DEF Plan
  <2>. QED  BY <2>1, <2>2
<1>2. CASE \E s \in Sessions : Reap(s)
  BY <1>2, Stutter DEF Reap
<1>3. CASE Conclude
  BY <1>3, Stutter DEF Conclude
<1>4. CASE GrantAndRetry
  BY <1>4, StartKeepsIInv DEF GrantAndRetry
<1>5. CASE GrantRefused
  BY <1>5, Stutter DEF GrantRefused
<1>6. CASE Cancel
  BY <1>6, Stutter DEF Cancel
<1>. QED  BY <1>1, <1>2, <1>3, <1>4, <1>5, <1>6 DEF Coordinator

(* The monitor of a session and onDestroy only mark sessions as cancelled, *)
(* the network only closes connections.                                    *)
LEMMA MarksKeepIInv ==
  ASSUME IInv, DOMAIN dev' = Sessions, UNCHANGED <<pc, forwards, lost, lock, store>>,
         \A s \in Sessions : /\ DOMAIN dev'[s] = DevFields
                            /\ dev'[s].at = dev[s].at /\ SameTraces(s)
  PROVE  IInv'
<1>1. Shape' /\ InOrder' /\ Held'
  BY DEF IInv, Shape, InOrder, Fresh, Held, HeldBy
<1>2. NotStarted' /\ NoResidue'
  BY DEF IInv, NotStarted, NoResidue, SameTraces
<1>. QED  BY <1>1, <1>2 DEF IInv

(* Every step keeps the invariant.                                         *)
LEMMA NextIInv == IInv /\ [Next]_vars => IInv'
<1>. SUFFICES ASSUME IInv, [Next]_vars PROVE IInv'
  OBVIOUS
<1>1. CASE Coordinator \/ Cancel
  BY <1>1, CoordinatorKeepsIInv
<1>2. ASSUME NEW s \in Sessions, Stream(s) PROVE IInv'
  BY <1>2, StreamStepLemma, StreamKeepsIInv DEF IInv
<1>3. ASSUME NEW s \in Sessions, Service(s) PROVE IInv'
  BY <1>3, WorkerStepLemma, WorkerKeepsIInv DEF IInv
<1>4. ASSUME NEW s \in Sessions, Monitor(s) PROVE IInv'
  <2>1. /\ UNCHANGED <<pc, forwards, lost, lock, store>>
        /\ DOMAIN dev' = Sessions
        /\ \A t \in Sessions : /\ DOMAIN dev'[t] = DevFields
                               /\ dev'[t].at = dev[t].at /\ SameTraces(t)
    BY <1>4 DEF SameTraces, Monitor, DevFrame, IInv, Shape, DevFields
  <2>. QED  BY <2>1, MarksKeepIInv
<1>5. ASSUME NEW s \in Sessions, LoseControl(s) \/ LoseData(s) \/ DiscardAccess(s)
      PROVE  IInv'
  BY <1>5, Stutter DEF LoseControl, LoseData, DiscardAccess, DevFrame
<1>6. CASE DestroyService
  <2>1. UNCHANGED <<pc, forwards, lost, lock, store>> /\ DOMAIN dev' = Sessions
    BY <1>6 DEF DestroyService, DevFrame
  <2>2. ASSUME NEW t \in Sessions
        PROVE  /\ DOMAIN dev'[t] = DevFields
               /\ dev'[t].at = dev[t].at /\ SameTraces(t)
    BY <1>6 DEF SameTraces, DestroyService, IInv, Shape, DevFields
  <2>. QED  BY <2>1, <2>2, MarksKeepIInv
<1>7. CASE UNCHANGED vars
  BY <1>7, Stutter DEF vars
<1>. QED  BY <1>1, <1>2, <1>3, <1>4, <1>5, <1>6, <1>7 DEF Next

-----------------------------------------------------------------------------

(* The invariant holds of every upload: the sessions are used in order,    *)
(* the forwards and the lock are where Held says, and every trace a        *)
(* session leaves on Android is accounted for (NoResidue, Accounted): it   *)
(* is of the entry at work, or Android refused a deletion.                 *)
THEOREM UploadInvariant == Spec => []IInv
BY InitIInv, NextIInv, PTL DEF Spec

(* Whatever way a stream ends, its adb forward is gone unless adb itself   *)
(* failed to remove it, and the preparation lock is free for the next      *)
(* (_prepare_session_locked, _cleanup_session_files).                      *)
THEOREM StreamsGiveBack == Spec => []NothingIsHeld
<1>1. IInv => NothingIsHeld
  BY DEF IInv, Held, HeldBy, NothingIsHeld
<1>. QED  BY <1>1, UploadInvariant, PTL

(* A target is incomplete only while its session is copying it, and no     *)
(* temporary file outlives its entry, unless Android refused the deletion  *)
(* that would have removed it (receiveFile, receiveDirectFile,             *)
(* copyDocument, copyDirectFile ignore such a refusal).                    *)
THEOREM NothingIsLeftBehind == Spec => []NoResidue
<1>1. IInv => NoResidue
  BY DEF IInv
<1>. QED  BY <1>1, UploadInvariant, PTL

-----------------------------------------------------------------------------
(* The plan of an upload                                                   *)

(* The least element of a set of numbers, from the order's well-           *)
(* foundedness.                                                            *)
LEMMA Smallest ==
  ASSUME NEW T, T \subseteq Nat, T # {}
  PROVE  \E x \in T : \A y \in T : x <= y
<1>. DEFINE R == {ss \in Nat \X Nat : ss[1] < ss[2]}
<1>1. IsWellFoundedOn(R, Nat)
  BY NatLessThanWellFounded DEF OpToRel
<1>2. \A x, y \in Nat : y < x => <<y, x>> \in R
  OBVIOUS
<1>. HIDE DEF R
<1>3. PICK x \in T : \A y \in T : ~(<<y, x>> \in R)
  BY <1>1, WFMin
<1>4. ASSUME NEW y \in T PROVE x <= y
  <2>1. x \in Nat /\ y \in Nat /\ ~(y < x)
    BY <1>2, <1>3
  <2>. QED  BY <2>1
<1>. QED  BY <1>4

(* Induction over the natural numbers, for a set.                          *)
LEMMA AllNat ==
  ASSUME NEW T, 0 \in T, \A n \in Nat : n \in T => n + 1 \in T
  PROVE  Nat \subseteq T
<1>. SUFFICES ASSUME Nat \ T # {} PROVE FALSE
  OBVIOUS
<1>1. PICK x \in Nat \ T : \A y \in Nat \ T : x <= y
  BY Smallest
<1>2. x # 0 /\ x - 1 \in Nat /\ x - 1 < x /\ (x - 1) + 1 = x
  BY <1>1
<1>3. x - 1 \in T
  BY <1>1, <1>2
<1>. QED  BY <1>1, <1>2, <1>3

(* A step can be repeated for ever.                                        *)
Iterations(S, base, step) ==
  {g \in [Nat -> S] : g[0] = base /\ \A n \in Nat : g[n + 1] = step[g[n]]}

(* Whatever the step, some sequence repeats it.                            *)
LEMMA Iterates ==
  ASSUME NEW S, NEW base, base \in S, NEW step, step \in [S -> S]
  PROVE  Iterations(S, base, step) # {}
<1>. DEFINE Runs(n) == {h \in [0 .. n -> S] : /\ h[0] = base
                                             /\ \A k \in 0 .. n : k < n => h[k + 1] = step[h[k]]}
<1>1. ASSUME NEW n \in Nat PROVE Runs(n) # {}
  <2>. DEFINE T == {m \in Nat : Runs(m) # {}}
  <2>1. 0 \in T
    <3>1. [k \in 0 .. 0 |-> base] \in Runs(0)
      OBVIOUS
    <3>. QED  BY <3>1
  <2>2. ASSUME NEW m \in Nat, m \in T PROVE m + 1 \in T
    <3>1. PICK h \in [0 .. m -> S] : /\ h[0] = base
                                     /\ \A k \in 0 .. m : k < m => h[k + 1] = step[h[k]]
      BY <2>2
    <3>. DEFINE e == [k \in 0 .. (m + 1) |-> IF k = m + 1 THEN step[h[m]] ELSE h[k]]
    <3>2. e \in [0 .. (m + 1) -> S]
      BY <3>1
    <3>3. e[0] = base
      BY <3>1
    <3>4. ASSUME NEW k \in 0 .. (m + 1), k < m + 1 PROVE e[k + 1] = step[e[k]]
      <4>1. CASE k = m
        BY <4>1
      <4>2. CASE k < m
        <5>1. k \in 0 .. m /\ k + 1 \in 0 .. m /\ k + 1 # m + 1 /\ k # m + 1
              /\ k + 1 \in 0 .. (m + 1)
          BY <3>4, <4>2
        <5>. QED  BY <3>1, <4>2, <5>1
      <4>. QED  BY <3>4, <4>1, <4>2
    <3>. HIDE DEF e
    <3>. QED  BY <3>2, <3>3, <3>4
  <2>. HIDE DEF T
  <2>3. Nat \subseteq T
    BY <2>1, <2>2, AllNat
  <2>. QED  BY <2>3 DEF T
<1>2. ASSUME NEW n \in Nat, NEW a \in Runs(n), NEW b \in Runs(n + 1)
      PROVE  a[n] = b[n]
  <2>. DEFINE T == {m \in Nat : m <= n => a[m] = b[m]}
  <2>1. 0 \in T
    OBVIOUS
  <2>2. ASSUME NEW m \in Nat, m \in T PROVE m + 1 \in T
    <3>. SUFFICES ASSUME m + 1 <= n PROVE a[m + 1] = b[m + 1]
      OBVIOUS
    <3>1. m \in 0 .. n /\ m < n /\ m \in 0 .. (n + 1) /\ m < n + 1
      OBVIOUS
    <3>2. a[m + 1] = step[a[m]] /\ b[m + 1] = step[b[m]]
      BY <3>1
    <3>. QED  BY <2>2, <3>1, <3>2
  <2>. HIDE DEF T
  <2>3. Nat \subseteq T
    BY <2>1, <2>2, AllNat
  <2>. QED  BY <2>3 DEF T
<1>. DEFINE H(n) == CHOOSE h : h \in Runs(n)
            g == [n \in Nat |-> H(n)[n]]
<1>3. \A n \in Nat : H(n) \in Runs(n)
  BY <1>1
<1>. HIDE DEF H
<1>4. ASSUME NEW n \in Nat
      PROVE  /\ g[n] \in S
             /\ n = 0 => g[n] = base
             /\ g[n + 1] = step[g[n]]
  <2>1. n \in 0 .. n /\ n \in 0 .. (n + 1) /\ n < n + 1 /\ n + 1 \in Nat
    OBVIOUS
  <2>2. H(n) \in Runs(n) /\ H(n + 1) \in Runs(n + 1)
    BY <1>3, <2>1
  <2>3. H(n)[n] = H(n + 1)[n]
    BY <1>2, <2>2
  <2>4. H(n + 1)[n + 1] = step[H(n + 1)[n]]
    BY <2>1, <2>2
  <2>. QED  BY <2>1, <2>2, <2>3, <2>4
<1>5. g \in [Nat -> S]
  BY <1>4
<1>6. 0 \in Nat
  OBVIOUS
<1>. HIDE DEF g
<1>. QED  BY <1>4, <1>5, <1>6 DEF Iterations

(* One of the largest files in hand is there to be taken.                  *)
LEMMA LargestExists ==
  ASSUME NEW files, IsFiniteSet(files), NEW size \in [files -> Nat],
         NEW some \in SUBSET files, some # {}
  PROVE  Largest(some, size) \in some
<1>. DEFINE HasLargest(n) == \A T \in SUBSET files : Cardinality(T) = n /\ T # {}
                               => \E f \in T : \A g \in T : size[g] <= size[f]
            N == {n \in Nat : HasLargest(n)}
<1>1. 0 \in N
  <2>1. \A T \in SUBSET files : Cardinality(T) = 0 => T = {}
    BY FS_Subset, FS_EmptySet
  <2>. QED  BY <2>1
<1>2. ASSUME NEW n \in Nat, n \in N PROVE n + 1 \in N
  <2>. SUFFICES ASSUME NEW T \in SUBSET files, Cardinality(T) = n + 1, T # {}
                PROVE  \E f \in T : \A g \in T : size[g] <= size[f]
    OBVIOUS
  <2>1. PICK x : x \in T
    OBVIOUS
  <2>2. T \ {x} \in SUBSET files /\ Cardinality(T \ {x}) = n
    <3>1. IsFiniteSet(T)
      BY FS_Subset
    <3>2. Cardinality(T \ {x}) = Cardinality(T) - 1
      BY <2>1, <3>1, FS_RemoveElement
    <3>. QED  BY <3>2
  <2>3. CASE T \ {x} = {}
    <3>1. \A g \in T : g = x
      BY <2>3
    <3>. QED  BY <2>1, <3>1
  <2>4. CASE T \ {x} # {}
    <3>1. PICK f \in T \ {x} : \A g \in T \ {x} : size[g] <= size[f]
      BY <1>2, <2>2, <2>4
    <3>2. size[x] \in Nat /\ size[f] \in Nat /\ \A g \in T : size[g] \in Nat
      BY <2>1
    <3>3. CASE size[x] <= size[f]
      BY <3>1, <3>3
    <3>4. CASE ~(size[x] <= size[f])
      <4>1. \A g \in T : size[g] <= size[x]
        BY <3>1, <3>2, <3>4
      <4>. QED  BY <2>1, <4>1
    <3>. QED  BY <3>3, <3>4
  <2>. QED  BY <2>3, <2>4
<1>. HIDE DEF N
<1>3. Nat \subseteq N
  BY <1>1, <1>2, AllNat
<1>4. Cardinality(some) \in Nat
  BY FS_Subset, FS_CardinalityType
<1>5. \E f \in some : \A g \in some : size[g] <= size[f]
  BY <1>3, <1>4 DEF N
<1>. QED  BY <1>5 DEF Largest

(* One of the streams is the lightest.                                     *)
LEMMA LightestExists ==
  ASSUME NEW count \in Nat \ {0}, NEW loads \in [1 .. count -> Nat]
  PROVE  LightestStream(loads) \in 1 .. count
<1>1. 1 \in 1 .. count
  OBVIOUS
<1>. DEFINE L == {loads[k] : k \in 1 .. count}
<1>2. PICK x \in L : \A y \in L : x <= y
  <2>1. L \subseteq Nat /\ L # {}
    BY <1>1
  <2>. HIDE DEF L
  <2>. QED  BY <2>1, Smallest
<1>. DEFINE K == {k \in 1 .. count : loads[k] = x}
<1>3. PICK k \in K : \A j \in K : k <= j
  <2>1. K \subseteq Nat /\ K # {}
    BY <1>2
  <2>. HIDE DEF K
  <2>. QED  BY <2>1, Smallest
<1>4. ASSUME NEW j \in 1 .. count
      PROVE  loads[k] < loads[j] \/ (loads[k] = loads[j] /\ k <= j)
  <2>1. loads[k] = x /\ x <= loads[j] /\ loads[j] \in Nat /\ loads[k] \in Nat
    BY <1>2, <1>3
  <2>2. CASE loads[j] = x
    BY <1>3, <2>1, <2>2
  <2>3. CASE loads[j] # x
    BY <2>1, <2>3
  <2>. QED  BY <2>2, <2>3
<1>5. k \in DOMAIN loads /\ DOMAIN loads = 1 .. count
  BY <1>3
<1>. QED  BY <1>4, <1>5 DEF LightestStream

(* SetToSeq lists the members of a finite set, each once.                  *)
LEMMA Listed ==
  ASSUME NEW S, IsFiniteSet(S)
  PROVE  /\ SetToSeq(S) \in Seq(S)
         /\ \A i, j \in DOMAIN SetToSeq(S) : SetToSeq(S)[i] = SetToSeq(S)[j] => i = j
         /\ \A x \in S : \E i \in DOMAIN SetToSeq(S) : SetToSeq(S)[i] = x
<1>. DEFINE n == Cardinality(S)
<1>1. n \in Nat /\ ExistsBijection(1 .. n, S)
  BY FS_CardinalityType
<1>2. \E f \in [1 .. n -> S] : IsInjective(f)
  BY <1>1 DEF ExistsBijection, Bijection, Injection, IsInjective
<1>3. SetToSeq(S) \in [1 .. n -> S] /\ IsInjective(SetToSeq(S))
  BY <1>2 DEF SetToSeq
<1>. DEFINE q == SetToSeq(S)
<1>. HIDE DEF q, n
<1>4. q \in [1 .. n -> S] /\ \A i, j \in 1 .. n : q[i] = q[j] => i = j
  BY <1>3 DEF IsInjective, q, n
<1>5. q \in Injection(1 .. n, S)
  BY <1>4 DEF Injection, IsInjective
<1>6. Cardinality(1 .. n) = Cardinality(S)
  BY <1>1, FS_Interval DEF n
<1>7. q \in Surjection(1 .. n, S)
  BY <1>5, <1>6, FS_Injection
<1>8. \A x \in S : \E i \in 1 .. n : q[i] = x
  BY <1>7 DEF Surjection
<1>9. q \in Seq(S)
  BY <1>1, <1>4
<1>. QED  BY <1>4, <1>8, <1>9 DEF q

(* The batches hold the members of S, each of them once.                   *)
Spread(batches, S) ==
  /\ \A k \in DOMAIN batches : batches[k] \in Seq(S)
  /\ \A e \in S : \E k \in DOMAIN batches : \E i \in DOMAIN batches[k] : batches[k][i] = e
  /\ \A k, l \in DOMAIN batches :
       \A i \in DOMAIN batches[k], j \in DOMAIN batches[l] :
         batches[k][i] = batches[l][j] => k = l /\ i = j

(* No member is at two places.                                             *)
LEMMA Once ==
  ASSUME NEW b, NEW S, Spread(b, S), NEW g \in DOMAIN b, NEW h \in DOMAIN b,
         NEW i \in DOMAIN b[g], NEW j \in DOMAIN b[h], b[g][i] = b[h][j]
  PROVE  g = h /\ i = j
BY DEF Spread

(* A member that is new to all of them may be added to one.                *)
LEMMA SpreadOneMore ==
  ASSUME NEW b, NEW S, Spread(b, S), NEW k \in DOMAIN b, NEW x, x \notin S
  PROVE  Spread([b EXCEPT ![k] = Append(@, x)], S \cup {x})
<1>. DEFINE c == [b EXCEPT ![k] = Append(@, x)]
            n == Len(b[k]) + 1
<1>1. DOMAIN c = DOMAIN b /\ c[k] = Append(b[k], x) /\ \A l \in DOMAIN b : l # k => c[l] = b[l]
  OBVIOUS
<1>2. \A l \in DOMAIN b : b[l] \in Seq(S)
  BY DEF Spread
<1>3. /\ n \in Nat /\ n \notin DOMAIN b[k]
      /\ DOMAIN c[k] = DOMAIN b[k] \cup {n}
      /\ c[k][n] = x
      /\ \A i \in DOMAIN b[k] : c[k][i] = b[k][i]
  <2>1. b[k] \in Seq(S) /\ DOMAIN b[k] = 1 .. Len(b[k]) /\ Len(b[k]) \in Nat
    BY <1>2
  <2>. QED  BY <1>1, <2>1
<1>4. \A l \in DOMAIN b : \A i \in DOMAIN b[l] : b[l][i] \in S
  BY <1>2
<1>. HIDE DEF c, n
<1>5. \A l \in DOMAIN b : c[l] \in Seq(S \cup {x})
  <2>1. b[k] \in Seq(S \cup {x}) /\ \A l \in DOMAIN b : b[l] \in Seq(S \cup {x})
    BY <1>2
  <2>. QED  BY <1>1, <2>1
<1>6. \A l \in DOMAIN b : \A i \in DOMAIN c[l] :
        (i \in DOMAIN b[l] /\ c[l][i] = b[l][i]) \/ (l = k /\ i = n /\ c[l][i] = x)
  BY <1>1, <1>3
<1>7. ASSUME NEW l \in DOMAIN b, NEW m \in DOMAIN b, NEW i \in DOMAIN c[l],
             NEW j \in DOMAIN c[m], c[l][i] = c[m][j]
      PROVE  l = m /\ i = j
  <2>1. CASE i \in DOMAIN b[l] /\ c[l][i] = b[l][i] /\ j \in DOMAIN b[m] /\ c[m][j] = b[m][j]
    <3>1. b[l][i] = b[m][j]
      BY <1>7, <2>1
    <3>. QED  BY <2>1, <3>1, Once
  <2>2. CASE ~(i \in DOMAIN b[l] /\ c[l][i] = b[l][i] /\ j \in DOMAIN b[m] /\ c[m][j] = b[m][j])
    BY <1>4, <1>6, <1>7, <2>2
  <2>. QED  BY <2>1, <2>2
<1>8. \A e \in S \cup {x} : \E l \in DOMAIN b : \E i \in DOMAIN c[l] : c[l][i] = e
  <2>1. \E i \in DOMAIN c[k] : c[k][i] = x
    BY <1>3
  <2>2. \A l \in DOMAIN b : \A i \in DOMAIN b[l] : i \in DOMAIN c[l] /\ c[l][i] = b[l][i]
    BY <1>1, <1>3
  <2>. QED  BY <2>1, <2>2 DEF Spread
<1>9. Spread(c, S \cup {x})
  BY <1>1, <1>5, <1>7, <1>8 DEF Spread
<1>. QED  BY <1>9 DEF c

(* A list of others may be put before one.                                 *)
LEMMA SpreadBefore ==
  ASSUME NEW b, NEW S, Spread(b, S), NEW k \in DOMAIN b,
         NEW T, T \cap S = {}, NEW q \in Seq(T),
         \A i, j \in DOMAIN q : q[i] = q[j] => i = j,
         \A x \in T : \E i \in DOMAIN q : q[i] = x
  PROVE  Spread([b EXCEPT ![k] = q \o @], T \cup S)
<1>. DEFINE c == [b EXCEPT ![k] = q \o @]
            n == Len(q)
<1>1. DOMAIN c = DOMAIN b /\ c[k] = q \o b[k] /\ \A l \in DOMAIN b : l # k => c[l] = b[l]
  OBVIOUS
<1>2. \A l \in DOMAIN b : b[l] \in Seq(S)
  BY DEF Spread
<1>3. n \in Nat /\ DOMAIN q = 1 .. n /\ \A i \in 1 .. n : q[i] \in T
  OBVIOUS
<1>4. /\ \A i \in DOMAIN q : i \in DOMAIN c[k] /\ c[k][i] = q[i]
      /\ \A i \in DOMAIN b[k] : n + i \in DOMAIN c[k] /\ c[k][n + i] = b[k][i]
      /\ \A i \in DOMAIN c[k] : i \in DOMAIN q
                               \/ (i - n \in DOMAIN b[k] /\ c[k][i] = b[k][i - n])
  <2>1. b[k] \in Seq(S)
    BY <1>2
  <2>2. /\ Len(q \o b[k]) = Len(q) + Len(b[k])
        /\ \A i \in 1 .. (Len(q) + Len(b[k])) :
             (q \o b[k])[i] = IF i <= Len(q) THEN q[i] ELSE b[k][i - Len(q)]
    BY <2>1
  <2>3. DOMAIN b[k] = 1 .. Len(b[k]) /\ Len(b[k]) \in Nat
        /\ DOMAIN (q \o b[k]) = 1 .. Len(q \o b[k])
    BY <2>1
  <2>4. DOMAIN c[k] = 1 .. (n + Len(b[k]))
        /\ \A i \in 1 .. (n + Len(b[k])) :
             c[k][i] = IF i <= n THEN q[i] ELSE b[k][i - n]
    BY <1>1, <2>2, <2>3
  <2>. HIDE DEF c, n
  <2>5. \A i \in 1 .. n : i \in 1 .. (n + Len(b[k])) /\ i <= n
    BY <1>3, <2>3
  <2>6. \A i \in 1 .. Len(b[k]) : n + i \in 1 .. (n + Len(b[k])) /\ ~(n + i <= n)
                                 /\ (n + i) - n = i
    BY <1>3, <2>3
  <2>7. \A i \in 1 .. (n + Len(b[k])) : i \in 1 .. n \/ (i - n \in 1 .. Len(b[k]) /\ ~(i <= n))
    BY <1>3, <2>3
  <2>. QED  BY <1>3, <2>3, <2>4, <2>5, <2>6, <2>7
<1>5. \A l \in DOMAIN b : \A i \in DOMAIN b[l] : b[l][i] \in S
  BY <1>2
<1>6. \A l \in DOMAIN b : c[l] \in Seq(T \cup S)
  <2>1. q \in Seq(T \cup S) /\ \A l \in DOMAIN b : b[l] \in Seq(T \cup S)
    BY <1>2
  <2>. QED  BY <1>1, <2>1
<1>. HIDE DEF c, n
<1>7. \A e \in T \cup S : \E l \in DOMAIN b : \E i \in DOMAIN c[l] : c[l][i] = e
  <2>1. ASSUME NEW e \in T PROVE \E i \in DOMAIN c[k] : c[k][i] = e
    BY <1>4
  <2>2. ASSUME NEW e \in S PROVE \E l \in DOMAIN b : \E i \in DOMAIN c[l] : c[l][i] = e
    <3>1. PICK l \in DOMAIN b : \E i \in DOMAIN b[l] : b[l][i] = e
      BY DEF Spread
    <3>2. CASE l = k
      BY <1>4, <3>1, <3>2
    <3>3. CASE l # k
      BY <1>1, <3>1, <3>3
    <3>. QED  BY <3>2, <3>3
  <2>. QED  BY <2>1, <2>2
<1>8. ASSUME NEW l \in DOMAIN b, NEW m \in DOMAIN b, NEW i \in DOMAIN c[l],
             NEW j \in DOMAIN c[m], c[l][i] = c[m][j]
      PROVE  l = m /\ i = j
  <2>1. \A h \in DOMAIN b : \A a \in DOMAIN c[h] :
          \/ h # k /\ a \in DOMAIN b[h] /\ c[h][a] = b[h][a]
          \/ h = k /\ a \in DOMAIN q /\ c[h][a] = q[a]
          \/ h = k /\ a - n \in DOMAIN b[h] /\ c[h][a] = b[h][a - n]
    BY <1>1, <1>4
  <2>2. \A a \in DOMAIN q : q[a] \in T /\ q[a] \notin S
    BY <1>3
  <2>3. CASE (l = k /\ i \in DOMAIN q /\ c[l][i] = q[i]) \/ (m = k /\ j \in DOMAIN q /\ c[m][j] = q[j])
    BY <1>5, <1>8, <2>1, <2>2, <2>3
  <2>4. ASSUME NEW a \in DOMAIN b[l], NEW d \in DOMAIN b[m], c[l][i] = b[l][a], c[m][j] = b[m][d]
        PROVE  l = m /\ a = d
    <3>1. b[l][a] = b[m][d]
      BY <1>8, <2>4
    <3>. QED  BY <3>1, Once
  <2>5. i \in Int /\ j \in Int /\ n \in Int
    <3>1. \A h \in DOMAIN b : DOMAIN c[h] \subseteq Int
      <4>1. \A h \in DOMAIN b : DOMAIN c[h] = 1 .. Len(c[h])
        BY <1>6
      <4>. QED  BY <4>1
    <3>. QED  BY <1>1, <1>3, <3>1
  <2>. QED  BY <2>1, <2>3, <2>4, <2>5
<1>9. Spread(c, T \cup S)
  BY <1>1, <1>6, <1>7, <1>8 DEF Spread
<1>. QED  BY <1>9 DEF c

(* A deal under way: what is not in hand is on the streams.                *)
Deals(files, count) ==
  {d \in [left : SUBSET files, batches : [1 .. count -> Seq(files)],
          loads : [1 .. count -> Nat]] : Spread(d.batches, files \ d.left)}

(* Nothing is in hand or dealt at first.                                   *)
LEMMA NewDealIsOne ==
  ASSUME NEW files, NEW count \in Nat
  PROVE  NewDeal(files, count) \in Deals(files, count)
<1>1. \A k \in 1 .. count : NewDeal(files, count).batches[k] = <<>>
  BY DEF NewDeal
<1>2. NewDeal(files, count) \in [left : SUBSET files, batches : [1 .. count -> Seq(files)],
                                loads : [1 .. count -> Nat]]
  BY DEF NewDeal
<1>3. files \ NewDeal(files, count).left = {}
  BY DEF NewDeal
<1>4. DOMAIN NewDeal(files, count).batches = 1 .. count
  BY DEF NewDeal
<1>. DEFINE b == NewDeal(files, count).batches
<1>. HIDE DEF b
<1>5. DOMAIN b = 1 .. count /\ \A k \in 1 .. count : b[k] = <<>> /\ DOMAIN b[k] = {}
                                                  /\ b[k] \in Seq({})
  <2>1. <<>> \in Seq({}) /\ DOMAIN <<>> = {}
    OBVIOUS
  <2>. QED  BY <1>1, <1>4, <2>1 DEF b
<1>6. Spread(b, {})
  BY <1>5 DEF Spread
<1>. QED  BY <1>2, <1>3, <1>6 DEF Deals, b

(* Each round of the deal puts one more file on a stream.                  *)
LEMMA DealOneKeeps ==
  ASSUME NEW files, IsFiniteSet(files), NEW size \in [files -> Nat],
         NEW count \in Nat \ {0}, NEW d \in Deals(files, count)
  PROVE  /\ DealOne(d, size) \in Deals(files, count)
         /\ d.left # {} => Cardinality(DealOne(d, size).left) = Cardinality(d.left) - 1
<1>. DEFINE f == Largest(d.left, size)
            k == LightestStream(d.loads)
            e == DealOne(d, size)
<1>1. /\ d.left \in SUBSET files /\ d.batches \in [1 .. count -> Seq(files)]
      /\ d.loads \in [1 .. count -> Nat] /\ Spread(d.batches, files \ d.left)
  BY DEF Deals
<1>2. CASE d.left = {}
  BY <1>2 DEF DealOne
<1>3. CASE d.left # {}
  <2>1. f \in d.left
    BY <1>1, <1>3, LargestExists
  <2>2. k \in 1 .. count
    BY <1>1, LightestExists
  <2>3. /\ e.left = d.left \ {f}
        /\ e.batches = [d.batches EXCEPT ![k] = Append(@, f)]
        /\ e.loads = [d.loads EXCEPT ![k] = @ + size[f]]
        /\ e = [left |-> e.left, batches |-> e.batches, loads |-> e.loads]
    BY <1>3 DEF DealOne
  <2>. HIDE DEF f, k, e
  <2>4. e.left \in SUBSET files /\ f \in files /\ size[f] \in Nat
    BY <1>1, <2>1, <2>3
  <2>5. e.batches \in [1 .. count -> Seq(files)]
    <3>1. d.batches[k] \in Seq(files)
      BY <1>1, <2>2
    <3>2. Append(d.batches[k], f) \in Seq(files)
      BY <2>4, <3>1
    <3>. QED  BY <1>1, <2>2, <2>3, <3>2
  <2>6. e.loads \in [1 .. count -> Nat]
    BY <1>1, <2>2, <2>3, <2>4
  <2>7. Spread(e.batches, (files \ d.left) \cup {f})
    <3>1. k \in DOMAIN d.batches /\ f \notin files \ d.left
      BY <1>1, <2>1, <2>2
    <3>2. Spread(d.batches, files \ d.left)
      BY <1>1
    <3>3. Spread([d.batches EXCEPT ![k] = Append(@, f)], (files \ d.left) \cup {f})
      BY Zenon, <3>1, <3>2, SpreadOneMore
    <3>. QED  BY <2>3, <3>3
  <2>8. (files \ d.left) \cup {f} = files \ e.left
    BY <1>1, <2>1, <2>3
  <2>9. e \in Deals(files, count)
    BY <2>3, <2>4, <2>5, <2>6, <2>7, <2>8 DEF Deals
  <2>10. Cardinality(e.left) = Cardinality(d.left) - 1
    <3>1. IsFiniteSet(d.left)
      BY <1>1, FS_Subset
    <3>. QED  BY ZenonT(60), <2>1, <2>3, <3>1, FS_RemoveElement
  <2>. QED  BY <2>9, <2>10 DEF e
<1>. QED  BY <1>2, <1>3

(* The rounds of a deal are a function.                                    *)
LEMMA DealGoesOn ==
  ASSUME NEW files, IsFiniteSet(files), NEW size \in [files -> Nat], NEW count \in Nat \ {0}
  PROVE  \E g : g = [n \in Nat |-> IF n = 0 THEN NewDeal(files, count)
                                  ELSE DealOne(g[n - 1], size)]
<1>. DEFINE D == Deals(files, count)
            base == NewDeal(files, count)
            step == [d \in D |-> DealOne(d, size)]
<1>1. base \in D /\ step \in [D -> D]
  BY NewDealIsOne, DealOneKeeps
<1>2. \A d \in D : step[d] = DealOne(d, size)
  OBVIOUS
<1>. HIDE DEF D, step, base
<1>3. PICK g \in [Nat -> D] : g[0] = base /\ \A n \in Nat : g[n + 1] = step[g[n]]
  <2>1. Iterations(D, base, step) # {}
    BY <1>1, Iterates
  <2>. QED  BY <2>1 DEF Iterations
<1>4. ASSUME NEW n \in Nat
      PROVE  g[n] = IF n = 0 THEN base ELSE DealOne(g[n - 1], size)
  <2>1. CASE n = 0
    BY <1>3, <2>1
  <2>2. CASE n # 0
    <3>1. n - 1 \in Nat /\ (n - 1) + 1 = n
      BY <2>2
    <3>2. g[n] = step[g[n - 1]]
      BY <1>3, <3>1
    <3>. QED  BY <1>2, <1>3, <2>2, <3>1, <3>2
  <2>. QED  BY <2>1, <2>2
<1>5. g = [n \in Nat |-> IF n = 0 THEN base ELSE DealOne(g[n - 1], size)]
  BY <1>3, <1>4
<1>. QED  BY Zenon, <1>5 DEF base

(* _upload_parallel_entries spreads files and directories over the         *)
(* streams: each of them is in one batch, once.                            *)
THEOREM BatchesSpread ==
  ASSUME NEW files, IsFiniteSet(files), NEW dirs, IsFiniteSet(dirs), files \cap dirs = {},
         NEW size \in [files -> Nat], NEW count \in Nat \ {0}
  PROVE  /\ DOMAIN Batches(files, dirs, size, count) = 1 .. count
         /\ Spread(Batches(files, dirs, size, count), files \cup dirs)
<1>. DEFINE D == Deals(files, count)
            deal[n \in Nat] == IF n = 0 THEN NewDeal(files, count) ELSE DealOne(deal[n - 1], size)
            N == Cardinality(files)
<1>0. N \in Nat
  BY FS_CardinalityType
<1>1. deal = [n \in Nat |-> IF n = 0 THEN NewDeal(files, count) ELSE DealOne(deal[n - 1], size)]
  <2>1. PICK g : g = [n \in Nat |-> IF n = 0 THEN NewDeal(files, count) ELSE DealOne(g[n - 1], size)]
    BY DealGoesOn
  <2>. QED  BY Zenon, <2>1
<1>2. Batches(files, dirs, size, count) = [deal[N].batches EXCEPT ![1] = SetToSeq(dirs) \o @]
  BY Zenon DEF Batches
<1>. HIDE DEF deal, N
<1>3. deal[0] = NewDeal(files, count) /\ \A n \in Nat : deal[n + 1] = DealOne(deal[n], size)
  <2>1. \A n \in Nat : deal[n] = IF n = 0 THEN NewDeal(files, count) ELSE DealOne(deal[n - 1], size)
    BY Zenon, <1>1
  <2>2. \A n \in Nat : n + 1 \in Nat /\ n + 1 # 0 /\ (n + 1) - 1 = n
    OBVIOUS
  <2>. QED  BY <2>1, <2>2
<1>4. deal[N] \in D /\ Cardinality(deal[N].left) = 0
  <2>. DEFINE T == {n \in Nat : /\ deal[n] \in D
                                /\ n <= N => Cardinality(deal[n].left) = N - n}
  <2>1. 0 \in T
    <3>1. deal[0].left = files
      BY <1>3 DEF NewDeal
    <3>. QED  BY <1>0, <1>3, <3>1, NewDealIsOne DEF N
  <2>2. ASSUME NEW n \in Nat, n \in T PROVE n + 1 \in T
    <3>. HIDE DEF D
    <3>1. deal[n] \in Deals(files, count)
      BY <2>2 DEF D
    <3>2. deal[n + 1] = DealOne(deal[n], size)
      BY <1>3
    <3>3. deal[n + 1] \in D
      BY <3>1, <3>2, DealOneKeeps DEF D
    <3>4. ASSUME n + 1 <= N PROVE Cardinality(deal[n + 1].left) = N - (n + 1)
      <4>1. Cardinality(deal[n].left) = N - n /\ N - n # 0
        BY <1>0, <2>2, <3>4
      <4>2. deal[n].left # {}
        BY <4>1, FS_EmptySet
      <4>3. Cardinality(deal[n + 1].left) = Cardinality(deal[n].left) - 1
        BY <3>1, <3>2, <4>2, DealOneKeeps
      <4>. QED  BY <1>0, <4>1, <4>3
    <3>. QED  BY <3>3, <3>4
  <2>. HIDE DEF T, D
  <2>3. Nat \subseteq T
    BY <2>1, <2>2, AllNat
  <2>4. N \in T
    BY <1>0, <2>3
  <2>. QED  BY <1>0, <2>4 DEF T
<1>. DEFINE b == deal[N].batches
<1>5. b \in [1 .. count -> Seq(files)] /\ Spread(b, files)
  <2>1. deal[N].left \in SUBSET files /\ b \in [1 .. count -> Seq(files)]
        /\ Spread(b, files \ deal[N].left)
    BY <1>4 DEF Deals
  <2>2. IsFiniteSet(deal[N].left)
    BY <2>1, FS_Subset
  <2>3. deal[N].left = {}
    BY <1>4, <2>2, FS_EmptySet
  <2>. QED  BY <2>1, <2>3
<1>. HIDE DEF b
<1>6. 1 \in DOMAIN b /\ DOMAIN b = 1 .. count
  BY <1>5
<1>7. Batches(files, dirs, size, count) = [b EXCEPT ![1] = SetToSeq(dirs) \o @]
  BY <1>2 DEF b
<1>8. Spread([b EXCEPT ![1] = SetToSeq(dirs) \o @], dirs \cup files)
  BY ZenonT(60), <1>5, <1>6, Listed, SpreadBefore
<1>9. dirs \cup files = files \cup dirs
  OBVIOUS
<1>. QED  BY <1>6, <1>7, <1>8, <1>9

-----------------------------------------------------------------------------
(* The refinement: what a stream sends, what its session stores, and what  *)
(* the coordinator concludes from the answers.                             *)

LinkFields == {"ctl", "down", "up", "data", "frames", "reply"}
Frames     == [entry : Entries \cup {"tag"}, intact : BOOLEAN]
Early      == {"unused", "waiting", "start", "control", "ack", "status", "grant", "connect"}
Committing == {"verified", "placing", "copying"}

(* The entries the session has taken off the wire.                         *)
Taken(s) == IF dev[s].at \in Committing THEN dev[s].got + 1 ELSE dev[s].got

(* The frames under way are the entries between the last one taken and the *)
(* last one sent, and the transcript's tag once everything was sent.       *)
Untagged(s) ==
  /\ Len(link[s].frames) + Taken(s) = pc[s].sent
  /\ \A i \in 1 .. Len(link[s].frames) :
       link[s].frames[i].entry = pc[s].batch[Taken(s) + i]

Tagged(s) ==
  /\ pc[s].at \notin Early \cup {"sending"}
  /\ pc[s].sent = Len(pc[s].batch)
  /\ Len(link[s].frames) + Taken(s) = pc[s].sent + 1
  /\ \A i \in 1 .. Len(link[s].frames) :
       link[s].frames[i].entry = IF Taken(s) + i = pc[s].sent + 1 THEN "tag"
                                 ELSE pc[s].batch[Taken(s) + i]

(* One session: the wire, the file being received, and the answer, which   *)
(* exists only when every entry of the batch was stored.                   *)
LinkShape == DOMAIN link = Sessions /\ \A s \in Sessions : DOMAIN link[s] = LinkFields

Wire(s) ==
  /\ pc[s].batch \in Seq(Entries)
  /\ pc[s].sent \in Nat /\ pc[s].sent <= Len(pc[s].batch)
  /\ link[s].frames \in Seq(Frames)
  /\ dev[s].got \in Nat /\ dev[s].got <= Len(pc[s].batch)
  /\ pc[s].at \in Early => pc[s].sent = 0 /\ link[s].frames = <<>> /\ ~link[s].reply
  /\ dev[s].at # "ended" => Untagged(s) \/ Tagged(s)
  /\ dev[s].at \in Committing \cup {"payload"} =>
       /\ dev[s].got < Len(pc[s].batch)
       /\ dev[s].file = pc[s].batch[dev[s].got + 1]
       /\ dev[s].file \in Files
  /\ dev[s].at = "payload" => link[s].frames # <<>> /\ Head(link[s].frames).entry = dev[s].file
  /\ link[s].reply => dev[s].at = "ended" /\ dev[s].got = Len(pc[s].batch)

(* A stream that ends without a failure has the answer.                    *)
Answered(s) ==
  /\ pc[s].at \in {"cleanup", "done"} /\ pc[s].fail = "none" => link[s].reply
  /\ pc[s].at = "fetch" => pc[s].fail # "none"

SessionInv == LinkShape /\ \A s \in Sessions : Wire(s) /\ Answered(s)

(* The coordinator: what it has collected, and what it may still decide.   *)
Collected ==
  /\ scenario \in Scenarios
  /\ contested \in BOOLEAN
  /\ streams \subseteq Sessions /\ reaped \subseteq streams
  /\ \A s \in reaped : pc[s].at = "done" /\ (primary = "none" => pc[s].fail = "none")
  /\ phase # "ended" => outcome = "running"
  /\ phase = "new" => streams = {}
  /\ phase = "uploading" => streams # {}
  /\ phase = "granting" => reaped = streams
  /\ outcome = "success" => reaped = streams /\ primary = "none"

(* The streams of the attempt share all entries, each of them once.        *)
Shared == streams # {} => Spread([s \in streams |-> pc[s].batch], Entries)

(* Unless an earlier attempt is still at work, only the streams of this    *)
(* one are, and what their sessions counted is stored.                     *)
Quiet == ~contested => \A s \in Sessions \ streams : /\ pc[s].at \in {"unused", "done"}
                                                     /\ dev[s].at \in {"none", "ended"}
Kept  == ~contested => \A s \in streams : \A i \in 1 .. dev[s].got :
                         store[pc[s].batch[i]] = "new"

(* The inductive invariant of the refinement.                              *)
DInv == IInv /\ SessionInv /\ Collected /\ Shared /\ Quiet /\ Kept

(* The planned batches share the entries.                                  *)
LEMMA PlanSpreads ==
  ASSUME scenario \in Scenarios
  PROVE  DOMAIN PlannedBatches = 1 .. StreamCount /\ Spread(PlannedBatches, Entries)
<1>. USE P2PAssumption
<1>1. StreamCount \in Nat \ {0} /\ (Cardinality(Files) <= 1 => StreamCount = 1)
  BY StreamCountIsPositive
<1>2. CASE StreamCount <= 1 \/ Cardinality(Files) <= 1
  <2>1. StreamCount = 1 /\ PlannedBatches = <<SetToSeq(Dirs) \o SetToSeq(Files)>>
    BY <1>1, <1>2 DEF PlannedBatches
  <2>. DEFINE p == SetToSeq(Dirs)
              q == SetToSeq(Files)
  <2>2. q \in Seq(Files) /\ (\A i, j \in DOMAIN q : q[i] = q[j] => i = j)
        /\ (\A x \in Files : \E i \in DOMAIN q : q[i] = x)
    BY Listed
  <2>3. p \in Seq(Dirs) /\ (\A i, j \in DOMAIN p : p[i] = p[j] => i = j)
        /\ (\A x \in Dirs : \E i \in DOMAIN p : p[i] = x)
    BY Listed
  <2>. HIDE DEF q, p
  <2>. DEFINE b == <<q>>
  <2>4. DOMAIN b = {1} /\ b[1] = q /\ 1 \in DOMAIN b
    OBVIOUS
  <2>7. [b EXCEPT ![1] = p \o @] = <<p \o q>>
    OBVIOUS
  <2>. HIDE DEF b
  <2>5. Spread(b, Files) /\ Dirs \cap Files = {}
    BY <2>2, <2>4 DEF Spread
  <2>6. Spread([b EXCEPT ![1] = p \o @], Dirs \cup Files)
    BY Zenon, <2>3, <2>4, <2>5, SpreadBefore
  <2>8. DOMAIN <<p \o q>> = 1 .. 1
    OBVIOUS
  <2>9. Entries = Dirs \cup Files
    BY DEF Entries
  <2>. QED  BY <2>1, <2>6, <2>7, <2>8, <2>9 DEF p, q
<1>3. CASE ~(StreamCount <= 1 \/ Cardinality(Files) <= 1)
  <2>1. PlannedBatches = Batches(Files, Dirs, scenario.size, StreamCount)
    BY <1>3 DEF PlannedBatches
  <2>2. scenario.size \in [Files -> Nat]
    OBVIOUS
  <2>. QED  BY SMTT(30), <1>1, <2>1, <2>2, BatchesSpread DEF Entries
<1>. QED  BY <1>2, <1>3

(* A step that leaves what a session has sent, taken and answered alone.   *)
Calm(s) ==
  /\ pc'[s].batch = pc[s].batch /\ pc'[s].sent = pc[s].sent
  /\ dev'[s].got = dev[s].got /\ dev'[s].file = dev[s].file
  /\ link'[s].frames = link[s].frames /\ link'[s].reply = link[s].reply
  /\ pc'[s].at \in Early => pc[s].at \in Early
  /\ pc'[s].at \in Early \cup {"sending"} => pc[s].at \in Early \cup {"sending"}
  /\ dev[s].at = "ended" => dev'[s].at = "ended"
  /\ dev'[s].at \in Committing \cup {"ended"} \/ dev[s].at \notin Committing
  /\ dev'[s].at \in Committing => dev[s].at \in Committing
  /\ dev'[s].at = "payload" => dev[s].at = "payload"

(* A calm step keeps what is known of the wire.                            *)
LEMMA CalmKeepsWire ==
  ASSUME NEW s \in Sessions, Wire(s), Calm(s)
  PROVE  Wire(s)'
<1>1. CASE dev'[s].at = "ended"
  BY <1>1 DEF Wire, Calm, Committing
<1>2. CASE dev'[s].at # "ended"
  <2>1. Taken(s)' = Taken(s) /\ dev[s].at # "ended"
    BY <1>2 DEF Calm, Taken, Committing
  <2>2. Untagged(s) => Untagged(s)'
    BY <2>1 DEF Calm, Untagged
  <2>3. Tagged(s) => Tagged(s)'
    BY <2>1 DEF Calm, Tagged
  <2>4. (Untagged(s) \/ Tagged(s))'
    BY <2>1, <2>2, <2>3 DEF Wire
  <2>. HIDE DEF Untagged, Tagged
  <2>. QED  BY <1>2, <2>1, <2>4 DEF Wire, Calm
<1>. QED  BY <1>1, <1>2

(* What a stream does to its session, and that it does it to no other.     *)
Elsewhere(s) == \A t \in Sessions \ {s} : pc'[t] = pc[t] /\ dev'[t] = dev[t] /\ link'[t] = link[t]

(* A step that concerns one session has to be examined there only.         *)
LEMMA OthersKeep ==
  ASSUME NEW s \in Sessions, SessionInv, Elsewhere(s), LinkShape', Wire(s)', Answered(s)'
  PROVE  SessionInv'
<1>. SUFFICES ASSUME NEW t \in Sessions \ {s} PROVE Wire(t)' /\ Answered(t)'
  BY DEF SessionInv
<1>1. Wire(t) /\ Answered(t) /\ pc'[t] = pc[t] /\ dev'[t] = dev[t] /\ link'[t] = link[t]
  BY DEF SessionInv, Elsewhere
<1>2. Calm(t)
  BY <1>1 DEF Calm
<1>. QED  BY <1>1, <1>2, CalmKeepsWire DEF Answered

StreamEffect(s) ==
  /\ LinkShape' /\ Elsewhere(s)
  /\ UNCHANGED <<coordVars, store, scenario>>
  /\ pc[s].at \notin {"unused", "done"}
  /\ pc'[s].batch = pc[s].batch /\ dev'[s].got = dev[s].got

(* Every step of a stream has these effects.                               *)
LEMMA StreamEffects ==
  ASSUME Shape, LinkShape, NEW s \in Sessions, Stream(s)
  PROVE  StreamEffect(s)
<1>. USE DEF Shape, LinkShape, StreamEffect, Elsewhere, PcFrame, coordVars, envVars,
             DevFields, PcFields, LinkFields
<1>1. CASE CreateForward(s)
  BY <1>1 DEF CreateForward, Fail, PcAt
<1>2. CASE StartService(s)
  BY <1>2 DEF StartService, Fail, DevAt
<1>3. CASE ConnectControl(s)
  BY <1>3 DEF ConnectControl, Fail, PcAt, DevAt
<1>4. CASE ReadAcknowledgement(s)
  <2>1. LinkShape' /\ \A t \in Sessions \ {s} : link'[t] = link[t]
    BY <1>4 DEF ReadAcknowledgement, ReadUp
  <2>2. pc'[s].batch = pc[s].batch /\ \A t \in Sessions \ {s} : pc'[t] = pc[t]
    BY <1>4 DEF ReadAcknowledgement, Fail, PcAt
  <2>. QED  BY <1>4, <2>1, <2>2 DEF ReadAcknowledgement
<1>5. CASE ReadStatus(s)
  BY <1>5 DEF ReadStatus, Fail, PcAt, ReadUp
<1>6. CASE GrantAccess(s)
  BY <1>6 DEF GrantAccess, Fail, PcAt
<1>7. CASE ConnectData(s)
  BY <1>7 DEF ConnectData, Fail, PcAt
<1>8. CASE Send(s)
  BY <1>8 DEF Send, Fail, PcAt
<1>9. CASE ReadReply(s)
  BY <1>9 DEF ReadReply, Fail
<1>10. CASE FetchError(s)
  BY <1>10 DEF FetchError, Fail, PcAt, ReadUp
<1>11. CASE CleanUp(s)
  BY <1>11 DEF CleanUp, PcAt, Disconnect
<1>. QED
  BY <1>1, <1>2, <1>3, <1>4, <1>5, <1>6, <1>7, <1>8, <1>9, <1>10, <1>11 DEF Stream

(* Except for Send, a stream says nothing on the data connection, and it   *)
(* succeeds only in ReadReply.                                             *)
LEMMA StreamIsCalm ==
  ASSUME Shape, LinkShape, NotStarted, NEW s \in Sessions, Answered(s), Stream(s), ~Send(s)
  PROVE  Calm(s) /\ Answered(s)'
<1>. USE DEF Shape, LinkShape, Calm, Answered, PcFrame, coordVars, envVars,
             DevFields, PcFields, LinkFields, Early, Committing
<1>1. CASE CreateForward(s)
  BY <1>1 DEF CreateForward, Fail, PcAt
<1>2. CASE StartService(s)
  <2>1. dev[s].at = "none" /\ pc[s].at = "start"
    BY <1>2 DEF StartService, NotStarted
  <2>. QED  BY <2>1, <1>2 DEF StartService, Fail, DevAt
<1>3. CASE ConnectControl(s)
  BY <1>3 DEF ConnectControl, Fail, PcAt, DevAt
<1>4. CASE ReadAcknowledgement(s)
  <2>1. /\ link'[s].frames = link[s].frames /\ link'[s].reply = link[s].reply
    BY <1>4 DEF ReadAcknowledgement, ReadUp
  <2>. QED  BY <1>4, <2>1 DEF ReadAcknowledgement, Fail, PcAt
<1>5. CASE ReadStatus(s)
  <2>1. /\ link'[s].frames = link[s].frames /\ link'[s].reply = link[s].reply
    <3>1. UNCHANGED link \/ ReadUp(s)
      BY <1>5 DEF ReadStatus
    <3>. QED  BY <3>1 DEF ReadUp
  <2>. QED  BY <1>5, <2>1 DEF ReadStatus, Fail, PcAt
<1>6. CASE GrantAccess(s)
  BY <1>6 DEF GrantAccess, Fail, PcAt
<1>7. CASE ConnectData(s)
  BY <1>7 DEF ConnectData, Fail, PcAt
<1>9. CASE ReadReply(s)
  BY <1>9 DEF ReadReply, Fail
<1>10. CASE FetchError(s)
  BY <1>10 DEF FetchError, Fail, PcAt, ReadUp
<1>11. CASE CleanUp(s)
  BY <1>11 DEF CleanUp, PcAt, Disconnect
<1>. QED
  BY <1>1, <1>2, <1>3, <1>4, <1>5, <1>6, <1>7, <1>9, <1>10, <1>11 DEF Stream

(* Send puts the next entry, or the tag after the last, behind the frames  *)
(* under way.                                                              *)
LEMMA SendKeeps ==
  ASSUME Shape, LinkShape, NEW s \in Sessions, Wire(s), Answered(s), Send(s)
  PROVE  Wire(s)' /\ Answered(s)'
<1>. USE DEF Shape, LinkShape, DevFields, PcFields, LinkFields
<1>. DEFINE b == pc[s].batch
            n == pc[s].sent
            f == link[s].frames
<1>1. pc[s].at = "sending" /\ dev' = dev /\ pc'[s].batch = b /\ link'[s].reply = link[s].reply
  BY DEF Send, Fail, PcAt
<1>2. Answered(s)'
  BY <1>1 DEF Send, Fail, PcAt, Answered
<1>3. CASE pc'[s].sent = n /\ link'[s].frames = f /\ pc'[s].at \notin Early \cup {"sending"}
  <2>1. Calm(s)
    BY <1>1, <1>3 DEF Calm, Committing
  <2>. QED  BY <1>2, <2>1, CalmKeepsWire
<1>4. b \in Seq(Entries) /\ n \in Nat /\ n <= Len(b) /\ f \in Seq(Frames)
      /\ (dev[s].at # "ended" => Untagged(s))
  BY <1>1 DEF Wire, Tagged
<1>5. Taken(s)' = Taken(s) /\ (Wire(s) => Taken(s) \in Nat)
  BY <1>1 DEF Taken, Wire
<1>6. CASE \E x \in BOOLEAN : /\ n < Len(b)
                              /\ link'[s].frames = Append(f, Frame(b[n + 1], x))
                              /\ pc'[s].sent = n + 1 /\ pc'[s].at = "sending"
  <2>1. PICK x \in BOOLEAN : /\ n < Len(b)
                             /\ link'[s].frames = Append(f, Frame(b[n + 1], x))
                             /\ pc'[s].sent = n + 1 /\ pc'[s].at = "sending"
    BY <1>6
  <2>2. Frame(b[n + 1], x) \in Frames /\ Frame(b[n + 1], x).entry = b[n + 1]
    BY <1>4, <2>1 DEF Frame, Frames
  <2>3. /\ link'[s].frames \in Seq(Frames)
        /\ Len(link'[s].frames) = Len(f) + 1 /\ link'[s].frames # <<>>
        /\ \A i \in 1 .. Len(f) : link'[s].frames[i] = f[i]
        /\ link'[s].frames[Len(f) + 1].entry = b[n + 1]
        /\ f # <<>> => Head(link'[s].frames) = Head(f)
    BY SMTT(30), <1>4, <2>1, <2>2
  <2>4. Untagged(s) => Untagged(s)'
    <3>. SUFFICES ASSUME Untagged(s) PROVE Untagged(s)'
      OBVIOUS
    <3>1. Len(f) \in Nat /\ Taken(s) \in Nat /\ Len(f) + Taken(s) = n
      BY <1>4, <1>5 DEF Untagged
    <3>2. ASSUME NEW i \in 1 .. Len(link'[s].frames)
          PROVE  link'[s].frames[i].entry = b[Taken(s) + i]
      <4>1. CASE i = Len(f) + 1
        BY <2>3, <3>1, <4>1
      <4>2. CASE i \in 1 .. Len(f)
        BY <2>3, <4>2 DEF Untagged
      <4>. QED  BY <2>3, <3>1, <4>1, <4>2
    <3>3. Len(link'[s].frames) + Taken(s) = n + 1
      BY <2>3, <3>1
    <3>. QED  BY <1>1, <1>5, <2>1, <3>2, <3>3 DEF Untagged
  <2>5. n + 1 \in Nat /\ n + 1 <= Len(b)
    BY <1>4, <2>1
  <2>. HIDE DEF b, f, n
  <2>6. Wire(s)'
    BY <1>1, <1>4, <2>1, <2>3, <2>4, <2>5 DEF Wire, Early, b, f
  <2>. QED  BY <1>2, <2>6
<1>7. CASE n = Len(b) /\ link'[s].frames = Append(f, Tag) /\ pc'[s].sent = n
           /\ pc'[s].at = "reply"
  <2>2. Tag \in Frames /\ Tag.entry = "tag"
    BY DEF Tag, Frame, Frames
  <2>3. /\ link'[s].frames \in Seq(Frames)
        /\ Len(link'[s].frames) = Len(f) + 1 /\ link'[s].frames # <<>>
        /\ \A i \in 1 .. Len(f) : link'[s].frames[i] = f[i]
        /\ link'[s].frames[Len(f) + 1].entry = "tag"
        /\ f # <<>> => Head(link'[s].frames) = Head(f)
    BY <1>4, <1>7, <2>2
  <2>4. Untagged(s) => Tagged(s)'
    <3>. SUFFICES ASSUME Untagged(s) PROVE Tagged(s)'
      OBVIOUS
    <3>1. Len(f) \in Nat /\ Taken(s) \in Nat /\ Len(f) + Taken(s) = n
      BY <1>4, <1>5 DEF Untagged
    <3>2. ASSUME NEW i \in 1 .. Len(link'[s].frames)
          PROVE  link'[s].frames[i].entry = IF Taken(s) + i = n + 1 THEN "tag"
                                            ELSE b[Taken(s) + i]
      <4>1. CASE i = Len(f) + 1
        BY <2>3, <3>1, <4>1
      <4>2. CASE i \in 1 .. Len(f)
        <5>1. Taken(s) + i # n + 1
          BY <3>1, <4>2
        <5>. QED  BY <2>3, <4>2, <5>1 DEF Untagged
      <4>. QED  BY <2>3, <3>1, <4>1, <4>2
    <3>3. Len(link'[s].frames) + Taken(s) = n + 1
      BY <2>3, <3>1
    <3>. QED  BY <1>1, <1>5, <1>7, <3>2, <3>3 DEF Tagged, Early
  <2>. HIDE DEF b, f, n
  <2>5. Wire(s)'
    BY <1>1, <1>4, <1>7, <2>3, <2>4 DEF Wire, Early, b, f, n
  <2>. QED  BY <1>2, <2>5
<1>8. \/ pc'[s].sent = n /\ link'[s].frames = f /\ pc'[s].at \notin Early \cup {"sending"}
      \/ \E x \in BOOLEAN : /\ n < Len(b)
                            /\ link'[s].frames = Append(f, Frame(b[n + 1], x))
                            /\ pc'[s].sent = n + 1 /\ pc'[s].at = "sending"
      \/ n = Len(b) /\ link'[s].frames = Append(f, Tag) /\ pc'[s].sent = n
           /\ pc'[s].at = "reply"
  BY DEF Send, Fail, PcAt, Early
<1>. QED  BY <1>3, <1>6, <1>7, <1>8

(* A session's worker leaves the desktop and the other sessions alone.     *)
WorkerEffect(s) ==
  /\ LinkShape' /\ Elsewhere(s)
  /\ UNCHANGED <<coordVars, pc, scenario>>
  /\ dev[s].at \notin {"none", "ended"}

(* The end of a session (the finally of its worker) takes nothing off the  *)
(* wire and answers no success.                                            *)
LEMMA EndLeaves ==
  ASSUME Shape, LinkShape, NEW s \in Sessions, NEW line, NEW half,
         End(s, line) \/ EndLeaving(s, line, half)
  PROVE  /\ LinkShape' /\ \A t \in Sessions \ {s} : dev'[t] = dev[t] /\ link'[t] = link[t]
         /\ dev'[s].at = "ended" /\ dev'[s].got = dev[s].got /\ dev'[s].file = dev[s].file
         /\ link'[s].frames = link[s].frames /\ link'[s].reply = link[s].reply
<1>1. PICK h : EndLeaving(s, line, h)
  BY DEF End
<1>2. PICK kept \in SUBSET (dev[s].temps \cap {dev[s].file}) :
        dev' = [dev EXCEPT ![s].at = "ended",
                           ![s].temps  = (@ \ {dev[s].file}) \cup kept,
                           ![s].litter = @ \cup kept,
                           ![s].torn   = @ \cup h]
  BY <1>1 DEF EndLeaving
<1>3. /\ dev'[s].at = "ended" /\ dev'[s].got = dev[s].got /\ dev'[s].file = dev[s].file
      /\ \A t \in Sessions \ {s} : dev'[t] = dev[t]
  BY <1>2 DEF Shape, DevFields
<1>4. /\ LinkShape' /\ \A t \in Sessions \ {s} : link'[t] = link[t]
      /\ link'[s].frames = link[s].frames /\ link'[s].reply = link[s].reply
  BY <1>1 DEF LinkShape, EndLeaving, LinkFields
<1>. QED  BY <1>3, <1>4

(* Every step of a session's worker has these effects.                     *)
LEMMA WorkerEffects ==
  ASSUME Shape, LinkShape, NEW s \in Sessions, Service(s)
  PROVE  WorkerEffect(s)
<1>. USE DEF Shape, LinkShape, WorkerEffect, Elsewhere, DevFrame, coordVars, envVars,
             DevFields, LinkFields
<1>1. CASE StopWhenCancelled(s)
  BY <1>1, EndLeaves DEF StopWhenCancelled, Waits
<1>2. CASE Expire(s)
  BY <1>2, EndLeaves DEF Expire, Waits
<1>3. CASE Acknowledge(s)
  <2>1. CASE End(s, "none")
    BY <1>3, <2>1, EndLeaves DEF Acknowledge
  <2>2. CASE ~End(s, "none")
    BY <1>3, <2>2 DEF Acknowledge, DevAt
  <2>. QED  BY <2>1, <2>2
<1>4. CASE ResolveAccess(s)
  <2>1. CASE End(s, "none")
    BY <1>4, <2>1, EndLeaves DEF ResolveAccess
  <2>2. CASE ~End(s, "none")
    BY <1>4, <2>2 DEF ResolveAccess
  <2>. QED  BY <2>1, <2>2
<1>5. CASE AcceptData(s)
  <2>1. CASE End(s, "ERROR")
    BY <1>5, <2>1, EndLeaves DEF AcceptData
  <2>2. CASE ~End(s, "ERROR")
    BY <1>5, <2>2 DEF AcceptData, DevAt
  <2>. QED  BY <2>1, <2>2
<1>6. CASE BeginFile(s)
  <2>1. CASE End(s, "DENIED")
    BY <1>6, <2>1, EndLeaves DEF BeginFile
  <2>2. CASE ~End(s, "DENIED")
    BY <1>6, <2>2 DEF BeginFile
  <2>. QED  BY <2>1, <2>2
<1>7. CASE MakeDirectory(s)
  BY <1>7 DEF MakeDirectory
<1>8. CASE VerifyPayload(s)
  <2>1. CASE End(s, "ERROR")
    BY <1>8, <2>1, EndLeaves DEF VerifyPayload
  <2>2. CASE ~End(s, "ERROR")
    BY <1>8, <2>2 DEF VerifyPayload, DevAt
  <2>. QED  BY <2>1, <2>2
<1>9. CASE ConnectionEnds(s)
  BY <1>9, EndLeaves DEF ConnectionEnds
<1>10. CASE DeleteTarget(s)
  <2>1. CASE End(s, "ERROR")
    BY <1>10, <2>1, EndLeaves DEF DeleteTarget
  <2>2. CASE ~End(s, "ERROR")
    BY <1>10, <2>2 DEF DeleteTarget, DevAt
  <2>. QED  BY <2>1, <2>2
<1>11. CASE PlaceTarget(s)
  BY <1>11 DEF PlaceTarget, Stored, DevAt
<1>12. CASE CopyTarget(s)
  <2>1. CASE Copied(s)
    BY <1>12, <2>1 DEF CopyTarget, Copied, Stored
  <2>2. ASSUME NEW half, End(s, "ERROR") \/ EndLeaving(s, "ERROR", half)
        PROVE  WorkerEffect(s)
    BY <1>12, <2>2, EndLeaves DEF CopyTarget
  <2>. QED  BY <1>12, <2>1, <2>2 DEF CopyTarget
<1>13. CASE Reply(s)
  BY <1>13 DEF Reply
<1>. QED
  BY <1>1, <1>2, <1>3, <1>4, <1>5, <1>6, <1>7, <1>8, <1>9, <1>10, <1>11, <1>12, <1>13
  DEF Service

(* What a worker's step does to the destination.                           *)
Writes(s) ==
  \/ UNCHANGED store /\ dev'[s].got = dev[s].got
  \/ /\ \E c \in {"none", "partial", "new"} : store' = [store EXCEPT ![dev[s].file] = c]
     /\ dev[s].at \in Committing /\ dev'[s].got = dev[s].got
  \/ /\ store' = [store EXCEPT ![dev[s].file] = "new"]
     /\ dev[s].at \in Committing /\ dev'[s].got = dev[s].got + 1
  \/ \E e \in Dirs : /\ store' = [store EXCEPT ![e] = "new"]
                     /\ dev[s].at = "receiving" /\ dev'[s].got = dev[s].got + 1
                     /\ dev[s].got < Len(pc[s].batch) /\ e = pc[s].batch[dev[s].got + 1]

(* The frame at the head is the next entry of the batch, or the tag.       *)
LEMMA HeadIsNext ==
  ASSUME NEW s \in Sessions, Wire(s), dev[s].at \in {"receiving", "payload"},
         link[s].frames # <<>>
  PROVE  /\ Head(link[s].frames).entry \in Entries =>
              /\ dev[s].got < Len(pc[s].batch)
              /\ Head(link[s].frames).entry = pc[s].batch[dev[s].got + 1]
         /\ Head(link[s].frames).entry = "tag" =>
              dev[s].got = Len(pc[s].batch) /\ Len(link[s].frames) = 1
         /\ Len(link[s].frames) \in Nat \ {0}
<1>. DEFINE b == pc[s].batch
            f == link[s].frames
            g == dev[s].got
<1>1. Taken(s) = g
  BY DEF Taken, Committing
<1>2. /\ f \in Seq(Frames) /\ b \in Seq(Entries) /\ g \in Nat /\ g <= Len(b)
      /\ pc[s].sent \in Nat /\ pc[s].sent <= Len(b)
      /\ Untagged(s) \/ Tagged(s)
  BY DEF Wire
<1>3. Len(f) \in Nat \ {0} /\ 1 \in 1 .. Len(f) /\ Head(f) = f[1] /\ Len(b) \in Nat
  BY <1>2
<1>4. \A i \in 1 .. Len(b) : b[i] \in Entries
  BY <1>2
<1>5. "tag" \notin Entries
  BY P2PAssumption DEF Entries
<1>. HIDE DEF b, f, g
<1>6. CASE Untagged(s)
  <2>1. Len(f) + g = pc[s].sent /\ f[1].entry = b[g + 1]
    BY <1>1, <1>3, <1>6 DEF Untagged, b, f
  <2>2. g < Len(b) /\ g + 1 \in 1 .. Len(b)
    BY <1>2, <1>3, <2>1
  <2>. QED  BY <1>3, <1>4, <1>5, <2>1, <2>2 DEF b, f, g
<1>7. CASE Tagged(s)
  <2>1. /\ Len(f) + g = Len(b) + 1
        /\ f[1].entry = IF g + 1 = Len(b) + 1 THEN "tag" ELSE b[g + 1]
    BY <1>1, <1>3, <1>7 DEF Tagged, b, f
  <2>2. CASE g = Len(b)
    <3>1. f[1].entry = "tag"
      BY <2>1, <2>2
    <3>2. Len(f) \in Nat /\ Len(b) \in Nat /\ Len(f) + Len(b) = Len(b) + 1
      BY <1>3, <2>1, <2>2
    <3>3. \A x, y \in Nat : x + y = y + 1 => x = 1
      OBVIOUS
    <3>4. Len(f) = 1
      BY <3>2, <3>3
    <3>. QED  BY <1>3, <1>5, <2>2, <3>1, <3>4 DEF b, f, g
  <2>3. CASE g # Len(b)
    <3>1. g < Len(b) /\ g + 1 \in 1 .. Len(b) /\ g + 1 # Len(b) + 1
      BY <1>2, <1>3, <2>3
    <3>. QED  BY <1>3, <1>4, <1>5, <2>1, <3>1 DEF b, f, g
  <2>. QED  BY <2>2, <2>3
<1>. QED  BY <1>2, <1>6, <1>7

(* The frame that was taken is no longer on the wire.                      *)
LEMMA TakingOne ==
  ASSUME NEW s \in Sessions, Wire(s), dev[s].at \in {"receiving", "payload"},
         link[s].frames # <<>>, Head(link[s].frames).entry \in Entries,
         UNCHANGED pc, link'[s].frames = Tail(link[s].frames), Taken(s)' = dev[s].got + 1
  PROVE  /\ (Untagged(s) \/ Tagged(s))'
         /\ link'[s].frames \in Seq(Frames)
<1>. DEFINE b == pc[s].batch
            f == link[s].frames
            t == link'[s].frames
            g == dev[s].got
<1>1. Taken(s) = g /\ Taken(s)' = g + 1
  BY DEF Taken, Committing
<1>2. f \in Seq(Frames) /\ g \in Nat /\ (Untagged(s) \/ Tagged(s)) /\ pc[s].sent \in Nat
  BY DEF Wire
<1>3. /\ t \in Seq(Frames) /\ Len(f) \in Nat \ {0} /\ Len(t) = Len(f) - 1
      /\ \A i \in 1 .. Len(t) : t[i] = f[i + 1] /\ i + 1 \in 1 .. Len(f)
  <2>1. Len(f) \in Nat \ {0}
    BY <1>2
  <2>2. Tail(f) \in Seq(Frames) /\ Len(Tail(f)) = Len(f) - 1
    BY <1>2
  <2>3. \A i \in 1 .. Len(Tail(f)) : Tail(f)[i] = f[i + 1]
    BY <1>2
  <2>4. \A i \in 1 .. (Len(f) - 1) : i + 1 \in 1 .. Len(f)
    BY <2>1
  <2>. QED  BY <2>1, <2>2, <2>3, <2>4
<1>. HIDE DEF f, t, g
<1>4. CASE Untagged(s)
  <2>1. Len(f) + g = pc[s].sent /\ \A i \in 1 .. Len(f) : f[i].entry = b[g + i]
    BY <1>1, <1>4 DEF Untagged, f
  <2>2. Len(t) + (g + 1) = pc[s].sent
    BY <1>2, <1>3, <2>1
  <2>3. ASSUME NEW i \in 1 .. Len(t) PROVE t[i].entry = b[(g + 1) + i]
    <3>1. (g + 1) + i = g + (i + 1)
      BY <1>2, <1>3
    <3>. QED  BY <1>3, <2>1, <3>1
  <2>4. Untagged(s)'
    BY <1>1, <2>2, <2>3 DEF Untagged, t
  <2>. QED  BY <1>3, <2>4 DEF t
<1>5. CASE Tagged(s)
  <2>1. /\ Len(f) + g = pc[s].sent + 1
        /\ \A i \in 1 .. Len(f) :
             f[i].entry = IF g + i = pc[s].sent + 1 THEN "tag" ELSE b[g + i]
    BY <1>1, <1>5 DEF Tagged, f
  <2>2. Len(t) + (g + 1) = pc[s].sent + 1
    BY <1>2, <1>3, <2>1
  <2>3. ASSUME NEW i \in 1 .. Len(t)
        PROVE  t[i].entry = IF (g + 1) + i = pc[s].sent + 1 THEN "tag" ELSE b[(g + 1) + i]
    <3>1. (g + 1) + i = g + (i + 1)
      BY <1>2, <1>3
    <3>. QED  BY <1>3, <2>1, <3>1
  <2>4. Tagged(s)'
    BY SMTT(30), <1>1, <1>5, <2>2, <2>3 DEF Tagged, t
  <2>. QED  BY <1>3, <2>4 DEF t
<1>. QED  BY <1>2, <1>4, <1>5

(* The worker takes frames off the wire, counts what it has stored, and    *)
(* answers only when the tag is all that is left.                          *)
LEMMA MakeDirectoryKeeps ==
  ASSUME Shape, LinkShape, NEW s \in Sessions, Wire(s), Answered(s), MakeDirectory(s)
  PROVE  Wire(s)' /\ Answered(s)' /\ Writes(s)
<1>. USE DEF Shape, LinkShape, DevFields, LinkFields, DevFrame
<1>1. /\ dev[s].at = "receiving" /\ dev'[s].at = "receiving" /\ dev'[s].got = dev[s].got + 1
      /\ link[s].frames # <<>> /\ link'[s].frames = Tail(link[s].frames)
      /\ link'[s].reply = link[s].reply /\ UNCHANGED pc
      /\ Head(link[s].frames).entry \in Dirs
      /\ store' = [store EXCEPT ![Head(link[s].frames).entry] = "new"]
  BY DEF MakeDirectory
<1>2. Head(link[s].frames).entry \in Entries
  BY <1>1 DEF Entries
<1>3. dev[s].got < Len(pc[s].batch)
      /\ Head(link[s].frames).entry = pc[s].batch[dev[s].got + 1]
  BY <1>1, <1>2, HeadIsNext
<1>4. Taken(s)' = dev[s].got + 1
  BY <1>1 DEF Taken, Committing
<1>5. (Untagged(s) \/ Tagged(s))' /\ link'[s].frames \in Seq(Frames)
  BY <1>1, <1>2, <1>4, TakingOne
<1>6. dev'[s].got \in Nat /\ dev'[s].got <= Len(pc[s].batch)
  BY <1>1, <1>3 DEF Wire
<1>7. pc[s].at \notin Early
  BY <1>1 DEF Wire
<1>8. ~link[s].reply
  BY <1>1 DEF Wire
<1>9. Wire(s)'
  BY <1>1, <1>5, <1>6, <1>7, <1>8 DEF Wire, Committing
<1>. QED  BY <1>1, <1>3, <1>9 DEF Answered, Writes

(* Taking a payload: the verified file is the next entry of the batch.     *)
LEMMA VerifyPayloadKeeps ==
  ASSUME Shape, LinkShape, NEW s \in Sessions, Wire(s), Answered(s), VerifyPayload(s)
  PROVE  Wire(s)' /\ Answered(s)' /\ Writes(s)
<1>. USE DEF Shape, LinkShape, DevFields, LinkFields, DevFrame
<1>1. CASE End(s, "ERROR")
  <2>1. UNCHANGED <<pc, store>>
    BY DEF VerifyPayload
  <2>2. /\ dev'[s].at = "ended" /\ dev'[s].got = dev[s].got /\ dev'[s].file = dev[s].file
        /\ link'[s].frames = link[s].frames /\ link'[s].reply = link[s].reply
    BY <1>1, EndLeaves
  <2>3. Calm(s)
    BY <2>1, <2>2 DEF Calm, Committing
  <2>. QED  BY <2>1, <2>2, <2>3, CalmKeepsWire DEF Answered, Writes
<1>2. CASE ~End(s, "ERROR")
  <2>1. /\ dev[s].at = "payload" /\ dev'[s].at = "verified" /\ dev'[s].got = dev[s].got
        /\ dev'[s].file = dev[s].file
        /\ link'[s].frames = Tail(link[s].frames)
        /\ link'[s].reply = link[s].reply /\ UNCHANGED <<pc, store>>
    <3>1. /\ dev[s].at = "payload" /\ UNCHANGED <<pc, store>>
          /\ link' = [link EXCEPT ![s].frames = Tail(@)]
          /\ dev' = [dev EXCEPT ![s].at = "verified"]
      BY <1>2 DEF VerifyPayload, DevAt
    <3>. QED  BY <3>1
  <2>2. link[s].frames # <<>> /\ Head(link[s].frames).entry \in Entries
    BY <2>1 DEF Wire, Entries
  <2>3. Taken(s)' = dev[s].got + 1
    BY <2>1 DEF Taken, Committing
  <2>4. (Untagged(s) \/ Tagged(s))' /\ link'[s].frames \in Seq(Frames)
    BY <2>1, <2>2, <2>3, TakingOne
  <2>5. pc[s].at \notin Early /\ ~link[s].reply
    BY <2>1, <2>2 DEF Wire
  <2>6. Wire(s)'
    BY <2>1, <2>4, <2>5 DEF Wire, Committing
  <2>. QED  BY <2>1, <2>6 DEF Answered, Writes
<1>. QED  BY <1>1, <1>2

(* Taking a directory or the header of a file.                             *)
LEMMA BeginFileKeeps ==
  ASSUME Shape, LinkShape, NEW s \in Sessions, Wire(s), Answered(s), BeginFile(s)
  PROVE  Wire(s)' /\ Answered(s)' /\ Writes(s)
<1>. USE DEF DevFrame
<1>1. CASE End(s, "DENIED")
  <2>1. UNCHANGED <<pc, store>>
    BY DEF BeginFile
  <2>2. /\ dev'[s].at = "ended" /\ dev'[s].got = dev[s].got /\ dev'[s].file = dev[s].file
        /\ link'[s].frames = link[s].frames /\ link'[s].reply = link[s].reply
    BY <1>1, EndLeaves
  <2>3. Calm(s)
    BY <2>1, <2>2 DEF Calm, Committing
  <2>. QED  BY <2>1, <2>2, <2>3, CalmKeepsWire DEF Answered, Writes
<1>2. CASE ~End(s, "DENIED")
  <2>1. /\ dev[s].at = "receiving" /\ dev'[s].at = "payload" /\ dev'[s].got = dev[s].got
        /\ dev'[s].file = Head(link[s].frames).entry
        /\ link[s].frames # <<>> /\ Head(link[s].frames).entry \in Files
        /\ UNCHANGED <<pc, store, link>>
    BY <1>2 DEF BeginFile, Shape, DevFields
  <2>2. dev[s].got < Len(pc[s].batch)
        /\ Head(link[s].frames).entry = pc[s].batch[dev[s].got + 1]
    BY <2>1, HeadIsNext DEF Entries
  <2>3. Taken(s)' = Taken(s)
    BY <2>1 DEF Taken, Committing
  <2>4. (Untagged(s) \/ Tagged(s))'
    <3>1. Untagged(s) \/ Tagged(s)
      BY <2>1 DEF Wire
    <3>. QED  BY <2>1, <2>3, <3>1 DEF Untagged, Tagged
  <2>5. pc[s].at \notin Early /\ ~link[s].reply
    BY <2>1 DEF Wire
  <2>6. Wire(s)'
    BY <2>1, <2>2, <2>4, <2>5 DEF Wire, Committing
  <2>. QED  BY <2>1, <2>6 DEF Answered, Writes
<1>. QED  BY <1>1, <1>2

(* Once the target is in place the session counts it.                      *)
LEMMA StoredKeeps ==
  ASSUME Shape, LinkShape, NEW s \in Sessions, Wire(s), Answered(s), NEW kept, Stored(s, kept),
         dev[s].at \in {"placing", "copying"}, UNCHANGED pc
  PROVE  Wire(s)' /\ Answered(s)' /\ Writes(s)
<1>1. /\ dev'[s].at = "receiving" /\ dev'[s].got = dev[s].got + 1 /\ UNCHANGED link
      /\ store' = [store EXCEPT ![dev[s].file] = "new"]
  BY DEF Stored, Shape, DevFields
<1>2. Taken(s)' = Taken(s)
  BY <1>1 DEF Taken, Committing
<1>3. (Untagged(s) \/ Tagged(s))'
  <2>1. Untagged(s) \/ Tagged(s)
    BY DEF Wire
  <2>. QED  BY <1>1, <1>2, <2>1 DEF Untagged, Tagged
<1>4. dev'[s].got \in Nat /\ dev'[s].got <= Len(pc[s].batch)
  BY <1>1 DEF Wire, Committing
<1>5. ~link[s].reply
  BY DEF Wire
<1>6. Wire(s)'
  BY <1>1, <1>3, <1>4, <1>5 DEF Wire, Committing
<1>. QED  BY <1>1, <1>6 DEF Answered, Writes, Committing

(* The success answer: the tag was next, so the whole batch was taken.     *)
LEMMA ReplyKeeps ==
  ASSUME Shape, LinkShape, NEW s \in Sessions, Wire(s), Answered(s), Reply(s)
  PROVE  Wire(s)' /\ Answered(s)' /\ Writes(s)
<1>. USE DEF DevFrame
<1>1. /\ dev[s].at = "receiving" /\ dev'[s].at = "ended" /\ dev'[s].got = dev[s].got
      /\ link[s].frames = <<Tag>> /\ link'[s].frames = <<>>
      /\ UNCHANGED <<pc, store>>
  BY DEF Reply, Shape, LinkShape, DevFields, LinkFields
<1>2. link[s].frames # <<>> /\ Head(link[s].frames).entry = "tag"
  BY <1>1 DEF Tag, Frame
<1>3. dev[s].got = Len(pc[s].batch)
  BY <1>1, <1>2, HeadIsNext
<1>4. pc[s].at \notin Early /\ ~link[s].reply
  BY <1>1, <1>2 DEF Wire
<1>5. Wire(s)'
  BY <1>1, <1>3, <1>4 DEF Wire, Committing
<1>6. Answered(s)'
  BY <1>1, <1>4 DEF Answered
<1>. QED  BY <1>1, <1>5, <1>6 DEF Writes

(* Every other step of the worker is calm.                                 *)
LEMMA EndIsCalm ==
  ASSUME Shape, LinkShape, NEW s \in Sessions, NEW line, NEW half,
         End(s, line) \/ EndLeaving(s, line, half), UNCHANGED pc,
         dev[s].at # "ended", Wire(s), Answered(s)
  PROVE  Wire(s)' /\ Answered(s)' /\ dev'[s].got = dev[s].got
<1>1. /\ dev'[s].at = "ended" /\ dev'[s].got = dev[s].got /\ dev'[s].file = dev[s].file
      /\ link'[s].frames = link[s].frames /\ link'[s].reply = link[s].reply
  BY EndLeaves
<1>2. Calm(s)
  BY <1>1 DEF Calm, Committing
<1>. QED  BY <1>1, <1>2, CalmKeepsWire DEF Answered

(* All steps of the worker together.                                       *)
LEMMA WorkerKeeps ==
  ASSUME Shape, LinkShape, NEW s \in Sessions, Wire(s), Answered(s), Service(s)
  PROVE  Wire(s)' /\ Answered(s)' /\ Writes(s)
<1>. USE DEF DevFrame
<1>1. CASE StopWhenCancelled(s)
  BY <1>1, EndIsCalm DEF StopWhenCancelled, Waits, Writes
<1>2. CASE Expire(s)
  BY <1>2, EndIsCalm DEF Expire, Waits, Writes
<1>3. CASE Acknowledge(s)
  <2>1. CASE End(s, "none")
    BY <1>3, <2>1, EndIsCalm DEF Acknowledge, Writes
  <2>2. CASE ~End(s, "none")
    <3>1. Calm(s)
      BY <1>3, <2>2 DEF Acknowledge, DevAt, Calm, Committing, Shape, LinkShape, DevFields,
                        LinkFields
    <3>2. UNCHANGED <<pc, store>> /\ dev'[s].got = dev[s].got /\ link'[s].reply = link[s].reply
      BY <1>3, <3>1 DEF Acknowledge, Calm
    <3>. QED  BY <3>1, <3>2, CalmKeepsWire DEF Answered, Writes
  <2>. QED  BY <2>1, <2>2
<1>4. CASE ResolveAccess(s)
  <2>1. CASE End(s, "none")
    BY <1>4, <2>1, EndIsCalm DEF ResolveAccess, Writes
  <2>2. CASE ~End(s, "none")
    <3>1. Calm(s)
      BY <1>4, <2>2 DEF ResolveAccess, Calm, Committing, Shape, LinkShape, DevFields,
                        LinkFields
    <3>2. UNCHANGED <<pc, store>> /\ dev'[s].got = dev[s].got /\ link'[s].reply = link[s].reply
      BY <1>4, <3>1 DEF ResolveAccess, Calm
    <3>. QED  BY <3>1, <3>2, CalmKeepsWire DEF Answered, Writes
  <2>. QED  BY <2>1, <2>2
<1>5. CASE AcceptData(s)
  <2>1. CASE End(s, "ERROR")
    BY <1>5, <2>1, EndIsCalm DEF AcceptData, Writes
  <2>2. CASE ~End(s, "ERROR")
    <3>1. Calm(s)
      BY <1>5, <2>2 DEF AcceptData, DevAt, Calm, Committing, Shape, DevFields
    <3>2. UNCHANGED <<pc, store>> /\ dev'[s].got = dev[s].got /\ link'[s].reply = link[s].reply
      BY <1>5, <3>1 DEF AcceptData, Calm
    <3>. QED  BY <3>1, <3>2, CalmKeepsWire DEF Answered, Writes
  <2>. QED  BY <2>1, <2>2
<1>6. CASE BeginFile(s)
  BY <1>6, BeginFileKeeps
<1>7. CASE MakeDirectory(s)
  BY <1>7, MakeDirectoryKeeps
<1>8. CASE VerifyPayload(s)
  BY <1>8, VerifyPayloadKeeps
<1>9. CASE ConnectionEnds(s)
  BY <1>9, EndIsCalm DEF ConnectionEnds, Writes
<1>10. CASE DeleteTarget(s)
  <2>1. CASE End(s, "ERROR") /\ UNCHANGED store
    BY <1>10, <2>1, EndIsCalm DEF DeleteTarget, Writes
  <2>2. CASE store' = [store EXCEPT ![dev[s].file] = "none"] /\ DevAt(s, "placing")
                /\ UNCHANGED link
    <3>1. Calm(s) /\ link' = link
      BY <1>10, <2>2 DEF DeleteTarget, DevAt, Calm, Committing, Shape, DevFields
    <3>2. UNCHANGED pc /\ dev'[s].got = dev[s].got /\ dev[s].at \in Committing
      BY <1>10, <3>1 DEF DeleteTarget, Calm, Committing
    <3>. QED  BY <2>2, <3>1, <3>2, CalmKeepsWire DEF Answered, Writes
  <2>. QED  BY <1>10, <2>1, <2>2 DEF DeleteTarget
<1>11. CASE PlaceTarget(s)
  <2>1. CASE Stored(s, {})
    BY <1>11, <2>1, StoredKeeps DEF PlaceTarget
  <2>2. CASE ~Stored(s, {})
    <3>1. /\ store' = [store EXCEPT ![dev[s].file] = "partial"]
          /\ dev[s].at = "placing" /\ DevAt(s, "copying") /\ UNCHANGED <<pc, link>>
      BY <1>11, <2>2 DEF PlaceTarget
    <3>2. Calm(s)
      BY <3>1 DEF DevAt, Calm, Committing, Shape, DevFields
    <3>3. dev'[s].got = dev[s].got /\ dev[s].at \in Committing
      BY <3>1, <3>2 DEF Calm, Committing
    <3>. QED  BY <3>1, <3>2, <3>3, CalmKeepsWire DEF Answered, Writes
  <2>. QED  BY <2>1, <2>2
<1>12. CASE CopyTarget(s)
  <2>1. ASSUME NEW kept, Stored(s, kept) PROVE Wire(s)' /\ Answered(s)' /\ Writes(s)
    BY <1>12, <2>1, StoredKeeps DEF CopyTarget
  <2>2. ASSUME NEW half, End(s, "ERROR") \/ EndLeaving(s, "ERROR", half),
               UNCHANGED store \/ \E c \in {"none", "new"} :
                                    store' = [store EXCEPT ![dev[s].file] = c]
        PROVE  Wire(s)' /\ Answered(s)' /\ Writes(s)
    <3>1. dev[s].at = "copying" /\ UNCHANGED pc
      BY <1>12 DEF CopyTarget
    <3>2. Wire(s)' /\ Answered(s)' /\ dev'[s].got = dev[s].got
      BY <2>2, <3>1, EndIsCalm
    <3>. QED  BY <2>2, <3>1, <3>2 DEF Writes, Committing
  <2>. QED  BY <1>12, <2>1, <2>2 DEF CopyTarget, Copied
<1>13. CASE Reply(s)
  BY <1>13, ReplyKeeps
<1>. QED
  BY <1>1, <1>2, <1>3, <1>4, <1>5, <1>6, <1>7, <1>8, <1>9, <1>10, <1>11, <1>12, <1>13
  DEF Service

(* What a step leaves alone that neither begins an attempt nor decides:    *)
(* the invariants of the coordinator follow from those of the sessions.    *)
LEMMA SessionsOnly ==
  ASSUME DInv, NEW s \in Sessions, SessionInv', IInv',
         UNCHANGED <<coordVars, scenario>>, Elsewhere(s),
         pc'[s].batch = pc[s].batch, pc'[s] = pc[s] \/ pc[s].at \notin {"unused", "done"},
         dev'[s].at = dev[s].at \/ pc[s].at \notin {"unused", "done"}
           \/ dev[s].at \notin {"none", "ended"},
         Kept'
  PROVE  DInv'
<1>. USE DEF coordVars
<1>1. Collected'
  BY DEF DInv, Collected, Elsewhere
<1>2. Shared'
  <2>1. \A t \in streams : pc'[t].batch = pc[t].batch
    BY DEF DInv, Collected, Elsewhere
  <2>2. [t \in streams |-> pc[t].batch]' = [t \in streams |-> pc[t].batch]
    BY <2>1
  <2>. QED  BY <2>2 DEF DInv, Shared
<1>3. Quiet'
  BY DEF DInv, Quiet, Elsewhere
<1>. QED  BY <1>1, <1>2, <1>3 DEF DInv

(* Every step of a stream keeps the invariant.                             *)
LEMMA StreamKeepsDInv ==
  ASSUME DInv, IInv', NEW s \in Sessions, Stream(s)
  PROVE  DInv'
<1>1. Shape /\ LinkShape /\ NotStarted /\ Held /\ Wire(s) /\ Answered(s)
  BY DEF DInv, IInv, SessionInv
<1>2. StreamEffect(s)
  BY <1>1, StreamEffects
<1>3. Wire(s)' /\ Answered(s)'
  <2>1. CASE Send(s)
    BY <1>1, <2>1, SendKeeps
  <2>2. CASE ~Send(s)
    BY <1>1, <2>2, StreamIsCalm, CalmKeepsWire
  <2>. QED  BY <2>1, <2>2
<1>4. SessionInv'
  BY <1>2, <1>3, OthersKeep DEF StreamEffect, DInv
<1>5. Kept'
  <2>1. \A t \in Sessions : pc'[t].batch = pc[t].batch /\ dev'[t].got = dev[t].got
    BY <1>2 DEF StreamEffect, Elsewhere
  <2>2. streams \subseteq Sessions
    BY DEF DInv, Collected
  <2>. QED  BY <1>2, <2>1, <2>2 DEF DInv, Kept, StreamEffect, coordVars
<1>. QED  BY <1>2, <1>4, <1>5, SessionsOnly DEF StreamEffect

(* What a session writes is its own entry: those that the streams have     *)
(* counted are others.                                                     *)
LEMMA WritesKeep ==
  ASSUME DInv, NEW s \in Sessions, WorkerEffect(s), Writes(s), Wire(s)'
  PROVE  Kept'
<1>. SUFFICES ASSUME ~contested, NEW t \in streams, NEW i \in 1 .. dev'[t].got
              PROVE  store'[pc[t].batch[i]] = "new"
  BY DEF Kept, WorkerEffect, coordVars
<1>1. /\ t \in Sessions /\ s \in streams /\ streams \subseteq Sessions
      /\ store \in [Entries -> {"none", "old", "new", "partial"}]
  BY DEF DInv, Collected, Quiet, WorkerEffect, IInv, Shape
<1>2. Wire(s) /\ Wire(t)
  BY <1>1 DEF DInv, SessionInv
<1>3. \A k \in 1 .. dev[t].got : store[pc[t].batch[k]] = "new"
  BY DEF DInv, Kept
<1>4. dev[s].got \in Nat /\ dev[t].got \in Nat /\ dev[t].got <= Len(pc[t].batch)
      /\ pc[t].batch \in Seq(Entries) /\ pc[s].batch \in Seq(Entries)
  BY <1>2 DEF Wire
<1>5. t # s => dev'[t] = dev[t]
  BY <1>1 DEF WorkerEffect, Elsewhere
<1>6. DOMAIN pc[t].batch = 1 .. Len(pc[t].batch) /\ DOMAIN pc[s].batch = 1 .. Len(pc[s].batch)
      /\ Len(pc[t].batch) \in Nat /\ Len(pc[s].batch) \in Nat
  BY <1>4
<1>7. ASSUME NEW k \in 1 .. Len(pc[t].batch), NEW j \in 1 .. Len(pc[s].batch),
             pc[t].batch[k] = pc[s].batch[j]
      PROVE  t = s /\ k = j
  <2>. DEFINE b == [u \in streams |-> pc[u].batch]
  <2>1. Spread(b, Entries)
    BY <1>1 DEF DInv, Shared
  <2>2. DOMAIN b = streams /\ b[t] = pc[t].batch /\ b[s] = pc[s].batch
    BY <1>1
  <2>. HIDE DEF b
  <2>3. t \in DOMAIN b /\ s \in DOMAIN b /\ k \in DOMAIN b[t] /\ j \in DOMAIN b[s]
        /\ b[t][k] = b[s][j]
    BY <1>1, <1>6, <1>7, <2>2
  <2>. QED  BY <2>1, <2>3, Once
<1>8. CASE UNCHANGED store /\ dev'[s].got = dev[s].got
  BY <1>3, <1>5, <1>8
<1>9. CASE /\ \E c \in {"none", "partial", "new"} : store' = [store EXCEPT ![dev[s].file] = c]
           /\ dev[s].at \in Committing /\ dev'[s].got = dev[s].got
  <2>1. i \in 1 .. dev[t].got /\ i \in 1 .. Len(pc[t].batch)
    BY <1>4, <1>5, <1>9
  <2>2. dev[s].got + 1 \in 1 .. Len(pc[s].batch) /\ dev[s].file = pc[s].batch[dev[s].got + 1]
    BY SMTT(30), <1>2, <1>4, <1>6, <1>9 DEF Wire
  <2>3. pc[t].batch[i] # dev[s].file
    <3>1. SUFFICES ASSUME pc[t].batch[i] = dev[s].file PROVE FALSE
      OBVIOUS
    <3>2. t = s /\ i = dev[s].got + 1
      BY <1>7, <2>1, <2>2, <3>1
    <3>. QED  BY <1>4, <2>1, <3>2
  <2>4. store[pc[t].batch[i]] = "new"
    BY <1>3, <2>1
  <2>5. pc[t].batch[i] \in Entries
    BY <1>4, <2>1
  <2>. QED  BY <1>1, <1>9, <2>3, <2>4, <2>5
<1>10. ASSUME NEW e \in Entries, store' = [store EXCEPT ![e] = "new"],
              dev'[s].got = dev[s].got + 1, dev[s].got < Len(pc[s].batch),
              e = pc[s].batch[dev[s].got + 1]
       PROVE  store'[pc[t].batch[i]] = "new"
  <2>1. CASE t = s /\ i = dev[s].got + 1
    BY <1>1, <1>10, <2>1
  <2>2. CASE ~(t = s /\ i = dev[s].got + 1)
    <3>1. i \in 1 .. dev[t].got /\ i \in 1 .. Len(pc[t].batch)
      BY <1>4, <1>5, <1>10, <2>2
    <3>2. store[pc[t].batch[i]] = "new" /\ pc[t].batch[i] \in Entries
      BY <1>3, <1>4, <3>1
    <3>. QED  BY <1>1, <1>10, <3>2
  <2>. QED  BY <2>1, <2>2
<1>11. CASE /\ store' = [store EXCEPT ![dev[s].file] = "new"]
            /\ dev[s].at \in Committing /\ dev'[s].got = dev[s].got + 1
  <2>1. dev[s].got < Len(pc[s].batch) /\ dev[s].file = pc[s].batch[dev[s].got + 1]
        /\ dev[s].file \in Entries
    BY <1>2, <1>11 DEF Wire, Entries
  <2>. QED  BY <1>10, <1>11, <2>1
<1>12. CASE \E e \in Dirs : /\ store' = [store EXCEPT ![e] = "new"]
                            /\ dev[s].at = "receiving" /\ dev'[s].got = dev[s].got + 1
                            /\ dev[s].got < Len(pc[s].batch) /\ e = pc[s].batch[dev[s].got + 1]
  BY <1>10, <1>12 DEF Entries
<1>. QED  BY <1>8, <1>9, <1>11, <1>12 DEF Writes

(* Every step of a worker keeps the invariant: it stores the entry it      *)
(* counts, and no other stream of the attempt holds that entry.            *)
LEMMA WorkerKeepsDInv ==
  ASSUME DInv, IInv', NEW s \in Sessions, Service(s)
  PROVE  DInv'
<1>1. Shape /\ LinkShape /\ Wire(s) /\ Answered(s)
  BY DEF DInv, IInv, SessionInv
<1>2. WorkerEffect(s)
  BY <1>1, WorkerEffects
<1>3. Wire(s)' /\ Answered(s)' /\ Writes(s)
  BY <1>1, WorkerKeeps
<1>4. SessionInv'
  BY <1>2, <1>3, OthersKeep DEF WorkerEffect, DInv
<1>5. Kept'
  BY <1>2, <1>3, WritesKeep
<1>. QED  BY <1>2, <1>4, <1>5, SessionsOnly DEF WorkerEffect

(* The monitor, onDestroy and the network change none of what the          *)
(* invariant speaks of.                                                    *)
LEMMA MarksKeepDInv ==
  ASSUME DInv, IInv', LinkShape', UNCHANGED <<coordVars, scenario, pc, store>>,
         \A t \in Sessions : /\ dev'[t].at = dev[t].at /\ dev'[t].got = dev[t].got
                             /\ dev'[t].file = dev[t].file
                             /\ link'[t].frames = link[t].frames
                             /\ link'[t].reply = link[t].reply
  PROVE  DInv'
<1>. USE DEF coordVars
<1>1. SessionInv'
  <2>. SUFFICES ASSUME NEW t \in Sessions PROVE Wire(t)' /\ Answered(t)'
    BY DEF SessionInv
  <2>1. Calm(t)
    BY DEF Calm
  <2>. QED  BY <2>1, CalmKeepsWire DEF DInv, SessionInv, Answered
<1>2. Collected' /\ Shared'
  BY DEF DInv, Collected, Shared
<1>3. Quiet' /\ Kept'
  BY DEF DInv, Quiet, Kept, Collected
<1>. QED  BY <1>1, <1>2, <1>3 DEF DInv

(* A new attempt: its streams are the next sessions, with the planned      *)
(* batches.                                                                *)
LEMMA AttemptBegins ==
  ASSUME IInv, StartStreams
  PROVE  /\ reaped' = {} /\ primary' = "none" /\ phase' = "uploading"
         /\ \E n \in Nat : /\ streams' = (n + 1) .. (n + StreamCount)
                           /\ \A s \in streams' : pc'[s].batch = PlannedBatches[s - n]
         /\ \A s \in streams' : /\ pc'[s].at = "waiting" /\ pc'[s].sent = 0
                                /\ pc'[s].fail = "none"
<1>. DEFINE n == Cardinality(Sessions \ Fresh)
<1>1. n \in Nat
  <2>1. IsFiniteSet(Sessions)
    BY FS_Interval, P2PAssumption DEF Sessions
  <2>2. Sessions \ Fresh \in SUBSET Sessions
    OBVIOUS
  <2>. QED  BY <2>1, <2>2, FS_Subset, FS_CardinalityType
<1>2. /\ streams' = (n + 1) .. (n + StreamCount) /\ streams' \subseteq Sessions
      /\ pc' = [s \in Sessions |-> IF s \in streams'
                                   THEN [IdleStream EXCEPT !.at = "waiting",
                                                           !.batch = PlannedBatches[s - n]]
                                   ELSE pc[s]]
      /\ reaped' = {} /\ primary' = "none" /\ phase' = "uploading"
  BY DEF StartStreams
<1>. HIDE DEF n
<1>3. \A s \in streams' : /\ pc'[s].batch = PlannedBatches[s - n] /\ pc'[s].at = "waiting"
                          /\ pc'[s].sent = 0 /\ pc'[s].fail = "none"
  <2>. SUFFICES ASSUME NEW s \in streams'
                PROVE  /\ pc'[s].batch = PlannedBatches[s - n] /\ pc'[s].at = "waiting"
                       /\ pc'[s].sent = 0 /\ pc'[s].fail = "none"
    OBVIOUS
  <2>1. pc'[s] = [IdleStream EXCEPT !.at = "waiting", !.batch = PlannedBatches[s - n]]
    BY <1>2
  <2>. QED  BY <2>1 DEF IdleStream
<1>. QED  BY <1>1, <1>2, <1>3

(* An attempt that begins keeps it: its sessions are fresh, and unless one *)
(* of the attempt before is at work the sessions left behind are quiet.    *)
LEMMA AttemptKeepsDInv ==
  ASSUME DInv, IInv', StartStreams, UNCHANGED <<outcome, link, dev, store, scenario>>,
         outcome = "running", reaped = streams,
         contested' = (contested \/ \E s \in streams : dev[s].at \notin {"none", "ended"})
  PROVE  DInv'
<1>1. /\ streams' \subseteq Fresh
      /\ \A s \in Sessions \ streams' : pc'[s] = pc[s]
  BY ChosenAreFresh DEF DInv, IInv
<1>2. /\ reaped' = {} /\ primary' = "none" /\ phase' = "uploading"
      /\ \A s \in streams' : /\ pc'[s].at = "waiting" /\ pc'[s].sent = 0
                             /\ pc'[s].fail = "none"
  BY AttemptBegins DEF DInv
<1>0. PICK n \in Nat : /\ streams' = (n + 1) .. (n + StreamCount)
                       /\ \A s \in streams' : pc'[s].batch = PlannedBatches[s - n]
  BY AttemptBegins DEF DInv
<1>3. StreamCount \in Nat \ {0}
  BY StreamCountIsPositive
<1>4. DOMAIN PlannedBatches = 1 .. StreamCount /\ Spread(PlannedBatches, Entries)
  BY PlanSpreads DEF DInv, Collected
<1>5. \A s \in streams' : s \in Sessions /\ pc[s].at = "unused" /\ dev[s].at = "none"
  BY <1>1 DEF Fresh, DInv, IInv, NotStarted
<1>6. \A s \in streams' : s \in Int /\ s - n \in 1 .. StreamCount
  BY <1>0, <1>3
<1>7. \A s \in streams' : /\ pc'[s].batch = PlannedBatches[s - n]
                          /\ pc'[s].batch \in Seq(Entries)
  BY <1>0, <1>4, <1>6 DEF Spread
<1>8. ASSUME NEW s \in streams'
      PROVE  dev[s].got = 0 /\ link[s].frames = <<>> /\ ~link[s].reply
  <2>1. Wire(s) /\ s \in Sessions
    BY <1>5 DEF DInv, SessionInv
  <2>2. pc[s].sent = 0 /\ link[s].frames = <<>> /\ ~link[s].reply
    BY <1>5, <2>1 DEF Wire, Early
  <2>3. Untagged(s) /\ Taken(s) = dev[s].got /\ dev[s].got \in Nat
    BY <1>5, <2>1 DEF Wire, Tagged, Early, Taken, Committing
  <2>4. Len(link[s].frames) = 0
    BY <2>2
  <2>. QED  BY <2>2, <2>3, <2>4 DEF Untagged
<1>9. SessionInv'
  <2>1. LinkShape'
    BY DEF DInv, SessionInv, LinkShape
  <2>2. ASSUME NEW s \in Sessions \ streams' PROVE Wire(s)' /\ Answered(s)'
    <3>1. Wire(s) /\ Answered(s) /\ pc'[s] = pc[s]
      BY <1>1, <2>2 DEF DInv, SessionInv
    <3>2. Calm(s)
      BY <3>1 DEF Calm
    <3>. QED  BY <3>1, <3>2, CalmKeepsWire DEF Answered
  <2>3. ASSUME NEW s \in streams' PROVE Wire(s)' /\ Answered(s)'
    <3>1. /\ dev'[s].got = 0 /\ dev'[s].at = "none"
          /\ link'[s].frames = <<>> /\ ~link'[s].reply
          /\ pc'[s].sent = 0 /\ pc'[s].at = "waiting"
      BY <1>2, <1>5, <1>8
    <3>2. pc'[s].batch \in Seq(Entries) /\ 0 <= Len(pc'[s].batch)
      BY <1>7
    <3>3. <<>> \in Seq(Frames) /\ Len(<<>>) = 0
      OBVIOUS
    <3>4. Untagged(s)'
      BY <3>1, <3>3 DEF Untagged, Taken, Committing
    <3>. QED  BY <3>1, <3>2, <3>3, <3>4 DEF Wire, Answered, Committing
  <2>. QED  BY <2>1, <2>2, <2>3 DEF SessionInv
<1>10. Collected'
  <2>1. n + 1 \in streams'
    BY <1>0, <1>3
  <2>2. streams' \subseteq Sessions
    BY <1>5
  <2>. QED  BY <1>2, <2>1, <2>2 DEF DInv, Collected
<1>11. Shared'
  <2>. DEFINE b == [s \in streams' |-> pc'[s].batch]
  <2>1. DOMAIN b = streams' /\ \A s \in streams' : b[s] = PlannedBatches[s - n]
    BY <1>7
  <2>. HIDE DEF b
  <2>2. \A s \in DOMAIN b : b[s] \in Seq(Entries)
    BY <1>7, <2>1
  <2>3. ASSUME NEW e \in Entries PROVE \E s \in DOMAIN b : \E i \in DOMAIN b[s] : b[s][i] = e
    <3>1. PICK k \in 1 .. StreamCount : \E i \in DOMAIN PlannedBatches[k] : PlannedBatches[k][i] = e
      BY <1>4 DEF Spread
    <3>2. n + k \in streams' /\ (n + k) - n = k
      BY <1>0, <1>3
    <3>. QED  BY <2>1, <3>1, <3>2
  <2>4. ASSUME NEW s \in DOMAIN b, NEW t \in DOMAIN b, NEW i \in DOMAIN b[s], NEW j \in DOMAIN b[t],
               b[s][i] = b[t][j]
        PROVE  s = t /\ i = j
    <3>1. b[s] = PlannedBatches[s - n] /\ b[t] = PlannedBatches[t - n]
          /\ s - n \in DOMAIN PlannedBatches /\ t - n \in DOMAIN PlannedBatches
      BY <1>4, <1>6, <2>1
    <3>. DEFINE P == PlannedBatches
                x == s - n
                y == t - n
    <3>2. x \in DOMAIN P /\ y \in DOMAIN P /\ i \in DOMAIN P[x] /\ j \in DOMAIN P[y]
          /\ P[x][i] = P[y][j] /\ Spread(P, Entries)
      BY <1>4, <2>4, <3>1
    <3>. HIDE DEF P, x, y
    <3>5. x = y /\ i = j
      BY <3>2, Once
    <3>3. s - n = t - n /\ i = j
      BY <3>5 DEF x, y
    <3>4. s \in Int /\ t \in Int
      BY <1>6, <2>1
    <3>. QED  BY <3>3, <3>4
  <2>5. Spread(b, Entries)
    BY <2>2, <2>3, <2>4 DEF Spread
  <2>. QED  BY <2>5 DEF Shared, b
<1>12. Quiet'
  <2>. SUFFICES ASSUME ~contested', NEW s \in Sessions \ streams'
                PROVE  pc'[s].at \in {"unused", "done"} /\ dev'[s].at \in {"none", "ended"}
    BY DEF Quiet
  <2>1. CASE s \in streams
    BY <1>1, <2>1 DEF DInv, Collected
  <2>2. CASE s \notin streams
    BY <1>1, <2>2 DEF DInv, Quiet
  <2>. QED  BY <2>1, <2>2
<1>13. Kept'
  BY <1>8 DEF Kept
<1>. QED  BY <1>9, <1>10, <1>11, <1>12, <1>13 DEF DInv

(* The coordinator decides, and the user may cancel.                       *)
LEMMA DecisionKeepsDInv ==
  ASSUME DInv, IInv', Collected',
         UNCHANGED <<streams, contested, pc, link, dev, store>>
  PROVE  DInv'
<1>1. SessionInv'
  BY DEF DInv, SessionInv, LinkShape, Wire, Untagged, Tagged, Taken, Answered
<1>2. Shared' /\ Quiet' /\ Kept'
  BY DEF DInv, Shared, Quiet, Kept
<1>. QED  BY <1>1, <1>2 DEF DInv

(* Every step of the coordinator keeps it.                                 *)
LEMMA CoordinatorKeepsDInv ==
  ASSUME DInv, IInv', Coordinator \/ Cancel
  PROVE  DInv'
<1>. USE DEF coordVars, envVars
<1>0. Collected
  BY DEF DInv
<1>1. CASE Plan
  <2>1. CASE StartStreams /\ UNCHANGED outcome
    <3>1. streams = {} /\ outcome = "running" /\ reaped = streams
      BY <1>0, <1>1 DEF Plan, Collected
    <3>2. contested' = (contested \/ \E s \in streams : dev[s].at \notin {"none", "ended"})
      BY <1>0, <1>1, <3>1 DEF Plan, Collected
    <3>. QED  BY <1>1, <2>1, <3>1, <3>2, AttemptKeepsDInv DEF Plan
  <2>2. CASE ~(StartStreams /\ UNCHANGED outcome)
    <3>1. /\ UNCHANGED <<streams, contested, pc, link, dev, store, primary, reaped, scenario>>
          /\ phase' = "ended" /\ outcome' \in {"cancelled", "failed"}
      BY <1>1, <2>2 DEF Plan
    <3>2. Collected'
      BY <1>0, <3>1 DEF Collected
    <3>. QED  BY <3>1, <3>2, DecisionKeepsDInv
  <2>. QED  BY SMTT(30), <2>1, <2>2
<1>2. ASSUME NEW s \in Sessions, Reap(s) PROVE DInv'
  <2>1. Collected'
    BY <1>0, <1>2 DEF Reap, Collected
  <2>. QED  BY <1>2, <2>1, DecisionKeepsDInv DEF Reap
<1>3. CASE Conclude
  <2>1. Collected'
    BY <1>0, <1>3 DEF Conclude, Collected
  <2>. QED  BY <1>3, <2>1, DecisionKeepsDInv DEF Conclude
<1>4. CASE GrantAndRetry
  <2>1. outcome = "running" /\ reaped = streams
    BY <1>0, <1>4 DEF GrantAndRetry, Collected
  <2>. QED  BY <1>4, <2>1, AttemptKeepsDInv DEF GrantAndRetry
<1>5. CASE GrantRefused
  <2>1. Collected'
    BY <1>0, <1>5 DEF GrantRefused, Collected
  <2>. QED  BY <1>5, <2>1, DecisionKeepsDInv DEF GrantRefused
<1>6. CASE Cancel
  <2>1. Collected'
    BY <1>0, <1>6 DEF Cancel, Collected
  <2>. QED  BY <1>6, <2>1, DecisionKeepsDInv DEF Cancel
<1>. QED  BY <1>1, <1>2, <1>3, <1>4, <1>5, <1>6 DEF Coordinator

(* The invariant holds at first.                                           *)
LEMMA InitDInv == Init => DInv
<1>. SUFFICES ASSUME Init PROVE DInv
  OBVIOUS
<1>1. IInv
  BY InitIInv
<1>2. SessionInv
  <2>1. LinkShape
    BY DEF Init, LinkShape, IdleLink, LinkFields
  <2>2. ASSUME NEW s \in Sessions PROVE Wire(s) /\ Answered(s)
    <3>1. /\ pc[s].at = "unused" /\ pc[s].batch = <<>> /\ pc[s].sent = 0
          /\ dev[s].at = "none" /\ dev[s].got = 0
          /\ link[s].frames = <<>> /\ ~link[s].reply
      BY DEF Init, IdleStream, IdleDevice, IdleLink
    <3>2. <<>> \in Seq(Frames) /\ <<>> \in Seq(Entries) /\ Len(<<>>) = 0
      OBVIOUS
    <3>3. Untagged(s)
      BY <3>1, <3>2 DEF Untagged, Taken, Committing
    <3>. QED  BY <3>1, <3>2, <3>3 DEF Wire, Answered, Committing
  <2>. QED  BY <2>1, <2>2 DEF SessionInv
<1>3. Collected /\ Shared
  BY DEF Init, Collected, Shared
<1>4. Quiet /\ Kept
  BY DEF Init, Quiet, Kept, IdleStream, IdleDevice
<1>. QED  BY <1>1, <1>2, <1>3, <1>4 DEF DInv

(* Every step keeps the invariant of the refinement.                       *)
LEMMA NextDInv == DInv /\ [Next]_vars => DInv'
<1>. SUFFICES ASSUME DInv, [Next]_vars PROVE DInv'
  OBVIOUS
<1>0. IInv'
  BY NextIInv DEF DInv
<1>a. LinkShape /\ Shape
  BY DEF DInv, SessionInv, IInv
<1>1. CASE Coordinator \/ Cancel
  BY <1>0, <1>1, CoordinatorKeepsDInv
<1>2. ASSUME NEW s \in Sessions, Stream(s) PROVE DInv'
  BY <1>0, <1>2, StreamKeepsDInv
<1>3. ASSUME NEW s \in Sessions, Service(s) PROVE DInv'
  BY <1>0, <1>3, WorkerKeepsDInv
<1>4. ASSUME NEW s \in Sessions, Monitor(s) PROVE DInv'
  <2>1. UNCHANGED <<coordVars, scenario, pc, store>>
    BY <1>4 DEF Monitor, DevFrame, envVars
  <2>2. LinkShape' /\ \A t \in Sessions : /\ link'[t].frames = link[t].frames
                                          /\ link'[t].reply = link[t].reply
    BY <1>a, <1>4 DEF Monitor, LinkShape, LinkFields
  <2>3. \A t \in Sessions : /\ dev'[t].at = dev[t].at /\ dev'[t].got = dev[t].got
                            /\ dev'[t].file = dev[t].file
    BY <1>a, <1>4 DEF Monitor, Shape, DevFields
  <2>. QED  BY <1>0, <2>1, <2>2, <2>3, MarksKeepDInv
<1>5. ASSUME NEW s \in Sessions, LoseControl(s) \/ LoseData(s) \/ DiscardAccess(s)
      PROVE  DInv'
  <2>1. UNCHANGED <<coordVars, scenario, pc, store, dev>>
    BY <1>5 DEF LoseControl, LoseData, DiscardAccess, DevFrame, envVars
  <2>2. LinkShape' /\ \A t \in Sessions : /\ link'[t].frames = link[t].frames
                                          /\ link'[t].reply = link[t].reply
    BY <1>a, <1>5 DEF LoseControl, LoseData, DiscardAccess, LinkShape, LinkFields
  <2>. QED  BY <1>0, <2>1, <2>2, MarksKeepDInv
<1>6. CASE DestroyService
  <2>1. UNCHANGED <<coordVars, scenario, pc, store, link>>
    BY <1>6 DEF DestroyService, DevFrame, envVars
  <2>2. \A t \in Sessions : /\ dev'[t].at = dev[t].at /\ dev'[t].got = dev[t].got
                            /\ dev'[t].file = dev[t].file
    BY <1>a, <1>6 DEF DestroyService, Shape, DevFields
  <2>3. LinkShape'
    BY <1>a, <2>1 DEF LinkShape
  <2>. QED  BY <1>0, <2>1, <2>2, <2>3, MarksKeepDInv
<1>7. CASE UNCHANGED vars
  <2>1. LinkShape' /\ UNCHANGED <<coordVars, scenario, pc, store, dev, link>>
    BY <1>a, <1>7 DEF LinkShape, vars, envVars
  <2>. QED  BY <1>0, <2>1, MarksKeepDInv
<1>. QED  BY <1>1, <1>2, <1>3, <1>4, <1>5, <1>6, <1>7 DEF Next

(* What the abstract transfer sees of the destination.                     *)
Content == [e \in Entries |-> IF store[e] = "partial" THEN "none" ELSE store[e]]

(* When success has been announced, nobody is at work.                     *)
LEMMA NobodyAfterSuccess ==
  ASSUME DInv, outcome = "success", ~contested, NEW s \in Sessions
  PROVE  dev[s].at \in {"none", "ended"}
<1>1. CASE s \in streams
  <2>1. pc[s].at = "done" /\ pc[s].fail = "none"
    BY <1>1 DEF DInv, Collected
  <2>. QED  BY <2>1 DEF DInv, SessionInv, Answered, Wire
<1>2. CASE s \notin streams
  BY <1>2 DEF DInv, Quiet
<1>. QED  BY <1>1, <1>2

(* Success is concluded over stored entries.                               *)
LEMMA AllStored ==
  ASSUME DInv, ~contested, streams # {}, reaped = streams, primary = "none",
         NEW e \in Entries
  PROVE  store[e] = "new"
<1>. DEFINE b == [s \in streams |-> pc[s].batch]
<1>1. Spread(b, Entries) /\ DOMAIN b = streams /\ \A s \in streams : b[s] = pc[s].batch
  BY DEF DInv, Shared
<1>. HIDE DEF b
<1>2. PICK s \in streams : \E i \in DOMAIN pc[s].batch : pc[s].batch[i] = e
  BY <1>1 DEF Spread
<1>3. s \in Sessions /\ pc[s].at = "done" /\ pc[s].fail = "none"
  BY DEF DInv, Collected
<1>4. Wire(s) /\ dev[s].got = Len(pc[s].batch)
  BY <1>3 DEF DInv, SessionInv, Answered, Wire
<1>5. DOMAIN pc[s].batch = 1 .. dev[s].got
  BY <1>4 DEF Wire
<1>. QED  BY <1>2, <1>5 DEF DInv, Kept

(* What a worker writes is a step of the promise, or none.                 *)
LEMMA WorkerDelivers ==
  ASSUME DInv, NEW s \in Sessions, WorkerEffect(s), Writes(s)
  PROVE  Delivery!Next \/ UNCHANGED <<Content, outcome, contested>>
<1>1. outcome # "success" \/ contested
  BY NobodyAfterSuccess DEF WorkerEffect
<1>2. UNCHANGED <<outcome, contested>> /\ store \in [Entries -> {"none", "old", "new", "partial"}]
  BY DEF WorkerEffect, coordVars, DInv, IInv, Shape
<1>3. ASSUME NEW e \in Entries, NEW c \in {"none", "partial"}, store' = [store EXCEPT ![e] = c]
      PROVE  Delivery!Next
  <2>1. Content' = [Content EXCEPT ![e] = "none"]
    BY <1>2, <1>3 DEF Content
  <2>2. Delivery!Withdraw(e)
    BY <1>1, <1>2, <2>1 DEF Delivery!Withdraw, Content
  <2>. QED  BY <2>2 DEF Delivery!Next
<1>4. ASSUME NEW e \in Entries, store' = [store EXCEPT ![e] = "new"]
      PROVE  Delivery!Next
  <2>1. Content' = [Content EXCEPT ![e] = "new"]
    BY <1>2, <1>4 DEF Content
  <2>2. Delivery!Publish(e)
    BY <1>1, <1>2, <2>1 DEF Delivery!Publish, Content
  <2>. QED  BY <2>2 DEF Delivery!Next
<1>5. dev[s].at \in Committing => dev[s].file \in Entries
  BY DEF DInv, SessionInv, Wire, Entries
<1>6. CASE UNCHANGED store
  BY <1>2, <1>6 DEF Content
<1>7. Dirs \subseteq Entries
  BY DEF Entries
<1>. QED  BY <1>3, <1>4, <1>5, <1>6, <1>7 DEF Writes

(* A step of the coordinator is a step of the promise.                     *)
LEMMA CoordinatorDelivers ==
  ASSUME DInv, Coordinator \/ Cancel
  PROVE  Delivery!Next \/ UNCHANGED <<Content, outcome, contested>>
<1>. USE DEF coordVars, envVars
<1>0. Collected
  BY DEF DInv
<1>a. ASSUME UNCHANGED <<store, outcome, contested>>
      PROVE  UNCHANGED <<Content, outcome, contested>>
  BY <1>a DEF Content
<1>b. ASSUME UNCHANGED <<store, contested>>, outcome = "running",
             outcome' \in {"failed", "cancelled"}
      PROVE  Delivery!Next
  <2>1. Content' = Content
    BY <1>b DEF Content
  <2>2. Delivery!GiveUp
    BY <1>b, <2>1 DEF Delivery!GiveUp, Content
  <2>. QED  BY <2>2 DEF Delivery!Next
<1>1. CASE Plan
  BY <1>0, <1>1, <1>a, <1>b DEF Plan, Collected
<1>2. CASE \E s \in Sessions : Reap(s)
  BY <1>2, <1>a DEF Reap
<1>3. CASE Conclude
  <2>1. /\ phase = "uploading" /\ reaped = streams /\ outcome = "running" /\ streams # {}
        /\ UNCHANGED <<store, contested>>
    BY <1>0, <1>3 DEF Conclude, Collected
  <2>2. CASE outcome' = "success"
    <3>1. primary = "none"
      BY <1>3, <2>1, <2>2 DEF Conclude
    <3>2. contested \/ \A e \in Entries : Content[e] = "new"
      BY <2>1, <3>1, AllStored DEF Content
    <3>3. Content' = Content
      BY <2>1 DEF Content
    <3>4. Delivery!Succeed
      BY <2>1, <2>2, <3>2, <3>3 DEF Delivery!Succeed, Content
    <3>. QED  BY <3>4 DEF Delivery!Next
  <2>3. CASE outcome' # "success"
    <3>1. UNCHANGED outcome \/ outcome' \in {"failed", "cancelled"}
      BY <1>3, <2>3 DEF Conclude
    <3>. QED  BY <1>a, <1>b, <2>1, <3>1
  <2>. QED  BY <2>2, <2>3
<1>4. CASE GrantAndRetry
  <2>1. /\ outcome = "running" /\ UNCHANGED <<store, outcome>>
        /\ contested' = TRUE \/ UNCHANGED contested
    BY <1>0, <1>4 DEF GrantAndRetry, Collected
  <2>2. Content' = Content
    BY <2>1 DEF Content
  <2>3. CASE contested' = TRUE
    <3>1. Delivery!Contest
      BY <2>1, <2>2, <2>3 DEF Delivery!Contest, Content
    <3>. QED  BY <3>1 DEF Delivery!Next
  <2>. QED  BY <2>1, <2>2, <2>3
<1>5. CASE GrantRefused
  BY <1>0, <1>5, <1>b DEF GrantRefused, Collected
<1>6. CASE Cancel
  BY <1>6, <1>a DEF Cancel
<1>. QED  BY <1>1, <1>2, <1>3, <1>4, <1>5, <1>6 DEF Coordinator

(* Every step of an upload is a step of the promise, or changes nothing    *)
(* the promise mentions.                                                   *)
LEMMA NextDelivers ==
  DInv /\ [Next]_vars => [Delivery!Next]_<<Content, outcome, contested>>
<1>. SUFFICES ASSUME DInv, [Next]_vars
              PROVE  Delivery!Next \/ UNCHANGED <<Content, outcome, contested>>
  OBVIOUS
<1>1. CASE Coordinator \/ Cancel
  BY <1>1, CoordinatorDelivers
<1>2. ASSUME NEW s \in Sessions, Stream(s)
      PROVE  UNCHANGED <<Content, outcome, contested>>
  <2>1. StreamEffect(s)
    BY <1>2, StreamEffects DEF DInv, SessionInv, IInv
  <2>. QED  BY <2>1 DEF StreamEffect, coordVars, Content
<1>3. ASSUME NEW s \in Sessions, Service(s)
      PROVE  Delivery!Next \/ UNCHANGED <<Content, outcome, contested>>
  <2>1. Shape /\ LinkShape /\ Wire(s) /\ Answered(s)
    BY DEF DInv, IInv, SessionInv
  <2>. QED  BY <1>3, <2>1, WorkerEffects, WorkerKeeps, WorkerDelivers
<1>4. ASSUME UNCHANGED <<store, outcome, contested>>
      PROVE  UNCHANGED <<Content, outcome, contested>>
  BY <1>4 DEF Content
<1>5. ASSUME NEW s \in Sessions, Monitor(s) \/ LoseControl(s) \/ LoseData(s) \/ DiscardAccess(s)
      PROVE  UNCHANGED <<Content, outcome, contested>>
  BY <1>4, <1>5 DEF Monitor, LoseControl, LoseData, DiscardAccess, DevFrame, coordVars
<1>6. CASE DestroyService
  BY <1>4, <1>6 DEF DestroyService, DevFrame, coordVars
<1>7. CASE UNCHANGED vars
  BY <1>4, <1>7 DEF vars, coordVars
<1>. QED  BY <1>1, <1>2, <1>3, <1>5, <1>6, <1>7 DEF Next

-----------------------------------------------------------------------------

(* The invariant of the refinement holds of every upload.                  *)
THEOREM DeliveryInvariant == Spec => []DInv
BY InitDInv, NextDInv, PTL DEF Spec

(* ACBridge P2P implements the promise of a transfer: success is announced *)
(* only over stored entries and nothing changes them afterwards, unless    *)
(* the second upload began beside a session of the first                   *)
(* (_read_authenticated_response, handleUpload, the commit of receiveFile, *)
(* the retry in p2p_transfer_strategy.py).                                 *)
THEOREM UploadsAreHonest == Spec => DeliveryIsHonest
<1>1. Init => Delivery!Init
  BY DEF Init, Delivery!Init
<1>2. DInv /\ [Next]_vars =>
        [Delivery!Next]_<<[e \in Entries |-> IF store[e] = "partial" THEN "none" ELSE store[e]],
                          outcome, contested>>
  BY NextDelivers DEF Content
<1>. QED  BY <1>1, <1>2, DeliveryInvariant, PTL DEF Spec, DeliveryIsHonest, Delivery!Spec
=============================================================================
