------------------------ MODULE PermissionGrantProofs ------------------------
(***************************************************************************)
(* Proofs about PermissionGrant, for any number of permission requests, of *)
(* kills of the ACBridge process and of failed commits.                    *)
(*                                                                         *)
(* The argument is about who may close which host.  A token is closed only *)
(* after somebody asked for it (Asked).  At most one host is alive, and it *)
(* is the one both the static reference and the preferences name; a task   *)
(* without its process is the only one left (OneHost).  Until its `am      *)
(* start` arrives, nothing of a token exists on the device (StartsInv,     *)
(* Fresh).  For the last request, as long as no abandoned task opened      *)
(* late, an alive host is still the persisted one and a `closed` read by   *)
(* the computer means that nothing is left to reopen it (Handshake).       *)
(*                                                                         *)
(* ForegroundIsHandedOver is not inductive: that the host is gone when the *)
(* status activity starts follows from the acknowledgement only through    *)
(* the preference ACTIVE_REQUEST_KEY, which the acknowledging paths have   *)
(* all cleared, and which RecreateHost and completeRequest obey.           *)
(***************************************************************************)
EXTENDS PermissionGrant, TLAPS

(* The records the variables range over.                                   *)
Bridges ==
  [host : [Tokens -> HostStates], active : 0 .. MaxHosts, persisted : 0 .. MaxHosts,
   marked : 0 .. MaxHosts, written : 0 .. MaxHosts, timers : SUBSET Tokens, starts : SUBSET Tokens,
   relaunches : SUBSET Tokens, completions : SUBSET Tokens,
   status : [Tokens -> {"none", "ready", "closed"}], shown : SUBSET Tokens,
   prompts : SUBSET Tokens, told : SUBSET Tokens, stray : SUBSET Tokens,
   losses : Nat, stranded : BOOLEAN]

Askers ==
  [at : Stages, last : 0 .. MaxHosts, backend : {"root", "shizuku"}, cancelled : BOOLEAN,
   then : {"end", "verify"}, tries : Nat, closed : BOOLEAN]

(* Nothing is closed, or about to be, that nobody asked to close.          *)
Asked(b) ==
  /\ b.completions \subseteq b.told
  /\ b.relaunches \subseteq b.told
  /\ {b.marked, b.written} \subseteq {0} \cup b.told
  /\ \A t \in Tokens : b.host[t] = "closing" => t \in b.told

(* At most one host is alive, the active and persisted one; when a task    *)
(* survives its process there is no active host, and no other such task.   *)
OneHost(b) ==
  /\ \A t \in Tokens : b.host[t] = "live" => b.active = t /\ b.persisted = t
  /\ \A t \in Tokens : b.host[t] = "lost" =>
       b.active = 0 /\ \A u \in Tokens : b.host[u] = "lost" => u = t

(* No activity of t exists and nothing on the device can create one.       *)
Unopened(b, t) == b.host[t] = "none" /\ t \notin b.relaunches /\ b.persisted # t

(* A start that has not arrived is of a token never opened; a host that    *)
(* was shown has been opened; readiness is published when it is shown.     *)
StartsInv(b) ==
  /\ \A t \in b.starts : Unopened(b, t)
  /\ \A t \in b.shown : b.host[t] # "none"
  /\ \A t \in Tokens : b.status[t] = "ready" => t \in b.shown

(* Tokens are fresh: nothing of a later request exists yet.                *)
Fresh(b, a) ==
  /\ \A t \in Tokens : t > a.last \/ (t = a.last /\ a.at = "start") =>
                       Unopened(b, t) /\ t \notin b.starts
  /\ a.at # "idle" => a.last \in Tokens

(* The computer has seen the host ready, and may still go on to the status *)
(* check when the dismissal returns.                                       *)
Verifying(a) ==
  \/ a.at \in {"shell", "request", "answer", "status"}
  \/ a.at \in {"dismiss", "closing"} /\ a.then = "verify"

(* Nothing on the device will open t again.                                *)
Given(b, t) == b.persisted # t /\ t \notin b.relaunches

(* What the last request may rely on while no abandoned task opened late.  *)
Handshake(b, a) == \A t \in Tokens : t = a.last /\ b.stray = {} =>
  /\ b.host[t] \in {"live", "closing"} => b.active = t /\ b.persisted = t
  /\ t \in b.relaunches => b.persisted = t /\ b.active = 0
  /\ Verifying(a) => /\ t \in b.shown
                     /\ b.status[t] = "closed" => Given(b, t)
  /\ a.at = "status" => Given(b, t)

\* The inductive invariant.
BridgeOK == bridge \in Bridges /\ asker \in Askers
GInv(b, a) == Asked(b) /\ OneHost(b) /\ StartsInv(b) /\ Fresh(b, a) /\ Handshake(b, a)
IInv == BridgeOK /\ GInv(bridge, asker)

-----------------------------------------------------------------------------
(* What every outcome of finishHost and onCreate leaves alone.             *)
Alike(b, c) ==
  /\ c.starts = b.starts /\ c.relaunches = b.relaunches /\ c.completions = b.completions
  /\ c.shown = b.shown /\ c.told = b.told /\ c.stray = b.stray

(* finishHost or onNewIntent for a token that is not the active one: only  *)
(* acknowledged, and forgotten when it was persisted.                      *)
Acknowledged(b, t, c) ==
  /\ Alike(b, c)
  /\ c.host = b.host /\ c.active = b.active /\ b.active # t
  /\ c.status = [b.status EXCEPT ![t] = "closed"]
  /\ c.persisted # t
  /\ c.persisted = b.persisted \/ (b.persisted = t /\ c.persisted = 0)
  /\ c.marked \in {0, b.marked} /\ c.written \in {0, b.written}

(* The active host of t begins to finish: marked, committed, not yet       *)
(* destroyed.                                                              *)
Finishing(b, t, c) ==
  /\ Alike(b, c)
  /\ b.host[t] = "live" /\ b.active = t /\ b.persisted = t
  /\ c.host = [b.host EXCEPT ![t] = "closing"]
  /\ c.active = t /\ c.persisted = t /\ c.marked = t /\ c.written = t
  /\ c.status = b.status

(* A commit that failed, which marks t in memory only, or a host that is   *)
(* already finishing.                                                      *)
Stays(b, t, c) ==
  /\ Alike(b, c)
  /\ c.host = b.host /\ c.active = b.active /\ c.persisted = b.persisted
  /\ c.marked \in {t, b.marked} /\ c.written = b.written /\ c.status = b.status

(* The host of t becomes the active one, closed at once when a completion  *)
(* came first.                                                             *)
Opened(b, t, closes, c) ==
  /\ Alike(b, c)
  /\ \E s \in {"live", "closing"} : /\ c.host = [b.host EXCEPT ![t] = s]
                                    /\ s = "closing" => closes
  /\ c.active = t /\ c.persisted = t
  /\ {c.marked, c.written} \subseteq {0, t}
  /\ closes \/ (c.marked = 0 /\ c.written = 0)
  /\ c.status = b.status

(* The types of single fields.                                             *)
Marks == 0 .. MaxHosts
Statuses == [Tokens -> {"none", "ready", "closed"}]
Hosts == [Tokens -> HostStates]

(* Tokens are positive; 0 stands for none.                                 *)
LEMMA TokenFacts ==
  /\ \A t \in Tokens : t # 0 /\ t \in Nat /\ t \in Marks
  /\ 0 \in Marks
  /\ 0 \notin Tokens
  BY PermissionBounds, SMT DEF Tokens, Marks

(* The fields of a bridge record.                                          *)
LEMMA BridgeFields ==
  ASSUME NEW b \in Bridges
  PROVE  /\ b.host \in Hosts /\ b.status \in Statuses
         /\ b.active \in Marks /\ b.persisted \in Marks /\ b.marked \in Marks
         /\ b.written \in Marks
         /\ b.timers \subseteq Tokens /\ b.starts \subseteq Tokens
         /\ b.relaunches \subseteq Tokens /\ b.completions \subseteq Tokens
         /\ b.shown \subseteq Tokens /\ b.prompts \subseteq Tokens
         /\ b.told \subseteq Tokens /\ b.stray \subseteq Tokens
         /\ b.losses \in Nat /\ b.stranded \in BOOLEAN
  BY DEF Bridges, Hosts, Statuses, Marks

(* finishHost acknowledges another token, begins to finish the active      *)
(* host, or changes nothing that matters.                                  *)
LEMMA FinishOutcome ==
  ASSUME NEW b \in Bridges, NEW t \in Tokens, NEW commits \in BOOLEAN
  PROVE  /\ FinishHost(b, t, commits) \in Bridges
         /\ \/ Acknowledged(b, t, FinishHost(b, t, commits))
            \/ Finishing(b, t, FinishHost(b, t, commits))
            \/ Stays(b, t, FinishHost(b, t, commits))
<1> DEFINE c == FinishHost(b, t, commits)
<1>f. /\ b.host \in Hosts /\ b.status \in Statuses
      /\ b.timers \subseteq Tokens /\ b.losses \in Nat /\ b.stranded \in BOOLEAN
  BY BridgeFields
<1>1. CASE t # b.active
  <2>1. c = Publish(Forget(b, t), t, "closed")
    BY <1>1 DEF FinishHost
  <2>2. CASE b.persisted = t
    <3>1. c = [b EXCEPT !.persisted = 0, !.marked = 0, !.written = 0,
                        !.status = [b.status EXCEPT ![t] = "closed"]]
      BY <2>1, <2>2 DEF Publish, Forget, Bridges
    <3>2. [b.status EXCEPT ![t] = "closed"] \in Statuses
      BY <1>f DEF Statuses
    <3>3. c \in Bridges
      BY ZenonT(60), <3>1, <3>2, TokenFacts DEF Bridges, Statuses, Marks
    <3>4. Acknowledged(b, t, c)
      BY <3>1, <1>1, <2>2, TokenFacts DEF Acknowledged, Alike, Bridges
    <3> QED BY <3>3, <3>4
  <2>3. CASE b.persisted # t
    <3>1. c = [b EXCEPT !.status = [b.status EXCEPT ![t] = "closed"]]
      BY <2>1, <2>3 DEF Publish, Forget, Bridges
    <3>2. [b.status EXCEPT ![t] = "closed"] \in Statuses
      BY <1>f DEF Statuses
    <3>3. c \in Bridges
      BY <3>1, <3>2 DEF Bridges, Statuses
    <3>4. Acknowledged(b, t, c)
      BY <3>1, <1>1, <2>3 DEF Acknowledged, Alike, Bridges
    <3> QED BY <3>3, <3>4
  <2> QED BY <2>2, <2>3
<1>2. CASE t = b.active /\ (b.persisted # t \/ b.host[t] # "live")
  <2>1. c = b
    BY <1>2 DEF FinishHost
  <2> QED BY <2>1 DEF Stays, Alike
<1>3. CASE t = b.active /\ b.persisted = t /\ b.host[t] = "live" /\ commits
  <2>1. c = [b EXCEPT !.host = [b.host EXCEPT ![t] = "closing"], !.marked = t,
                      !.written = t, !.timers = b.timers \ {t}]
    BY <1>3 DEF FinishHost, Mark, Bridges
  <2>2. [b.host EXCEPT ![t] = "closing"] \in Hosts /\ b.timers \ {t} \subseteq Tokens
    BY <1>f DEF Hosts, HostStates
  <2>3. c \in Bridges
    BY ZenonT(60), <2>1, <2>2, TokenFacts DEF Bridges, Hosts, Marks
  <2>4. Finishing(b, t, c)
    BY <2>1, <1>3 DEF Finishing, Alike, Bridges
  <2> QED BY <2>3, <2>4
<1>4. CASE t = b.active /\ b.persisted = t /\ b.host[t] = "live" /\ ~commits
  <2> DEFINE n == b.losses + 1
             s == b.stranded \/ t \notin b.timers
  <2>1. n \in Nat /\ s \in BOOLEAN
    BY <1>f
  <2>2. c = [b EXCEPT !.marked = t, !.losses = n, !.stranded = s]
    BY <1>4 DEF FinishHost, Mark, Bridges
  <2> HIDE DEF n, s
  <2>3. c \in Bridges
    BY ZenonT(60), <2>1, <2>2, TokenFacts DEF Bridges, Marks
  <2>4. Stays(b, t, c)
    BY <2>2 DEF Stays, Alike, Bridges
  <2> QED BY <2>3, <2>4
<1> QED BY <1>1, <1>2, <1>3, <1>4

(* onCreate of a new instance makes it the active one.                     *)
LEMMA CreateOutcome ==
  ASSUME NEW b \in Bridges, NEW t \in Tokens, NEW commits \in BOOLEAN,
         NEW pending \in BOOLEAN
  PROVE  /\ Create(b, t, pending, commits) \in Bridges
         /\ Opened(b, t, pending, Create(b, t, pending, commits))
<1> DEFINE o == Activate(b, t)
<1>f. b.host \in Hosts /\ b.timers \subseteq Tokens
  BY BridgeFields
<1>1. o = [b EXCEPT !.host = [b.host EXCEPT ![t] = "live"], !.active = t, !.persisted = t,
                    !.marked = 0, !.written = 0, !.timers = b.timers \union {t}]
  BY DEF Activate, Bridges
<1>2. [b.host EXCEPT ![t] = "live"] \in Hosts /\ b.timers \union {t} \subseteq Tokens
  BY <1>f DEF Hosts, HostStates
<1>3. o \in Bridges
  BY ZenonT(60), <1>1, <1>2, TokenFacts DEF Bridges, Hosts, Marks
<1>4. /\ o.host = [b.host EXCEPT ![t] = "live"] /\ o.active = t /\ o.persisted = t
      /\ o.marked = 0 /\ o.written = 0 /\ o.status = b.status /\ Alike(b, o)
  BY <1>1 DEF Alike, Bridges
<1> HIDE DEF o
<1>5. CASE ~pending
  <2>1. Create(b, t, pending, commits) = o
    BY <1>5 DEF Create, o
  <2> QED BY <2>1, <1>3, <1>4 DEF Opened
<1>6. CASE pending
  <2> DEFINE c == FinishHost(o, t, commits)
  <2>1. Create(b, t, pending, commits) = c
    BY <1>6 DEF Create, o
  <2>2. c \in Bridges /\ (Acknowledged(o, t, c) \/ Finishing(o, t, c) \/ Stays(o, t, c))
    BY <1>3, FinishOutcome
  <2> HIDE DEF c
  <2>3. ~Acknowledged(o, t, c)
    BY <1>4 DEF Acknowledged
  <2>4. CASE Finishing(o, t, c)
    <3>1. c.host = [b.host EXCEPT ![t] = "closing"]
      BY <2>4, <1>4, <1>f DEF Finishing, Hosts
    <3> QED BY <3>1, <2>4, <1>4, <1>6, <2>1, <2>2 DEF Finishing, Opened, Alike
  <2>5. CASE Stays(o, t, c)
    BY <2>5, <1>4, <1>6, <2>1, <2>2 DEF Stays, Opened, Alike
  <2> QED BY <2>2, <2>3, <2>4, <2>5
<1> QED BY <1>5, <1>6

-----------------------------------------------------------------------------
(* Steps that only consume what was under way, or record more history.     *)
Later(b, c) ==
  /\ c.host = b.host /\ c.active = b.active /\ c.persisted = b.persisted
  /\ c.marked = b.marked \/ c.marked \in b.told
  /\ c.written = b.written /\ c.status = b.status /\ c.shown = b.shown
  /\ c.starts \subseteq b.starts /\ c.relaunches \subseteq b.relaunches
  /\ b.told \subseteq c.told /\ b.stray \subseteq c.stray
  /\ c.completions \subseteq c.told

(* Consuming an intent or a timer keeps the invariant.                     *)
LEMMA LaterKeeps ==
  ASSUME NEW b \in Bridges, NEW a \in Askers, NEW c \in Bridges, GInv(b, a), Later(b, c)
  PROVE  GInv(c, a)
<1>1. Asked(c)
  BY DEF GInv, Later, Asked
<1>2. OneHost(c)
  BY DEF GInv, Later, OneHost
<1>3. StartsInv(c)
  BY DEF GInv, Later, StartsInv, Unopened
<1>4. Fresh(c, a)
  BY DEF GInv, Later, Fresh, Unopened
<1>5. Handshake(c, a)
  BY DEF GInv, Later, Handshake, Given
<1> QED BY <1>1, <1>2, <1>3, <1>4, <1>5 DEF GInv

(* So does a commit that fails.                                            *)
LEMMA StaysKeeps ==
  ASSUME NEW b \in Bridges, NEW a \in Askers, NEW c \in Bridges, NEW t \in Tokens,
         GInv(b, a), Stays(b, t, c), t \in b.told
  PROVE  GInv(c, a)
<1>1. Later(b, c)
  BY DEF GInv, Stays, Alike, Later, Asked
<1> QED BY <1>1, LaterKeeps

(* An acknowledgement keeps it when the token cannot be relaunched.        *)
LEMMA AcknowledgedKeeps ==
  ASSUME NEW b \in Bridges, NEW a \in Askers, NEW c \in Bridges, NEW t \in Tokens,
         GInv(b, a), Acknowledged(b, t, c),
         t = a.last /\ b.stray = {} => t \notin b.relaunches
  PROVE  GInv(c, a)
<1>f. b.host \in Hosts /\ b.status \in Statuses /\ b.starts \subseteq Tokens
  BY BridgeFields
<1>1. Asked(c)
  BY DEF GInv, Acknowledged, Alike, Asked
<1>2. OneHost(c)
  BY TokenFacts DEF GInv, Acknowledged, OneHost
<1>3. StartsInv(c)
  BY <1>f, TokenFacts DEF GInv, Acknowledged, Alike, StartsInv, Unopened, Statuses
<1>4. Fresh(c, a)
  BY TokenFacts DEF GInv, Acknowledged, Alike, Fresh, Unopened
<1>5. Handshake(c, a)
  BY <1>f, TokenFacts DEF GInv, Acknowledged, Alike, Handshake, Given, Statuses
<1> QED BY <1>1, <1>2, <1>3, <1>4, <1>5 DEF GInv

(* The finishing of a host somebody asked to close keeps it.               *)
LEMMA FinishingKeeps ==
  ASSUME NEW b \in Bridges, NEW a \in Askers, NEW c \in Bridges, NEW t \in Tokens,
         GInv(b, a), Finishing(b, t, c), t \in b.told
  PROVE  GInv(c, a)
<1>f. b.host \in Hosts
  BY BridgeFields
<1>1. Asked(c)
  BY <1>f DEF GInv, Finishing, Alike, Asked, Hosts
<1>2. OneHost(c)
  BY <1>f, TokenFacts DEF GInv, Finishing, OneHost, Hosts
<1>3. StartsInv(c)
  BY <1>f DEF GInv, Finishing, Alike, StartsInv, Unopened, Hosts
<1>4. Fresh(c, a)
  BY <1>f DEF GInv, Finishing, Alike, Fresh, Unopened, Hosts
<1>5. Handshake(c, a)
  BY <1>f DEF GInv, Finishing, Alike, Handshake, Given, Hosts
<1> QED BY <1>1, <1>2, <1>3, <1>4, <1>5 DEF GInv

(* When a host of t may be created: nothing else is alive, and the last    *)
(* request does not rely on t or on another task.                          *)
MayOpen(b, a, t) ==
  /\ \A u \in Tokens : b.host[u] # "live"
  /\ \A u \in Tokens : b.host[u] = "lost" => u = t
  /\ t \notin b.starts
  /\ t < a.last \/ (t = a.last /\ a.at # "start")
  /\ b.stray = {} => /\ t \notin b.relaunches
                     /\ t = a.last => /\ a.at # "status"
                                      /\ Verifying(a) => b.status[t] # "closed"
                     /\ \A u \in Tokens : u = a.last /\ u # t =>
                          b.host[u] # "closing" /\ u \notin b.relaunches

(* The creation of a host keeps it under MayOpen.                          *)
LEMMA OpenedKeeps ==
  ASSUME NEW b \in Bridges, NEW a \in Askers, NEW c \in Bridges, NEW t \in Tokens,
         NEW closes \in BOOLEAN,
         GInv(b, a), Opened(b, t, closes, c), MayOpen(b, a, t), closes => t \in b.told,
         t \notin b.relaunches
  PROVE  GInv(c, a)
<1>f. b.host \in Hosts /\ a.last \in Nat
  BY BridgeFields DEF Askers
<1>1. PICK s \in {"live", "closing"} : /\ c.host = [b.host EXCEPT ![t] = s]
                                       /\ s = "closing" => closes
  BY DEF Opened
<1>2. /\ c.active = t /\ c.persisted = t /\ c.status = b.status /\ Alike(b, c)
      /\ {c.marked, c.written} \subseteq {0, t}
      /\ closes \/ (c.marked = 0 /\ c.written = 0)
  BY DEF Opened
<1>3. Asked(c)
  BY <1>f, <1>1, <1>2 DEF GInv, Alike, Asked, Hosts
<1>4. OneHost(c)
  BY <1>f, <1>1, <1>2, TokenFacts DEF GInv, MayOpen, OneHost, Hosts
<1>5. StartsInv(c)
  BY <1>f, <1>1, <1>2 DEF GInv, MayOpen, Alike, StartsInv, Unopened, Hosts
<1>6. Fresh(c, a)
  BY <1>f, <1>1, <1>2, TokenFacts DEF GInv, MayOpen, Alike, Fresh, Unopened, Hosts
<1>7. Handshake(c, a)
  BY <1>f, <1>1, <1>2 DEF GInv, MayOpen, Alike, Handshake, Given, Verifying, Hosts
<1> QED BY <1>3, <1>4, <1>5, <1>6, <1>7 DEF GInv

-----------------------------------------------------------------------------
(* The living instance is the active one, and without it no host is alive. *)
LEMMA LivingFacts ==
  ASSUME NEW b \in Bridges, OneHost(b)
  PROVE  /\ Living(b) = 0 => \A u \in Tokens : b.host[u] # "live"
         /\ Living(b) # 0 => Living(b) = b.active /\ b.host[b.active] = "live"
  BY TokenFacts DEF Living, OneHost

(* An intent for t arrives while no task is without its process.           *)
LEMMA ReceiveKeeps ==
  ASSUME NEW b \in Bridges, NEW a \in Askers, NEW t \in Tokens,
         NEW pending \in BOOLEAN, NEW commits \in BOOLEAN,
         GInv(b, a), \A u \in Tokens : b.host[u] # "lost",
         pending => t \in b.told,
         t \notin b.relaunches,
         (\A u \in Tokens : b.host[u] # "live") => MayOpen(b, a, t)
  PROVE  /\ Receive(b, t, pending, commits) \in Bridges
         /\ GInv(Receive(b, t, pending, commits), a)
<1> DEFINE c == Receive(b, t, pending, commits)
<1> SUFFICES c \in Bridges /\ GInv(c, a)
  OBVIOUS
<1>f. b.host \in Hosts /\ b.status \in Statuses /\ t # 0 /\ OneHost(b)
  BY BridgeFields, TokenFacts DEF GInv
<1>1. CASE Living(b) = 0
  <2> DEFINE closes == pending \/ b.marked = t
  <2>1. c = Create(b, t, closes, commits)
    BY <1>1 DEF Receive
  <2>2. closes \in BOOLEAN
    OBVIOUS
  <2>3. closes => t \in b.told
    BY <1>f DEF GInv, Asked
  <2>4. MayOpen(b, a, t)
    BY <1>1, <1>f, LivingFacts
  <2> HIDE DEF closes
  <2>5. c \in Bridges /\ Opened(b, t, closes, c)
    BY <2>1, <2>2, CreateOutcome
  <2> QED BY <2>2, <2>3, <2>4, <2>5, OpenedKeeps
<1>2. CASE Living(b) # 0 /\ Living(b) # t
  <2>1. c = [b EXCEPT !.status = [b.status EXCEPT ![t] = "closed"]]
    BY <1>2 DEF Receive, Publish, Bridges
  <2>2. [b.status EXCEPT ![t] = "closed"] \in Statuses
    BY <1>f DEF Statuses
  <2>3. c \in Bridges
    BY <2>1, <2>2 DEF Bridges, Statuses
  <2>4. b.active # t /\ b.active \in Tokens /\ b.host[b.active] = "live"
    <3>1. b.active # 0 /\ b.active = Living(b) /\ b.host[b.active] = "live"
      BY <1>2, <1>f, LivingFacts
    <3>2. b.active \in Tokens
      BY <3>1, BridgeFields DEF Marks, Tokens
    <3> QED BY <3>1, <3>2, <1>2
  <2>5. b.persisted # t
    BY <2>4, <1>f DEF OneHost
  <2>6. Acknowledged(b, t, c)
    BY <2>1, <2>4, <2>5 DEF Acknowledged, Alike, Bridges
  <2> HIDE DEF c
  <2>7. t = a.last /\ b.stray = {} => t \notin b.relaunches
    OBVIOUS
  <2> QED BY <2>3, <2>6, <2>7, AcknowledgedKeeps
<1>3. CASE Living(b) = t
  <2>1. b.active = t
    BY <1>3, <1>f, LivingFacts
  <2>2. CASE ~(pending \/ b.marked = t)
    <3>1. c = b
      BY <1>3, <1>f, <2>2 DEF Receive
    <3> QED BY <3>1
  <2>3. CASE pending \/ b.marked = t
    <3>t. t \in b.told
      BY <2>3, <1>f DEF GInv, Asked
    <3>1. c = FinishHost(b, t, commits)
      BY <1>3, <1>f, <2>3 DEF Receive
    <3>2. c \in Bridges /\ (Acknowledged(b, t, c) \/ Finishing(b, t, c) \/ Stays(b, t, c))
      BY <3>1, FinishOutcome
    <3> HIDE DEF c
    <3>3. ~Acknowledged(b, t, c)
      BY <2>1 DEF Acknowledged
    <3> QED BY <3>2, <3>3, <3>t, FinishingKeeps, StaysKeeps
  <2> QED BY <2>2, <2>3
<1> QED BY <1>1, <1>2, <1>3

-----------------------------------------------------------------------------
(* The steps of the bridge *)

(* The am start of the host arrives, in time or long after it was given    *)
(* up.                                                                     *)
LEMMA OpenHostKeeps ==
  ASSUME IInv, NEW t \in Tokens, OpenHost(t)
  PROVE  IInv'
<1> DEFINE b == [bridge EXCEPT !.starts = bridge.starts \ {t}, !.stray = Strays(t)]
<1>f. /\ bridge \in Bridges /\ asker \in Askers /\ GInv(bridge, asker)
      /\ t \in bridge.starts /\ \A u \in Tokens : bridge.host[u] # "lost"
      /\ bridge' = Receive(b, t, FALSE, TRUE) /\ asker' = asker
  BY DEF IInv, BridgeOK, OpenHost, Launchable, Bridges
<1>g. bridge.starts \subseteq Tokens /\ bridge.stray \subseteq Tokens
  BY <1>f, BridgeFields
<1>1. /\ Strays(t) \subseteq Tokens /\ bridge.stray \subseteq Strays(t)
      /\ Strays(t) = {} => ~(t < asker.last) /\ asker.at # "idle"
  BY <1>g DEF Strays
<1>2. b \in Bridges
  BY <1>f, <1>g, <1>1 DEF Bridges
<1>3. Later(bridge, b)
  BY <1>f, <1>1 DEF Later, Bridges, GInv, Asked
<1>4. /\ t \notin b.starts /\ b.stray = Strays(t) /\ b.host = bridge.host
      /\ b.relaunches = bridge.relaunches /\ b.status = bridge.status
  BY <1>f DEF Bridges
<1> HIDE DEF b
<1>5. GInv(b, asker)
  BY <1>f, <1>2, <1>3, LaterKeeps
<1>6. t \notin bridge.relaunches /\ bridge.host[t] = "none" /\ t \notin bridge.shown
  BY <1>f DEF GInv, StartsInv, Unopened
<1>7. t < asker.last \/ (t = asker.last /\ asker.at # "start")
  BY <1>f, <1>g DEF GInv, Fresh, Askers, Tokens
<1>8. asker.last \in Nat /\ t \in Nat
  BY <1>f DEF Askers, Tokens
<1>9. Strays(t) = {} => t = asker.last /\ bridge.stray = {}
  BY <1>1, <1>7
<1>10. (\A u \in Tokens : b.host[u] # "live") => MayOpen(b, asker, t)
  BY <1>f, <1>4, <1>6, <1>7, <1>9 DEF MayOpen, GInv, Handshake, Verifying
<1>11. bridge' \in Bridges /\ GInv(bridge', asker)
  BY <1>2, <1>5, <1>f, <1>4, <1>6, <1>10, ReceiveKeeps
<1> QED BY <1>11, <1>f DEF IInv, BridgeOK

(* The close intent of completeRequest arrives.                            *)
LEMMA RelaunchHostKeeps ==
  ASSUME IInv, NEW t \in Tokens, RelaunchHost(t)
  PROVE  IInv'
<1> DEFINE b == [bridge EXCEPT !.relaunches = bridge.relaunches \ {t}, !.stray = Strays(t)]
<1>f. /\ bridge \in Bridges /\ asker \in Askers /\ GInv(bridge, asker)
      /\ t \in bridge.relaunches /\ \A u \in Tokens : bridge.host[u] # "lost"
      /\ asker' = asker
  BY DEF IInv, BridgeOK, RelaunchHost, Launchable
<1>p. PICK commits \in BOOLEAN : bridge' = Receive(b, t, TRUE, commits)
  BY DEF RelaunchHost, Commits, IInv, BridgeOK, Bridges
<1>g. bridge.relaunches \subseteq Tokens /\ bridge.stray \subseteq Tokens
  BY <1>f, BridgeFields
<1>1. /\ Strays(t) \subseteq Tokens /\ bridge.stray \subseteq Strays(t)
      /\ Strays(t) = {} => ~(t < asker.last) /\ asker.at # "idle"
  BY <1>g DEF Strays
<1>2. b \in Bridges
  BY <1>f, <1>g, <1>1 DEF Bridges
<1>3. Later(bridge, b)
  BY <1>f, <1>1 DEF Later, Bridges, GInv, Asked
<1>4. /\ t \notin b.relaunches /\ b.stray = Strays(t) /\ b.host = bridge.host
      /\ b.relaunches \subseteq bridge.relaunches /\ b.status = bridge.status
      /\ b.starts = bridge.starts /\ b.told = bridge.told
  BY <1>f DEF Bridges
<1> HIDE DEF b
<1>5. GInv(b, asker)
  BY <1>f, <1>2, <1>3, LaterKeeps
<1>6. t \notin bridge.starts /\ t \in bridge.told
  BY <1>f DEF GInv, StartsInv, Unopened, Asked
<1>8. asker.last \in Nat /\ t \in Nat
  BY <1>f DEF Askers, Tokens
<1>7. t < asker.last \/ (t = asker.last /\ asker.at # "start")
  BY <1>f, <1>8 DEF GInv, Fresh, Unopened
<1>9. Strays(t) = {} => t = asker.last /\ bridge.stray = {}
  BY <1>1, <1>7
<1>10. (\A u \in Tokens : b.host[u] # "live") => MayOpen(b, asker, t)
  BY <1>f, <1>4, <1>6, <1>7, <1>9 DEF MayOpen, GInv, Handshake, Given
<1>11. bridge' \in Bridges /\ GInv(bridge', asker)
  BY <1>2, <1>5, <1>f, <1>p, <1>4, <1>6, <1>10, ReceiveKeeps
<1> QED BY <1>11, <1>f DEF IInv, BridgeOK

(* The host publishes that it is ready.                                    *)
LEMMA PublishReadyKeeps ==
  ASSUME IInv, NEW t \in Tokens, PublishReady(t)
  PROVE  IInv'
<1>f. /\ bridge \in Bridges /\ asker \in Askers /\ GInv(bridge, asker)
      /\ bridge.host[t] = "live" /\ t \notin bridge.shown /\ asker' = asker
      /\ bridge.status \in Statuses /\ bridge.shown \subseteq Tokens
      /\ bridge.host \in Hosts
  BY BridgeFields DEF IInv, BridgeOK, PublishReady
<1> DEFINE c == bridge'
<1>1. c = [bridge EXCEPT !.status = [bridge.status EXCEPT ![t] = "ready"],
                         !.shown = bridge.shown \union {t}]
  BY <1>f DEF PublishReady, Publish, Bridges
<1>2. /\ [bridge.status EXCEPT ![t] = "ready"] \in Statuses
      /\ bridge.shown \union {t} \subseteq Tokens
  BY <1>f DEF Statuses
<1>3. c \in Bridges
  BY <1>f, <1>1, <1>2 DEF Bridges, Statuses
<1>4. /\ c.host = bridge.host /\ c.active = bridge.active /\ c.persisted = bridge.persisted
      /\ c.marked = bridge.marked /\ c.written = bridge.written
      /\ c.shown = bridge.shown \union {t}
      /\ c.status = [bridge.status EXCEPT ![t] = "ready"]
      /\ c.starts = bridge.starts /\ c.relaunches = bridge.relaunches
      /\ c.completions = bridge.completions /\ c.told = bridge.told /\ c.stray = bridge.stray
  BY <1>f, <1>1 DEF Bridges
<1> HIDE DEF c
<1>5. Asked(c) /\ OneHost(c)
  BY <1>f, <1>4 DEF GInv, Asked, OneHost
<1>6. StartsInv(c)
  BY <1>f, <1>4 DEF GInv, StartsInv, Unopened, Statuses
<1>7. Fresh(c, asker)
  BY <1>f, <1>4 DEF GInv, Fresh, Unopened
<1>8. Handshake(c, asker)
  BY <1>f, <1>4 DEF GInv, Handshake, Given, Statuses
<1>9. GInv(c, asker)
  BY <1>5, <1>6, <1>7, <1>8 DEF GInv
<1> QED BY <1>3, <1>9, <1>f DEF IInv, BridgeOK, c

(* completeRequest on the main thread, with and without an active          *)
(* instance.                                                               *)
LEMMA CompleteKeeps ==
  ASSUME IInv, NEW t \in Tokens, Complete(t)
  PROVE  IInv'
<1> DEFINE b == [bridge EXCEPT !.completions = bridge.completions \ {t}]
<1>f. /\ bridge \in Bridges /\ asker \in Askers /\ GInv(bridge, asker) /\ asker' = asker
      /\ t \in bridge.completions /\ t \in bridge.told /\ bridge.completions \subseteq Tokens
      /\ bridge.relaunches \subseteq Tokens
  BY BridgeFields DEF IInv, BridgeOK, Complete, GInv, Asked
<1>1. b \in Bridges
  BY <1>f DEF Bridges
<1>2. Later(bridge, b) /\ b.told = bridge.told /\ b.relaunches = bridge.relaunches
      /\ b.stray = bridge.stray /\ b.starts = bridge.starts
  BY <1>f DEF Later, Bridges, GInv, Asked
<1>p. PICK commits \in BOOLEAN :
        \/ b.active # 0 /\ bridge' = FinishHost(b, t, commits)
        \/ /\ b.active = 0 /\ b.persisted = t
           /\ bridge' = IF commits
                        THEN [b EXCEPT !.marked = t, !.written = t,
                                       !.relaunches = b.relaunches \union {t}]
                        ELSE [b EXCEPT !.marked = t, !.losses = b.losses + 1]
        \/ b.active = 0 /\ b.persisted # t /\ bridge' = Publish(b, t, "closed")
  BY <1>f DEF Complete, Commits, Mark, Bridges
<1> HIDE DEF b
<1>g. GInv(b, asker)
  BY <1>f, <1>1, <1>2, LaterKeeps
<1>r. /\ t \in b.told /\ b.relaunches \subseteq Tokens
      /\ b.host \in Hosts /\ b.status \in Statuses /\ b.losses \in Nat
  BY <1>f, <1>1, <1>2, BridgeFields
<1> DEFINE c == bridge'
<1> SUFFICES c \in Bridges /\ GInv(c, asker)
  BY <1>f DEF IInv, BridgeOK
<1>3. CASE b.active # 0 /\ c = FinishHost(b, t, commits)
  <2>1. c \in Bridges /\ (Acknowledged(b, t, c) \/ Finishing(b, t, c) \/ Stays(b, t, c))
    BY <1>1, <1>3, FinishOutcome
  <2> HIDE DEF c
  <2>2. t = asker.last /\ b.stray = {} => t \notin b.relaunches
    BY <1>g, <1>3 DEF GInv, Handshake
  <2> QED BY <2>1, <2>2, <1>1, <1>f, <1>g, <1>r, AcknowledgedKeeps, FinishingKeeps,
             StaysKeeps
<1>4. CASE b.active = 0 /\ b.persisted = t /\ commits /\
           c = [b EXCEPT !.marked = t, !.written = t, !.relaunches = b.relaunches \union {t}]
  <2> DEFINE r == b.relaunches \union {t}
  <2>1. r \subseteq Tokens
    BY <1>r
  <2>2. /\ c.host = b.host /\ c.active = 0 /\ c.persisted = t /\ c.status = b.status
        /\ c.marked = t /\ c.written = t /\ c.relaunches = r /\ c.starts = b.starts /\ c.shown = b.shown
        /\ c.completions = b.completions /\ c.told = b.told /\ c.stray = b.stray
    BY <1>1, <1>4 DEF Bridges
  <2>3. c \in Bridges
    BY ZenonT(60), <1>1, <1>4, <2>1, TokenFacts DEF Bridges, Marks
  <2> HIDE DEF c
  <2>4. Asked(c)
    BY <1>g, <1>r, <2>2 DEF GInv, Asked
  <2>5. OneHost(c)
    BY <1>g, <1>4, <2>2 DEF GInv, OneHost
  <2>6. StartsInv(c)
    BY <1>g, <1>4, <2>2 DEF GInv, StartsInv, Unopened
  <2>7. Fresh(c, asker)
    BY <1>g, <1>4, <2>2 DEF GInv, Fresh, Unopened
  <2>8. Handshake(c, asker)
    BY <1>g, <1>4, <2>2 DEF GInv, Handshake, Given
  <2> QED BY <2>3, <2>4, <2>5, <2>6, <2>7, <2>8 DEF GInv
<1>5. CASE c = [b EXCEPT !.marked = t, !.losses = b.losses + 1]
  <2> DEFINE n == b.losses + 1
  <2>1. n \in Nat
    BY <1>r
  <2>2. c = [b EXCEPT !.marked = t, !.losses = n]
    BY <1>5
  <2> HIDE DEF n
  <2>3. c \in Bridges /\ Stays(b, t, c)
    BY <1>1, <2>1, <2>2, TokenFacts DEF Bridges, Stays, Alike, Marks
  <2> QED BY <2>3, <1>1, <1>f, <1>g, <1>r, StaysKeeps
<1>6. CASE b.active = 0 /\ b.persisted # t /\ c = Publish(b, t, "closed")
  <2>1. c = [b EXCEPT !.status = [b.status EXCEPT ![t] = "closed"]]
    BY <1>1, <1>6 DEF Publish, Bridges
  <2>2. [b.status EXCEPT ![t] = "closed"] \in Statuses
    BY <1>r DEF Statuses
  <2>3. c \in Bridges
    BY <1>1, <2>1, <2>2 DEF Bridges, Statuses
  <2>4. Acknowledged(b, t, c)
    BY <1>1, <1>6, <2>1, TokenFacts DEF Acknowledged, Alike, Bridges
  <2> HIDE DEF c
  <2>5. t = asker.last /\ b.stray = {} => t \notin b.relaunches
    BY <1>g, <1>6 DEF GInv, Handshake
  <2> QED BY <2>3, <2>4, <2>5, <1>1, <1>f, <1>g, AcknowledgedKeeps
<1> QED BY <1>p, <1>3, <1>4, <1>5, <1>6

(* The safety timeout of a host.                                           *)
LEMMA OrphanExpiresKeeps ==
  ASSUME IInv, NEW t \in Tokens, OrphanExpires(t)
  PROVE  IInv'
<1> DEFINE b == [bridge EXCEPT !.timers = bridge.timers \ {t}, !.told = bridge.told \union {t}]
<1>f. /\ bridge \in Bridges /\ asker \in Askers /\ GInv(bridge, asker) /\ asker' = asker
      /\ bridge.timers \subseteq Tokens /\ bridge.told \subseteq Tokens
  BY BridgeFields DEF IInv, BridgeOK, OrphanExpires
<1>p. PICK commits \in BOOLEAN :
        bridge' = IF b.active = t THEN FinishHost(b, t, commits) ELSE b
  BY <1>f DEF OrphanExpires, Commits
<1>1. b \in Bridges
  BY <1>f DEF Bridges
<1>2. Later(bridge, b) /\ t \in b.told
  BY <1>f DEF Later, Bridges, GInv, Asked
<1> HIDE DEF b
<1>g. GInv(b, asker)
  BY <1>f, <1>1, <1>2, LaterKeeps
<1> DEFINE c == bridge'
<1> SUFFICES c \in Bridges /\ GInv(c, asker)
  BY <1>f DEF IInv, BridgeOK
<1>3. CASE b.active = t
  <2>1. c \in Bridges /\ (Acknowledged(b, t, c) \/ Finishing(b, t, c) \/ Stays(b, t, c))
    BY <1>1, <1>3, <1>p, FinishOutcome
  <2> HIDE DEF c
  <2>2. ~Acknowledged(b, t, c)
    BY <1>3 DEF Acknowledged
  <2> QED BY <2>1, <2>2, <1>1, <1>2, <1>f, <1>g, FinishingKeeps, StaysKeeps
<1>4. CASE b.active # t
  BY <1>4, <1>p, <1>1, <1>g
<1> QED BY <1>3, <1>4

(* A permission activity ends and posts the completion of its token.       *)
LEMMA EndPromptKeeps ==
  ASSUME IInv, NEW t \in Tokens, EndPrompt(t)
  PROVE  IInv'
<1> DEFINE c == bridge'
<1>f. /\ bridge \in Bridges /\ asker \in Askers /\ GInv(bridge, asker) /\ asker' = asker
      /\ bridge.prompts \subseteq Tokens /\ bridge.told \subseteq Tokens
      /\ bridge.completions \subseteq Tokens
  BY BridgeFields DEF IInv, BridgeOK, EndPrompt
<1>1. c = [bridge EXCEPT !.prompts = bridge.prompts \ {t},
             !.completions = bridge.completions \union {t}, !.told = bridge.told \union {t}]
  BY <1>f DEF EndPrompt, Bridges
<1>2. c \in Bridges
  BY <1>f, <1>1 DEF Bridges
<1>3. Later(bridge, c)
  BY <1>f, <1>1 DEF Later, Bridges, GInv, Asked
<1> HIDE DEF c
<1>4. GInv(c, asker)
  BY <1>f, <1>2, <1>3, LaterKeeps
<1> QED BY <1>2, <1>4, <1>f DEF IInv, BridgeOK, c

(* onDestroy clears the reference and the preference before it             *)
(* acknowledges.                                                           *)
LEMMA DestroyHostKeeps ==
  ASSUME IInv, NEW t \in Tokens, DestroyHost(t)
  PROVE  IInv'
<1> DEFINE c == bridge'
           f == Forget(bridge, t)
           h == [bridge.host EXCEPT ![t] = "destroyed"]
           n == IF bridge.active = t THEN 0 ELSE bridge.active
           s == [bridge.status EXCEPT ![t] = "closed"]
           p == IF bridge.persisted = t THEN 0 ELSE bridge.persisted
           m == IF bridge.persisted = t THEN 0 ELSE bridge.marked
           w == IF bridge.persisted = t THEN 0 ELSE bridge.written
<1>f. /\ bridge \in Bridges /\ asker \in Askers /\ GInv(bridge, asker) /\ asker' = asker
      /\ bridge.host[t] = "closing" /\ bridge.host \in Hosts /\ bridge.status \in Statuses
      /\ bridge.active \in Marks /\ bridge.persisted \in Marks /\ bridge.marked \in Marks
      /\ bridge.written \in Marks /\ bridge.starts \subseteq Tokens /\ bridge.shown \subseteq Tokens
  BY BridgeFields DEF IInv, BridgeOK, DestroyHost
<1>1. f = [bridge EXCEPT !.persisted = p, !.marked = m, !.written = w]
  BY <1>f DEF Forget, Bridges
<1>2. h \in Hosts /\ n \in Marks /\ s \in Statuses /\ p \in Marks /\ m \in Marks /\ w \in Marks
  BY <1>f, TokenFacts DEF Hosts, HostStates, Statuses
<1>3. c = [bridge EXCEPT !.host = h, !.active = n, !.persisted = p, !.marked = m,
                         !.written = w, !.status = s]
  BY <1>f, <1>1 DEF DestroyHost, Publish, Bridges
<1>i. /\ \A u \in Tokens : h[u] = IF u = t THEN "destroyed" ELSE bridge.host[u]
      /\ \A u \in Tokens : s[u] = IF u = t THEN "closed" ELSE bridge.status[u]
  BY <1>f DEF Hosts, Statuses
<1>n. /\ n \in {0, bridge.active} /\ n # t
      /\ p \in {0, bridge.persisted} /\ p # t /\ m \in {0, bridge.marked}
      /\ w \in {0, bridge.written}
      /\ bridge.persisted # t => p = bridge.persisted
      /\ bridge.active # t => n = bridge.active
  BY TokenFacts
<1> HIDE DEF h, n, s, p, m, w, f
<1>4. c \in Bridges
  BY <1>f, <1>2, <1>3 DEF Bridges, Hosts, Statuses, Marks
<1>5. /\ c.host = h /\ c.active = n /\ c.persisted = p /\ c.marked = m /\ c.status = s
      /\ c.written = w /\ Alike(bridge, c)
  BY <1>f, <1>3 DEF Bridges, Alike
<1> HIDE DEF c
<1>6. Asked(c)
  BY <1>f, <1>i, <1>n, <1>5 DEF GInv, Asked, Alike
<1>7. OneHost(c)
  BY <1>f, <1>i, <1>n, <1>5 DEF GInv, OneHost
<1>8. StartsInv(c)
  BY <1>f, <1>i, <1>n, <1>5, TokenFacts DEF GInv, StartsInv, Unopened, Alike
<1>9. Fresh(c, asker)
  BY <1>f, <1>i, <1>n, <1>5, TokenFacts DEF GInv, Fresh, Unopened, Alike
<1>10. Handshake(c, asker)
  BY <1>f, <1>i, <1>n, <1>5, TokenFacts DEF GInv, Handshake, Given, Alike
<1>11. GInv(c, asker)
  BY <1>6, <1>7, <1>8, <1>9, <1>10 DEF GInv
<1> QED BY <1>4, <1>11, <1>f DEF IInv, BridgeOK, c

(* A task without its process is recreated only while it is the persisted  *)
(* one.                                                                    *)
LEMMA RecreateHostKeeps ==
  ASSUME IInv, NEW t \in Tokens, RecreateHost(t)
  PROVE  IInv'
<1> DEFINE b == [bridge EXCEPT !.relaunches = bridge.relaunches \ {t}]
           pending == bridge.marked = t \/ t \in bridge.relaunches
           c == bridge'
<1>f. /\ bridge \in Bridges /\ asker \in Askers /\ GInv(bridge, asker) /\ asker' = asker
      /\ bridge.host[t] = "lost" /\ bridge.relaunches \subseteq Tokens
      /\ bridge.host \in Hosts /\ bridge.status \in Statuses /\ bridge.active = 0
  BY BridgeFields DEF IInv, BridgeOK, RecreateHost, GInv, OneHost
<1>p. PICK commits \in BOOLEAN :
        c = IF bridge.persisted = t THEN Create(b, t, pending, commits)
            ELSE Publish([b EXCEPT !.host[t] = "destroyed"], t, "closed")
  BY <1>f DEF RecreateHost, Commits, Bridges
<1>1. b \in Bridges
  BY <1>f DEF Bridges
<1>2. /\ Later(bridge, b) /\ b.told = bridge.told /\ t \notin b.relaunches
      /\ b.relaunches \subseteq bridge.relaunches
      /\ b.host = bridge.host /\ b.status = bridge.status /\ b.stray = bridge.stray
      /\ b.starts = bridge.starts /\ b.persisted = bridge.persisted /\ b.active = bridge.active
  BY <1>f DEF Later, Bridges, GInv, Asked
<1>3. pending \in BOOLEAN /\ (pending => t \in b.told)
  BY <1>f, <1>2, TokenFacts DEF GInv, Asked
<1> HIDE DEF b, pending
<1>g. GInv(b, asker)
  BY <1>f, <1>1, <1>2, LaterKeeps
<1> SUFFICES c \in Bridges /\ GInv(c, asker)
  BY <1>f DEF IInv, BridgeOK
<1>4. CASE bridge.persisted = t
  <2>1. c \in Bridges /\ Opened(b, t, pending, c)
    BY <1>p, <1>4, <1>1, <1>3, CreateOutcome
  <2>2. \A u \in Tokens : b.host[u] # "live" /\ (b.host[u] = "lost" => u = t)
    BY <1>f, <1>2, TokenFacts DEF GInv, OneHost
  <2>3. t \notin b.starts
    BY <1>f, <1>2 DEF GInv, StartsInv, Unopened
  <2>4. t < asker.last \/ (t = asker.last /\ asker.at # "start")
    BY <1>f DEF GInv, Fresh, Unopened, Askers, Tokens
  <2>5. b.stray = {} /\ t = asker.last =>
          asker.at # "status" /\ (Verifying(asker) => b.status[t] # "closed")
    BY <1>f, <1>2, <1>4 DEF GInv, Handshake, Given
  <2>6. b.stray = {} => \A u \in Tokens : u = asker.last /\ u # t =>
                          b.host[u] # "closing" /\ u \notin b.relaunches
    BY <1>f, <1>2, <1>4, TokenFacts DEF GInv, Handshake
  <2>7. MayOpen(b, asker, t)
    BY <1>2, <2>2, <2>3, <2>4, <2>5, <2>6 DEF MayOpen
  <2> HIDE DEF c
  <2> QED BY <1>1, <1>2, <1>3, <1>f, <1>g, <2>1, <2>7, OpenedKeeps
<1>5. CASE bridge.persisted # t
  <2> DEFINE h == [b.host EXCEPT ![t] = "destroyed"]
             s == [b.status EXCEPT ![t] = "closed"]
  <2>1. c = [b EXCEPT !.host = h, !.status = s]
    BY <1>1, <1>5, <1>p DEF Publish, Bridges
  <2>2. h \in Hosts /\ s \in Statuses
    BY <1>f, <1>2 DEF Hosts, HostStates, Statuses
  <2>i. /\ \A u \in Tokens : h[u] = IF u = t THEN "destroyed" ELSE b.host[u]
        /\ \A u \in Tokens : s[u] = IF u = t THEN "closed" ELSE b.status[u]
    BY <1>f, <1>2 DEF Hosts, Statuses
  <2> HIDE DEF h, s
  <2>3. c \in Bridges
    BY <1>1, <2>1, <2>2 DEF Bridges, Hosts, Statuses
  <2>4. /\ c.host = h /\ c.active = b.active /\ c.persisted = b.persisted
        /\ c.marked = b.marked /\ c.written = b.written /\ c.status = s /\ Alike(b, c)
    BY <1>1, <2>1 DEF Bridges, Alike
  <2>s. b.starts \subseteq Tokens /\ b.shown \subseteq Tokens
    BY <1>1, BridgeFields
  <2> HIDE DEF c
  <2>5. Asked(c)
    BY <1>g, <2>i, <2>4 DEF GInv, Asked, Alike
  <2>6. OneHost(c)
    BY <1>g, <2>i, <2>4 DEF GInv, OneHost
  <2>7. StartsInv(c)
    BY <1>f, <1>2, <1>g, <2>s, <2>i, <2>4 DEF GInv, StartsInv, Unopened, Alike
  <2>8. Fresh(c, asker)
    BY <1>f, <1>2, <1>g, <2>i, <2>4 DEF GInv, Fresh, Unopened, Alike
  <2>9. Handshake(c, asker)
    BY <1>5, <1>2, <1>g, <2>i, <2>4 DEF GInv, Handshake, Given, Alike
  <2> QED BY <2>3, <2>5, <2>6, <2>7, <2>8, <2>9 DEF GInv
<1> QED BY <1>4, <1>5

(* The ACBridge process is killed: a live host may leave its task behind.  *)
LEMMA KillProcessKeeps ==
  ASSUME IInv, KillProcess
  PROVE  IInv'
<1>f. /\ bridge \in Bridges /\ asker \in Askers /\ GInv(bridge, asker) /\ asker' = asker
      /\ bridge.host \in Hosts /\ bridge.losses \in Nat
      /\ bridge.starts \subseteq Tokens /\ bridge.shown \subseteq Tokens
  BY SMTT(30), BridgeFields DEF IInv, BridgeOK, KillProcess
<1>p. PICK kept \in BOOLEAN :
        bridge' = [bridge EXCEPT
                    !.host = [t \in Tokens |->
                                IF bridge.host[t] = "live" /\ kept THEN "lost"
                                ELSE IF bridge.host[t] \in {"live", "closing"} THEN "destroyed"
                                ELSE bridge.host[t]],
                    !.active = 0, !.marked = bridge.written, !.timers = {},
                    !.completions = {}, !.prompts = {}, !.losses = bridge.losses + 1]
  BY <1>f DEF KillProcess, Bridges
<1> DEFINE h == [t \in Tokens |->
                   IF bridge.host[t] = "live" /\ kept THEN "lost"
                   ELSE IF bridge.host[t] \in {"live", "closing"} THEN "destroyed"
                   ELSE bridge.host[t]]
           n == bridge.losses + 1
           c == bridge'
<1>1. h \in Hosts /\ n \in Nat
  BY <1>f DEF Hosts, HostStates
<1>2. \A t \in Tokens : /\ h[t] \notin {"live", "closing"}
                        /\ h[t] = "none" <=> bridge.host[t] = "none"
                        /\ h[t] = "lost" => bridge.host[t] \in {"live", "lost"}
  BY <1>f DEF Hosts, HostStates
<1>3. c = [bridge EXCEPT !.host = h, !.active = 0, !.marked = bridge.written,
                         !.timers = {}, !.completions = {}, !.prompts = {}, !.losses = n]
  BY <1>p
<1> HIDE DEF h, n
<1>4. c \in Bridges
  BY <1>f, <1>1, <1>3, TokenFacts DEF Bridges, Hosts, Marks
<1>5. /\ c.host = h /\ c.active = 0 /\ c.persisted = bridge.persisted
      /\ c.marked = bridge.written /\ c.written = bridge.written
      /\ c.status = bridge.status /\ c.starts = bridge.starts
      /\ c.relaunches = bridge.relaunches /\ c.completions = {} /\ c.shown = bridge.shown
      /\ c.told = bridge.told /\ c.stray = bridge.stray
  BY <1>f, <1>3 DEF Bridges
<1> HIDE DEF c
<1>6. Asked(c)
  BY <1>f, <1>2, <1>5 DEF GInv, Asked
<1>7. OneHost(c)
  BY <1>f, <1>2, <1>5, TokenFacts DEF GInv, OneHost
<1>8. StartsInv(c)
  BY <1>f, <1>2, <1>5 DEF GInv, StartsInv, Unopened
<1>9. Fresh(c, asker)
  BY <1>f, <1>2, <1>5 DEF GInv, Fresh, Unopened
<1>10. Handshake(c, asker)
  BY <1>f, <1>2, <1>5 DEF GInv, Handshake, Given
<1>11. GInv(c, asker)
  BY <1>6, <1>7, <1>8, <1>9, <1>10 DEF GInv
<1> QED BY <1>4, <1>11, <1>f DEF IInv, BridgeOK, c

-----------------------------------------------------------------------------
(* The steps of the computer *)

(* A step of the computer within one request: it relies on a handshake     *)
(* only once it has seen the host ready, and checks the status only once   *)
(* it has read that the host is closed.                                    *)
Advances(b, a, d) ==
  /\ d.last = a.last
  /\ a.at # "idle" \/ d.at = "idle"
  /\ d.at = "start" => a.at = "start"
  /\ Verifying(d) => \/ Verifying(a)
                     \/ a.last \in b.shown /\ b.status[a.last] # "closed"
  /\ d.at = "status" => \/ a.at = "status"
                        \/ Verifying(a) /\ b.status[a.last] = "closed"

(* Such a step of the computer keeps the invariant.                        *)
LEMMA AdvanceKeeps ==
  ASSUME NEW b \in Bridges, NEW a \in Askers, NEW d \in Askers, GInv(b, a), Advances(b, a, d)
  PROVE  GInv(b, d)
<1>1. Fresh(b, d)
  BY DEF GInv, Fresh, Advances
<1>2. Handshake(b, d)
  BY DEF GInv, Handshake, Advances
<1> QED BY <1>1, <1>2 DEF GInv

(* The same when the bridge moves too, consuming or recording only.        *)
LEMMA AskerSteps ==
  ASSUME IInv, NEW d \in Askers, asker' = d, Advances(bridge, asker, d),
         NEW c \in Bridges, bridge' = c, Later(bridge, c)
  PROVE  IInv'
<1>1. bridge \in Bridges /\ asker \in Askers /\ GInv(bridge, asker)
  BY DEF IInv, BridgeOK
<1>2. GInv(bridge, d)
  BY <1>1, AdvanceKeeps
<1>3. GInv(c, d)
  BY <1>1, <1>2, LaterKeeps
<1> QED BY <1>3 DEF IInv, BridgeOK

(* The bridge as it is.                                                    *)
LEMMA LaterSame ==
  ASSUME IInv
  PROVE  Later(bridge, bridge) /\ bridge \in Bridges /\ asker \in Askers
  BY DEF IInv, BridgeOK, GInv, Asked, Later

(* A new request takes a fresh token.                                      *)
LEMMA AskAccessKeeps ==
  ASSUME IInv, NEW backend \in {"root", "shizuku"}, AskAccess(backend)
  PROVE  IInv'
<1>f. /\ bridge \in Bridges /\ asker \in Askers /\ GInv(bridge, asker) /\ bridge' = bridge
      /\ asker.last \in 0 .. MaxHosts /\ asker.last < MaxHosts
  BY DEF IInv, BridgeOK, AskAccess, Askers
<1> DEFINE n == asker.last + 1
           d == asker'
<1>1. n \in Tokens /\ n \in 0 .. MaxHosts /\ n > asker.last
  BY <1>f, PermissionBounds DEF Tokens
<1>2. d = [at |-> "start", last |-> n, backend |-> backend, cancelled |-> FALSE,
           then |-> "end", tries |-> 0, closed |-> FALSE]
  BY DEF AskAccess, IdleAsker
<1>3. \A t \in Tokens : t > n \/ t = n => t > asker.last
  BY <1>f DEF Tokens
<1> HIDE DEF n
<1>4. d \in Askers
  BY <1>1, <1>2 DEF Askers, Stages
<1>5. d.at = "start" /\ d.last = n /\ ~Verifying(d)
  BY <1>2 DEF Verifying
<1> HIDE DEF d
<1>6. Fresh(bridge, d)
  BY <1>f, <1>1, <1>3, <1>5 DEF GInv, Fresh
<1>7. Handshake(bridge, d)
  BY <1>f, <1>1, <1>5 DEF GInv, Handshake, Fresh, Unopened
<1>8. GInv(bridge, d)
  BY <1>f, <1>6, <1>7 DEF GInv
<1> QED BY <1>f, <1>4, <1>8 DEF IInv, BridgeOK, d

(* A cancellation is only noted.                                           *)
LEMMA CancelRequestKeeps ==
  ASSUME IInv, CancelRequest
  PROVE  IInv'
<1>1. asker' = [asker EXCEPT !.cancelled = TRUE] /\ bridge' = bridge /\ asker.at # "idle"
  BY DEF CancelRequest
<1> DEFINE d == asker'
<1>2. d \in Askers /\ d.at = asker.at /\ d.last = asker.last /\ d.then = asker.then
  BY <1>1, LaterSame DEF Askers
<1> HIDE DEF d
<1>3. Advances(bridge, asker, d)
  BY <1>1, <1>2 DEF Advances, Verifying
<1> QED BY <1>1, <1>2, <1>3, LaterSame, AskerSteps DEF d

(* The records of the computer after a step.                               *)
LEMMA Moves ==
  ASSUME NEW a \in Askers
  PROVE  /\ \A s \in Stages : /\ [a EXCEPT !.at = s] \in Askers
                              /\ [a EXCEPT !.at = s].at = s
                              /\ [a EXCEPT !.at = s].last = a.last
                              /\ [a EXCEPT !.at = s].then = a.then
         /\ \A n \in {"end", "verify"} :
              LET d == [a EXCEPT !.at = "dismiss", !.then = n, !.tries = 0, !.closed = FALSE]
              IN  d \in Askers /\ d.at = "dismiss" /\ d.last = a.last /\ d.then = n
  BY DEF Askers, Stages

(* The same for one stage.                                                 *)
LEMMA Move ==
  ASSUME NEW a \in Askers, NEW s \in Stages, NEW d, d = [a EXCEPT !.at = s]
  PROVE  d \in Askers /\ d.at = s /\ d.last = a.last /\ d.then = a.then
  BY DEF Askers

(* The am start is sent, or lost.                                          *)
LEMMA StartHostKeeps ==
  ASSUME IInv, StartHost
  PROVE  IInv'
<1> DEFINE d == asker'
           c == bridge'
<1>f. /\ bridge \in Bridges /\ asker \in Askers /\ GInv(bridge, asker)
      /\ bridge.starts \subseteq Tokens /\ asker.at = "start" /\ asker.last \in Tokens
  BY BridgeFields DEF IInv, BridgeOK, StartHost, GInv, Fresh
<1>s. "ready" \in Stages
  BY DEF Stages
<1>0. d = [asker EXCEPT !.at = "ready"] \/
      d = [asker EXCEPT !.at = "dismiss", !.then = "end", !.tries = 0, !.closed = FALSE]
  BY DEF StartHost, Proceed, Dismiss
<1>1. /\ d \in Askers /\ d.last = asker.last
      /\ d.at = "ready" \/ (d.at = "dismiss" /\ d.then = "end")
  <2>1. CASE d = [asker EXCEPT !.at = "ready"]
    BY <2>1, <1>f, <1>s, Move
  <2>2. CASE d = [asker EXCEPT !.at = "dismiss", !.then = "end", !.tries = 0, !.closed = FALSE]
    BY <2>2, <1>f, Moves
  <2> QED BY <1>0, <2>1, <2>2
<1>2. \E s \in {bridge.starts, bridge.starts \union {asker.last}} :
        c = [bridge EXCEPT !.starts = s]
  BY <1>f DEF StartHost, Bridges
<1>3. PICK s \in {bridge.starts, bridge.starts \union {asker.last}} :
        c = [bridge EXCEPT !.starts = s]
  BY <1>2
<1>4. s \subseteq Tokens
  BY <1>f, <1>3
<1>5. c \in Bridges
  BY <1>f, <1>3, <1>4 DEF Bridges
<1>6. /\ c.host = bridge.host /\ c.active = bridge.active /\ c.persisted = bridge.persisted
      /\ c.marked = bridge.marked /\ c.written = bridge.written /\ c.status = bridge.status /\ c.starts = s
      /\ c.relaunches = bridge.relaunches /\ c.completions = bridge.completions
      /\ c.shown = bridge.shown /\ c.told = bridge.told /\ c.stray = bridge.stray
  BY <1>f, <1>3 DEF Bridges
<1> HIDE DEF c, d
<1>u. Unopened(bridge, asker.last)
  BY <1>f DEF GInv, Fresh
<1>7. Asked(c) /\ OneHost(c)
  BY <1>f, <1>6 DEF GInv, Asked, OneHost
<1>8. StartsInv(c)
  BY <1>f, <1>3, <1>6, <1>u DEF GInv, StartsInv, Unopened
<1>9. Fresh(c, d)
  <2>1. \A t \in Tokens : t > d.last \/ (t = d.last /\ d.at = "start") =>
                            t > asker.last /\ t # asker.last
    BY <1>1, <1>f DEF Askers, Tokens
  <2> QED BY <2>1, <1>f, <1>1, <1>3, <1>6 DEF GInv, Fresh, Unopened
<1>10. Handshake(c, d)
  BY <1>f, <1>1, <1>6, <1>u DEF GInv, Handshake, Unopened, Verifying, Given
<1>11. GInv(c, d)
  BY <1>7, <1>8, <1>9, <1>10 DEF GInv
<1> QED BY <1>1, <1>5, <1>11 DEF IInv, BridgeOK, c, d

(* A step that gives the handshake up, or carries it on.                   *)
LEMMA MovesKeep ==
  ASSUME IInv, NEW d \in Askers, asker' = d, d.last = asker.last, UNCHANGED bridge,
         asker.at # "idle", d.at # "start",
         \/ d.at = "idle"
         \/ d.at \in {"dismiss", "closing"} /\ d.then = "end"
         \/ Verifying(asker) /\ d.at # "status"
  PROVE  IInv'
<1>1. Advances(bridge, asker, d)
  BY DEF Advances, Verifying
<1> QED BY <1>1, LaterSame, AskerSteps

(* The steps of the computer that only read the device.                    *)
LEMMA SimpleStepsKeep ==
  ASSUME IInv, HostIsReady \/ HostIsNotReady \/ CheckShell \/ AwaitAnswer \/ CheckStatus
  PROVE  IInv'
<1>f. /\ bridge \in Bridges /\ asker \in Askers /\ GInv(bridge, asker)
  BY DEF IInv, BridgeOK
<1>s. "ready" \in Stages /\ "request" \in Stages /\ "idle" \in Stages
  BY DEF Stages
<1>a. AfterRequest \in {"end", "verify"}
  BY DEF AfterRequest
<1> DEFINE d == asker'
<1>1. CASE HostIsReady
  <2>1. asker.at = "ready" /\ bridge.status[asker.last] = "ready" /\ bridge' = bridge
    BY <1>1 DEF HostIsReady
  <2>s. PICK s \in {"shell", "request"} : d = [asker EXCEPT !.at = s]
    BY <1>1 DEF HostIsReady, Proceed
  <2>2. d \in Askers /\ d.last = asker.last /\ d.at \in {"shell", "request"}
    BY <2>s, <1>f DEF Askers, Stages
  <2>3. asker.last \in bridge.shown
    BY <2>1, <1>f DEF GInv, Fresh, StartsInv
  <2> HIDE DEF d
  <2>4. Advances(bridge, asker, d)
    BY <2>1, <2>2, <2>3 DEF Advances
  <2> QED BY <2>1, <2>2, <2>4, LaterSame, AskerSteps DEF d
<1>2. CASE HostIsNotReady
  <2>1. asker.at = "ready" /\ bridge' = bridge
    BY <1>2 DEF HostIsNotReady
  <2>2. d \in Askers /\ d.last = asker.last /\ d.at = "dismiss" /\ d.then = "end"
    BY <1>2, <1>f, Moves DEF HostIsNotReady, Dismiss
  <2> HIDE DEF d
  <2> QED BY <2>1, <2>2, MovesKeep DEF d
<1>3. CASE CheckShell
  <2>1. asker.at = "shell" /\ bridge' = bridge
    BY <1>3 DEF CheckShell
  <2>2. d \in Askers /\ d.last = asker.last
        /\ (d.at = "request" \/ (d.at = "dismiss" /\ d.then = "end"))
    <3>1. CASE d = [asker EXCEPT !.at = "request"]
      BY <3>1, <1>f, <1>s, Move
    <3>2. CASE d = [asker EXCEPT !.at = "dismiss", !.then = "end", !.tries = 0,
                                 !.closed = FALSE]
      BY <3>2, <1>f, Moves
    <3> QED BY <1>3, <3>1, <3>2 DEF CheckShell, Proceed, Dismiss
  <2>3. Verifying(asker)
    BY <2>1 DEF Verifying
  <2> HIDE DEF d
  <2> QED BY <2>1, <2>2, <2>3, MovesKeep DEF d
<1>4. CASE AwaitAnswer
  <2>1. asker.at = "answer" /\ bridge' = bridge
    BY <1>4 DEF AwaitAnswer
  <2>2. d \in Askers /\ d.last = asker.last /\ d.at = "dismiss"
    BY ZenonT(60), <1>4, <1>a, <1>f, Moves DEF AwaitAnswer, Dismiss
  <2>3. Verifying(asker)
    BY <2>1 DEF Verifying
  <2> HIDE DEF d
  <2> QED BY <2>1, <2>2, <2>3, MovesKeep DEF d
<1>5. CASE CheckStatus
  <2>1. asker.at = "status" /\ bridge' = bridge
    BY <1>5 DEF CheckStatus
  <2>2. d \in Askers /\ d.last = asker.last /\ d.at = "idle"
    BY ZenonT(60), <1>5, <1>f, Moves DEF CheckStatus, Proceed, Stages
  <2>3. asker.at # "idle" /\ d.at # "start" /\ UNCHANGED bridge
    BY <2>1, <2>2
  <2> HIDE DEF d
  <2> QED BY <2>2, <2>3, MovesKeep DEF d
<1> QED BY <1>1, <1>2, <1>3, <1>4, <1>5

(* The permission activity is started, or its start is lost.               *)
LEMMA RequestAccessKeeps ==
  ASSUME IInv, RequestAccess
  PROVE  IInv'
<1> DEFINE d == asker'
           c == bridge'
<1>f. /\ bridge \in Bridges /\ asker \in Askers /\ GInv(bridge, asker)
      /\ asker.at = "request" /\ asker.last \in Tokens /\ bridge.prompts \subseteq Tokens
  BY BridgeFields DEF IInv, BridgeOK, RequestAccess, GInv, Fresh
<1>a. AfterRequest \in {"end", "verify"} /\ "answer" \in Stages
  BY DEF AfterRequest, Stages
<1>1. d.last = asker.last /\ d \in Askers /\ d.at \in {"answer", "dismiss"}
  <2>0. \/ d = [asker EXCEPT !.at = "answer"]
        \/ d = [asker EXCEPT !.at = "dismiss", !.then = AfterRequest, !.tries = 0,
                             !.closed = FALSE]
    BY DEF RequestAccess, Proceed, Dismiss
  <2>1. CASE d = [asker EXCEPT !.at = "answer"]
    BY <2>1, <1>f, <1>a, Move
  <2>2. CASE d = [asker EXCEPT !.at = "dismiss", !.then = AfterRequest, !.tries = 0,
                               !.closed = FALSE]
    BY ZenonT(60), <2>2, <1>f, <1>a, Moves
  <2> QED BY <2>0, <2>1, <2>2
<1>2. PICK p \in {bridge.prompts, bridge.prompts \union {asker.last}} :
        c = [bridge EXCEPT !.prompts = p]
  BY <1>f DEF RequestAccess, Bridges
<1>3. p \subseteq Tokens
  BY <1>f, <1>2
<1>4. c \in Bridges /\ Later(bridge, c)
  BY <1>f, <1>2, <1>3 DEF Bridges, Later, GInv, Asked
<1>5. Verifying(asker)
  BY <1>f DEF Verifying
<1> HIDE DEF c, d
<1>6. Advances(bridge, asker, d)
  BY <1>1, <1>5, <1>f DEF Advances
<1> QED BY <1>1, <1>4, <1>6, AskerSteps DEF c, d

(* The dismissal is sent, or lost.                                         *)
LEMMA SendDismissalKeeps ==
  ASSUME IInv, SendDismissal
  PROVE  IInv'
<1> DEFINE d == asker'
           c == bridge'
           n == asker.tries + 1
<1>f. /\ bridge \in Bridges /\ asker \in Askers /\ GInv(bridge, asker)
      /\ asker.at = "dismiss" /\ asker.last \in Tokens
      /\ bridge.completions \subseteq Tokens /\ bridge.told \subseteq Tokens
  BY BridgeFields DEF IInv, BridgeOK, SendDismissal, GInv, Fresh
<1>0. n \in Nat /\ "closing" \in Stages
  BY <1>f DEF Askers, Stages
<1>1. d = [asker EXCEPT !.at = "closing", !.tries = n]
  BY <1>f DEF SendDismissal, Askers
<1> HIDE DEF n
<1>2. d \in Askers /\ d.at = "closing" /\ d.last = asker.last /\ d.then = asker.then
  BY <1>f, <1>0, <1>1 DEF Askers
<1>3. \/ c = bridge
      \/ c = [bridge EXCEPT !.completions = bridge.completions \union {asker.last},
                            !.told = bridge.told \union {asker.last}]
  BY <1>f DEF SendDismissal, Bridges
<1>4. c \in Bridges /\ Later(bridge, c)
  <2>1. CASE c = bridge
    BY <2>1, LaterSame
  <2>2. CASE c = [bridge EXCEPT !.completions = bridge.completions \union {asker.last},
                                !.told = bridge.told \union {asker.last}]
    BY <1>f, <2>2 DEF Bridges, Later, GInv, Asked
  <2> QED BY <1>3, <2>1, <2>2
<1> HIDE DEF c, d
<1>5. Advances(bridge, asker, d)
  BY <1>2, <1>f DEF Advances, Verifying
<1> QED BY <1>2, <1>4, <1>5, AskerSteps DEF c, d

(* A dismissal returns: the status file of the token is deleted.           *)
LEMMA ReturnKeeps ==
  ASSUME IInv, asker.at = "closing", NEW closed \in BOOLEAN, Follow(closed),
         closed => bridge.status[asker.last] = "closed",
         bridge' = Publish(bridge, asker.last, "none")
  PROVE  IInv'
<1> DEFINE d == asker'
           c == bridge'
           s == [bridge.status EXCEPT ![asker.last] = "none"]
           n == IF asker.then = "verify" /\ ~closed THEN "dismiss"
                ELSE IF asker.then = "verify" /\ closed /\ ~asker.cancelled THEN "status"
                ELSE "idle"
<1>f. /\ bridge \in Bridges /\ asker \in Askers /\ GInv(bridge, asker)
      /\ asker.last \in Tokens /\ bridge.status \in Statuses
  BY BridgeFields DEF IInv, BridgeOK, GInv, Fresh
<1>1. d = [asker EXCEPT !.at = n, !.then = "end", !.tries = 0, !.closed = closed]
  BY DEF Follow
<1>2. n \in {"idle", "dismiss", "status"} /\
      (n = "status" => asker.then = "verify" /\ bridge.status[asker.last] = "closed")
  OBVIOUS
<1> HIDE DEF n
<1>3. d \in Askers /\ d.at = n /\ d.last = asker.last /\ d.then = "end"
  <2>1. n \in Stages
    BY <1>2 DEF Stages
  <2> QED BY <1>f, <1>1, <2>1 DEF Askers
<1> HIDE DEF d
<1>4. Advances(bridge, asker, d)
  BY <1>2, <1>3 DEF Advances, Verifying
<1>5. GInv(bridge, d)
  BY <1>f, <1>3, <1>4, AdvanceKeeps
<1>6. c = [bridge EXCEPT !.status = s]
  BY <1>f DEF Publish, Bridges
<1>7. /\ s \in Statuses
      /\ \A t \in Tokens : s[t] = IF t = asker.last THEN "none" ELSE bridge.status[t]
  BY <1>f DEF Statuses
<1> HIDE DEF s
<1>8. c \in Bridges
  BY <1>f, <1>6, <1>7 DEF Bridges, Statuses
<1>9. /\ c.host = bridge.host /\ c.active = bridge.active /\ c.persisted = bridge.persisted
      /\ c.marked = bridge.marked /\ c.written = bridge.written /\ c.status = s /\ Alike(bridge, c)
  BY <1>f, <1>6 DEF Bridges, Alike
<1> HIDE DEF c
<1>10. Asked(c) /\ OneHost(c)
  BY <1>5, <1>9 DEF GInv, Asked, OneHost, Alike
<1>11. StartsInv(c)
  BY <1>5, <1>7, <1>9 DEF GInv, StartsInv, Unopened, Alike
<1>12. Fresh(c, d)
  BY <1>5, <1>9 DEF GInv, Fresh, Unopened, Alike
<1>13. Handshake(c, d)
  BY <1>5, <1>7, <1>9 DEF GInv, Handshake, Given, Alike
<1>14. GInv(c, d)
  BY <1>10, <1>11, <1>12, <1>13 DEF GInv
<1> QED BY <1>3, <1>8, <1>14 DEF IInv, BridgeOK, c, d

(* The end of one wait for the acknowledgement.                            *)
LEMMA DismissalKeeps ==
  ASSUME IInv, HostIsClosed \/ HostIsNotClosed
  PROVE  IInv'
<1>1. CASE HostIsClosed
  BY <1>1, ReturnKeeps DEF HostIsClosed
<1>2. CASE HostIsNotClosed /\ asker.tries < 2
  <2> DEFINE d == asker'
  <2>1. d = [asker EXCEPT !.at = "dismiss"] /\ bridge' = bridge /\ asker.at = "closing"
    BY <1>2 DEF HostIsNotClosed, Proceed
  <2>2. "dismiss" \in Stages
    BY DEF Stages
  <2>3. d \in Askers /\ d.at = "dismiss" /\ d.last = asker.last /\ d.then = asker.then
    BY <2>1, <2>2, Move, LaterSame
  <2> HIDE DEF d
  <2>4. Advances(bridge, asker, d)
    BY <2>1, <2>3 DEF Advances, Verifying
  <2> QED BY <2>1, <2>3, <2>4, LaterSame, AskerSteps DEF d
<1>3. CASE HostIsNotClosed /\ ~(asker.tries < 2)
  BY <1>3, ReturnKeeps DEF HostIsNotClosed
<1> QED BY <1>1, <1>2, <1>3

-----------------------------------------------------------------------------
(* The invariant holds in every reachable state of the permission          *)
(* handshake.                                                              *)
THEOREM GrantInvariance == GrantSpec => []IInv
<1>1. GrantInit => IInv
  <2> SUFFICES ASSUME GrantInit PROVE IInv
    OBVIOUS
  <2>1. bridge = FreshBridge /\ asker = IdleAsker
    BY DEF GrantInit
  <2>2. bridge \in Bridges
    BY <2>1, PermissionBounds DEF FreshBridge, Bridges, HostStates
  <2>3. asker \in Askers
    BY <2>1, PermissionBounds DEF IdleAsker, Askers, Stages
  <2>4. \A t \in Tokens : bridge.host[t] = "none" /\ bridge.status[t] = "none"
    BY <2>1 DEF FreshBridge
  <2>5. /\ bridge.persisted = 0 /\ bridge.marked = 0 /\ bridge.written = 0 /\ bridge.starts = {}
        /\ bridge.relaunches = {} /\ bridge.completions = {} /\ bridge.shown = {}
        /\ asker.last = 0 /\ asker.at = "idle"
    BY <2>1 DEF FreshBridge, IdleAsker
  <2>6. GInv(bridge, asker)
    BY <2>4, <2>5, TokenFacts DEF GInv, Asked, OneHost, StartsInv, Fresh, Unopened, Handshake
  <2> QED BY <2>2, <2>3, <2>6 DEF IInv, BridgeOK
<1>2. IInv /\ [GrantNext]_grantVars => IInv'
  <2> SUFFICES ASSUME IInv, [GrantNext]_grantVars PROVE IInv'
    OBVIOUS
  <2>1. ASSUME NEW backend \in {"root", "shizuku"}, AskAccess(backend) PROVE IInv'
    BY <2>1, AskAccessKeeps
  <2>2. CASE CancelRequest
    BY <2>2, CancelRequestKeeps
  <2>3. CASE Asking
    BY <2>3, StartHostKeeps, SimpleStepsKeep, RequestAccessKeeps, SendDismissalKeeps,
       DismissalKeeps DEF Asking
  <2>4. CASE KillProcess
    BY <2>4, KillProcessKeeps
  <2>5. ASSUME NEW t \in Tokens,
               \/ OpenHost(t) \/ RelaunchHost(t) \/ PublishReady(t) \/ Complete(t)
               \/ OrphanExpires(t) \/ DestroyHost(t) \/ RecreateHost(t)
               \/ EndPrompt(t)
        PROVE  IInv'
    BY <2>5, OpenHostKeeps, RelaunchHostKeeps, PublishReadyKeeps, CompleteKeeps,
       OrphanExpiresKeeps, DestroyHostKeeps, RecreateHostKeeps, EndPromptKeeps
  <2>6. CASE UNCHANGED grantVars
    BY <2>6 DEF grantVars, IInv, BridgeOK, GInv, Asked, OneHost, StartsInv, Unopened, Fresh,
       Handshake, Verifying, Given
  <2> QED BY <2>1, <2>2, <2>3, <2>4, <2>5, <2>6 DEF GrantNext
<1> QED BY <1>1, <1>2, PTL DEF GrantSpec

(* The foreground is handed over in order: no host is closed for the token *)
(* of another request (PermissionHostActivity.java), and the status        *)
(* activity starts only when the task of the request is gone               *)
(* (request_permission_then_check in shizuku.py), unless an abandoned task *)
(* opened late.                                                            *)
THEOREM ForegroundSafety == GrantSpec => []ForegroundIsHandedOver
<1>1. IInv => ForegroundIsHandedOver
  <2> SUFFICES ASSUME IInv PROVE ForegroundIsHandedOver
    OBVIOUS
  <2>1. /\ Asked(bridge) /\ Fresh(bridge, asker) /\ Handshake(bridge, asker)
        /\ bridge.host \in Hosts
    BY BridgeFields DEF IInv, BridgeOK, GInv
  <2>2. \A t \in Tokens : bridge.host[t] = "closing" => t \in bridge.told
    BY <2>1 DEF Asked
  <2>3. ASSUME asker.at = "status", bridge.stray = {}
        PROVE  bridge.host[asker.last] \in {"none", "destroyed", "lost"}
    <3>1. asker.last \in Tokens
      BY <2>1, <2>3 DEF Fresh
    <3>2. bridge.persisted # asker.last
      BY <2>1, <2>3, <3>1 DEF Handshake, Given
    <3>3. bridge.host[asker.last] \notin {"live", "closing"}
      BY <2>1, <2>3, <3>1, <3>2 DEF Handshake
    <3> QED BY <2>1, <3>1, <3>3 DEF Hosts, HostStates
  <2> QED BY <2>2, <2>3 DEF ForegroundIsHandedOver
<1> QED BY <1>1, GrantInvariance, PTL
=============================================================================
