------------------------------ MODULE P2PService ------------------------------
(***************************************************************************)
(* The life of P2PTransferService: intents handled one after the other on  *)
(* Android's main thread, one worker thread per session, and the count     *)
(* that decides when the service stops itself.  Android numbers the start  *)
(* requests as they are made; stopSelfResult(id) succeeds only for the     *)
(* last number.                                                            *)
(***************************************************************************)
EXTENDS Naturals, Sequences

CONSTANTS
  Requests,  \* the sessions the desktop asks for, each once
  MaxStarts  \* bound on the intents

VARIABLES
  intents,    \* start requests Android has not delivered yet
  lastStart,  \* the number of the last start request, as Android knows it
  main,       \* the main thread: "idle", "register" or "count", and its request
  latest,     \* latestStartId
  sessions,   \* activeControlSessions
  count,      \* activeSessionCount
  worker,     \* Request -> "none", "running", "leaving" or "gone"
  stopping,   \* stopSelfResult was granted
  destroyed,  \* onDestroy has run
  killed      \* the running sessions that onDestroy cancelled

vars == <<intents, lastStart, main, latest, sessions, count, worker, stopping,
          destroyed, killed>>

NoRequest == "none"
Idle == [at |-> "idle", request |-> NoRequest]

Init ==
  /\ intents = <<>> /\ lastStart = 0
  /\ main = Idle
  /\ latest = 0 /\ sessions = {} /\ count = 0
  /\ worker = [r \in Requests |-> "none"]
  /\ stopping = FALSE /\ destroyed = FALSE /\ killed = {}

\* am start-foreground-service, for a new session or to cancel one.  Once the stop
\* is granted a request would go to a new instance.
Request(r, cancels) ==
  /\ ~stopping
  /\ \A i \in DOMAIN intents : intents[i].request # r
  /\ worker[r] = "none" => ~cancels
  /\ worker[r] # "none" => cancels
  /\ lastStart < MaxStarts
  /\ lastStart' = lastStart + 1
  /\ intents' = Append(intents, [request |-> r, cancels |-> cancels, id |-> lastStart + 1])
  /\ UNCHANGED <<main, latest, sessions, count, worker, stopping, destroyed, killed>>

StopSelf(id) == stopping' = (stopping \/ id = lastStart)

\* onStartCommand up to its first lock section, which publishes the start number.
OnStartCommand ==
  /\ main.at = "idle"
  /\ ~destroyed
  /\ intents # <<>>
  /\ LET intent == Head(intents) IN
     /\ latest' = intent.id
     /\ intents' = Tail(intents)
     /\ main' = [at |-> IF intent.cancels THEN "cancel" ELSE "register",
                 request |-> intent.request]
  /\ UNCHANGED <<lastStart, sessions, count, worker, stopping, destroyed, killed>>

\* A cancellation ends its session and stops the service when none is left.
OnCancel ==
  /\ main.at = "cancel"
  /\ IF count = 0 THEN StopSelf(latest) ELSE UNCHANGED stopping
  /\ main' = Idle
  /\ UNCHANGED <<intents, lastStart, latest, sessions, count, worker, destroyed, killed>>

\* putIfAbsent: a request id in use is ignored.
Register ==
  /\ main.at = "register"
  /\ IF main.request \in sessions
     THEN main' = Idle /\ UNCHANGED sessions
     ELSE sessions' = sessions \cup {main.request} /\ main' = [main EXCEPT !.at = "count"]
  /\ UNCHANGED <<intents, lastStart, latest, count, worker, stopping, destroyed, killed>>

\* The second lock section counts the session; its worker starts.
Count ==
  /\ main.at = "count"
  /\ count' = count + 1
  /\ worker' = [worker EXCEPT ![main.request] = "running"]
  /\ main' = Idle
  /\ UNCHANGED <<intents, lastStart, latest, sessions, stopping, destroyed, killed>>

\* runSession returns: finished, cancelled or expired.
SessionOver(r) ==
  /\ worker[r] = "running"
  /\ worker' = [worker EXCEPT ![r] = "leaving"]
  /\ sessions' = sessions \ {r}
  /\ UNCHANGED <<intents, lastStart, main, latest, count, stopping, destroyed, killed>>

\* The worker's lock section: the last one out stops the service.
Leave(r) ==
  /\ worker[r] = "leaving"
  /\ worker' = [worker EXCEPT ![r] = "gone"]
  /\ count' = count - 1
  /\ IF count = 1 THEN StopSelf(latest) ELSE UNCHANGED stopping
  /\ UNCHANGED <<intents, lastStart, main, latest, sessions, destroyed, killed>>

\* onDestroy, on the main thread, cancels what is still active.
OnDestroy ==
  /\ stopping
  /\ ~destroyed
  /\ main.at = "idle"
  /\ destroyed' = TRUE
  /\ killed' = {r \in sessions : worker[r] = "running"}
  /\ UNCHANGED <<intents, lastStart, main, latest, sessions, count, worker, stopping>>

Next ==
  \/ \E r \in Requests, cancels \in BOOLEAN : Request(r, cancels)
  \/ OnStartCommand \/ OnCancel \/ Register \/ Count \/ OnDestroy
  \/ \E r \in Requests : SessionOver(r) \/ Leave(r)

Spec == Init /\ [][Next]_vars

\* "The transfer service stops only after every session has finished or timed out":
\* onDestroy finds no session still running.
StopsOnlyWhenIdle == destroyed => killed = {}
===============================================================================
