-------------------------- MODULE PermissionGrant --------------------------
(***************************************************************************)
(* Asking Android for Root or Shizuku access.  The computer opens a        *)
(* foreground host task of ACBridge under a fresh random token, starts the *)
(* permission activity on top of it, waits for its answer and dismisses    *)
(* the host; for Shizuku it then starts the passive status activity.       *)
(*                                                                         *)
(*   asker   the worker of the computer: openadb/core/acbridge.py,         *)
(*           openadb/core/shizuku.py and the Root check of main_window.py  *)
(*   bridge  ACBridge on the device: PermissionHostActivity, its receiver, *)
(*           its preferences and status files, PrivilegeActivity and the   *)
(*           permission request of ShizukuActivity                         *)
(*                                                                         *)
(* Every `am start` and broadcast is a message: it may be lost, or arrive  *)
(* after the computer has given up on it.  Tokens are counted from 1: only *)
(* whether two are equal matters.  Time is left to nondeterminism: every   *)
(* wait of the computer may run out at any moment.                         *)
(***************************************************************************)
EXTENDS Naturals

CONSTANTS MaxHosts,     \* bound: permission requests of the computer
          MaxLosses     \* bound: kills of the ACBridge process and failed commits

ASSUME PermissionBounds == MaxHosts \in Nat \ {0} /\ MaxLosses \in Nat

VARIABLES bridge, asker

grantVars == <<bridge, asker>>

Tokens == 1 .. MaxHosts

(* The activity of a token: opened, finishing until onDestroy, destroyed,  *)
(* or lost with its process.                                               *)
HostStates == {"none", "live", "closing", "destroyed", "lost"}

Stages == {"idle", "start", "ready", "shell", "request", "answer", "dismiss",
           "closing", "status"}

\* Nobody asks.  `last` is the token of the last request, `then` what follows
\* the dismissal, `closed` what the last dismissal returned.
IdleAsker == [at |-> "idle", last |-> 0, backend |-> "root", cancelled |-> FALSE,
              then |-> "end", tries |-> 0, closed |-> FALSE]

\* `active` is the static weak reference, `persisted` and `marked` are the
\* preferences ACTIVE_REQUEST_KEY and CLOSING_REQUEST_KEY, `written` what the disk
\* holds of the latter: a commit that fails has changed the map in memory.  The sets
\* hold what is under way: intents, completions on the main thread, orphan timers.
\* `told` and `stray` are history variables: the tokens somebody asked to close,
\* and those whose task opened after the computer had given them up.
FreshBridge ==
  [host |-> [t \in Tokens |-> "none"], active |-> 0, persisted |-> 0, marked |-> 0,
   written |-> 0, timers |-> {}, starts |-> {}, relaunches |-> {}, completions |-> {},
   status |-> [t \in Tokens |-> "none"], shown |-> {},
   prompts |-> {},
   told |-> {}, stray |-> {}, losses |-> 0, stranded |-> FALSE]

GrantInit == bridge = FreshBridge /\ asker = IdleAsker

GrantTypeOK ==
  /\ DOMAIN bridge.host = Tokens
  /\ \A t \in Tokens : /\ bridge.host[t] \in HostStates
                       /\ bridge.status[t] \in {"none", "ready", "closed"}
  /\ {bridge.active, bridge.persisted, bridge.marked, bridge.written} \subseteq 0 .. MaxHosts
  /\ UNION {bridge.timers, bridge.starts, bridge.relaunches, bridge.completions,
            bridge.shown, bridge.prompts, bridge.told,
            bridge.stray} \subseteq Tokens
  /\ bridge.losses \in 0 .. MaxLosses
  /\ asker.at \in Stages
  /\ asker.last \in 0 .. MaxHosts
  /\ asker.tries \in 0 .. 2

-----------------------------------------------------------------------------
(* PermissionHostActivity                                                  *)

Publish(b, t, state) == [b EXCEPT !.status[t] = state]

Forget(b, t) ==
  IF b.persisted = t THEN [b EXCEPT !.persisted = 0, !.marked = 0, !.written = 0] ELSE b

Activate(b, t) ==
  [b EXCEPT !.host[t] = "live", !.active = t, !.persisted = t, !.marked = 0,
            !.written = 0, !.timers = @ \union {t}]

\* The edit of CLOSING_REQUEST_KEY.
Mark(b, t, commits) ==
  [b EXCEPT !.marked = t, !.written = IF commits THEN t ELSE @,
            !.losses = IF commits THEN @ ELSE @ + 1]

\* The live instance a singleTask start is delivered to, 0 when there is none.
Living(b) == IF b.active # 0 /\ b.host[b.active] = "live" THEN b.active ELSE 0

\* Mutant: the acknowledgement is published when the task begins to finish.
FinishHostAtOnce(b, t, commits) ==
  IF b.persisted # t \/ b.host[t] # "live" THEN Publish(Forget(b, t), t, "closed")
  ELSE Publish([Mark(b, t, TRUE) EXCEPT !.host[t] = "closing", !.timers = @ \ {t}],
               t, "closed")

(* finishHost of the active instance.  A token of another request is only  *)
(* acknowledged; a host whose mark is not committed stays.                 *)
FinishHost(b, t, commits) ==
  IF t # b.active THEN Publish(Forget(b, t), t, "closed")
  ELSE IF b.persisted # t \/ b.host[t] # "live" THEN b
  ELSE IF commits
       THEN [Mark(b, t, TRUE) EXCEPT !.host[t] = "closing", !.timers = @ \ {t}]
       ELSE [Mark(b, t, FALSE) EXCEPT !.stranded = @ \/ t \notin b.timers]

\* onCreate of a new instance: a completion that came first closes it at once.
Create(b, t, pending, commits) ==
  IF pending THEN FinishHost(Activate(b, t), t, commits) ELSE Activate(b, t)

\* onCreate or onNewIntent: a live task is never given to another token.
Receive(b, t, pending, commits) ==
  IF Living(b) = 0 THEN Create(b, t, pending \/ b.marked = t, commits)
  ELSE IF Living(b) # t THEN Publish(b, t, "closed")
  ELSE IF pending \/ b.marked = t THEN FinishHost(b, t, commits) ELSE b

\* An intent for a task Android keeps without its process recreates it first.
Launchable == \A t \in Tokens : bridge.host[t] # "lost"

\* Whether a commit of the preferences succeeds.
Commits == IF bridge.losses < MaxLosses THEN BOOLEAN ELSE {TRUE}

\* The computer no longer waits for this task to open.
Strays(t) ==
  IF t < asker.last \/ asker.at = "idle" THEN bridge.stray \union {t} ELSE bridge.stray

OpenHost(t) ==
  /\ t \in bridge.starts
  /\ Launchable
  /\ bridge' = Receive([bridge EXCEPT !.starts = @ \ {t}, !.stray = Strays(t)],
                       t, FALSE, TRUE)
  /\ UNCHANGED asker

\* The close intent of Complete: CLOSE_PENDING_EXTRA.
RelaunchHost(t) ==
  /\ t \in bridge.relaunches
  /\ Launchable
  /\ \E commits \in Commits :
       bridge' = Receive([bridge EXCEPT !.relaunches = @ \ {t}, !.stray = Strays(t)],
                         t, TRUE, commits)
  /\ UNCHANGED asker

\* The host has the focus: it publishes that it is ready, once.
PublishReady(t) ==
  /\ bridge.host[t] = "live"
  /\ t \notin bridge.shown
  /\ bridge' = [Publish(bridge, t, "ready") EXCEPT !.shown = @ \union {t}]
  /\ UNCHANGED asker

(* completeRequest, on the main thread: without a live instance the token  *)
(* is marked and its task relaunched, so that onDestroy still acknowledges.*)
Complete(t) ==
  /\ t \in bridge.completions
  /\ LET b == [bridge EXCEPT !.completions = @ \ {t}]
     IN  \E commits \in Commits :
           \/ /\ b.active # 0
              /\ bridge' = FinishHost(b, t, commits)
           \/ /\ b.active = 0
              /\ b.persisted = t
              /\ bridge' = IF commits
                           THEN [Mark(b, t, TRUE) EXCEPT !.relaunches = @ \union {t}]
                           ELSE Mark(b, t, FALSE)
           \/ /\ b.active = 0
              /\ b.persisted # t
              /\ bridge' = Publish(b, t, "closed")
  /\ UNCHANGED asker

\* safetyTimeout, longer than every wait of the computer before the dismissal: the
\* runnable is consumed, also when finishHost cannot commit.
OrphanExpires(t) ==
  /\ t \in bridge.timers
  /\ t = asker.last => asker.at \in {"dismiss", "closing", "status", "idle"}
  /\ \E commits \in Commits :
       LET b == [bridge EXCEPT !.timers = @ \ {t}, !.told = @ \union {t}]
       IN  bridge' = IF b.active = t THEN FinishHost(b, t, commits) ELSE b
  /\ UNCHANGED asker

\* onDestroy of a finishing host, the only source of its acknowledgement.
DestroyHost(t) ==
  /\ bridge.host[t] = "closing"
  /\ bridge' = Publish([Forget(bridge, t) EXCEPT
                          !.host[t] = "destroyed",
                          !.active = IF @ = t THEN 0 ELSE @], t, "closed")
  /\ UNCHANGED asker

\* Android kills the process: timers and the main queue are gone; it may keep the
\* task of a live host, with the saved state of its activity.
KillProcess ==
  /\ bridge.losses < MaxLosses
  /\ bridge.active # 0 \/ bridge.prompts # {}
  /\ \E kept \in BOOLEAN :
       bridge' = [bridge EXCEPT
                    !.host = [t \in Tokens |->
                                IF @[t] = "live" /\ kept THEN "lost"
                                ELSE IF @[t] \in {"live", "closing"} THEN "destroyed"
                                ELSE @[t]],
                    !.active = 0, !.marked = bridge.written, !.timers = {}, !.completions = {}, !.prompts = {},
                    !.losses = @ + 1]
  /\ UNCHANGED asker

\* Android recreates the activity of such a task, for its user or for an intent.
RecreateHost(t) ==
  /\ bridge.host[t] = "lost"
  /\ LET pending == bridge.marked = t \/ t \in bridge.relaunches
         b == [bridge EXCEPT !.relaunches = @ \ {t}]
     IN  \E commits \in Commits :
           bridge' = IF b.persisted = t
                     THEN Create(b, t, pending, commits)
                     ELSE Publish([b EXCEPT !.host[t] = "destroyed"], t, "closed")
  /\ UNCHANGED asker

-----------------------------------------------------------------------------
(* PrivilegeActivity and the request of ShizukuActivity.  Both publish a   *)
(* terminal result and then release the host of the token they were given: *)
(* granted, denied, out of time, binder dead, destroyed or cancelled.  A   *)
(* cancellation by the computer, which may be lost, only ends them sooner; *)
(* it does not look at the result any more.                                *)

EndPrompt(t) ==
  /\ t \in bridge.prompts
  /\ bridge' = [bridge EXCEPT !.prompts = @ \ {t},
                              !.completions = @ \union {t}, !.told = @ \union {t}]
  /\ UNCHANGED asker

-----------------------------------------------------------------------------
(* The worker of the computer                                              *)

Proceed(at) == asker' = [asker EXCEPT !.at = at]

\* dismiss_permission_host with what follows it.
Dismiss(next) == asker' = [asker EXCEPT !.at = "dismiss", !.then = next, !.tries = 0,
                                        !.closed = FALSE]

\* The terminal step of a request: the host is dismissed in any case.
AfterRequest == IF asker.backend = "root" THEN "end" ELSE "verify"

AskAccess(backend) ==
  /\ asker.at = "idle"
  /\ asker.last < MaxHosts
  /\ asker' = [IdleAsker EXCEPT !.at = "start", !.last = asker.last + 1,
                                !.backend = backend]
  /\ UNCHANGED bridge

\* The mode changes, the page closes, the user cancels.
CancelRequest ==
  /\ asker.at # "idle"
  /\ ~asker.cancelled
  /\ asker' = [asker EXCEPT !.cancelled = TRUE]
  /\ UNCHANGED bridge

\* content delete, am start -W: the start may be lost, or arrive although the
\* command failed, timed out or was cancelled.
StartHost ==
  /\ asker.at = "start"
  /\ \E arrives, succeeds \in BOOLEAN :
       /\ succeeds => arrives
       /\ bridge' = [bridge EXCEPT !.starts = IF arrives THEN @ \union {asker.last} ELSE @]
       /\ IF succeeds /\ ~asker.cancelled THEN Proceed("ready") ELSE Dismiss("end")

HostIsReady ==
  /\ asker.at = "ready"
  /\ bridge.status[asker.last] = "ready"
  /\ Proceed(IF asker.backend = "root" THEN "shell" ELSE "request")
  /\ UNCHANGED bridge

HostIsNotReady ==
  /\ asker.at = "ready"
  /\ Dismiss("end")
  /\ UNCHANGED bridge

\* Root only: `su` of the ADB shell first, on the same lease.
CheckShell ==
  /\ asker.at = "shell"
  /\ \/ Proceed("request")
     \/ Dismiss("end")
  /\ UNCHANGED bridge

\* am start of the permission activity, which may arrive although it failed.
RequestAccess ==
  /\ asker.at = "request"
  /\ \E arrives, succeeds \in BOOLEAN :
       /\ arrives \/ ~succeeds
       /\ bridge' = [bridge EXCEPT !.prompts = IF arrives THEN @ \union {asker.last} ELSE @]
       /\ IF succeeds /\ ~asker.cancelled THEN Proceed("answer") ELSE Dismiss(AfterRequest)

\* Its result, the end of the wait, or a cancellation.
AwaitAnswer ==
  /\ asker.at = "answer"
  /\ Dismiss(AfterRequest)
  /\ UNCHANGED bridge

\* The broadcast of one attempt, which may be lost.
SendDismissal ==
  /\ asker.at = "dismiss"
  /\ asker' = [asker EXCEPT !.at = "closing", !.tries = @ + 1]
  /\ bridge' \in {bridge, [bridge EXCEPT !.completions = @ \union {asker.last},
                                         !.told = @ \union {asker.last}]}

\* What follows a dismissal: a Shizuku request verifies the new state only once
\* the host is acknowledged to be closed, and dismisses it again if it is not.
Follow(closed) ==
  LET again == asker.then = "verify" /\ ~closed
      verify == asker.then = "verify" /\ closed /\ ~asker.cancelled
  IN  asker' = [asker EXCEPT !.at = IF again THEN "dismiss"
                                    ELSE IF verify THEN "status" ELSE "idle",
                             !.then = "end", !.tries = 0, !.closed = closed]

\* The status file is deleted when a dismissal returns.
HostIsClosed ==
  /\ asker.at = "closing"
  /\ bridge.status[asker.last] = "closed"
  /\ Follow(TRUE)
  /\ bridge' = Publish(bridge, asker.last, "none")

HostIsNotClosed ==
  /\ asker.at = "closing"
  /\ IF asker.tries < 2
     THEN Proceed("dismiss") /\ UNCHANGED bridge
     ELSE Follow(FALSE) /\ bridge' = Publish(bridge, asker.last, "none")

\* The passive status activity has run; its result ends the handshake.
CheckStatus ==
  /\ asker.at = "status"
  /\ Proceed("idle")
  /\ UNCHANGED bridge

-----------------------------------------------------------------------------
Asking ==
  \/ StartHost \/ HostIsReady \/ HostIsNotReady \/ CheckShell \/ RequestAccess
  \/ AwaitAnswer \/ SendDismissal \/ HostIsClosed \/ HostIsNotClosed \/ CheckStatus

GrantNext ==
  \/ \E backend \in {"root", "shizuku"} : AskAccess(backend)
  \/ CancelRequest
  \/ Asking
  \/ KillProcess
  \/ \E t \in Tokens :
       \/ OpenHost(t) \/ RelaunchHost(t) \/ PublishReady(t) \/ Complete(t)
       \/ OrphanExpires(t) \/ DestroyHost(t) \/ RecreateHost(t)
       \/ EndPrompt(t)

GrantSpec == GrantInit /\ [][GrantNext]_grantVars

-----------------------------------------------------------------------------
(* The foreground is handed over in order.  A host is closed only for its  *)
(* own token: a late completion or dismissal of an older request cannot    *)
(* close the host of a newer one (the comment at the head of               *)
(* PermissionHostActivity.java).  And the status activity starts only when *)
(* the task of the permission request is really gone: "Wait for the closed *)
(* acknowledgement before launching the passive status Activity"           *)
(* (request_permission_then_check in shizuku.py).  The exception is a task *)
(* whose delayed `am start` opens it after its request was given up: while *)
(* it is the active one, finishHost acknowledges every other token, also   *)
(* the token of a task that is still being removed.                        *)
ForegroundIsHandedOver ==
  /\ \A t \in Tokens : bridge.host[t] = "closing" => t \in bridge.told
  /\ asker.at = "status" => \/ bridge.host[asker.last] \in {"none", "destroyed", "lost"}
                            \/ bridge.stray # {}
=============================================================================
