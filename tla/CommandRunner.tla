---------------------------- MODULE CommandRunner ----------------------------
(***************************************************************************)
(* command_runner.py: one external command of a worker thread at a time.   *)
(* A command is "plain" (run: only a deadline ends it), "polled" (also the *)
(* cancel event does), or it has a pump, a thread that feeds its standard  *)
(* input ("input") or stores its output ("output").  The caller polls the  *)
(* process; what the pump does to files is the caller's module's business. *)
(***************************************************************************)
EXTENDS Naturals

VARIABLES
  cmd,     \* the worker's current command
  gate,    \* _shutting_down: "open", "closing" (flag set), "closed" (all killed)
  cancel,  \* the worker's cancel event
  faults   \* how many more things may go wrong

runnerVars == <<cmd, gate, cancel, faults>>

CommandKinds == {"plain", "polled", "input", "output"}
Outcomes     == {"none", "success", "failed", "cancelled", "timeout", "shutdown"}

IdleCmd == [kind |-> "none", at |-> "idle", process |-> "none", pump |-> "none",
            error |-> "none", outcome |-> "none"]

RunnerInit ==
  /\ cmd = IdleCmd
  /\ gate = "open"
  /\ cancel = FALSE

RunnerTypeOK ==
  /\ cmd.kind \in CommandKinds \cup {"none"}
  /\ cmd.at \in {"idle", "starting", "running", "stopping", "joining", "done"}
  /\ cmd.process \in {"none", "alive", "killed", "ended", "broken", "stuck"}
  /\ cmd.pump \in {"none", "running", "done", "failed"}
  /\ cmd.error \in Outcomes /\ cmd.outcome \in Outcomes
  /\ gate \in {"open", "closing", "closed"}
  /\ cancel \in BOOLEAN
  /\ faults \in Nat

Fails == faults > 0 /\ faults' = faults - 1

Ended(how) == cmd' = [cmd EXCEPT !.at = "done", !.outcome = how]

\* Every run method first looks at the gate, then at the cancel event.
Request(kind) ==
  cmd' = IF gate # "open" THEN [IdleCmd EXCEPT !.at = "done", !.outcome = "shutdown"]
         ELSE IF cancel /\ kind # "plain"
         THEN [IdleCmd EXCEPT !.at = "done", !.outcome = "cancelled"]
         ELSE [IdleCmd EXCEPT !.kind = kind, !.at = "starting"]

Started == [cmd EXCEPT !.at = "running", !.process = "alive",
                       !.pump = IF cmd.kind \in {"input", "output"} THEN "running" ELSE @]

\* Mutant: the gate is not looked at again under the process lock.
StartUngated ==
  /\ cmd.at = "starting"
  /\ \/ cmd' = Started /\ UNCHANGED faults
     \/ Fails /\ Ended("failed")
  /\ UNCHANGED <<gate, cancel>>

\* _start_process: the gate and the registration are one lock section.  The
\* executable may be missing.
Start ==
  /\ cmd.at = "starting"
  /\ \/ gate = "open" /\ cmd' = Started /\ UNCHANGED faults
     \/ gate = "open" /\ Fails /\ Ended("failed")
     \/ gate # "open" /\ Ended("shutdown") /\ UNCHANGED faults
  /\ UNCHANGED <<gate, cancel>>

\* The process ends.  A command fed by a pump ends once its input is closed.
ProcessEnds ==
  /\ cmd.process = "alive"
  /\ \/ /\ cmd.kind = "input" => cmd.pump # "running"
        /\ cmd' = [cmd EXCEPT !.process = "ended"]
        /\ UNCHANGED faults
     \/ Fails /\ cmd' = [cmd EXCEPT !.process = "broken"]
  /\ UNCHANGED <<gate, cancel>>

Kill(why) == cmd' = [cmd EXCEPT !.at = "stopping", !.process = "killed", !.error = why]

\* One round of the polling loop: the exit is looked at before the cancel event,
\* that before the pump's error, and the deadline last.
Poll ==
  /\ cmd.at = "running"
  /\ \/ cmd.process # "alive" /\ cmd' = [cmd EXCEPT !.at = "joining"] /\ UNCHANGED faults
     \/ /\ cmd.process = "alive" /\ cancel /\ cmd.kind # "plain"
        /\ Kill("cancelled") /\ UNCHANGED faults
     \/ /\ cmd.process = "alive" /\ ~cancel /\ cmd.pump = "failed"
        /\ Kill("failed") /\ UNCHANGED faults
     \/ /\ cmd.process = "alive" /\ (cancel => cmd.kind = "plain") /\ cmd.pump # "failed"
        /\ Fails /\ Kill("timeout")
  /\ UNCHANGED <<gate, cancel>>

\* process.wait(5) after a kill; a process that does not die is given up, but that of
\* a plain run is waited for without a deadline.
AwaitKilled ==
  /\ cmd.at = "stopping"
  /\ \/ cmd' = [cmd EXCEPT !.at = "joining"] /\ UNCHANGED faults
     \/ /\ cmd.kind # "plain"
        /\ Fails
        /\ cmd' = [cmd EXCEPT !.at = "done", !.process = "stuck", !.outcome = "timeout"]
  /\ UNCHANGED <<gate, cancel>>

\* Success takes a clean exit, no recorded error and a pump that finished.
Verdict(late) ==
  IF cmd.error # "none" THEN cmd.error
  ELSE IF cmd.process = "ended" /\ ~late /\ cmd.pump # "failed" THEN "success" ELSE "failed"

\* The threads are joined for two seconds; a slow pump outlives the command.
Join ==
  /\ cmd.at = "joining"
  /\ \/ cmd.pump # "running" /\ Ended(Verdict(FALSE)) /\ UNCHANGED faults
     \/ cmd.pump = "running" /\ Fails /\ Ended(Verdict(TRUE))
  /\ UNCHANGED <<gate, cancel>>

\* shutdown: the flag and the snapshot are one lock section, the kills follow.
CloseGate ==
  /\ gate = "open"
  /\ gate' = "closing"
  /\ UNCHANGED <<cmd, cancel, faults>>

KillRegistered ==
  /\ gate = "closing"
  /\ gate' = "closed"
  /\ cmd' = IF cmd.process = "alive" THEN [cmd EXCEPT !.process = "killed"] ELSE cmd
  /\ UNCHANGED <<cancel, faults>>

\* Once the runner is shut down no process of it is left alone: what a worker starts
\* at the same moment is either refused by the gate or among those that are killed.
NothingRunsAfterShutdown == gate = "closed" => cmd.process # "alive"
===============================================================================
