----------------------------- MODULE FileDelivery -----------------------------
(***************************************************************************)
(* What a transfer promises, whatever carries the bytes.  A target may be  *)
(* withdrawn and published, one file at a time and in any order, a failed  *)
(* transfer may leave some files published, and a late worker may still    *)
(* touch its target after a failure; but success is announced only over    *)
(* published files, and they stay published from then on.  All this while  *)
(* nobody else works at the same files: a transfer that is begun again     *)
(* beside a worker of its own first attempt promises nothing of them.      *)
(***************************************************************************)
CONSTANTS Files

VARIABLES
  content,  \* what the target of each file holds
  outcome,  \* what the user was told
  contested \* the transfer was begun again beside a worker of an earlier attempt

Contents == {"none", "old", "new"}
Outcomes == {"running", "success", "failed", "cancelled"}

Init ==
  /\ content \in [Files -> {"none", "old"}]
  /\ outcome = "running"
  /\ contested = FALSE

Withdraw(f) ==
  /\ outcome # "success" \/ contested
  /\ content' = [content EXCEPT ![f] = "none"]
  /\ UNCHANGED <<outcome, contested>>

Publish(f) ==
  /\ outcome # "success" \/ contested
  /\ content' = [content EXCEPT ![f] = "new"]
  /\ UNCHANGED <<outcome, contested>>

Succeed ==
  /\ outcome = "running"
  /\ contested \/ \A f \in Files : content[f] = "new"
  /\ outcome' = "success"
  /\ UNCHANGED <<content, contested>>

GiveUp ==
  /\ outcome = "running"
  /\ outcome' \in {"failed", "cancelled"}
  /\ UNCHANGED <<content, contested>>

Contest ==
  /\ outcome = "running"
  /\ contested' = TRUE
  /\ UNCHANGED <<content, outcome>>

Next ==
  \/ \E f \in Files : Withdraw(f) \/ Publish(f)
  \/ Succeed
  \/ GiveUp
  \/ Contest

Spec == Init /\ [][Next]_<<content, outcome, contested>>
===============================================================================
