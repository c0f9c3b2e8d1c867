------------------------------ MODULE EpochFence ------------------------------
(***************************************************************************)
(* What the device layer promises to every page: a piece of work is opened *)
(* under the epoch of its target, begins and is applied only while that    *)
(* epoch lasts, and is dropped otherwise.  Since an epoch never returns,   *)
(* an applied result belongs to one uninterrupted stay of one device with  *)
(* one profile.                                                            *)
(***************************************************************************)
EXTENDS Naturals

CONSTANTS Work,     \* the pieces of work
          NoEpoch   \* the epoch of work that is not bound to a target

VARIABLES epoch,    \* the current epoch
          stage,    \* Work -> its stage
          opened    \* Work -> the epoch it was opened under

fenceVars == <<epoch, stage, opened>>

FenceInit ==
  /\ epoch = 0
  /\ stage = [w \in Work |-> "idle"]
  /\ opened = [w \in Work |-> NoEpoch]

Advance == epoch' = epoch + 1 /\ UNCHANGED <<stage, opened>>

Move(w, from, to) == stage[w] \in from /\ stage' = [stage EXCEPT ![w] = to]

Open(w) ==
  /\ Move(w, {"idle"}, "open")
  /\ \E e \in {epoch, NoEpoch} : opened' = [opened EXCEPT ![w] = e]
  /\ UNCHANGED epoch

InEpoch(w) == opened[w] \in {epoch, NoEpoch}

Begin(w) == Move(w, {"open"}, "live") /\ InEpoch(w) /\ UNCHANGED <<epoch, opened>>

Apply(w) == Move(w, {"live"}, "applied") /\ InEpoch(w) /\ UNCHANGED <<epoch, opened>>

Drop(w) == Move(w, {"open", "live"}, "dropped") /\ UNCHANGED <<epoch, opened>>

FenceNext == Advance \/ \E w \in Work : Open(w) \/ Begin(w) \/ Apply(w) \/ Drop(w)

FenceSpec == FenceInit /\ [][FenceNext]_fenceVars
=============================================================================
