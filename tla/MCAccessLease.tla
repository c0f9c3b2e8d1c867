---------------------------- MODULE MCAccessLease ----------------------------
(* Small instances of AccessLease. *)
EXTENDS AccessLease, TLC

CONSTANTS w1, w2

\* The workers are interchangeable.
WorkerSymmetry == Permutations(Workers)
=============================================================================
