---------------------------- MODULE MCAccessGate ----------------------------
(* AccessGate on two updates in flight and two answers. *)
EXTENDS AccessGate, TLC

TaskSymmetry == Permutations(Task)
=============================================================================
