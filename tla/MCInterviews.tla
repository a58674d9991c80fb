---------------------------- MODULE MCInterviews ----------------------------
(***************************************************************************)
(* Instances of Interviews for TLC.                                        *)
(***************************************************************************)
EXTENDS Interviews, TLC

Symmetry == Permutations(Worker) \cup Permutations(Slot)
=============================================================================
