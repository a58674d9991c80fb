---------------------------- MODULE MCPlacements ----------------------------
(***************************************************************************)
(* Instances of Placements for TLC.                                        *)
(***************************************************************************)
EXTENDS Placements, TLC

Symmetry == Permutations(Worker) \cup Permutations(Sweeper) \cup Permutations(App)
=============================================================================
