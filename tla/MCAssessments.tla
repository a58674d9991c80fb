--------------------------- MODULE MCAssessments ---------------------------
(***************************************************************************)
(* Instances of Assessments for TLC.                                       *)
(***************************************************************************)
EXTENDS Assessments, TLC

Symmetry == Permutations(Worker)

\* What the run follows further: the application while it is at its test or
\* just off it, and snapshots as long as there is one test.
InFocus == /\ row.stage \in {"aptitude_test", "aptitude_passed", "aptitude_failed"}
           /\ Len(tests) > 1 => \A t \in Tests : tests[t].snaps = 0
=============================================================================
