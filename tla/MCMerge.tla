------------------------------ MODULE MCMerge ------------------------------
(***************************************************************************)
(* Instances of Merge for TLC: candidates old, mid and new in the order of *)
(* their creation, one application each for the same job.                  *)
(***************************************************************************)
EXTENDS Merge, TLC

CONSTANTS old, mid, new, aOld, aMid, aNew, job

Symmetry == Permutations(Merger)

OneJob == [a \in App |-> job]
Homes == [a \in App |-> CASE a = aOld -> old [] a = aMid -> mid [] a = aNew -> new]
Ages == [a \in App |-> CASE a = aOld -> 1 [] a = aMid -> 2 [] a = aNew -> 3]

\* new is a suspect of mid, and mid of old.
Chain == {<<mid, old>>, <<new, mid>>}
OnePair == {<<mid, old>>}

NewLogins == [c \in Cand |-> IF c = old THEN NoLogin ELSE c]
Introduced == {<<"vendor", new>>}

-----------------------------------------------------------------------------
\* Two of the states Spec reaches, to start from.

RowAt(stage, version, rtr) ==
  [stage |-> stage, version |-> version, hold |-> NoStage, rtr |-> rtr]

\* The moves that take an application from applied along a list of stages.
Along(path) == [i \in 1 .. Len(path) - 1 |-> [from |-> path[i], to |-> path[i + 1]]]

From(rows, moves) ==
  /\ row = rows
  /\ journal = moves
  /\ evals = [a \in App |-> [t \in EvalTargets |-> 0]]
  /\ consents = [a \in App |-> IF rows[a].rtr THEN 1 ELSE 0]
  /\ req = [w \in Worker |-> Idle]
  /\ MergeInit

\* The oldest candidate has not applied; the other two are at screening.
Screening == From([a \in App |-> IF a = aOld THEN NoRow ELSE RowAt("screening", 2, FALSE)],
                  [a \in App |-> IF a = aOld THEN <<>> ELSE Along(<<"applied", "screening">>)])

ScreeningSpec == Screening /\ [][MergeNext]_<<vars, mvars>>

ToClient == <<"applied", "screening", "aptitude_test", "aptitude_passed",
              "internal_interview", "internal_passed", "rtr_pending">>

\* mid's consent is recorded and the submission to the client is next.
Consented == From([a \in App |-> IF a = aMid THEN RowAt("rtr_pending", 7, TRUE) ELSE NewRow],
                  [a \in App |-> IF a = aMid THEN Along(ToClient) ELSE <<>>])

ConsentedSpec == Consented /\ [][MergeNext]_<<vars, mvars>>
=============================================================================
