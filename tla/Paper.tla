------------------------------- MODULE Paper --------------------------------
(***************************************************************************)
(* The paper of one aptitude test: how its questions are drawn from the    *)
(* bank, frozen with their options shuffled, and graded (backend/app/      *)
(* assessment_engine.py, and select_bank_paper of routers/assessments.py). *)
(*                                                                         *)
(* The bank is edited while the test is out.  The order of the questions   *)
(* is left out: answers are keyed by question.  The life of a test is the  *)
(* subject of Assessments.                                                 *)
(***************************************************************************)
EXTENDS Integers, FiniteSetsExt

CONSTANTS
  Question, \* ids of questions rows
  Level,    \* difficulties
  Width,  \* how many options a question has
  Count,    \* test_question_count
  Edits     \* bound on the edits of the bank

VARIABLES
  bank,   \* Question -> the row
  paper,  \* tests.served_questions: question -> its options and the right one
  meant,  \* question -> the option that was right when the paper was drawn (history)
  drawn,  \* the questions that were active then (history)
  result, \* what the test was graded
  edits

vars == <<bank, paper, meant, drawn, result, edits>>

Options == 0 .. Width - 1
Null == [graded |-> FALSE]

Init == /\ bank \in [Question -> [level : Level, right : {0}, active : {TRUE}]]
        /\ paper = <<>> /\ meant = <<>>
        /\ drawn = {}
        /\ result = Null
        /\ edits = 0

-----------------------------------------------------------------------------
(* select_questions                                                        *)

Active == {q \in Question : bank[q].active}

Pool(l) == {q \in Active : bank[q].level = l}

Present == {l \in Level : Pool(l) # {}}

Quota(n) == IF n \div Cardinality(Present) > 1 THEN n \div Cardinality(Present) ELSE 1

\* An even share of every difficulty, as far as its pool goes.
Shares(n) ==
  {s \in SUBSET Active : \A l \in Present :
     LET pool == Cardinality(Pool(l)) IN
     Cardinality(s \cap Pool(l)) = IF pool < Quota(n) THEN pool ELSE Quota(n)}

\* Fault: what the shares leave open stays open.
SharesAlone(n) == UNION {{p \in SUBSET s : Cardinality(p) = n \/ (p = s /\ Cardinality(s) < n)} :
                           s \in Shares(n)}

\* The shares, cut down to n or filled up with any of the rest.
Picks(n) == {p \in kSubset(n, Active) : \E s \in Shares(n) : p \subseteq s \/ s \subseteq p}

-----------------------------------------------------------------------------
(* freeze_paper                                                            *)

Shuffles == {order \in [Options -> Options] : \A i, j \in Options : order[i] = order[j] => i = j}

\* Fault: the right answer keeps the index it has in the bank.
NotRemapped(q, order) == [options |-> order, correct |-> bank[q].right]

Frozen(q, order) == [options |-> order,
                     correct |-> CHOOSE i \in Options : order[i] = bank[q].right]

\* issue_test: refused when the bank is empty.
Issue == /\ paper = <<>>
         /\ Active # {}
         /\ \E picks \in Picks(IF Cardinality(Active) < Count THEN Cardinality(Active) ELSE Count) :
              \E order \in [picks -> Shuffles] :
                /\ paper' = [q \in picks |-> Frozen(q, order[q])]
                /\ meant' = [q \in picks |-> bank[q].right]
         /\ drawn' = Active
         /\ UNCHANGED <<bank, result, edits>>

\* The curators correct a question or take it out.
Edit(q) == /\ edits < Edits
           /\ edits' = edits + 1
           /\ \E right \in Options, active \in BOOLEAN :
                bank' = [bank EXCEPT ![q].right = right, ![q].active = active]
           /\ UNCHANGED <<paper, meant, drawn, result>>

-----------------------------------------------------------------------------
(* grade                                                                   *)

\* Fault: the answer is compared with the bank.
Requeried(q) == CHOOSE i \in Options : paper[q].options[i] = bank[q].right

Right(q) == paper[q].correct

\* Missing, or no position at all: simply wrong.
Wrong == -1

Score(answers) == Cardinality({q \in DOMAIN answers : answers[q] = Right(q)})

\* score >= test_pass_threshold, that is 0.70
Passes(score, total) == 10 * score >= 7 * total

Submit == /\ paper # <<>>
          /\ result = Null
          /\ \E answers \in [DOMAIN paper -> Options \cup {Wrong}] :
               result' = [graded |-> TRUE, answers |-> answers, score |-> Score(answers),
                          passed |-> Passes(Score(answers), Cardinality(DOMAIN paper))]
          /\ UNCHANGED <<bank, paper, meant, drawn, edits>>

Next == Issue \/ (\E q \in Question : Edit(q)) \/ Submit

Spec == Init /\ [][Next]_vars

-----------------------------------------------------------------------------

PaperTypeOK ==
  /\ bank \in [Question -> [level : Level, right : Options, active : BOOLEAN]]
  /\ \A q \in DOMAIN paper : paper[q].options \in Shuffles /\ paper[q].correct \in Options
  /\ edits \in 0 .. Edits

\* The options of q that were chosen, as the candidate read them.
Chosen(q) == IF result.answers[q] = Wrong THEN Wrong ELSE paper[q].options[result.answers[q]]

(* assessment_engine.py:3-13: a taken test is graded by the options that   *)
(* were right when the paper was drawn, wherever the shuffle put them and  *)
(* whatever has become of the bank.                                        *)
GradedAsMeant ==
  result.graded =>
    LET score == Cardinality({q \in DOMAIN paper : Chosen(q) = meant[q]}) IN
    /\ result.score = score
    /\ result.passed <=> 10 * score >= 7 * Cardinality(DOMAIN paper)

(* assessment_engine.py:37-61: a paper is as long as it should be or as    *)
(* the bank allows, and a difficulty is short of its even share only when  *)
(* its questions were all taken, or there are more difficulties than       *)
(* places.                                                                 *)
DrawnEvenly ==
  paper # <<>> =>
    LET served == DOMAIN paper
        places == Cardinality(served)
        levels == {bank[q].level : q \in drawn}
        At(l) == {q \in drawn : bank[q].level = l}
    IN /\ served \subseteq drawn
       /\ places = Count \/ served = drawn
       /\ \A l \in levels : \/ Cardinality(served \cap At(l)) >= places \div Cardinality(levels)
                            \/ At(l) \subseteq served

(* What is always true of a paper.                                         *)
PaperKept == PaperTypeOK /\ GradedAsMeant /\ DrawnEvenly

=============================================================================
