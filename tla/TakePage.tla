------------------------------ MODULE TakePage ------------------------------
(***************************************************************************)
(* The page of an aptitude test (frontend/app/take/[token]/page.tsx) and   *)
(* the submissions it sends to POST /take/{token}/submit                   *)
(* (backend/app/routers/take.py).                                          *)
(*                                                                         *)
(* A connection may break at any time: the page then sees a network error  *)
(* while the server goes on.  The server loads the test, and commits a     *)
(* grade if what it loaded was open.  Who else writes the test is the      *)
(* subject of Assessments.                                                 *)
(***************************************************************************)
EXTENDS Integers, FiniteSets

CONSTANTS
  Post,       \* submissions that may be on their way
  TimeLimit,  \* ticks of the page's timer
  MaxAnswers  \* bound: answers chosen or changed, over all loads of the page

VARIABLES
  page,  \* what the page shows, and what its handlers remember
  post,  \* Post -> where the submission is
  test,  \* the tests row
  lost   \* a connection of a submission has been lost (history)

vars == <<page, post, test, lost>>

Null == -1
None == "none"         \* no submission is awaited
Unused == [at |-> "unused"]

\* "used" only numbers the choices, for the bound.
Loading(used) == [kind |-> "loading", used |-> used, answers |-> 0, left |-> Null,
                  due |-> FALSE, submitted |-> FALSE, await |-> None, shown |-> Null]

\* The link has been sent; nobody has opened it.
Init == /\ page = Loading(0)
        /\ post = [p \in Post |-> Unused]
        /\ test = [status |-> "issued", live |-> TRUE, grade |-> Null]
        /\ lost = FALSE

-----------------------------------------------------------------------------
(* The page is loaded: GET /take/{token}.                                  *)

Load == /\ page.kind = "loading"
        /\ IF test.status = "submitted" \/ ~test.live
           THEN page' = [page EXCEPT !.kind = "gone"] /\ UNCHANGED test
           ELSE /\ page' = [page EXCEPT !.kind = "paper", !.left = TimeLimit]
                /\ test' = [test EXCEPT !.status = "started"]
        /\ UNCHANGED <<post, lost>>

\* Any other answer: the link is shown as invalid.  Without one the page goes
\* on loading.
LoadFails == /\ page.kind = "loading"
             /\ page' = [page EXCEPT !.kind = "invalid"]
             /\ UNCHANGED <<post, test, lost>>

\* The candidate reloads: the answers and the guard are gone, the timer starts
\* anew.  A submission on its way goes on without a reader.
Reload == /\ page.kind # "loading"
          /\ page' = Loading(page.used)
          /\ lost' = (lost \/ page.await # None)
          /\ UNCHANGED <<post, test>>

-----------------------------------------------------------------------------
(* The paper.                                                              *)

\* Fault: the effect waits for the timer to pass zero.
PastZero(left) == left < 0 /\ left # Null

\* When the timer's effect submits.
Rings(left) == left = 0

\* An answer is the number of the choice: the last one is what is submitted.
\* A new answer makes a new submit handler, which runs the effect again.
Answer == /\ page.kind = "paper"
          /\ page.used < MaxAnswers
          /\ page' = [page EXCEPT !.used = @ + 1, !.answers = page.used + 1,
                                  !.due = Rings(page.left)]
          /\ UNCHANGED <<post, test, lost>>

Tick == /\ page.kind = "paper"
        /\ page.left > 0
        /\ page' = [page EXCEPT !.left = @ - 1, !.due = Rings(page.left - 1)]
        /\ UNCHANGED <<post, test, lost>>

\* Fault: the guard is the state of the button, set when the page renders.
ByButton == page.await = None \/ page.due

\* submittedRef, checked and set in one turn of the event loop.
NotSubmitted == ~page.submitted

Send(p) == /\ post[p] = Unused
           /\ post' = [post EXCEPT ![p] = [at |-> "sent", answers |-> page.answers]]
           /\ page' = [page EXCEPT !.submitted = TRUE, !.await = p, !.due = FALSE]
           /\ UNCHANGED <<test, lost>>

\* The button, disabled while a submission is awaited.
Press(p) == /\ page.kind = "paper"
            /\ page.await = None
            /\ NotSubmitted
            /\ Send(p)

\* The timer's effect.
AutoSubmit(p) == /\ page.kind = "paper"
                 /\ page.due
                 /\ NotSubmitted
                 /\ Send(p)

\* The effect runs while a submission is awaited: nothing happens.
AutoIgnored == /\ page.kind = "paper"
               /\ page.due
               /\ ~NotSubmitted
               /\ page' = [page EXCEPT !.due = FALSE]
               /\ UNCHANGED <<post, test, lost>>

-----------------------------------------------------------------------------
(* POST /take/{token}/submit.                                              *)

Seen == IF test.status = "submitted" THEN "submitted"
        ELSE IF test.live THEN "open" ELSE "expired"

LoadTest(p) ==
  /\ post[p].at = "sent"
  /\ post' = [post EXCEPT ![p] =
       CASE Seen = "submitted" -> [at |-> "answered", result |-> test.grade]
         [] Seen = "expired" -> [at |-> "gone"]
         [] Seen = "open" -> [at |-> "grading", answers |-> @.answers]]
  /\ UNCHANGED <<page, test, lost>>

\* The grade is a function of the answers, and stands for them.
Grade(p) == /\ post[p].at = "grading"
            /\ test' = [test EXCEPT !.status = "submitted", !.grade = post[p].answers]
            /\ post' = [post EXCEPT ![p] = [at |-> "answered", result |-> post[p].answers]]
            /\ UNCHANGED <<page, lost>>

\* The pipeline's guard refuses the grade, or the worker dies.
Refuse(p) == /\ post[p].at \in {"sent", "grading"}
             /\ post' = [post EXCEPT ![p] = [at |-> "failed"]]
             /\ UNCHANGED <<page, test, lost>>

-----------------------------------------------------------------------------
(* The page learns the outcome.                                            *)

\* Fault: the page shows the answers on the screen as graded.
OwnGrade(p) == CASE post[p].at = "answered" ->
                      [page EXCEPT !.kind = "result", !.shown = page.answers, !.await = None]
                 [] post[p].at = "gone" -> [page EXCEPT !.kind = "gone", !.await = None]
                 [] post[p].at = "failed" -> [page EXCEPT !.submitted = FALSE, !.await = None]

\* Fault: a refused submission leaves the button waiting.
LeftWaiting(p) == CASE post[p].at = "answered" ->
                         [page EXCEPT !.kind = "result", !.shown = post[p].result, !.await = None]
                    [] post[p].at = "gone" -> [page EXCEPT !.kind = "gone", !.await = None]
                    [] post[p].at = "failed" -> [page EXCEPT !.submitted = FALSE]

\* Fault: a link that is gone is shown under a name the page does not know.
AsExpired(p) == CASE post[p].at = "answered" ->
                       [page EXCEPT !.kind = "result", !.shown = post[p].result, !.await = None]
                  [] post[p].at = "gone" -> [page EXCEPT !.kind = "expired", !.await = None]
                  [] post[p].at = "failed" -> [page EXCEPT !.submitted = FALSE, !.await = None]

Outcome(p) == CASE post[p].at = "answered" ->
                     [page EXCEPT !.kind = "result", !.shown = post[p].result, !.await = None]
                [] post[p].at = "gone" -> [page EXCEPT !.kind = "gone", !.await = None]
                [] post[p].at = "failed" -> [page EXCEPT !.submitted = FALSE, !.await = None]

Receive(p) == /\ page.await = p
              /\ post[p].at \in {"answered", "gone", "failed"}
              /\ page' = Outcome(p)
              /\ post' = [post EXCEPT ![p] = Unused]
              /\ UNCHANGED <<test, lost>>

\* A network error.
Lose(p) == /\ page.await = p
           /\ page' = [page EXCEPT !.submitted = FALSE, !.await = None]
           /\ lost' = TRUE
           /\ UNCHANGED <<post, test>>

\* Nobody waits for this answer any more.
Discard(p) == /\ page.await # p
              /\ post[p].at \in {"answered", "gone", "failed"}
              /\ post' = [post EXCEPT ![p] = Unused]
              /\ UNCHANGED <<page, test, lost>>

\* valid_until passes.
Expire == /\ test.live
          /\ test' = [test EXCEPT !.live = FALSE]
          /\ UNCHANGED <<page, post, lost>>

-----------------------------------------------------------------------------

\* What the browser and the server do by themselves.
Progress(p) == AutoSubmit(p) \/ LoadTest(p) \/ Grade(p) \/ Receive(p) \/ Discard(p)

Next == \/ Load \/ LoadFails \/ Reload \/ Answer \/ Tick \/ AutoIgnored \/ Expire
        \/ \E p \in Post : Press(p) \/ Refuse(p) \/ Lose(p) \/ Progress(p)

(* The page's timer runs and its effects are run; the server answers.      *)
(* Nobody has to press the button.                                         *)
Fairness == /\ WF_vars(Tick)
            /\ WF_vars(AutoIgnored)
            /\ WF_vars(\E p \in Post : AutoSubmit(p))
            /\ \A p \in Post : WF_vars(LoadTest(p) \/ Grade(p) \/ Receive(p) \/ Discard(p))

Spec == Init /\ [][Next]_vars /\ Fairness

-----------------------------------------------------------------------------

Grades == 0 .. MaxAnswers

TakePageTypeOK ==
  /\ page \in [kind : {"loading", "invalid", "gone", "paper", "result"}, used : Grades, answers : Grades,
               left : {Null} \cup 0 .. TimeLimit, due : BOOLEAN, submitted : BOOLEAN,
               await : Post \cup {None}, shown : Grades \cup {Null}]
  /\ post \in [Post -> {Unused} \cup [at : {"sent", "grading"}, answers : Grades]
                         \cup [at : {"answered"}, result : Grades] \cup [at : {"gone", "failed"}]]
  /\ test \in [status : {"issued", "started", "submitted"}, live : BOOLEAN,
               grade : Grades \cup {Null}]

AtServer == {p \in Post : post[p].at \in {"sent", "grading"}}

(* page.tsx:53, submittedRef: the button, the timer and new answers never  *)
(* have two submissions at the server at once.  Only a connection that     *)
(* breaks leaves one behind beside the next.                               *)
OneSubmission == Cardinality(AtServer) <= 1 \/ lost

(* take.py:86-87, "Idempotent: a second submit returns the stored result": *)
(* while no connection broke, the result on the screen is the stored one.  *)
ShownIsStored == page.kind = "result" /\ ~lost => page.shown = test.grade

(* page.tsx:96, "timer auto-submit at 0": a paper whose timer runs is       *)
(* submitted without the candidate, whatever is pressed, lost or refused    *)
(* before.                                                                 *)
TimeUpSubmits ==
  page.kind = "paper" /\ page.left > 0 ~> page.submitted \/ page.kind # "paper"

(* A page that waits for a submission's outcome gets one, whatever fails.  *)
EverySubmissionEnds == page.await # None ~> page.await = None

(* What is always true of a test page and its submissions.                 *)
TakePageKept == TakePageTypeOK /\ OneSubmission /\ ShownIsStored

-----------------------------------------------------------------------------
(* What the documents expect and the code defeats: see the README, 'Where  *)
(* the code and its documents part'.                                       *)

(* take.py:86-87 again, after a lost connection: the next submission may   *)
(* overlap the one still at the server.                                    *)
ShownIsAlwaysStored == page.kind = "result" => page.shown = test.grade

(* page.tsx:96 again: an automatic submission that fails is not repeated,  *)
(* and unlike a pressed one says nothing.                                  *)
TimeUpLeavesPaper ==
  page.kind = "paper" /\ page.left = 0 ~> page.kind # "paper" \/ page.submitted
=============================================================================
