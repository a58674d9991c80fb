---------------------------- MODULE Assessments ----------------------------
(***************************************************************************)
(* The aptitude test of one application: the staff surface that issues and *)
(* waives tests (backend/app/routers/assessments.py) and the token-gated   *)
(* candidate surface that takes them (backend/app/routers/take.py).        *)
(*                                                                         *)
(* A request loads the test, then (submit, waive) the application, then    *)
(* commits; any other request may commit between those steps.  Test rows   *)
(* are written by primary key, unguarded; only the stage write compares a  *)
(* version.  Staff moves of the application are single steps here: that    *)
(* they behave so is what Pipeline!ImplementsLife says.                    *)
(***************************************************************************)
EXTENDS StageGraph, Sequences, FiniteSets

CONSTANTS
  MaxTests,     \* bound on the tests issued
  Worker,       \* threads serving requests
  MaxVersion,   \* bound on applications.version
  MaxSnapshots  \* test_max_snapshots

ASSUME AssessmentAssumption == {MaxTests, MaxVersion, MaxSnapshots} \subseteq Nat

VARIABLES
  row,          \* the application: stage, version, hold
  tests,        \* the tests rows, in the order they were inserted
  completions,  \* TestCompletion events of the engine and of waivers
  visits,       \* how often the application has entered aptitude_test
  notified,     \* tests with an assessment_result notification
  req           \* Worker -> the request it serves and the rows it loaded

vars == <<row, tests, completions, visits, notified, req>>

Results == {"pass", "fail"}

Idle == [op |-> "idle"]

\* The columns a test is inserted with; live is valid_until > now, cooled is
\* submitted_at + test_retake_cooldown_days <= now.
NewTest(n) == [attempt |-> n, status |-> "issued", passed |-> NoStage, scored |-> FALSE,
               waived |-> FALSE, snaps |-> 0, live |-> TRUE, cooled |-> FALSE]

\* The application has just been moved to its aptitude test.
Init == /\ row = [stage |-> "aptitude_test", version |-> 3, hold |-> NoStage, rtr |-> FALSE]
        /\ tests = <<>>
        /\ completions = <<>>
        /\ visits = 1
        /\ notified = {}
        /\ req = [w \in Worker |-> Idle]

Tests == DOMAIN tests

Open(t) == t.status \in {"issued", "started"}

Begin(w, r) == /\ req[w] = Idle
               /\ req' = [req EXCEPT ![w] = r]
               /\ UNCHANGED <<row, tests, completions, visits, notified>>

Finish(w) == req' = [req EXCEPT ![w] = Idle]

-----------------------------------------------------------------------------
(* POST /applications/{id}/tests/issue                                     *)

LastSubmitted == {t \in Tests : /\ tests[t].status = "submitted"
                                /\ \A u \in Tests : tests[u].status = "submitted" =>
                                     tests[u].attempt <= tests[t].attempt}

PostIssue(w) ==
  /\ row.stage = "aptitude_test"
  /\ \A t \in Tests : ~(Open(tests[t]) /\ tests[t].live)
  /\ \A t \in LastSubmitted : tests[t].passed = "fail" => tests[t].cooled
  /\ Begin(w, [op |-> "issue",
               attempts |-> {0} \cup {tests[t].attempt : t \in Tests}])

CommitIssue(w) ==
  /\ req[w].op = "issue"
  /\ Len(tests) < MaxTests
  /\ LET seen == req[w].attempts
         last == CHOOSE n \in seen : \A m \in seen : m <= n
     IN tests' = Append(tests, NewTest(last + 1))
  /\ Finish(w)
  /\ UNCHANGED <<row, completions, visits, notified>>

-----------------------------------------------------------------------------
(* GET /take/{token}: the first fetch starts the test.                     *)

GetPaper(w, t) == /\ tests[t].status = "issued"
                  /\ tests[t].live
                  /\ Begin(w, [op |-> "fetch", test |-> t])

CommitStart(w) == /\ req[w].op = "fetch"
                  /\ tests' = [tests EXCEPT ![req[w].test].status = "started"]
                  /\ Finish(w)
                  /\ UNCHANGED <<row, completions, visits, notified>>

-----------------------------------------------------------------------------
(* POST /take/{token}/snapshot/presign rewrites the proctor_flags document *)
(* it loaded, the waived block in it included.                             *)

\* Fault: the limit is off by one.
PostSnapshotOver(w, t) ==
  /\ tests[t].status = "started"
  /\ tests[t].live
  /\ tests[t].snaps <= MaxSnapshots
  /\ Begin(w, [op |-> "snapshot", test |-> t, snaps |-> tests[t].snaps,
               waived |-> tests[t].waived])

PostSnapshot(w, t) ==
  /\ tests[t].status = "started"
  /\ tests[t].live
  /\ tests[t].snaps < MaxSnapshots
  /\ Begin(w, [op |-> "snapshot", test |-> t, snaps |-> tests[t].snaps,
               waived |-> tests[t].waived])

CommitSnapshot(w) ==
  LET r == req[w] IN
  /\ r.op = "snapshot"
  /\ tests' = [tests EXCEPT ![r.test].snaps = r.snaps + 1,
                            ![r.test].waived = r.waived]
  /\ Finish(w)
  /\ UNCHANGED <<row, completions, visits, notified>>

-----------------------------------------------------------------------------
(* POST /take/{token}/submit and POST /applications/{id}/tests/{id}/waive  *)
(* load the test, then the application, then decide.                       *)

PostSubmit(w, t, result) ==
  /\ Open(tests[t])
  /\ tests[t].live
  /\ Begin(w, [op |-> "submit", test |-> t, result |-> result])

PostWaive(w, t, result) ==
  /\ Open(tests[t])
  /\ ~tests[t].waived
  /\ Begin(w, [op |-> "waive", test |-> t, result |-> result, snaps |-> tests[t].snaps])

\* The request goes on with a copy of the application; a waiver demands that
\* it is still at its aptitude test.
LoadApplication(w) ==
  /\ \/ req[w].op = "submit"
     \/ req[w].op = "waive" /\ row.stage = "aptitude_test"
  /\ req' = [req EXCEPT ![w] = [op |-> "decide", by |-> req[w], app |-> row]]
  /\ UNCHANGED <<row, tests, completions, visits, notified>>

\* The engine graded the answers against the frozen paper.
Graded(t, r) == [t EXCEPT !.status = "submitted", !.passed = r.result,
                          !.scored = TRUE, !.cooled = FALSE]

\* Fault: a waiver closes the test and forgets the verdict.
WaivedBlank(t, r) == [t EXCEPT !.status = "submitted", !.waived = TRUE]

\* An administrator decided without a grade.  Assigning None to a score loaded
\* as None is no change to the session, so the UPDATE does not name the score.
Waived(t, r) == [t EXCEPT !.status = "submitted", !.passed = r.result,
                          !.cooled = FALSE, !.waived = TRUE, !.snaps = r.snaps]

Decided(t, r) == IF r.op = "submit" THEN Graded(t, r) ELSE Waived(t, r)

Target(result) == IF result = "pass" THEN "aptitude_passed" ELSE "aptitude_failed"

\* Fault: the stage is written whatever happened since it was loaded.
StageUnguarded(w) == row.version < MaxVersion

\* The guarded UPDATE of pipeline.transition with the loaded version.
StageGuard(w) == row.version < MaxVersion /\ row.version = req[w].app.version

\* Still at its test in the loaded copy: the grade moves the application.
Advances(w) == req[w].app.stage = "aptitude_test"

\* Fault: the event is emitted for every grade, moved or not.
EmitAlways(w) ==
  completions' = Append(completions, [test |-> req[w].by.test, result |-> req[w].by.result])

\* One TestCompletion with the move, none without.
Emit(w) ==
  completions' = IF Advances(w)
                 THEN Append(completions, [test |-> req[w].by.test,
                                           result |-> req[w].by.result])
                 ELSE completions

CommitDecision(w) ==
  LET r == req[w].by IN
  /\ req[w].op = "decide"
  /\ Advances(w) => StageGuard(w)
  /\ tests' = [tests EXCEPT ![r.test] = Decided(@, r)]
  /\ row' = IF Advances(w)
            THEN [row EXCEPT !.stage = Target(r.result), !.version = @ + 1]
            ELSE row
  /\ Emit(w)
  /\ notified' = IF r.op = "submit" THEN notified \cup {r.test} ELSE notified
  /\ Finish(w)
  /\ UNCHANGED visits

\* Refused (410, 409, STALE_STATE) or dead: rolled back.
Fail(w) == /\ req[w] # Idle
           /\ Finish(w)
           /\ UNCHANGED <<row, tests, completions, visits, notified>>

-----------------------------------------------------------------------------
(* What goes on around the test.                                           *)

\* A recruiter moves the application, evaluates it by hand, holds or drops it.
StaffMove(to) ==
  /\ Legal(row, to, TRUE)
  /\ row.version < MaxVersion
  /\ row' = [row EXCEPT !.stage = to, !.version = @ + 1,
                        !.hold = HoldAfter(@, row, to)]
  /\ visits' = IF to = "aptitude_test" THEN visits + 1 ELSE visits
  /\ UNCHANGED <<tests, completions, notified, req>>

\* valid_until passes.
Expire(t) == /\ tests[t].live
             /\ tests' = [tests EXCEPT ![t].live = FALSE]
             /\ UNCHANGED <<row, completions, visits, notified, req>>

\* The retake cooldown of a decided test passes.
Cool(t) == /\ tests[t].status = "submitted"
           /\ tests[t].passed = "fail"
           /\ ~tests[t].cooled
           /\ tests' = [tests EXCEPT ![t].cooled = TRUE]
           /\ UNCHANGED <<row, completions, visits, notified, req>>

Next ==
  \/ \E w \in Worker :
       \/ PostIssue(w)
       \/ \E t \in Tests : GetPaper(w, t) \/ PostSnapshot(w, t)
       \/ \E t \in Tests, result \in Results : PostSubmit(w, t, result) \/ PostWaive(w, t, result)
       \/ LoadApplication(w)
       \/ CommitIssue(w) \/ CommitStart(w) \/ CommitSnapshot(w) \/ CommitDecision(w)
       \/ Fail(w)
  \/ \E to \in Stages : StaffMove(to)
  \/ \E t \in Tests : Expire(t) \/ Cool(t)

Spec == Init /\ [][Next]_vars

-----------------------------------------------------------------------------
TestRow == [attempt : Nat \ {0}, status : {"issued", "started", "submitted"},
            passed : Results \cup {NoStage}, scored : BOOLEAN, waived : BOOLEAN,
            snaps : 0 .. MaxSnapshots, live : BOOLEAN, cooled : BOOLEAN]

\* The shape of the state; a snapshot list never outgrows its limit.
AssessmentTypeOK == /\ row.stage \in Stages
                    /\ tests \in Seq(TestRow)
                    /\ notified \subseteq Tests
                    /\ completions \in Seq([test : Tests, result : Results])

\* take.py:81-85, "if staff already advanced the stage, the grade is stored and
\* the pipeline is left untouched": whatever was loaded when, a grade or a
\* waiver moves only an application that is at its aptitude test right now.
OverrideStands ==
  [][\A w \in Worker :
       CommitDecision(w) /\ row' # row => row.stage = "aptitude_test"]_vars

\* take.py:84-85, "no double transition, no double event": each stay of the
\* application at its aptitude test is completed by at most one test event.
OneCompletionPerVisit == Len(completions) <= visits

\* Every completion event is of a test that holds a verdict, and a candidate is
\* told a result only of such a test.
VerdictBehindEvent ==
  /\ \A i \in DOMAIN completions : tests[completions[i].test].passed \in Results
  /\ \A t \in notified : tests[t].passed \in Results

\* take.py:80-169, assessments.py:143-205: however submissions, waivers, fetches
\* and staff moves overlap, a stay at the aptitude test is completed at most
\* once, and nothing is reported or told that no stored verdict backs.
VerdictsKept == AssessmentTypeOK /\ VerdictBehindEvent /\ OneCompletionPerVisit

-----------------------------------------------------------------------------
(* What the documents expect and overlapping requests defeat: see the      *)
(* README, "Where the code and its documents part".                        *)

\* assessments.py:9, "Only one live (issued/started, unexpired) test per
\* application at a time".
OneLiveTest == Cardinality({t \in Tests : Open(tests[t]) /\ tests[t].live}) <= 1

\* assessments.py:153-154, "A graded test cannot be waived; a waived test cannot
\* then be taken (mutual exclusion, both directions)".
WaivedOrGraded == \A t \in Tests : ~(tests[t].waived /\ tests[t].scored)

\* assessments.py:150-152, "a waived pass is NEVER indistinguishable from a
\* graded one": a test that carries the waived block keeps it.
WaiverOnRecord ==
  [][\A t \in Tests : tests[t].waived => tests'[t].waived]_vars

\* take.py:86-87, "Idempotent: a second submit returns the stored result": the
\* verdict of a submitted test is never replaced.
VerdictStands ==
  [][\A t \in Tests : tests[t].status = "submitted" =>
       tests'[t].passed = tests[t].passed]_vars

\* take.py:8-9, 12-13: a submitted test answers 410 and is submitted once.
SubmittedOnce ==
  [][\A t \in Tests : tests[t].status = "submitted" => tests'[t].status = "submitted"]_vars
=============================================================================
