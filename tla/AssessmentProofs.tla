-------------------------- MODULE AssessmentProofs --------------------------
(***************************************************************************)
(* Theorems about Assessments for any number of requests, tests, snapshots *)
(* and versions.                                                           *)
(*                                                                         *)
(* A grade or a waiver is decided from a copy of the application.  The     *)
(* argument is that a copy with the stored version is the stored row, so   *)
(* that a decision that moves the application moves it off its test, and   *)
(* that every stay at the test was counted when it began.                  *)
(***************************************************************************)
EXTENDS Assessments, SequenceTheorems, WellFoundedInduction, TLAPS

Application == [stage : Stages, version : Nat, hold : Stages \cup {NoStage}, rtr : {FALSE}]

Completion == [test : Nat, result : Results]

Tables ==
  /\ row \in Application
  /\ tests \in Seq(TestRow)
  /\ \A t \in Tests : tests[t].attempt <= Len(tests)
  /\ completions \in Seq(Completion)
  /\ visits \in Nat
  /\ notified \subseteq Tests
  /\ req = [w \in Worker |-> req[w]]

\* Every verdict told or reported is stored with its test.
Verdicts ==
  /\ \A i \in DOMAIN completions :
       completions[i].test \in Tests /\ tests[completions[i].test].passed \in Results
  /\ \A t \in notified : tests[t].passed \in Results

\* A stay at the test that has begun is not completed before it ends.
Stays == /\ Len(completions) <= visits
         /\ row.stage = "aptitude_test" => Len(completions) < visits

\* What a request that decides about a test has loaded.
Decision(r) == /\ r.op \in {"submit", "waive"}
               /\ r.test \in Tests
               /\ r.result \in Results
               /\ r.op = "waive" => r.snaps \in 0 .. MaxSnapshots

\* A copy of the application: as old as its version says.
Copy(app) == /\ app.version \in Nat
             /\ app.version <= row.version
             /\ app.version = row.version => app.stage = row.stage

\* What a request has loaded that its commit relies on.
Reliable(w) ==
  LET r == req[w] IN
  /\ r.op = "issue" => r.attempts \subseteq 0 .. Len(tests) /\ 0 \in r.attempts
  /\ r.op = "fetch" => r.test \in Tests
  /\ r.op = "snapshot" => /\ r.test \in Tests
                          /\ r.snaps \in Nat /\ r.snaps < MaxSnapshots
                          /\ r.waived \in BOOLEAN
  /\ r.op \in {"submit", "waive"} => Decision(r)
  /\ r.op = "decide" => Decision(r.by) /\ Copy(r.app)

AllReliable == \A w \in Worker : Reliable(w)

IInv == Tables /\ Verdicts /\ Stays /\ AllReliable

\* What every step does to the tables.
Grows == /\ Tests \subseteq DOMAIN tests'
         /\ Len(tests) \in Nat /\ Len(tests') \in Nat /\ Len(tests) <= Len(tests')
         /\ row.version \in Nat
         /\ row' = row \/ row'.version = row.version + 1

-----------------------------------------------------------------------------

\* A set of numbers up to n has a greatest.
LEMMA Greatest ==
  ASSUME NEW n \in Nat, NEW S, S \subseteq 0 .. n, NEW e \in S
  PROVE  \E m \in S : \A k \in S : k <= m
  <1> DEFINE T == {n - k : k \in S}
  <1>1. T \subseteq Nat /\ n - e \in T
    OBVIOUS
  <1>2. PICK d \in T : \A k \in T : d <= k
    <2>1. PICK d \in T : \A k \in T : ~(<<k, d>> \in OpToRel(<, Nat))
      BY <1>1, WFMin, NatLessThanWellFounded
    <2>2. \A k \in T : ~(k < d)
      BY <1>1, <2>1 DEF OpToRel
    <2>3. \A k \in T : k \in Nat
      BY <1>1
    <2> HIDE DEF T
    <2>4. \A k \in T : d <= k
      BY <2>2, <2>3
    <2> QED
      BY <2>4
  <1>3. PICK m \in S : d = n - m
    BY <1>2
  <1>4. \A k \in S : n - m <= n - k
    BY <1>2, <1>3
  <1> QED
    BY <1>4

\* A sequence whose elements are all in a smaller set is a sequence over it.
LEMMA Narrowed ==
  ASSUME NEW S, NEW T, NEW s \in Seq(S), \A i \in DOMAIN s : s[i] \in T
  PROVE  s \in Seq(T)
  <1>1. Len(s) \in Nat /\ s \in [1 .. Len(s) -> S] /\ DOMAIN s = 1 .. Len(s)
    BY LenProperties
  <1>2. s \in [1 .. Len(s) -> T]
    BY <1>1
  <1> QED
    BY <1>1, <1>2, SeqDef

LEMMA Numbers ==
  ASSUME Tables
  PROVE  /\ Tests = 1 .. Len(tests) /\ Len(tests) \in Nat
         /\ DOMAIN completions = 1 .. Len(completions) /\ Len(completions) \in Nat
         /\ \A t \in Tests : tests[t] \in TestRow
         /\ \A i \in DOMAIN completions : completions[i] \in Completion
  BY LenProperties, ElementOfSeq DEF Tables, Tests

\* What a request relies on survives every step but its own.
LEMMA StaysReliable ==
  ASSUME IInv, Grows, NEW w \in Worker, req'[w] = req[w]
  PROVE  Reliable(w)'
  <1> PICK r : r = req[w]
    OBVIOUS
  <1>0. Reliable(w) /\ r = req[w] /\ r = req'[w]
    BY DEF IInv, AllReliable
  <1>1. r.op = "issue" => r.attempts \subseteq 0 .. Len(tests') /\ 0 \in r.attempts
    BY <1>0 DEF Reliable, Grows
  <1>2. r.op = "fetch" => r.test \in Tests'
    BY <1>0 DEF Reliable, Grows, Tests
  <1>3. r.op = "snapshot" => /\ r.test \in Tests'
                             /\ r.snaps \in Nat /\ r.snaps < MaxSnapshots
                             /\ r.waived \in BOOLEAN
    BY <1>0 DEF Reliable, Grows, Tests
  <1>4. ASSUME NEW d, Decision(d) PROVE Decision(d)'
    BY <1>4 DEF Decision, Grows, Tests
  <1>5. ASSUME NEW a, Copy(a) PROVE Copy(a)'
    BY <1>5 DEF Copy, Grows
  <1>6. r.op \in {"submit", "waive"} => Decision(r)'
    BY <1>0, <1>4 DEF Reliable
  <1>7. r.op = "decide" => Decision(r.by)' /\ Copy(r.app)'
    BY <1>0, <1>4, <1>5 DEF Reliable
  <1> QED
    BY <1>0, <1>1, <1>2, <1>3, <1>6, <1>7 DEF Reliable

\* A step that grows the tables and ends a request leaves the others reliable.
LEMMA Finished ==
  ASSUME IInv, Grows, NEW w \in Worker, Finish(w)
  PROVE  AllReliable' /\ (req = [v \in Worker |-> req[v]])'
  <1>1. req' = [req EXCEPT ![w] = Idle] /\ req = [v \in Worker |-> req[v]]
    BY DEF Finish, IInv, Tables
  <1>2. ASSUME NEW v \in Worker PROVE Reliable(v)'
    <2>1. CASE v = w
      BY <1>1, <2>1 DEF Reliable, Idle
    <2>2. CASE v # w
      BY <1>1, <2>2, StaysReliable
    <2> QED
      BY <2>1, <2>2
  <1> QED
    BY <1>1, <1>2 DEF AllReliable

\* A request that only loads leaves the tables as they are.
LEMMA Loaded ==
  ASSUME IInv, UNCHANGED <<row, tests, completions, visits, notified>>, NEW w \in Worker, NEW r,
         req' = [req EXCEPT ![w] = r], Reliable(w)'
  PROVE  IInv'
  <1>1. req = [v \in Worker |-> req[v]]
    BY DEF IInv, Tables
  <1>2. Grows
    BY Numbers DEF Grows, IInv, Tables, Tests, Application
  <1>3. ASSUME NEW v \in Worker PROVE Reliable(v)'
    <2>1. CASE v = w
      BY <2>1
    <2>2. CASE v # w
      BY <1>1, <1>2, <2>2, StaysReliable
    <2> QED
      BY <2>1, <2>2
  <1>4. Tables' /\ Verdicts' /\ Stays'
    BY <1>1 DEF IInv, Tables, Verdicts, Stays, Tests
  <1> QED
    BY <1>3, <1>4 DEF IInv, AllReliable

\* One test is rewritten: its number stays, and a verdict stays a verdict.
LEMMA Rewritten ==
  ASSUME Tables, Verdicts, NEW t \in Tests, NEW new \in TestRow,
         tests' = [tests EXCEPT ![t] = new],
         new.attempt = tests[t].attempt,
         tests[t].passed \in Results => new.passed \in Results
  PROVE  /\ tests' \in Seq(TestRow)
         /\ Tests' = Tests
         /\ Len(tests') = Len(tests)
         /\ tests'[t] = new
         /\ \A u \in Tests : tests'[u].attempt <= Len(tests')
         /\ \A u \in Tests : tests[u].passed \in Results => tests'[u].passed \in Results
  <1>1. Tests = 1 .. Len(tests) /\ Len(tests) \in Nat /\ tests \in Seq(TestRow)
    BY Numbers DEF Tables
  <1>2. /\ [tests EXCEPT ![t] = new] \in Seq(TestRow)
        /\ Len([tests EXCEPT ![t] = new]) = Len(tests)
        /\ \A u \in Tests : [tests EXCEPT ![t] = new][u] = IF u = t THEN new ELSE tests[u]
    BY <1>1, ExceptSeq
  <1>3. DOMAIN [tests EXCEPT ![t] = new] = Tests
    BY DEF Tests
  <1> QED
    BY <1>1, <1>2, <1>3 DEF Tables, Tests

\* The same, when nothing else is touched.
LEMMA RewriteStep ==
  ASSUME IInv, NEW t \in Tests, NEW new \in TestRow,
         tests' = [tests EXCEPT ![t] = new],
         new.attempt = tests[t].attempt,
         tests[t].passed \in Results => new.passed \in Results,
         UNCHANGED <<row, completions, visits, notified>>,
         (\E w \in Worker : Finish(w)) \/ UNCHANGED req
  PROVE  IInv'
  <1>0. Tables /\ Verdicts /\ Stays
    BY DEF IInv
  <1>1. /\ tests' \in Seq(TestRow)
        /\ Tests' = Tests
        /\ Len(tests') = Len(tests)
        /\ \A u \in Tests : tests'[u].attempt <= Len(tests')
        /\ \A u \in Tests : tests[u].passed \in Results => tests'[u].passed \in Results
    BY <1>0, Rewritten
  <1>2. Grows
    BY <1>0, <1>1, Numbers DEF Grows, Tests, Tables, Application
  <1>3. AllReliable' /\ (req = [v \in Worker |-> req[v]])'
    <2>1. CASE \E w \in Worker : Finish(w)
      BY <1>2, <2>1, Finished
    <2>2. CASE UNCHANGED req
      BY <1>0, <1>2, <2>2, StaysReliable DEF AllReliable, Tables
    <2> QED
      BY <2>1, <2>2
  <1>4. Tables' /\ Stays'
    BY <1>0, <1>1, <1>3 DEF Tables, Stays
  <1>5. Verdicts'
    BY <1>0, <1>1 DEF Verdicts, Tables, Tests
  <1> QED
    BY <1>3, <1>4, <1>5 DEF IInv

-----------------------------------------------------------------------------
(* One lemma for every step that writes.                                   *)

LEMMA IssueStep ==
  ASSUME IInv, NEW w \in Worker, CommitIssue(w)
  PROVE  IInv'
  <1> PICK seen : seen = req[w].attempts
    OBVIOUS
  <1>0. Tables /\ Verdicts /\ Stays /\ Reliable(w)
    BY DEF IInv, AllReliable
  <1>1. /\ seen \subseteq 0 .. Len(tests) /\ 0 \in seen
        /\ tests' = Append(tests, NewTest((CHOOSE n \in seen : \A m \in seen : m <= n) + 1))
        /\ Finish(w)
        /\ UNCHANGED <<row, completions, visits, notified>>
    BY <1>0 DEF CommitIssue, Reliable
  <1>2. PICK last \in 0 .. Len(tests) : tests' = Append(tests, NewTest(last + 1))
    <2>1. Len(tests) \in Nat
      BY <1>0, Numbers
    <2>2. \E n \in seen : \A m \in seen : m <= n
      BY <1>1, <2>1, Greatest
    <2> QED
      BY <1>1, <2>2
  <1>3. /\ Tests = 1 .. Len(tests) /\ Len(tests) \in Nat
        /\ \A t \in Tests : tests[t] \in TestRow
    BY <1>0, Numbers
  <1>4. NewTest(last + 1) \in TestRow /\ NewTest(last + 1).attempt = last + 1
    BY <1>3, AssessmentAssumption DEF NewTest, TestRow
  <1>5. /\ tests' \in Seq(TestRow)
        /\ Len(tests') = Len(tests) + 1
        /\ DOMAIN tests' = 1 .. Len(tests) + 1
        /\ \A t \in Tests : tests'[t] = tests[t]
        /\ tests'[Len(tests) + 1] = NewTest(last + 1)
    <2>1. /\ Append(tests, NewTest(last + 1)) \in Seq(TestRow)
          /\ Len(Append(tests, NewTest(last + 1))) = Len(tests) + 1
          /\ \A t \in 1 .. Len(tests) : Append(tests, NewTest(last + 1))[t] = tests[t]
          /\ Append(tests, NewTest(last + 1))[Len(tests) + 1] = NewTest(last + 1)
      BY <1>0, <1>4, AppendProperties DEF Tables
    <2> QED
      BY <1>2, <1>3, <2>1, LenProperties
  <1>6. Grows
    BY <1>0, <1>1, <1>3, <1>5 DEF Grows, Tests, Tables, Application
  <1>7. AllReliable' /\ (req = [v \in Worker |-> req[v]])'
    BY <1>1, <1>6, Finished
  <1>8. Tables'
    <2>1. \A t \in DOMAIN tests' : tests'[t].attempt <= Len(tests')
      <3> SUFFICES ASSUME NEW t \in DOMAIN tests' PROVE tests'[t].attempt <= Len(tests')
        OBVIOUS
      <3>1. CASE t \in Tests
        <4>1. tests[t].attempt \in Nat /\ tests[t].attempt <= Len(tests) /\ tests'[t] = tests[t]
          BY <1>0, <1>3, <1>5, <3>1 DEF Tables, TestRow
        <4> QED
          BY <1>3, <1>5, <4>1
      <3>2. CASE t = Len(tests) + 1
        BY <1>3, <1>4, <1>5, <3>2
      <3> QED
        BY <1>3, <1>5, <3>1, <3>2
    <2>2. notified' \subseteq DOMAIN tests'
      BY <1>0, <1>1, <1>3, <1>5 DEF Tables
    <2> QED
      BY <1>0, <1>1, <1>5, <1>7, <2>1, <2>2 DEF Tables, Tests
  <1>9. Verdicts' /\ Stays'
    BY <1>0, <1>1, <1>3, <1>5 DEF Verdicts, Stays, Tables, Tests
  <1> QED
    BY <1>7, <1>8, <1>9 DEF IInv

LEMMA StartStep ==
  ASSUME IInv, NEW w \in Worker, CommitStart(w)
  PROVE  IInv'
  <1> PICK t : t = req[w].test
    OBVIOUS
  <1>1. /\ t \in Tests
        /\ tests' = [tests EXCEPT ![t] = [tests[t] EXCEPT !.status = "started"]]
        /\ Finish(w) /\ UNCHANGED <<row, completions, visits, notified>>
    BY DEF CommitStart, IInv, AllReliable, Reliable
  <1>2. tests[t] \in TestRow
    BY <1>1, Numbers DEF IInv
  <1>3. /\ [tests[t] EXCEPT !.status = "started"] \in TestRow
        /\ [tests[t] EXCEPT !.status = "started"].attempt = tests[t].attempt
        /\ [tests[t] EXCEPT !.status = "started"].passed = tests[t].passed
    BY <1>2 DEF TestRow
  <1> QED
    BY <1>1, <1>3, RewriteStep

LEMMA SnapshotStep ==
  ASSUME IInv, NEW w \in Worker, CommitSnapshot(w)
  PROVE  IInv'
  <1> PICK r : r = req[w]
    OBVIOUS
  <1> DEFINE new == [tests[r.test] EXCEPT !.snaps = r.snaps + 1, !.waived = r.waived]
  <1>1. /\ r.test \in Tests /\ r.snaps \in Nat /\ r.snaps < MaxSnapshots /\ r.waived \in BOOLEAN
        /\ tests' = [tests EXCEPT ![r.test] = new]
        /\ Finish(w) /\ UNCHANGED <<row, completions, visits, notified>>
    BY DEF CommitSnapshot, IInv, AllReliable, Reliable
  <1>2. tests[r.test] \in TestRow
    BY <1>1, Numbers DEF IInv
  <1>3. new \in TestRow /\ new.attempt = tests[r.test].attempt /\ new.passed = tests[r.test].passed
    <2>1. MaxSnapshots \in Nat
      BY AssessmentAssumption
    <2>2. r.snaps + 1 \in 0 .. MaxSnapshots
      BY <1>1, <2>1
    <2> QED
      BY <1>1, <1>2, <2>2 DEF TestRow
  <1> QED
    BY <1>1, <1>3, RewriteStep

LEMMA ClockStep ==
  ASSUME IInv, NEW t \in Tests, Expire(t) \/ Cool(t)
  PROVE  IInv'
  <1>1. tests[t] \in TestRow
    BY Numbers DEF IInv
  <1>2. CASE Expire(t)
    <2>1. /\ tests' = [tests EXCEPT ![t] = [tests[t] EXCEPT !.live = FALSE]]
          /\ UNCHANGED <<row, completions, visits, notified, req>>
      BY <1>2 DEF Expire
    <2>2. /\ [tests[t] EXCEPT !.live = FALSE] \in TestRow
          /\ [tests[t] EXCEPT !.live = FALSE].attempt = tests[t].attempt
          /\ [tests[t] EXCEPT !.live = FALSE].passed = tests[t].passed
      BY <1>1 DEF TestRow
    <2> QED
      BY <2>1, <2>2, RewriteStep
  <1>3. CASE Cool(t)
    <2>1. /\ tests' = [tests EXCEPT ![t] = [tests[t] EXCEPT !.cooled = TRUE]]
          /\ UNCHANGED <<row, completions, visits, notified, req>>
      BY <1>3 DEF Cool
    <2>2. /\ [tests[t] EXCEPT !.cooled = TRUE] \in TestRow
          /\ [tests[t] EXCEPT !.cooled = TRUE].attempt = tests[t].attempt
          /\ [tests[t] EXCEPT !.cooled = TRUE].passed = tests[t].passed
      BY <1>1 DEF TestRow
    <2> QED
      BY <2>1, <2>2, RewriteStep
  <1> QED
    BY <1>2, <1>3

\* A decision that moves the application moves it off its aptitude test.
LEMMA MovesOffItsTest ==
  ASSUME IInv, NEW w \in Worker, CommitDecision(w), Advances(w)
  PROVE  row.stage = "aptitude_test"
  <1>1. Reliable(w) /\ req[w].op = "decide" /\ req[w].app.version = row.version
    BY DEF IInv, AllReliable, CommitDecision, StageGuard
  <1> QED
    BY <1>1 DEF Reliable, Copy, Advances

LEMMA DecisionStep ==
  ASSUME IInv, NEW w \in Worker, CommitDecision(w)
  PROVE  IInv'
  <1> PICK r : r = req[w].by
    OBVIOUS
  <1> PICK event : event = [test |-> r.test, result |-> r.result]
    OBVIOUS
  <1>0. Tables /\ Verdicts /\ Stays /\ Reliable(w)
    BY DEF IInv, AllReliable
  <1>1. /\ Decision(r)
        /\ tests' = [tests EXCEPT ![r.test] = Decided(tests[r.test], r)]
        /\ row' = IF Advances(w)
                  THEN [row EXCEPT !.stage = Target(r.result), !.version = @ + 1]
                  ELSE row
        /\ completions' = IF Advances(w) THEN Append(completions, event) ELSE completions
        /\ notified' = IF r.op = "submit" THEN notified \cup {r.test} ELSE notified
        /\ Finish(w) /\ visits' = visits
    BY <1>0 DEF CommitDecision, Reliable, Emit
  <1>2. /\ r.test \in Tests /\ r.result \in Results /\ tests[r.test] \in TestRow
        /\ r.op \in {"submit", "waive"}
        /\ r.op = "waive" => r.snaps \in 0 .. MaxSnapshots
    BY <1>0, <1>1, Numbers DEF Decision
  <1> PICK new : new = Decided(tests[r.test], r)
    OBVIOUS
  <1>3. new \in TestRow /\ new.attempt = tests[r.test].attempt /\ new.passed \in Results
    <2>1. CASE r.op = "submit"
      BY <1>2, <2>1 DEF Decided, Graded, TestRow
    <2>2. CASE r.op = "waive"
      BY <1>2, <2>2 DEF Decided, Waived, TestRow
    <2> QED
      BY <1>2, <2>1, <2>2
  <1>4. /\ tests' \in Seq(TestRow)
        /\ Tests' = Tests
        /\ Len(tests') = Len(tests)
        /\ tests'[r.test] = new
        /\ \A u \in Tests : tests'[u].attempt <= Len(tests')
        /\ \A u \in Tests : tests[u].passed \in Results => tests'[u].passed \in Results
    BY <1>0, <1>1, <1>2, <1>3, Rewritten
  <1>5. row' \in Application /\ (row' = row \/ row'.version = row.version + 1)
    <2>1. row \in Application /\ Target(r.result) \in Stages
      BY <1>0 DEF Tables, Target, Stages
    <2>2. row.version + 1 \in Nat
      BY <2>1 DEF Application
    <2> PICK b : b = [row EXCEPT !.stage = Target(r.result), !.version = row.version + 1]
      OBVIOUS
    <2>3. b \in Application /\ b.version = row.version + 1
      BY <2>1, <2>2 DEF Application
    <2>4. row' = b \/ row' = row
      BY <1>1
    <2> QED
      BY <2>1, <2>3, <2>4
  <1>6. Grows
    BY <1>0, <1>4, <1>5, Numbers DEF Grows, Tests, Tables, Application
  <1>7. AllReliable' /\ (req = [v \in Worker |-> req[v]])'
    BY <1>1, <1>6, Finished
  <1>8. /\ completions' \in Seq(Completion)
        /\ \A i \in DOMAIN completions' :
             \/ i \in DOMAIN completions /\ completions'[i] = completions[i]
             \/ completions'[i] = event
        /\ Len(completions) \in Nat /\ visits \in Nat
        /\ Len(completions') = IF Advances(w) THEN Len(completions) + 1 ELSE Len(completions)
    <2>1. event \in Completion
      BY <1>0, <1>2, Numbers DEF Completion
    <2>2. /\ DOMAIN completions = 1 .. Len(completions) /\ Len(completions) \in Nat
          /\ completions \in Seq(Completion) /\ visits \in Nat
      BY <1>0, Numbers DEF Tables
    <2>3. CASE Advances(w)
      <3>1. /\ Append(completions, event) \in Seq(Completion)
            /\ Len(Append(completions, event)) = Len(completions) + 1
            /\ \A i \in 1 .. Len(completions) : Append(completions, event)[i] = completions[i]
            /\ Append(completions, event)[Len(completions) + 1] = event
        BY <2>1, <2>2, AppendProperties
      <3>2. DOMAIN Append(completions, event) = 1 .. Len(completions) + 1
        BY <3>1, LenProperties
      <3>3. completions' = Append(completions, event)
        BY <1>1, <2>3
      <3> QED
        BY <2>2, <2>3, <3>1, <3>2, <3>3
    <2>4. CASE ~Advances(w)
      BY <1>1, <2>2, <2>4
    <2> QED
      BY <2>3, <2>4
  <1>9. Tables'
    <2>1. notified' \subseteq Tests'
      BY <1>0, <1>1, <1>2, <1>4 DEF Tables
    <2> QED
      BY <1>1, <1>0, <1>4, <1>5, <1>7, <1>8, <2>1 DEF Tables
  <1>10. Verdicts'
    <2>1. \A i \in DOMAIN completions' :
            completions'[i].test \in Tests' /\ tests'[completions'[i].test].passed \in Results
      <3>1. event.test = r.test
        OBVIOUS
      <3> QED
        BY <1>0, <1>2, <1>3, <1>4, <1>8, <3>1 DEF Verdicts
    <2>2. \A t \in notified' : tests'[t].passed \in Results
      BY <1>0, <1>1, <1>2, <1>3, <1>4 DEF Verdicts, Tables
    <2> QED
      BY <2>1, <2>2 DEF Verdicts
  <1>11. Stays'
    <2>1. CASE Advances(w)
      <3>1. row.stage = "aptitude_test" /\ Len(completions) < visits
        BY <1>0, <2>1, MovesOffItsTest DEF Stays
      <3>2. row'.stage # "aptitude_test"
        BY <1>0, <1>1, <2>1 DEF Target, Tables, Application
      <3> QED
        BY <1>1, <1>8, <2>1, <3>1, <3>2 DEF Stays
    <2>2. CASE ~Advances(w)
      BY <1>0, <1>1, <1>8, <2>2 DEF Stays
    <2> QED
      BY <2>1, <2>2
  <1> QED
    BY <1>7, <1>9, <1>10, <1>11 DEF IInv

LEMMA StaffStep ==
  ASSUME IInv, NEW to \in Stages, StaffMove(to)
  PROVE  IInv'
  <1>0. Tables /\ Verdicts /\ Stays
    BY DEF IInv
  <1>1. /\ row' = [row EXCEPT !.stage = to, !.version = @ + 1, !.hold = HoldAfter(@, row, to)]
        /\ visits' = IF to = "aptitude_test" THEN visits + 1 ELSE visits
        /\ UNCHANGED <<tests, completions, notified, req>>
    BY DEF StaffMove
  <1>2. row' \in Application /\ row'.version = row.version + 1 /\ row'.stage = to
    <2>1. row \in Application
      BY <1>0 DEF Tables
    <2>2. HoldAfter(row.hold, row, to) \in Stages \cup {NoStage}
      BY <2>1 DEF Application, HoldAfter
    <2>3. row.version + 1 \in Nat
      BY <2>1 DEF Application
    <2> PICK b : b = [row EXCEPT !.stage = to, !.version = row.version + 1,
                                 !.hold = HoldAfter(row.hold, row, to)]
      OBVIOUS
    <2>4. b \in Application /\ b.version = row.version + 1 /\ b.stage = to
      BY <2>1, <2>2, <2>3 DEF Application
    <2>5. row' = [row EXCEPT !.stage = to, !.version = row.version + 1,
                             !.hold = HoldAfter(row.hold, row, to)]
      BY <1>1
    <2> QED
      BY <2>1, <2>2, <2>3, <2>4, <2>5
  <1>3. Grows
    BY <1>0, <1>1, <1>2, Numbers DEF Grows, Tests, Tables, Application
  <1>4. AllReliable'
    BY <1>1, <1>3, StaysReliable DEF AllReliable
  <1>5. Tables' /\ Verdicts'
    BY <1>0, <1>1, <1>2 DEF Tables, Verdicts, Tests
  <1>6. Stays'
    BY <1>0, <1>1, <1>2, Numbers DEF Stays, Tables
  <1> QED
    BY <1>4, <1>5, <1>6 DEF IInv

-----------------------------------------------------------------------------
(* One lemma for the steps that only load.                                 *)

\* What they have in common.
Loads(w) == \E r : /\ UNCHANGED <<row, tests, completions, visits, notified>>
                   /\ req' = [req EXCEPT ![w] = r]
                   /\ Reliable(w)'

LEMMA LoadStep ==
  ASSUME IInv, NEW w \in Worker,
         \/ PostIssue(w)
         \/ \E t \in Tests : GetPaper(w, t) \/ PostSnapshot(w, t)
         \/ \E t \in Tests, result \in Results : PostSubmit(w, t, result) \/ PostWaive(w, t, result)
         \/ LoadApplication(w)
         \/ Fail(w)
  PROVE  IInv'
  <1>0. /\ Tables /\ Reliable(w)
        /\ req = [v \in Worker |-> req[v]]
        /\ Len(tests) \in Nat
        /\ \A t \in Tests : tests[t] \in TestRow
    BY Numbers DEF IInv, AllReliable, Tables
  <1>1. SUFFICES Loads(w)
    BY Loaded DEF Loads
  <1>2. CASE PostIssue(w)
    <2>1. \A t \in Tests : tests[t].attempt \in 0 .. Len(tests)
      BY <1>0 DEF Tables, TestRow
    <2>2. {0} \cup {tests[t].attempt : t \in Tests} \subseteq 0 .. Len(tests)
      BY <1>0, <2>1
    <2> QED
      BY <1>0, <1>2, <2>2 DEF PostIssue, Begin, Loads, Reliable
  <1>3. ASSUME NEW t \in Tests, GetPaper(w, t) PROVE Loads(w)
    BY <1>0, <1>3 DEF GetPaper, Begin, Loads, Reliable, Tests
  <1>4. ASSUME NEW t \in Tests, PostSnapshot(w, t) PROVE Loads(w)
    <2>1. tests[t].snaps \in Nat /\ tests[t].waived \in BOOLEAN
      BY <1>0, AssessmentAssumption DEF TestRow
    <2> QED
      BY <1>0, <1>4, <2>1 DEF PostSnapshot, Begin, Loads, Reliable, Tests
  <1>5. ASSUME NEW t \in Tests, NEW result \in Results, PostSubmit(w, t, result) PROVE Loads(w)
    BY <1>0, <1>5 DEF PostSubmit, Begin, Loads, Reliable, Decision, Tests
  <1>6. ASSUME NEW t \in Tests, NEW result \in Results, PostWaive(w, t, result) PROVE Loads(w)
    BY <1>0, <1>6 DEF PostWaive, Begin, Loads, Reliable, Decision, Tests, TestRow
  <1>7. CASE LoadApplication(w)
    <2>1. /\ req' = [req EXCEPT ![w] = [op |-> "decide", by |-> req[w], app |-> row]]
          /\ UNCHANGED <<row, tests, completions, visits, notified>>
          /\ req[w].op \in {"submit", "waive"}
      BY <1>7 DEF LoadApplication
    <2>2. Decision(req[w]) /\ Copy(row)
      BY <1>0, <2>1 DEF Reliable, Copy, Tables, Application
    <2> QED
      BY <1>0, <2>1, <2>2 DEF Loads, Reliable, Copy, Decision, Tests
  <1>8. CASE Fail(w)
    BY <1>0, <1>8 DEF Fail, Finish, Loads, Reliable, Idle
  <1> QED
    BY <1>2, <1>3, <1>4, <1>5, <1>6, <1>7, <1>8

-----------------------------------------------------------------------------

LEMMA Start ==
  ASSUME Init
  PROVE  IInv
  <1>1. Tables
    BY AssessmentAssumption DEF Init, Tables, Application, Stages, Tests, NoStage
  <1>2. Verdicts /\ Stays /\ AllReliable
    BY DEF Init, Verdicts, Stays, AllReliable, Reliable, Idle
  <1> QED
    BY <1>1, <1>2 DEF IInv

LEMMA Invariance ==
  ASSUME IInv, [Next]_vars
  PROVE  IInv'
  <1>1. CASE UNCHANGED vars
    BY <1>1 DEF vars, IInv, Tables, Verdicts, Stays, AllReliable, Reliable, Decision, Copy, Tests
  <1>2. ASSUME NEW w \in Worker,
               \/ PostIssue(w)
               \/ \E t \in Tests : GetPaper(w, t) \/ PostSnapshot(w, t)
               \/ \E t \in Tests, result \in Results : PostSubmit(w, t, result) \/ PostWaive(w, t, result)
               \/ LoadApplication(w)
               \/ Fail(w)
        PROVE  IInv'
    BY <1>2, LoadStep
  <1>3. ASSUME NEW w \in Worker, CommitIssue(w) PROVE IInv'
    BY <1>3, IssueStep
  <1>4. ASSUME NEW w \in Worker, CommitStart(w) PROVE IInv'
    BY <1>4, StartStep
  <1>5. ASSUME NEW w \in Worker, CommitSnapshot(w) PROVE IInv'
    BY <1>5, SnapshotStep
  <1>6. ASSUME NEW w \in Worker, CommitDecision(w) PROVE IInv'
    BY <1>6, DecisionStep
  <1>7. ASSUME NEW to \in Stages, StaffMove(to) PROVE IInv'
    BY <1>7, StaffStep
  <1>8. ASSUME NEW t \in Tests, Expire(t) \/ Cool(t) PROVE IInv'
    BY <1>8, ClockStep
  <1> QED
    BY <1>1, <1>2, <1>3, <1>4, <1>5, <1>6, <1>7, <1>8 DEF Next

LEMMA Invariant == Spec => []IInv
  BY Start, Invariance, PTL DEF Spec

LEMMA Kept ==
  ASSUME IInv
  PROVE  VerdictsKept
  <1>0. Tables /\ Verdicts /\ Stays
    BY DEF IInv
  <1>1. completions \in Seq([test : Tests, result : Results])
    <2>1. \A i \in DOMAIN completions : completions[i] \in [test : Tests, result : Results]
      BY <1>0, Numbers DEF Verdicts, Completion
    <2> QED
      BY <1>0, <2>1, Narrowed DEF Tables
  <1> QED
    BY <1>0, <1>1 DEF VerdictsKept, AssessmentTypeOK, VerdictBehindEvent, OneCompletionPerVisit,
                      Tables, Application, Verdicts, Stays

\* take.py:80-169, assessments.py:143-205: with any number of requests a stay at
\* the aptitude test is completed at most once, and every verdict told or
\* reported is stored with its test.
THEOREM VerdictsHold == Spec => []VerdictsKept
  BY Invariant, Kept, PTL

\* take.py:81-85: a grade or a waiver never moves an application that has left
\* its aptitude test.
THEOREM OverridesHold == Spec => OverrideStands
  <1>1. ASSUME IInv, [Next]_vars, NEW w \in Worker, CommitDecision(w), row' # row
        PROVE  row.stage = "aptitude_test"
    BY <1>1, MovesOffItsTest DEF CommitDecision
  <1>2. IInv /\ [Next]_vars =>
          [\A w \in Worker : CommitDecision(w) /\ row' # row => row.stage = "aptitude_test"]_vars
    BY <1>1
  <1> QED
    BY <1>2, Invariant, PTL DEF Spec, OverrideStands
=============================================================================
