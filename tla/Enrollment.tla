----------------------------- MODULE Enrollment -----------------------------
(***************************************************************************)
(* One student's enrollments in the cohorts of one academy course, from    *)
(* the application over the priced aptitude test to activation by payment  *)
(* or waiver (backend/app/routers/academy.py, academy_transitions.py and   *)
(* the academy branch of routers/take.py).                                 *)
(*                                                                         *)
(* A request loads its rows, checks them, then commits; nothing it writes  *)
(* is guarded by what it loaded.  An UPDATE names only the columns whose   *)
(* assigned value differs from the loaded one.  Payment also puts the      *)
(* receipt into object storage before its transaction commits.             *)
(***************************************************************************)
EXTENDS Integers, Sequences, FiniteSets

CONSTANTS
  Enr,        \* the seats of one student: UNIQUE(cohort_id, student_id)
  Payment,    \* ids of payments rows
  Worker,     \* threads serving requests
  MaxTests,   \* bound on the tests issued
  CourseFee,  \* courses.fee
  Questions,  \* academy_test_question_count
  Correct     \* the numbers of right answers a submission may have

NoRow == "none"      \* the SQL NULL of payment_id

ASSUME EnrollmentAssumption == /\ MaxTests \in Nat
                               /\ CourseFee \in Nat
                               /\ Questions \in Nat \ {0}
                               /\ Correct \subseteq 0 .. Questions
                               /\ NoRow \notin Enr \cup Payment

VARIABLES
  enrollment, \* Enr -> the enrollments row
  tests,      \* tests rows, in insertion order
  payments,   \* Payment -> the payments row
  receipts,   \* payments with a receipt object in storage
  notices,    \* idempotency keys of queued notifications
  req         \* Worker -> the request it serves and the rows it loaded

vars == <<enrollment, tests, payments, receipts, notices, req>>

rows == <<enrollment, tests, payments, receipts, notices>>

Idle == [op |-> "idle"]
Null == -1           \* the SQL NULL of final_fee

NotMade == [of |-> NoRow, amount |-> Null]   \* no payments row with this id

Statuses == {"applied", "tested", "offered", "active", "completed", "dropped", "cancelled"}

Unborn == [status |-> "unborn", paid |-> "pending", fee |-> Null, payment |-> NoRow]

\* Fault: the row is created in a status the check constraint does not know.
SubmittedEnrollment == [Unborn EXCEPT !.status = "submitted"]

NewEnrollment == [Unborn EXCEPT !.status = "applied"]

Init == /\ enrollment = [e \in Enr |-> Unborn]
        /\ tests = <<>>
        /\ payments = [p \in Payment |-> NotMade]
        /\ receipts = {}
        /\ notices = {}
        /\ req = [w \in Worker |-> Idle]

Tests == DOMAIN tests
Made == {p \in Payment : payments[p] # NotMade}
PaymentsOf(e) == {p \in Made : payments[p].of = e}

Begin(w, r) == req[w] = Idle /\ req' = [req EXCEPT ![w] = r] /\ UNCHANGED rows

Finish(w) == req' = [req EXCEPT ![w] = Idle]

-----------------------------------------------------------------------------
(* academy_transitions: the edges a person may take, the edges only the    *)
(* system takes, and the states nothing leaves.                            *)

Terminal == {"cancelled", "dropped", "completed"}

SystemEdges == {<<"applied", "offered">>, <<"tested", "offered">>, <<"offered", "active">>}

\* Fault: staff may also activate an offered enrollment.
ManualEdgesToActive ==
  {<<"offered", "cancelled">>, <<"applied", "cancelled">>, <<"tested", "cancelled">>,
   <<"active", "completed">>, <<"active", "dropped">>, <<"offered", "active">>}

ManualEdges ==
  {<<"offered", "cancelled">>, <<"applied", "cancelled">>, <<"tested", "cancelled">>,
   <<"active", "completed">>, <<"active", "dropped">>}

\* transition() on the loaded status, for a manual or a system caller.
MayMove(from, to, kind) == /\ from \notin Terminal
                           /\ <<from, to>> \in ManualEdges \/ (kind = "system" /\
                                                               <<from, to>> \in SystemEdges)

-----------------------------------------------------------------------------
(* academy_pricing: the tier of a percentage, the percentage of a count of *)
(* right answers, rounded to hundredths, and the fee that is left to pay.  *)

Percent(correct) == (correct * 20000 + Questions) \div (2 * Questions)

Discount(correct) == LET p == Percent(correct) IN
  CASE p >= 9500 -> 20 [] p >= 8500 -> 15 [] p >= 7500 -> 10 [] OTHER -> 0

\* In hundredths of the currency, as courses.fee is here.
FinalFee(correct) == (CourseFee * (100 - Discount(correct)) + 50) \div 100

-----------------------------------------------------------------------------
(* POST /students/me/enrollments                                           *)

Live(e) == enrollment[e].status \notin {"unborn", "dropped", "cancelled"}

PostApply(w, e) == /\ \A d \in Enr : ~Live(d)
                   /\ Begin(w, [op |-> "apply", enr |-> e])

\* UNIQUE(cohort_id, student_id) refuses a second row for the seat.
CommitApply(w) == LET e == req[w].enr IN
  /\ req[w].op = "apply"
  /\ enrollment[e] = Unborn
  /\ enrollment' = [enrollment EXCEPT ![e] = NewEnrollment]
  /\ Finish(w)
  /\ UNCHANGED <<tests, payments, receipts, notices>>

-----------------------------------------------------------------------------
(* POST /enrollments/{id}/aptitude/issue.  A retake's cooldown never comes *)
(* to bear: a graded enrollment is no longer 'applied'.                    *)

Open(t) == tests[t].status \in {"issued", "started"}

PostIssue(w, e) ==
  /\ enrollment[e].status = "applied"
  /\ \A t \in Tests : tests[t].of = e => ~(Open(t) /\ tests[t].live)
  /\ Begin(w, [op |-> "issue", enr |-> e])

CommitIssue(w) ==
  /\ req[w].op = "issue"
  /\ Len(tests) < MaxTests
  /\ tests' = Append(tests, [of |-> req[w].enr, status |-> "issued", live |-> TRUE])
  /\ notices' = notices \cup {<<"invite", Len(tests) + 1>>}
  /\ Finish(w)
  /\ UNCHANGED <<enrollment, payments, receipts>>

-----------------------------------------------------------------------------
(* GET /take/{token} and POST /take/{token}/submit, the academy branch.    *)

GetPaper(w, t) == /\ tests[t].status = "issued"
                  /\ tests[t].live
                  /\ Begin(w, [op |-> "fetch", test |-> t])

CommitStart(w) == /\ req[w].op = "fetch"
                  /\ tests' = [tests EXCEPT ![req[w].test].status = "started"]
                  /\ Finish(w)
                  /\ UNCHANGED <<enrollment, payments, receipts, notices>>

PostSubmit(w, t, correct) ==
  /\ Open(t)
  /\ tests[t].live
  /\ Begin(w, [op |-> "submit", test |-> t, fee |-> FinalFee(correct)])

LoadEnrollment(w) ==
  /\ req[w].op = "submit"
  /\ req' = [req EXCEPT ![w] = [op |-> "grade", test |-> req[w].test, fee |-> req[w].fee,
                                enr |-> tests[req[w].test].of,
                                seen |-> enrollment[tests[req[w].test].of]]]
  /\ UNCHANGED rows

\* Fault: only a test that earns a discount is priced.
PricedAbove(e, r) == IF r.fee = CourseFee THEN e ELSE [e EXCEPT !.fee = r.fee]

\* The price is stamped whatever the status has become.
Priced(e, r) == IF r.seen.fee = r.fee THEN e ELSE [e EXCEPT !.fee = r.fee]

Offered(e, r) == IF r.seen.status \in {"applied", "tested"}
                 THEN [e EXCEPT !.status = "offered"] ELSE e

CommitGrade(w) == LET r == req[w] IN
  /\ r.op = "grade"
  /\ tests' = [tests EXCEPT ![r.test].status = "submitted"]
  /\ enrollment' = [enrollment EXCEPT ![r.enr] = Offered(Priced(@, r), r)]
  /\ notices' = notices \cup {<<"link", r.test>>}
  /\ Finish(w)
  /\ UNCHANGED <<payments, receipts>>

\* valid_until passes.
Expire(t) == /\ tests[t].live
             /\ tests' = [tests EXCEPT ![t].live = FALSE]
             /\ UNCHANGED <<enrollment, payments, receipts, notices, req>>

-----------------------------------------------------------------------------
(* POST /enrollments/{id}/pay and /students/me/enrollments/{id}/pay.  A    *)
(* payments row is made and paid in one transaction, so a redelivery finds *)
(* a paid row or none.                                                     *)

PostPay(w, e) == /\ PaymentsOf(e) = {}
                 /\ MayMove(enrollment[e].status, "active", "system")
                 /\ enrollment[e].paid # "paid"
                 /\ Begin(w, [op |-> "pay", enr |-> e, fee |-> enrollment[e].fee])

\* The ids nothing uses: no row, no object, no request.
Fresh(p) == /\ p \notin Made
            /\ p \notin receipts

\* Fault: a failed upload is swallowed.
PutReceiptLost(w) == \E p \in Payment :
  /\ req[w].op = "pay"
  /\ Fresh(p)
  /\ req' = [req EXCEPT ![w] = [op |-> "activate", enr |-> req[w].enr, payment |-> p,
                                fee |-> req[w].fee]]
  /\ UNCHANGED rows

PutReceipt(w) == \E p \in Payment :
  /\ req[w].op = "pay"
  /\ Fresh(p)
  /\ receipts' = receipts \cup {p}
  /\ req' = [req EXCEPT ![w] = [op |-> "activate", enr |-> req[w].enr, payment |-> p,
                                fee |-> req[w].fee]]
  /\ UNCHANGED <<enrollment, tests, payments, notices>>

CommitPay(w) == LET r == req[w] IN
  /\ r.op = "activate"
  /\ payments' = [payments EXCEPT ![r.payment] = [of |-> r.enr, amount |-> r.fee]]
  /\ enrollment' = [enrollment EXCEPT ![r.enr].status = "active",
                                      ![r.enr].paid = "paid",
                                      ![r.enr].payment = r.payment]
  /\ notices' = notices \cup {<<"paid", r.payment>>}
  /\ Finish(w)
  /\ UNCHANGED <<tests, receipts>>

-----------------------------------------------------------------------------
(* POST /enrollments/{id}/waive and /enrollments/{id}/status               *)

PostWaive(w, e) == /\ MayMove(enrollment[e].status, "active", "system")
                   /\ Begin(w, [op |-> "waive", enr |-> e, seen |-> enrollment[e]])

\* The loaded payment_status may already be 'waived': then it is not written.
CommitWaive(w) == LET r == req[w] IN
  /\ r.op = "waive"
  /\ enrollment' = [enrollment EXCEPT ![r.enr].status = "active",
                                      ![r.enr].paid = IF r.seen.paid = "waived" THEN @
                                                      ELSE "waived"]
  /\ notices' = notices \cup {<<"waived", r.enr>>}
  /\ Finish(w)
  /\ UNCHANGED <<tests, payments, receipts>>

PostStatus(w, e, to) == /\ MayMove(enrollment[e].status, to, "manual")
                        /\ Begin(w, [op |-> "status", enr |-> e, to |-> to])

CommitStatus(w) == LET r == req[w] IN
  /\ r.op = "status"
  /\ enrollment' = [enrollment EXCEPT ![r.enr].status = r.to]
  /\ Finish(w)
  /\ UNCHANGED <<tests, payments, receipts, notices>>

\* Refused, a failed constraint or a dead worker: the transaction rolls back,
\* an object already stored stays.
Fail(w) == req[w] # Idle /\ Finish(w) /\ UNCHANGED rows

Request(w) ==
  \/ \E e \in Enr : \/ PostApply(w, e) \/ PostIssue(w, e)
                    \/ PostPay(w, e) \/ PostWaive(w, e)
                    \/ \E to \in Statuses : PostStatus(w, e, to)
  \/ \E t \in Tests : GetPaper(w, t) \/ \E correct \in Correct : PostSubmit(w, t, correct)
  \/ LoadEnrollment(w)
  \/ PutReceipt(w)

Commit(w) == \/ CommitApply(w) \/ CommitIssue(w) \/ CommitStart(w) \/ CommitGrade(w)
             \/ CommitPay(w) \/ CommitWaive(w) \/ CommitStatus(w)

Next == \/ \E w \in Worker : Request(w) \/ Commit(w) \/ Fail(w)
        \/ \E t \in Tests : Expire(t)

Spec == Init /\ [][Next]_vars

-----------------------------------------------------------------------------
Fees == {Null} \cup {FinalFee(correct) : correct \in Correct}

\* The shape of the state.
EnrollmentTypeOK ==
  /\ enrollment \in [Enr -> [status : Statuses \cup {"unborn"},
                             paid : {"pending", "paid", "waived"}, fee : Fees,
                             payment : Payment \cup {NoRow}]]
  /\ tests \in Seq([of : Enr, status : {"issued", "started", "submitted"}, live : BOOLEAN])
  /\ payments \in [Payment -> [of : Enr \cup {NoRow}, amount : Fees]]
  /\ receipts \subseteq Payment

\* academy.py:696-700, 'active' has one entry, payment or waiver: however
\* payments, waivers, late grades and staff moves overwrite each other, whoever
\* is or was let into the course has paid or been waived.
NoUnpaidAccess ==
  \A e \in Enr : enrollment[e].status \in {"active", "completed", "dropped"} =>
                   enrollment[e].paid \in {"paid", "waived"}

\* No one pays, or is let in, before a test has priced the enrollment: the
\* amount of a payment is a stamped fee, never the NULL of an unpriced row.
NothingUnpriced ==
  /\ \A p \in Made : payments[p].amount # Null
  /\ \A e \in Enr : enrollment[e].status \notin {"unborn", "applied", "cancelled"} =>
                      enrollment[e].fee # Null

\* A paid enrollment names a payment of its own, and every payment has its
\* receipt in storage: a crash may leave a receipt without a payment, never a
\* payment whose download fails.
PaidIsBacked ==
  /\ \A e \in Enr : enrollment[e].paid = "paid" => enrollment[e].payment \in PaymentsOf(e)
  /\ Made \subseteq receipts

-----------------------------------------------------------------------------
(* What the documents expect and overlapping requests defeat: see the      *)
(* README, "Where the code and its documents part".                        *)

\* academy.py:674-677: a create against a paid enrollment is refused, "never
\* mint a second payable row against a paid enrolment".
OnePaidPayment == \A e \in Enr : Cardinality(PaymentsOf(e)) <= 1

\* academy_transitions.py:7, "a move FROM a terminal state -> rejected for ANY
\* caller".
TerminalStays ==
  [][\A e \in Enr : enrollment[e].status \in Terminal =>
       enrollment'[e].status = enrollment[e].status]_vars

\* academy.py:748-749, a waiver has "NO Payment row, NO payment_id, NO receipt".
WaivedWithoutPayment == \A e \in Enr : enrollment[e].paid = "waived" => PaymentsOf(e) = {}

\* academy.py:1179, "no LIVE enrolment in this course" beside a new one.
OneLiveEnrollment == Cardinality({e \in Enr : Live(e)}) <= 1
=============================================================================
