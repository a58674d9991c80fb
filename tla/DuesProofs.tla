----------------------------- MODULE DuesProofs -----------------------------
(***************************************************************************)
(* Theorems about what is due, for any seats, payments, requests, tests,   *)
(* fees, vendors, contracts, days and percentages, and for any rows that   *)
(* are migrated: Enrollment, Vendors and Migrations, run as MCDues         *)
(* composes them.                                                          *)
(*                                                                         *)
(* Five handlers write an enrollment from copies of it, none guarded.  The *)
(* argument is that two facts about a row never go away, that it has been  *)
(* priced and that it has been paid or waived, so that a commit may rely   *)
(* on them whatever overlapped; and that no two requests hold one payment. *)
(* A commission is computed from what was loaded before it is written.     *)
(* The argument is the same: a submission and a contract are never taken   *)
(* back, and the candidates a trail names only grow.                       *)
(*                                                                         *)
(* Migrations are argued row by row: a step passes one revision, and what  *)
(* a row owes to the others it still keeps.                                *)
(***************************************************************************)
EXTENDS MCDues, SequenceTheorems, TLAPS

Seat == [status : Statuses \cup {"unborn"}, paid : {"pending", "paid", "waived"},
         fee : Fees, payment : Payment \cup {NoRow}]

TestRow == [of : Enr, status : {"issued", "started", "submitted"}, live : BOOLEAN]

Price == Fees \ {Null}

HasFee(e) == enrollment[e].fee # Null

Settled(e) == enrollment[e].paid # "pending"

Tables == EnrollmentTypeOK /\ req = [w \in Worker |-> req[w]]

\* What a request has loaded that its commit relies on.
Reliable(w) ==
  LET r == req[w] IN
  /\ r.op \in {"apply", "issue"} => r.enr \in Enr
  /\ r.op = "fetch" => r.test \in Tests
  /\ r.op = "submit" => r.test \in Tests /\ r.fee \in Price
  /\ r.op = "grade" => /\ r.test \in Tests /\ r.fee \in Price /\ r.enr \in Enr
                       /\ r.seen.fee # Null => HasFee(r.enr)
  /\ r.op = "pay" => r.enr \in Enr /\ r.fee \in Price /\ HasFee(r.enr)
  /\ r.op = "activate" => /\ r.enr \in Enr /\ r.fee \in Price /\ HasFee(r.enr)
                          /\ r.payment \in receipts \ Made
  /\ r.op = "waive" => /\ r.enr \in Enr /\ HasFee(r.enr)
                       /\ r.seen.paid = "waived" => Settled(r.enr)
  /\ r.op = "status" => /\ r.enr \in Enr
                        /\ \/ r.to = "cancelled"
                           \/ r.to \in {"completed", "dropped"} /\ HasFee(r.enr) /\ Settled(r.enr)

AllReliable == \A w \in Worker : Reliable(w)

\* No two requests hold one payment.
OwnPayment == \A v, w \in Worker :
  v # w /\ req[v].op = "activate" /\ req[w].op = "activate" => req[v].payment # req[w].payment

IInv == Tables /\ NoUnpaidAccess /\ NothingUnpriced /\ PaidIsBacked /\ AllReliable /\ OwnPayment

\* What every step does to the tables.
Grows == /\ \A e \in Enr : HasFee(e) => HasFee(e)'
         /\ \A e \in Enr : Settled(e) => Settled(e)'
         /\ Tests \subseteq Tests'
         /\ receipts \subseteq receipts'

-----------------------------------------------------------------------------

\* A computed fee is a number, never the NULL.
LEMMA FeesArePrices ==
  ASSUME NEW correct \in Correct
  PROVE  FinalFee(correct) \in Price
  <1>1. Discount(correct) \in {0, 10, 15, 20}
    BY DEF Discount
  <1>2. CourseFee \in Nat
    BY EnrollmentAssumption
  <1>3. FinalFee(correct) \in Nat
    <2> PICK d \in {0, 10, 15, 20} : d = Discount(correct)
      BY <1>1
    <2>1. CourseFee * (100 - d) + 50 \in Nat
      BY <1>2
    <2>2. \A n \in Nat : n \div 100 \in Nat
      OBVIOUS
    <2> QED
      BY <2>1, <2>2 DEF FinalFee
  <1> QED
    BY <1>3 DEF Price, Fees, Null

LEMMA Numbers ==
  ASSUME Tables
  PROVE  /\ Tests = 1 .. Len(tests) /\ Len(tests) \in Nat
         /\ \A t \in Tests : tests[t] \in TestRow
         /\ \A e \in Enr : enrollment[e] \in Seat
  <1>1. tests \in Seq(TestRow)
    BY DEF Tables, EnrollmentTypeOK, TestRow
  <1>2. enrollment \in [Enr -> Seat]
    BY DEF Tables, EnrollmentTypeOK, Seat
  <1> QED
    BY <1>1, <1>2, LenProperties, ElementOfSeq DEF Tests

\* What a request relies on survives every step but its own.
LEMMA StaysReliable ==
  ASSUME IInv, Grows, NEW w \in Worker, req'[w] = req[w],
         req[w].op = "activate" => req[w].payment \notin Made'
  PROVE  Reliable(w)'
  <1> PICK r : r = req[w]
    OBVIOUS
  <1>0. Reliable(w) /\ r = req[w] /\ r = req'[w]
    BY DEF IInv, AllReliable
  <1>1. /\ r.op \in {"apply", "issue"} => r.enr \in Enr
        /\ r.op = "fetch" => r.test \in Tests'
        /\ r.op = "submit" => r.test \in Tests' /\ r.fee \in Price
    BY <1>0 DEF Reliable, Grows
  <1>2. r.op = "grade" => /\ r.test \in Tests' /\ r.fee \in Price /\ r.enr \in Enr
                          /\ r.seen.fee # Null => HasFee(r.enr)'
    BY <1>0 DEF Reliable, Grows
  <1>3. r.op = "pay" => r.enr \in Enr /\ r.fee \in Price /\ HasFee(r.enr)'
    BY <1>0 DEF Reliable, Grows
  <1>4. r.op = "activate" => /\ r.enr \in Enr /\ r.fee \in Price /\ HasFee(r.enr)'
                             /\ r.payment \in receipts' \ Made'
    BY <1>0 DEF Reliable, Grows
  <1>5. r.op = "waive" => /\ r.enr \in Enr /\ HasFee(r.enr)'
                          /\ r.seen.paid = "waived" => Settled(r.enr)'
    BY <1>0 DEF Reliable, Grows
  <1>6. r.op = "status" => /\ r.enr \in Enr
                           /\ \/ r.to = "cancelled"
                              \/ r.to \in {"completed", "dropped"} /\ HasFee(r.enr)' /\ Settled(r.enr)'
    BY <1>0 DEF Reliable, Grows
  <1> QED
    BY <1>0, <1>1, <1>2, <1>3, <1>4, <1>5, <1>6 DEF Reliable

\* A step that grows the tables and ends a request leaves the others reliable.
LEMMA Finished ==
  ASSUME IInv, Grows, NEW w \in Worker, Finish(w),
         \A v \in Worker \ {w} : req[v].op = "activate" => req[v].payment \notin Made'
  PROVE  AllReliable' /\ OwnPayment' /\ (req = [v \in Worker |-> req[v]])'
  <1>1. req' = [req EXCEPT ![w] = Idle] /\ req = [v \in Worker |-> req[v]]
    BY DEF Finish, IInv, Tables
  <1>2. ASSUME NEW v \in Worker PROVE Reliable(v)'
    <2>1. CASE v = w
      BY <1>1, <2>1 DEF Reliable, Idle
    <2>2. CASE v # w
      BY <1>1, <2>2, StaysReliable
    <2> QED
      BY <2>1, <2>2
  <1>3. OwnPayment'
    BY <1>1 DEF IInv, OwnPayment, Idle
  <1> QED
    BY <1>1, <1>2, <1>3 DEF AllReliable

\* A request that only loads leaves the tables as they are.
LEMMA Loaded ==
  ASSUME IInv, UNCHANGED rows, NEW w \in Worker, NEW r, r.op # "activate",
         req' = [req EXCEPT ![w] = r], Reliable(w)'
  PROVE  IInv'
  <1>1. req = [v \in Worker |-> req[v]] /\ UNCHANGED <<enrollment, tests, payments, receipts>>
    BY DEF IInv, Tables, rows
  <1>2. Grows
    BY <1>1 DEF Grows, HasFee, Settled, Tests
  <1>3. \A v \in Worker : req[v].op = "activate" => req[v].payment \notin Made'
    BY <1>1 DEF IInv, AllReliable, Reliable, Made
  <1>4. ASSUME NEW v \in Worker PROVE Reliable(v)'
    <2>1. CASE v = w
      BY <2>1
    <2>2. CASE v # w
      BY <1>1, <1>2, <1>3, <2>2, StaysReliable
    <2> QED
      BY <2>1, <2>2
  <1>5. OwnPayment'
    BY <1>1 DEF IInv, OwnPayment
  <1>6. Tables'
    BY <1>1 DEF IInv, Tables, EnrollmentTypeOK
  <1>7. NoUnpaidAccess' /\ NothingUnpriced' /\ PaidIsBacked'
    BY <1>1 DEF IInv, NoUnpaidAccess, NothingUnpriced, PaidIsBacked, PaymentsOf, Made
  <1> QED
    BY <1>4, <1>5, <1>6, <1>7 DEF IInv, AllReliable

\* A step that writes tests, if anything.
LEMMA TestsStep ==
  ASSUME IInv, UNCHANGED <<enrollment, payments, receipts>>,
         tests' \in Seq(TestRow), Tests \subseteq DOMAIN tests',
         (\E w \in Worker : Finish(w)) \/ UNCHANGED req
  PROVE  IInv'
  <1>1. Grows
    BY DEF Grows, HasFee, Settled, Tests
  <1>2. \A v \in Worker : req[v].op = "activate" => req[v].payment \notin Made'
    BY DEF IInv, AllReliable, Reliable, Made
  <1>3. AllReliable' /\ OwnPayment' /\ (req = [v \in Worker |-> req[v]])'
    <2>1. CASE \E w \in Worker : Finish(w)
      BY <1>1, <1>2, <2>1, Finished
    <2>2. CASE UNCHANGED req
      BY <1>1, <1>2, <2>2, StaysReliable DEF AllReliable, OwnPayment, IInv, Tables
    <2> QED
      BY <2>1, <2>2
  <1>4. Tables'
    BY <1>3 DEF IInv, Tables, EnrollmentTypeOK, TestRow
  <1>5. NoUnpaidAccess' /\ NothingUnpriced' /\ PaidIsBacked'
    BY DEF IInv, NoUnpaidAccess, NothingUnpriced, PaidIsBacked, PaymentsOf, Made
  <1> QED
    BY <1>3, <1>4, <1>5 DEF IInv

\* A step that writes one enrollment and no payment.
LEMMA SeatStep ==
  ASSUME IInv, NEW w \in Worker, Finish(w), UNCHANGED <<payments, receipts>>,
         tests' \in Seq(TestRow), Tests \subseteq DOMAIN tests',
         NEW e \in Enr, NEW new \in Seat,
         enrollment' = [enrollment EXCEPT ![e] = new],
         HasFee(e) => new.fee # Null,
         Settled(e) => new.paid # "pending",
         new.status \in {"active", "completed", "dropped"} => new.paid \in {"paid", "waived"},
         new.status \notin {"unborn", "applied", "cancelled"} => new.fee # Null,
         new.paid = "paid" => enrollment[e].paid = "paid" /\ new.payment = enrollment[e].payment
  PROVE  IInv'
  <1>0. enrollment \in [Enr -> Seat]
    BY DEF IInv, Tables, EnrollmentTypeOK, Seat
  <1>1. /\ enrollment' \in [Enr -> Seat]
        /\ \A d \in Enr : enrollment'[d] = IF d = e THEN new ELSE enrollment[d]
    BY <1>0
  <1>2. Grows
    BY <1>1 DEF Grows, HasFee, Settled, Tests
  <1>3. \A v \in Worker : req[v].op = "activate" => req[v].payment \notin Made'
    BY DEF IInv, AllReliable, Reliable, Made
  <1>4. AllReliable' /\ OwnPayment' /\ (req = [v \in Worker |-> req[v]])'
    BY <1>2, <1>3, Finished
  <1>5. Tables'
    BY <1>1, <1>4 DEF IInv, Tables, EnrollmentTypeOK, Seat, TestRow
  <1>6. NoUnpaidAccess' /\ NothingUnpriced'
    BY <1>1 DEF IInv, NoUnpaidAccess, NothingUnpriced, Made
  <1>7. PaidIsBacked'
    BY <1>1 DEF IInv, PaidIsBacked, PaymentsOf, Made
  <1> QED
    BY <1>4, <1>5, <1>6, <1>7 DEF IInv

-----------------------------------------------------------------------------
(* One lemma for every step that writes.                                   *)

LEMMA ApplyStep ==
  ASSUME IInv, NEW w \in Worker, CommitApply(w)
  PROVE  IInv'
  <1> PICK e : e = req[w].enr
    OBVIOUS
  <1>1. /\ e \in Enr /\ enrollment[e] = Unborn
        /\ enrollment' = [enrollment EXCEPT ![e] = NewEnrollment]
        /\ Finish(w) /\ UNCHANGED <<tests, payments, receipts>>
    BY DEF CommitApply, IInv, AllReliable, Reliable
  <1>2. tests' \in Seq(TestRow) /\ Tests \subseteq DOMAIN tests'
    BY <1>1 DEF IInv, Tables, EnrollmentTypeOK, TestRow, Tests
  <1>3. NewEnrollment \in Seat
    BY DEF NewEnrollment, Unborn, Seat, Statuses, Fees
  <1>4. ~HasFee(e) /\ ~Settled(e) /\ NewEnrollment.status = "applied" /\ NewEnrollment.paid = "pending"
    BY <1>1 DEF HasFee, Settled, NewEnrollment, Unborn
  <1> QED
    BY <1>1, <1>2, <1>3, <1>4, SeatStep

LEMMA IssueStep ==
  ASSUME IInv, NEW w \in Worker, CommitIssue(w)
  PROVE  IInv'
  <1> PICK t : t = [of |-> req[w].enr, status |-> "issued", live |-> TRUE]
    OBVIOUS
  <1>1. /\ req[w].enr \in Enr /\ tests \in Seq(TestRow)
        /\ tests' = Append(tests, t)
        /\ Finish(w) /\ UNCHANGED <<enrollment, payments, receipts>>
    BY DEF CommitIssue, IInv, AllReliable, Reliable, Tables, EnrollmentTypeOK, TestRow
  <1>2. t \in TestRow
    BY <1>1 DEF TestRow
  <1>3. /\ Append(tests, t) \in Seq(TestRow)
        /\ Len(Append(tests, t)) = Len(tests) + 1
    BY <1>1, <1>2, AppendProperties
  <1>4. DOMAIN Append(tests, t) = 1 .. Len(tests) + 1 /\ Tests = 1 .. Len(tests) /\ Len(tests) \in Nat
    BY <1>1, <1>3, LenProperties DEF Tests
  <1> QED
    BY <1>1, <1>3, <1>4, TestsStep

\* One test is rewritten.
LEMMA TestWritten ==
  ASSUME IInv, NEW t \in Tests, NEW new \in TestRow, tests' = [tests EXCEPT ![t] = new]
  PROVE  tests' \in Seq(TestRow) /\ Tests \subseteq DOMAIN tests'
  <1>1. tests \in Seq(TestRow) /\ t \in 1 .. Len(tests)
    BY Numbers DEF IInv, Tables, EnrollmentTypeOK, TestRow
  <1>2. [tests EXCEPT ![t] = new] \in Seq(TestRow)
    BY <1>1, ExceptSeq
  <1> QED
    BY <1>2 DEF Tests

LEMMA StartStep ==
  ASSUME IInv, NEW w \in Worker, CommitStart(w)
  PROVE  IInv'
  <1> PICK t : t = req[w].test
    OBVIOUS
  <1>1. /\ t \in Tests
        /\ tests' = [tests EXCEPT ![t] = [tests[t] EXCEPT !.status = "started"]]
        /\ Finish(w) /\ UNCHANGED <<enrollment, payments, receipts>>
    BY DEF CommitStart, IInv, AllReliable, Reliable
  <1>2. [tests[t] EXCEPT !.status = "started"] \in TestRow
    BY <1>1, Numbers DEF IInv, TestRow
  <1> QED
    BY <1>1, <1>2, TestWritten, TestsStep

LEMMA GradeStep ==
  ASSUME IInv, NEW w \in Worker, CommitGrade(w)
  PROVE  IInv'
  <1> PICK r : r = req[w]
    OBVIOUS
  <1> PICK old : old = enrollment[r.enr]
    OBVIOUS
  <1> PICK new : new = Offered(Priced(old, r), r)
    OBVIOUS
  <1>1. /\ r.test \in Tests /\ r.fee \in Price /\ r.enr \in Enr
        /\ r.seen.fee # Null => old.fee # Null
    BY DEF CommitGrade, IInv, AllReliable, Reliable, HasFee
  <1>2. /\ tests' = [tests EXCEPT ![r.test] = [tests[r.test] EXCEPT !.status = "submitted"]]
        /\ enrollment' = [enrollment EXCEPT ![r.enr] = new]
        /\ Finish(w) /\ UNCHANGED <<payments, receipts>>
    BY DEF CommitGrade
  <1>3. [tests[r.test] EXCEPT !.status = "submitted"] \in TestRow /\ old \in Seat
    BY <1>1, Numbers DEF IInv, TestRow
  <1>4. tests' \in Seq(TestRow) /\ Tests \subseteq DOMAIN tests'
    BY <1>1, <1>2, <1>3, TestWritten
  <1> PICK priced : priced = Priced(old, r)
    OBVIOUS
  <1>5. /\ priced \in Seat /\ priced.fee # Null /\ priced.status = old.status
        /\ priced.paid = old.paid /\ priced.payment = old.payment
    BY <1>1, <1>3 DEF Priced, Price, Seat
  <1>6. /\ new \in Seat /\ new.fee # Null /\ new.status \in {"offered", old.status}
        /\ new.paid = old.paid /\ new.payment = old.payment
    BY <1>5 DEF Offered, Seat, Statuses
  <1>7. old.status \in {"active", "completed", "dropped"} => old.paid \in {"paid", "waived"}
    BY <1>1 DEF IInv, NoUnpaidAccess
  <1>8. Settled(r.enr) => new.paid # "pending"
    BY <1>6 DEF Settled
  <1> QED
    BY <1>1, <1>2, <1>4, <1>6, <1>7, <1>8, SeatStep

LEMMA WaiveStep ==
  ASSUME IInv, NEW w \in Worker, CommitWaive(w)
  PROVE  IInv'
  <1> PICK r : r = req[w]
    OBVIOUS
  <1> PICK old : old = enrollment[r.enr]
    OBVIOUS
  <1> PICK new : new = [old EXCEPT !.status = "active",
                                   !.paid = IF r.seen.paid = "waived" THEN @ ELSE "waived"]
    OBVIOUS
  <1>1. /\ r.enr \in Enr /\ old.fee # Null
        /\ r.seen.paid = "waived" => old.paid # "pending"
    BY DEF CommitWaive, IInv, AllReliable, Reliable, HasFee, Settled
  <1>2. /\ enrollment' = [enrollment EXCEPT ![r.enr] = new]
        /\ Finish(w) /\ UNCHANGED <<tests, payments, receipts>>
    BY DEF CommitWaive
  <1>3. old \in Seat /\ tests' \in Seq(TestRow) /\ Tests \subseteq DOMAIN tests'
    BY <1>1, <1>2, Numbers DEF IInv, Tables, EnrollmentTypeOK, TestRow, Tests
  <1>4. /\ new \in Seat /\ new.fee = old.fee /\ new.payment = old.payment /\ new.status = "active"
        /\ new.paid \in {"paid", "waived"}
        /\ new.paid = "paid" => old.paid = "paid"
    BY <1>1, <1>3 DEF Seat, Statuses
  <1> QED
    BY <1>1, <1>2, <1>3, <1>4, SeatStep

LEMMA StatusStep ==
  ASSUME IInv, NEW w \in Worker, CommitStatus(w)
  PROVE  IInv'
  <1> PICK r : r = req[w]
    OBVIOUS
  <1> PICK old : old = enrollment[r.enr]
    OBVIOUS
  <1> PICK new : new = [old EXCEPT !.status = r.to]
    OBVIOUS
  <1>1. /\ r.enr \in Enr
        /\ \/ r.to = "cancelled"
           \/ r.to \in {"completed", "dropped"} /\ old.fee # Null /\ old.paid # "pending"
    BY DEF CommitStatus, IInv, AllReliable, Reliable, HasFee, Settled
  <1>2. /\ enrollment' = [enrollment EXCEPT ![r.enr] = new]
        /\ Finish(w) /\ UNCHANGED <<tests, payments, receipts>>
    BY DEF CommitStatus
  <1>3. old \in Seat /\ tests' \in Seq(TestRow) /\ Tests \subseteq DOMAIN tests'
    BY <1>1, <1>2, Numbers DEF IInv, Tables, EnrollmentTypeOK, TestRow, Tests
  <1>4. /\ new \in Seat /\ new.fee = old.fee /\ new.payment = old.payment /\ new.paid = old.paid
        /\ new.status = r.to /\ old.paid \in {"pending", "paid", "waived"}
    BY <1>1, <1>3 DEF Seat, Statuses
  <1>5. /\ HasFee(r.enr) => new.fee # Null
        /\ Settled(r.enr) => new.paid # "pending"
    BY <1>4 DEF HasFee, Settled
  <1> QED
    BY <1>1, <1>2, <1>3, <1>4, <1>5, SeatStep

LEMMA PayStep ==
  ASSUME IInv, NEW w \in Worker, CommitPay(w)
  PROVE  IInv'
  <1> PICK r : r = req[w]
    OBVIOUS
  <1> PICK e : e = r.enr
    OBVIOUS
  <1> PICK p : p = r.payment
    OBVIOUS
  <1> PICK made : made = [of |-> e, amount |-> r.fee]
    OBVIOUS
  <1> PICK new : new = [enrollment[e] EXCEPT !.status = "active", !.paid = "paid", !.payment = p]
    OBVIOUS
  <1>0. /\ Tables /\ NoUnpaidAccess /\ NothingUnpriced /\ PaidIsBacked /\ OwnPayment
        /\ enrollment \in [Enr -> Seat]
        /\ payments \in [Payment -> [of : Enr \cup {NoRow}, amount : Fees]]
        /\ receipts \subseteq Payment
        /\ \A v \in Worker : Reliable(v)
    BY DEF IInv, AllReliable, Tables, EnrollmentTypeOK, Seat
  <1>1. /\ e \in Enr /\ r.fee \in Price /\ enrollment[e].fee # Null
        /\ p \in receipts /\ p \notin Made /\ p \in Payment
        /\ payments' = [payments EXCEPT ![p] = made]
        /\ enrollment' = [enrollment EXCEPT ![e] = new]
        /\ Finish(w) /\ UNCHANGED <<tests, receipts>> /\ r.op = "activate"
    BY <1>0 DEF CommitPay, Reliable, HasFee
  <1>2. /\ new \in Seat /\ new.status = "active" /\ new.paid = "paid" /\ new.payment = p
        /\ new.fee = enrollment[e].fee
    <2> PICK old : old = enrollment[e]
      OBVIOUS
    <2>1. old \in Seat /\ p \in Payment
      BY <1>0, <1>1
    <2>2. new = [old EXCEPT !.status = "active", !.paid = "paid", !.payment = p]
      OBVIOUS
    <2> QED
      BY <2>1, <2>2 DEF Seat, Statuses
  <1>3. made # NotMade /\ made.of = e /\ made.amount # Null /\ made \in [of : Enr \cup {NoRow}, amount : Fees]
    BY <1>1, EnrollmentAssumption DEF NotMade, Price
  <1>4. /\ enrollment' \in [Enr -> Seat]
        /\ \A d \in Enr : enrollment'[d] = IF d = e THEN new ELSE enrollment[d]
    BY <1>0, <1>1, <1>2
  <1>5. /\ payments' \in [Payment -> [of : Enr \cup {NoRow}, amount : Fees]]
        /\ \A q \in Payment : payments'[q] = IF q = p THEN made ELSE payments[q]
    BY <1>0, <1>1, <1>3
  <1>6. Made' = Made \cup {p}
    BY <1>1, <1>3, <1>5 DEF Made
  <1>7. Grows
    BY <1>1, <1>2, <1>4 DEF Grows, HasFee, Settled, Tests
  <1>8. \A v \in Worker \ {w} : req[v].op = "activate" => req[v].payment \notin Made'
    BY <1>0, <1>1, <1>6 DEF Reliable, OwnPayment
  <1>9. AllReliable' /\ OwnPayment' /\ (req = [v \in Worker |-> req[v]])'
    BY <1>1, <1>7, <1>8, Finished
  <1>10. Tables'
    BY <1>0, <1>1, <1>4, <1>5, <1>9 DEF Tables, EnrollmentTypeOK, Seat
  <1>11. NoUnpaidAccess' /\ NothingUnpriced'
    <2>1. \A q \in Made' : payments'[q].amount # Null
      BY <1>0, <1>3, <1>5, <1>6 DEF NothingUnpriced, Made
    <2> QED
      BY <1>0, <1>1, <1>2, <1>4, <2>1 DEF NoUnpaidAccess, NothingUnpriced
  <1>12. PaidIsBacked'
    <2>1. ASSUME NEW d \in Enr, enrollment'[d].paid = "paid"
          PROVE  enrollment'[d].payment \in Made' /\ payments'[enrollment'[d].payment].of = d
      <3>1. CASE d = e
        BY <1>1, <1>2, <1>3, <1>4, <1>5, <1>6, <3>1
      <3>2. CASE d # e
        <4>1. enrollment'[d] = enrollment[d]
          BY <1>4, <3>2
        <4>2. enrollment[d].payment \in Made /\ payments[enrollment[d].payment].of = d
          BY <1>0, <2>1, <4>1 DEF PaidIsBacked, PaymentsOf
        <4>3. enrollment[d].payment # p /\ enrollment[d].payment \in Payment
          BY <1>1, <4>2 DEF Made
        <4> QED
          BY <1>5, <1>6, <4>1, <4>2, <4>3
      <3> QED
        BY <3>1, <3>2
    <2>2. Made' \subseteq receipts'
      BY <1>0, <1>1, <1>6 DEF PaidIsBacked
    <2> QED
      BY <2>1, <2>2 DEF PaidIsBacked, PaymentsOf
  <1> QED
    BY <1>9, <1>10, <1>11, <1>12 DEF IInv

\* A receipt is stored for a payment that nobody else holds.
LEMMA ReceiptStep ==
  ASSUME IInv, NEW w \in Worker, PutReceipt(w)
  PROVE  IInv'
  <1>1. PICK p \in Payment :
          /\ req[w].op = "pay" /\ p \notin Made /\ p \notin receipts
          /\ receipts' = receipts \cup {p}
          /\ req' = [req EXCEPT ![w] = [op |-> "activate", enr |-> req[w].enr, payment |-> p,
                                        fee |-> req[w].fee]]
          /\ UNCHANGED <<enrollment, tests, payments, notices>>
    BY DEF PutReceipt, Fresh
  <1>2. req = [v \in Worker |-> req[v]] /\ \A v \in Worker : Reliable(v)
    BY DEF IInv, Tables, AllReliable
  <1>3. Grows
    BY <1>1 DEF Grows, HasFee, Settled, Tests
  <1>4. \A v \in Worker : req[v].op = "activate" => req[v].payment \in receipts \ Made
    BY <1>2 DEF Reliable
  <1>5. Made' = Made
    BY <1>1 DEF Made
  <1>6. ASSUME NEW v \in Worker PROVE Reliable(v)'
    <2>1. CASE v = w
      <3>1. req[w].enr \in Enr /\ req[w].fee \in Price /\ HasFee(req[w].enr)
        BY <1>1, <1>2 DEF Reliable
      <3>2. /\ req'[w].op = "activate" /\ req'[w].enr \in Enr /\ req'[w].fee \in Price
            /\ req'[w].payment \in receipts' \ Made'
            /\ enrollment'[req'[w].enr].fee # Null
        BY <1>1, <1>2, <1>5, <3>1 DEF HasFee
      <3> QED
        BY <2>1, <3>2 DEF Reliable, HasFee
    <2>2. CASE v # w
      BY <1>1, <1>2, <1>3, <1>4, <1>5, <2>2, StaysReliable
    <2> QED
      BY <2>1, <2>2
  <1>7. OwnPayment'
    BY <1>1, <1>2, <1>4 DEF IInv, OwnPayment
  <1>8. Tables'
    BY <1>1, <1>2 DEF IInv, Tables, EnrollmentTypeOK
  <1>9. NoUnpaidAccess' /\ NothingUnpriced' /\ PaidIsBacked'
    BY <1>1 DEF IInv, NoUnpaidAccess, NothingUnpriced, PaidIsBacked, PaymentsOf, Made
  <1> QED
    BY <1>6, <1>7, <1>8, <1>9 DEF IInv, AllReliable

-----------------------------------------------------------------------------
(* One lemma for the steps that only load.                                 *)

Loading(w) == /\ Request(w) \/ Fail(w)
              /\ ~PutReceipt(w)

\* What they have in common.
Loads(w) == \E r : /\ UNCHANGED rows
                   /\ r.op # "activate"
                   /\ req' = [req EXCEPT ![w] = r]
                   /\ Reliable(w)'

LEMMA LoadStep ==
  ASSUME IInv, NEW w \in Worker, Loading(w)
  PROVE  IInv'
  <1>0. /\ Reliable(w)
        /\ req = [v \in Worker |-> req[v]]
        /\ \A t \in Tests : tests[t] \in TestRow
        /\ NoUnpaidAccess /\ NothingUnpriced
        /\ \A e \in Enr : enrollment[e] \in Seat
    BY Numbers DEF IInv, AllReliable, Tables
  <1>1. SUFFICES Loads(w)
    BY Loaded DEF Loads
  <1>2. ASSUME NEW e \in Enr, PostApply(w, e) \/ PostIssue(w, e)
        PROVE  Loads(w)
    BY <1>0, <1>2 DEF PostApply, PostIssue, Begin, Loads, Reliable
  <1>3. ASSUME NEW e \in Enr, NEW kind, MayMove(enrollment[e].status, "active", kind)
        PROVE  HasFee(e) /\ enrollment[e].fee \in Price
    <2>1. enrollment[e].status = "offered"
      BY <1>3 DEF MayMove, ManualEdges, SystemEdges
    <2> QED
      BY <1>0, <2>1 DEF NothingUnpriced, HasFee, Price, Seat
  <1>4. ASSUME NEW e \in Enr, PostPay(w, e) PROVE Loads(w)
    BY <1>0, <1>3, <1>4 DEF PostPay, Begin, Loads, Reliable, HasFee, rows
  <1>5. ASSUME NEW e \in Enr, PostWaive(w, e) PROVE Loads(w)
    BY <1>0, <1>3, <1>5 DEF PostWaive, Begin, Loads, Reliable, HasFee, Settled, rows
  <1>6. ASSUME NEW e \in Enr, NEW to \in Statuses, PostStatus(w, e, to) PROVE Loads(w)
    <2>1. \/ to = "cancelled"
          \/ to \in {"completed", "dropped"} /\ enrollment[e].status = "active"
      BY <1>6 DEF PostStatus, MayMove, ManualEdges
    <2>2. to # "cancelled" => HasFee(e) /\ Settled(e)
      BY <1>0, <2>1 DEF NothingUnpriced, NoUnpaidAccess, HasFee, Settled
    <2> QED
      BY <1>0, <1>6, <2>1, <2>2 DEF PostStatus, Begin, Loads, Reliable, HasFee, Settled, rows
  <1>7. ASSUME NEW t \in Tests, GetPaper(w, t) PROVE Loads(w)
    BY <1>0, <1>7 DEF GetPaper, Begin, Loads, Reliable, Tests, rows
  <1>8. ASSUME NEW t \in Tests, NEW correct \in Correct, PostSubmit(w, t, correct) PROVE Loads(w)
    BY <1>0, <1>8, FeesArePrices DEF PostSubmit, Begin, Loads, Reliable, Tests, rows
  <1>9. CASE LoadEnrollment(w)
    <2> PICK t : t = req[w].test
      OBVIOUS
    <2>1. t \in Tests /\ req[w].fee \in Price /\ tests[t].of \in Enr
      BY <1>0, <1>9 DEF LoadEnrollment, Reliable, TestRow
    <2>2. /\ req' = [req EXCEPT ![w] = [op |-> "grade", test |-> t, fee |-> req[w].fee,
                                        enr |-> tests[t].of, seen |-> enrollment[tests[t].of]]]
          /\ UNCHANGED rows
      BY <1>9 DEF LoadEnrollment
    <2> QED
      BY <1>0, <2>1, <2>2 DEF Loads, Reliable, HasFee, Tests, rows
  <1>10. CASE Fail(w)
    BY <1>0, <1>10 DEF Fail, Finish, Loads, Reliable, Idle
  <1> QED
    BY <1>2, <1>4, <1>5, <1>6, <1>7, <1>8, <1>9, <1>10 DEF Loading, Request

LEMMA ExpireStep ==
  ASSUME IInv, NEW t \in Tests, Expire(t)
  PROVE  IInv'
  <1>1. /\ tests' = [tests EXCEPT ![t] = [tests[t] EXCEPT !.live = FALSE]]
        /\ UNCHANGED <<enrollment, payments, receipts, req>>
    BY DEF Expire
  <1>2. [tests[t] EXCEPT !.live = FALSE] \in TestRow
    BY Numbers DEF IInv, TestRow
  <1> QED
    BY <1>1, <1>2, TestWritten, TestsStep

-----------------------------------------------------------------------------

LEMMA Start ==
  ASSUME Init
  PROVE  IInv
  <1>1. Unborn \in Seat /\ NotMade \in [of : Enr \cup {NoRow}, amount : Fees]
    BY DEF Unborn, Seat, Statuses, Fees, NotMade
  <1>2. Tables
    BY <1>1 DEF Init, Tables, EnrollmentTypeOK, Seat
  <1>3. Made = {}
    BY DEF Init, Made
  <1>4. NoUnpaidAccess /\ NothingUnpriced /\ PaidIsBacked
    BY <1>3 DEF Init, NoUnpaidAccess, NothingUnpriced, PaidIsBacked, Unborn
  <1>5. AllReliable /\ OwnPayment
    BY DEF Init, AllReliable, Reliable, OwnPayment, Idle
  <1> QED
    BY <1>2, <1>4, <1>5 DEF IInv

LEMMA Invariance ==
  ASSUME IInv, [Next]_vars
  PROVE  IInv'
  <1>1. CASE UNCHANGED vars
    BY <1>1 DEF vars, IInv, Tables, EnrollmentTypeOK, NoUnpaidAccess, NothingUnpriced,
       PaidIsBacked,
                AllReliable, Reliable, OwnPayment, HasFee, Settled, PaymentsOf, Made, Tests
  <1>2. ASSUME NEW w \in Worker, Request(w) \/ Fail(w) PROVE IInv'
    BY <1>2, LoadStep, ReceiptStep DEF Loading
  <1>3. ASSUME NEW w \in Worker, Commit(w) PROVE IInv'
    BY <1>3, ApplyStep, IssueStep, StartStep, GradeStep, PayStep, WaiveStep, StatusStep DEF Commit
  <1>4. ASSUME NEW t \in Tests, Expire(t) PROVE IInv'
    BY <1>4, ExpireStep
  <1> QED
    BY <1>1, <1>2, <1>3, <1>4 DEF Next

-----------------------------------------------------------------------------
(* Commissions.                                                            *)

\* Days can be compared, and a NULL is no client's id.
DaysAndClients == Day \subseteq Nat /\ Ve!Null \notin Client

Basis == [source : {"placement_override", "client_rate", "contract_base"}, percent : Percentage]

\* A vendor that submitted the placed candidate, for this job or for none.
Submitted(v) ==
  \E s \in Sub : /\ Ve!Exists(sub[s]) /\ sub[s].vendor = v
                 /\ placement.candidate \in pointed[s]
                 /\ sub[s].job \in {Ve!Null, placement.job}

\* A vendor with a contract at that percent, in force at the joining.
Contracted(v, percent) ==
  \E k \in Contract : /\ Ve!Exists(contract[k]) /\ contract[k].vendor = v
                      /\ contract[k].percent = percent
                      /\ contract[k].from <= placement.joined
                      /\ contract[k].until # Ve!Null => placement.joined <= contract[k].until

\* What an accrual loaded, which stays true.
AccrualLoaded(w) ==
  LET r == req[w] IN
  r.op = "accrue" =>
    /\ r.vendor \in Vendor /\ r.basis \in Basis
    /\ Submitted(r.vendor)
    /\ r.basis.source = "contract_base" => Contracted(r.vendor, r.basis.percent)

DuesTables ==
  /\ Ve!VendorsTypeOK
  /\ placement \in [candidate : Candidate, job : Job, client : Client \cup {Ve!Null}, joined : Day]
  /\ \A s \in Sub : Ve!Exists(sub[s]) => sub[s].candidate \in pointed[s]

DuesInv ==
  /\ DuesTables
  /\ req = [w \in Clerk |-> req[w]]
  /\ \A w \in Clerk : AccrualLoaded(w)
  /\ Ve!TrailBacked /\ Ve!LockedToJoining

\* No submission or contract is taken back, and no trail forgets a candidate.
DuesGrow ==
  /\ placement' = placement
  /\ \A s \in Sub : Ve!Exists(sub[s]) =>
       /\ Ve!Exists(sub'[s]) /\ sub'[s].vendor = sub[s].vendor /\ sub'[s].job = sub[s].job
       /\ pointed[s] \subseteq pointed'[s]
  /\ \A k \in Contract : Ve!Exists(contract[k]) => contract'[k] = contract[k]

\* Who submitted the candidate and whose contract was in force stays so.
LEMMA DuesStay ==
  ASSUME DuesGrow
  PROVE  /\ \A v : Submitted(v) => Submitted(v)'
         /\ \A v, p : Contracted(v, p) => Contracted(v, p)'
  BY DEF DuesGrow, Submitted, Contracted

LEMMA AccrualStaysLoaded ==
  ASSUME DuesGrow, NEW w \in Clerk, AccrualLoaded(w), req'[w] = req[w]
  PROVE  AccrualLoaded(w)'
  <1> PICK r : r = req[w]
    OBVIOUS
  <1>1. r.op = "accrue" => /\ r.vendor \in Vendor /\ r.basis \in Basis
                           /\ Submitted(r.vendor)'
                           /\ r.basis.source = "contract_base" => Contracted(r.vendor, r.basis.percent)'
    BY DuesStay DEF AccrualLoaded
  <1> QED
    BY <1>1 DEF AccrualLoaded

\* A step that accrues nothing.
LEMMA TablesGrow ==
  ASSUME DuesInv, DuesTables', DuesGrow, commission' = commission,
         req' = [w \in Clerk |-> req'[w]],
         \A w \in Clerk : req'[w] = req[w] \/ AccrualLoaded(w)'
  PROVE  DuesInv'
  <1>1. \A w \in Clerk : AccrualLoaded(w)'
    BY AccrualStaysLoaded DEF DuesInv
  <1>2. Ve!TrailBacked'
    <2>1. Ve!Exists(commission) => Submitted(commission.vendor)
      BY DEF DuesInv, Ve!TrailBacked, Submitted
    <2>2. Ve!Exists(commission) => Submitted(commission.vendor)'
      BY <2>1, DuesStay
    <2> QED
      BY <2>2 DEF Ve!TrailBacked, Submitted
  <1>3. Ve!LockedToJoining'
    <2>1. Ve!Exists(commission) /\ commission.source = "contract_base" =>
            Contracted(commission.vendor, commission.percent)
      BY DEF DuesInv, Ve!LockedToJoining, Contracted
    <2>2. Ve!Exists(commission) /\ commission.source = "contract_base" =>
            Contracted(commission.vendor, commission.percent)'
      BY <2>1, DuesStay
    <2> QED
      BY <2>2 DEF Ve!LockedToJoining, Contracted
  <1> QED
    BY <1>1, <1>2, <1>3 DEF DuesInv

LEMMA DuesStart ==
  ASSUME Ve!Init
  PROVE  DuesInv
  <1>1. DuesTables
    BY DEF Ve!Init, DuesTables, Ve!VendorsTypeOK, Ve!Exists
  <1>2. \A w \in Clerk : AccrualLoaded(w)
    BY DEF Ve!Init, Ve!Idle, AccrualLoaded
  <1>3. Ve!TrailBacked /\ Ve!LockedToJoining
    BY DEF Ve!Init, Ve!TrailBacked, Ve!LockedToJoining, Ve!Exists
  <1> QED
    BY <1>1, <1>2, <1>3 DEF DuesInv, Ve!Init

\* Vendors, their contracts and rates.
LEMMA VendorSteps ==
  ASSUME DuesInv,
         \/ \E v \in Vendor : Ve!CreateVendor(v)
         \/ \E k \in Contract, v \in Vendor, from \in Day, until \in Day \cup {Ve!Null},
              pct \in Percentage : Ve!CreateContract(k, v, from, until, pct)
         \/ \E v \in Vendor, c \in Client, pct \in Percentage : Ve!SetClientRate(v, c, pct)
  PROVE  DuesInv'
  <1>1. ASSUME NEW v \in Vendor, Ve!CreateVendor(v)
        PROVE  DuesInv'
    <2>1. vendor' \subseteq Vendor /\ UNCHANGED <<contract, rate, sub, gone, placement, commission, pointed, req>>
      BY <1>1 DEF Ve!CreateVendor, DuesInv, DuesTables, Ve!VendorsTypeOK
    <2>2. DuesTables' /\ DuesGrow
      BY <2>1 DEF DuesInv, DuesTables, Ve!VendorsTypeOK, DuesGrow
    <2>3. req' = [w \in Clerk |-> req'[w]]
      BY <2>1 DEF DuesInv
    <2> QED
      BY <2>1, <2>2, <2>3, TablesGrow
  <1>2. ASSUME NEW k \in Contract, NEW v \in Vendor, NEW from \in Day, NEW until \in Day \cup {Ve!Null},
               NEW pct \in Percentage, Ve!CreateContract(k, v, from, until, pct)
        PROVE  DuesInv'
    <2> PICK r : r = [row |-> TRUE, vendor |-> v, from |-> from, until |-> until, percent |-> pct]
      OBVIOUS
    <2>1. /\ ~Ve!Exists(contract[k]) /\ contract' = [contract EXCEPT ![k] = r]
          /\ UNCHANGED <<vendor, rate, sub, gone, placement, commission, pointed, req>>
      BY <1>2 DEF Ve!CreateContract
    <2>2. r \in Ve!Contracts
      BY DEF Ve!Contracts
    <2>3. contract' \in [Contract -> Ve!Contracts \cup {Ve!NoRow}]
      BY <2>1, <2>2 DEF DuesInv, DuesTables, Ve!VendorsTypeOK
    <2>4. DuesTables'
      BY <2>1, <2>3 DEF DuesInv, DuesTables, Ve!VendorsTypeOK
    <2>5. DuesGrow
      BY <2>1 DEF DuesInv, DuesTables, Ve!VendorsTypeOK, DuesGrow
    <2>6. req' = [w \in Clerk |-> req'[w]]
      BY <2>1 DEF DuesInv
    <2> QED
      BY <2>1, <2>4, <2>5, <2>6, TablesGrow
  <1>3. ASSUME NEW v \in Vendor, NEW c \in Client, NEW pct \in Percentage, Ve!SetClientRate(v, c, pct)
        PROVE  DuesInv'
    <2>1. /\ rate' = [rate EXCEPT ![<<v, c>>] = pct]
          /\ UNCHANGED <<vendor, contract, sub, gone, placement, commission, pointed, req>>
      BY <1>3 DEF Ve!SetClientRate
    <2>2. rate' \in [Vendor \X Client -> Percentage \cup {Ve!Null}]
      BY <2>1 DEF DuesInv, DuesTables, Ve!VendorsTypeOK
    <2>3. DuesTables' /\ DuesGrow
      BY <2>1, <2>2 DEF DuesInv, DuesTables, Ve!VendorsTypeOK, DuesGrow
    <2>4. req' = [w \in Clerk |-> req'[w]]
      BY <2>1 DEF DuesInv
    <2> QED
      BY <2>1, <2>3, <2>4, TablesGrow
  <1> QED
    BY <1>1, <1>2, <1>3

\* Submissions, and the merges that repoint them.
LEMMA TrailSteps ==
  ASSUME DuesInv,
         \/ \E s \in Sub, v \in Vendor, c \in Candidate, j \in Job \cup {Ve!Null} :
              Ve!CreateSubmission(s, v, c, j)
         \/ \E l, s \in Candidate : Ve!Merge(l, s)
  PROVE  DuesInv'
  <1>1. ASSUME NEW s \in Sub, NEW v \in Vendor, NEW c \in Candidate, NEW j \in Job \cup {Ve!Null},
               Ve!CreateSubmission(s, v, c, j)
        PROVE  DuesInv'
    <2> PICK r : r = [row |-> TRUE, vendor |-> v, candidate |-> c, job |-> j]
      OBVIOUS
    <2>1. /\ ~Ve!Exists(sub[s]) /\ sub' = [sub EXCEPT ![s] = r] /\ pointed' = [pointed EXCEPT ![s] = {c}]
          /\ UNCHANGED <<vendor, contract, rate, gone, placement, commission, req>>
      BY <1>1 DEF Ve!CreateSubmission
    <2>2. r \in Ve!Submissions /\ r.candidate = c
      BY DEF Ve!Submissions
    <2>3. /\ sub' \in [Sub -> Ve!Submissions \cup {Ve!NoRow}] /\ pointed' \in [Sub -> SUBSET Candidate]
          /\ sub'[s] = r /\ pointed'[s] = {c}
          /\ \A t \in Sub \ {s} : sub'[t] = sub[t] /\ pointed'[t] = pointed[t]
      BY <2>1, <2>2 DEF DuesInv, DuesTables, Ve!VendorsTypeOK
    <2>4. \A t \in Sub : Ve!Exists(sub'[t]) => sub'[t].candidate \in pointed'[t]
      BY <2>2, <2>3 DEF DuesInv, DuesTables
    <2>5. DuesTables'
      BY <2>1, <2>3, <2>4 DEF DuesInv, DuesTables, Ve!VendorsTypeOK
    <2>6. DuesGrow
      BY <2>1, <2>3 DEF DuesGrow
    <2>7. req' = [w \in Clerk |-> req'[w]]
      BY <2>1 DEF DuesInv
    <2> QED
      BY <2>1, <2>5, <2>6, <2>7, TablesGrow
  <1>2. ASSUME NEW loser \in Candidate, NEW survivor \in Candidate, Ve!Merge(loser, survivor)
        PROVE  DuesInv'
    <2> PICK moved : moved = {s \in Sub : Ve!Exists(sub[s]) /\ sub[s].candidate = loser}
      OBVIOUS
    <2>1. /\ gone' = gone \cup {loser}
          /\ sub' = [s \in Sub |-> IF s \in moved THEN [sub[s] EXCEPT !.candidate = survivor] ELSE sub[s]]
          /\ pointed' = [s \in Sub |-> IF s \in moved THEN pointed[s] \cup {survivor} ELSE pointed[s]]
          /\ UNCHANGED <<vendor, contract, rate, placement, commission, req>>
      BY <1>2 DEF Ve!Merge
    <2>2. ASSUME NEW s \in moved
          PROVE  /\ s \in Sub /\ Ve!Exists(sub[s]) /\ sub[s] \in Ve!Submissions
                 /\ sub'[s] \in Ve!Submissions /\ Ve!Exists(sub'[s])
                 /\ sub'[s].vendor = sub[s].vendor /\ sub'[s].job = sub[s].job
                 /\ sub'[s].candidate = survivor
                 /\ pointed'[s] = pointed[s] \cup {survivor}
      <3>1. s \in Sub /\ Ve!Exists(sub[s]) /\ sub[s] \in Ve!Submissions
        BY DEF DuesInv, DuesTables, Ve!VendorsTypeOK, Ve!Exists
      <3> PICK old : old = sub[s]
        OBVIOUS
      <3> PICK new : new = [old EXCEPT !.candidate = survivor]
        OBVIOUS
      <3>2. sub'[s] = new /\ pointed'[s] = pointed[s] \cup {survivor}
        BY <2>1, <3>1
      <3>3. /\ new \in Ve!Submissions /\ new.vendor = old.vendor /\ new.job = old.job
            /\ new.candidate = survivor /\ new.row = TRUE
        BY <3>1 DEF Ve!Submissions
      <3>4. Ve!Exists(new)
        BY <3>3 DEF Ve!Exists, Ve!NoRow
      <3> QED
        BY <3>1, <3>2, <3>3, <3>4
    <2>3. ASSUME NEW s \in Sub, s \notin moved
          PROVE  sub'[s] = sub[s] /\ pointed'[s] = pointed[s]
      BY <2>1, <2>3
    <2>4. sub' \in [Sub -> Ve!Submissions \cup {Ve!NoRow}]
      <3>1. \A s \in Sub : sub'[s] \in Ve!Submissions \cup {Ve!NoRow}
        BY <2>2, <2>3 DEF DuesInv, DuesTables, Ve!VendorsTypeOK
      <3>2. sub' = [s \in Sub |-> sub'[s]]
        BY <2>1
      <3> QED
        BY <3>1, <3>2
    <2>5. pointed' \in [Sub -> SUBSET Candidate]
      BY <2>1 DEF DuesInv, DuesTables, Ve!VendorsTypeOK
    <2>6. \A s \in Sub : Ve!Exists(sub'[s]) => sub'[s].candidate \in pointed'[s]
      BY <2>2, <2>3 DEF DuesInv, DuesTables
    <2>7. DuesTables'
      BY <2>1, <2>4, <2>5, <2>6 DEF DuesInv, DuesTables, Ve!VendorsTypeOK
    <2>8. DuesGrow
      BY <2>1, <2>2, <2>3 DEF DuesGrow
    <2>9. req' = [w \in Clerk |-> req'[w]]
      BY <2>1 DEF DuesInv
    <2> QED
      BY <2>1, <2>7, <2>8, <2>9, TablesGrow
  <1> QED
    BY <1>1, <1>2

\* What an accrual may load: the level that won, and why.
LEMMA RateResolved ==
  ASSUME DaysAndClients, DuesInv, NEW v \in Vendor, NEW override \in Percentage \cup {Ve!Null},
         NEW basis \in Ve!Resolved(v, override)
  PROVE  /\ basis \in Basis
         /\ basis.source = "client_rate" => basis.percent = rate[<<v, placement.client>>]
         /\ basis.source = "contract_base" =>
              /\ \A c \in Client : c = placement.client => rate[<<v, c>>] = Ve!Null
              /\ \E k \in Ve!InForce(v) :
                   /\ contract[k].percent = basis.percent
                   /\ \A l \in Ve!InForce(v) : contract[l].from <= contract[k].from
  <1>1. CASE override # Ve!Null
    <2>1. basis = [source |-> "placement_override", percent |-> override] /\ override \in Percentage
      BY <1>1 DEF Ve!Resolved, Ve!ByOverride
    <2> QED
      BY <2>1 DEF Basis
  <1>2. CASE override = Ve!Null /\ Ve!OwnRate(v)
    <2>1. basis = [source |-> "client_rate", percent |-> rate[<<v, placement.client>>]]
      BY <1>2 DEF Ve!Resolved, Ve!ByClient
    <2>2. placement.client \in Client /\ rate[<<v, placement.client>>] \in Percentage
      BY <1>2 DEF Ve!OwnRate, DuesInv, DuesTables, Ve!VendorsTypeOK
    <2> QED
      BY <2>1, <2>2 DEF Basis
  <1>3. CASE override = Ve!Null /\ ~Ve!OwnRate(v)
    <2>1. PICK k \in Ve!Latest(Ve!InForce(v)) :
            basis = [source |-> "contract_base", percent |-> contract[k].percent]
      BY <1>3 DEF Ve!Resolved, Ve!ByContract
    <2>2. k \in Ve!InForce(v) /\ \A l \in Ve!InForce(v) : contract[l].from <= contract[k].from
      BY DEF Ve!Latest
    <2>3. k \in Contract /\ contract[k] \in Ve!Contracts
      BY <2>2 DEF Ve!InForce, Ve!Exists, DuesInv, DuesTables, Ve!VendorsTypeOK
    <2>4. contract[k].percent \in Percentage
      BY <2>3 DEF Ve!Contracts
    <2>5. ASSUME NEW c \in Client, c = placement.client
          PROVE  rate[<<v, c>>] = Ve!Null
      BY <1>3, <2>5 DEF Ve!OwnRate, DaysAndClients
    <2>6. /\ basis.source = "contract_base" /\ basis.percent = contract[k].percent
          /\ basis \in Basis
      BY <2>1, <2>4 DEF Basis
    <2> QED
      BY <2>2, <2>5, <2>6
  <1> QED
    BY <1>1, <1>2, <1>3

LEMMA AccrualBegins ==
  ASSUME DaysAndClients, DuesInv, NEW w \in Clerk, NEW named \in Vendor \cup {Ve!Null},
         NEW override \in Percentage \cup {Ve!Null}, Ve!PostCommission(w, named, override)
  PROVE  /\ DuesInv'
         /\ \A c \in Clerk \ {w} : req'[c] = req[c]
         /\ LET v == req'[w].vendor
                won == req'[w].basis
            IN /\ won \in Basis
               /\ won.source = "client_rate" => won.percent = rate[<<v, placement.client>>]
               /\ won.source = "contract_base" =>
                    /\ \A c \in Client : c = placement.client => rate[<<v, c>>] = Ve!Null
                    /\ \E k \in Ve!InForce(v) :
                         /\ contract[k].percent = won.percent
                         /\ \A l \in Ve!InForce(v) : contract[l].from <= contract[k].from
  <1>1. PICK s \in Ve!Trail(named) : \E basis \in Ve!Resolved(sub[s].vendor, override) :
          Ve!Begin(w, [op |-> "accrue", vendor |-> sub[s].vendor, basis |-> basis,
                       unnamed |-> named = Ve!Null])
    BY DEF Ve!PostCommission
  <1> PICK v : v = sub[s].vendor
    OBVIOUS
  <1>2. PICK basis \in Ve!Resolved(v, override) :
          Ve!Begin(w, [op |-> "accrue", vendor |-> v, basis |-> basis, unnamed |-> named = Ve!Null])
    BY <1>1
  <1> PICK r : r = [op |-> "accrue", vendor |-> v, basis |-> basis, unnamed |-> named = Ve!Null]
    OBVIOUS
  <1>3. /\ req' = [c \in Clerk |-> IF c = w THEN r ELSE req[c]]
        /\ UNCHANGED <<vendor, contract, rate, sub, gone, placement, commission, pointed>>
    BY <1>2 DEF Ve!Begin, Ve!tables, DuesInv
  <1>4. /\ s \in Sub /\ Ve!Exists(sub[s]) /\ sub[s].candidate = placement.candidate
        /\ sub[s].job \in {Ve!Null, placement.job}
    BY DEF Ve!Trail
  <1>5. v \in Vendor
    <2>1. sub[s] \in Ve!Submissions
      BY <1>4 DEF DuesInv, DuesTables, Ve!VendorsTypeOK, Ve!Exists
    <2> QED
      BY <2>1 DEF Ve!Submissions
  <1>6. Submitted(v)
    BY <1>4 DEF Submitted, DuesInv, DuesTables
  <1>7. /\ basis \in Basis
        /\ basis.source = "client_rate" => basis.percent = rate[<<v, placement.client>>]
        /\ basis.source = "contract_base" =>
             /\ \A c \in Client : c = placement.client => rate[<<v, c>>] = Ve!Null
             /\ \E k \in Ve!InForce(v) :
                  /\ contract[k].percent = basis.percent
                  /\ \A l \in Ve!InForce(v) : contract[l].from <= contract[k].from
    BY <1>5, RateResolved
  <1>8. basis.source = "contract_base" => Contracted(v, basis.percent)
    <2> SUFFICES ASSUME basis.source = "contract_base"
                 PROVE  Contracted(v, basis.percent)
      OBVIOUS
    <2>1. PICK k \in Ve!InForce(v) : contract[k].percent = basis.percent
      BY <1>7
    <2>2. /\ k \in Contract /\ Ve!Exists(contract[k]) /\ contract[k].vendor = v
          /\ contract[k].from <= placement.joined
          /\ contract[k].until = Ve!Null \/ contract[k].until >= placement.joined
      BY DEF Ve!InForce
    <2>3. contract[k].until # Ve!Null => contract[k].until \in Nat /\ placement.joined \in Nat
      <3>1. contract[k] \in Ve!Contracts /\ placement.joined \in Day
        BY <2>2 DEF DuesInv, DuesTables, Ve!VendorsTypeOK, Ve!Exists
      <3> QED
        BY <3>1 DEF Ve!Contracts, DaysAndClients
    <2> QED
      BY <2>1, <2>2, <2>3 DEF Contracted
  <1>9. DuesGrow /\ DuesTables'
    BY <1>3 DEF DuesGrow, DuesInv, DuesTables, Ve!VendorsTypeOK
  <1>10. AccrualLoaded(w)'
    <2>1. r.vendor = v /\ r.basis = basis /\ req'[w] = r
      BY <1>3
    <2>2. Submitted(v)' /\ (basis.source = "contract_base" => Contracted(v, basis.percent)')
      BY <1>6, <1>8, <1>9, DuesStay
    <2> QED
      BY <1>5, <1>7, <2>1, <2>2 DEF AccrualLoaded
  <1>11. DuesInv'
    <2>1. req' = [c \in Clerk |-> req'[c]] /\ \A c \in Clerk : req'[c] = req[c] \/ AccrualLoaded(c)'
      BY <1>3, <1>10
    <2> QED
      BY <1>3, <1>9, <2>1, TablesGrow
  <1>12. req'[w].vendor = v /\ req'[w].basis = basis /\ \A c \in Clerk \ {w} : req'[c] = req[c]
    BY <1>3
  <1> QED
    BY <1>7, <1>11, <1>12

LEMMA AccrualCommits ==
  ASSUME DuesInv, NEW w \in Clerk, Ve!CommitCommission(w)
  PROVE  DuesInv'
  <1> PICK r : r = req[w]
    OBVIOUS
  <1> PICK new : new = [row |-> TRUE, vendor |-> r.vendor, source |-> r.basis.source,
                        percent |-> r.basis.percent]
    OBVIOUS
  <1>1. /\ r.op = "accrue" /\ commission' = new
        /\ req' = [c \in Clerk |-> IF c = w THEN Ve!Idle ELSE req[c]]
        /\ UNCHANGED <<vendor, contract, rate, sub, gone, placement, pointed>>
    BY DEF Ve!CommitCommission, Ve!Finish, DuesInv
  <1>2. /\ r.vendor \in Vendor /\ r.basis \in Basis /\ Submitted(r.vendor)
        /\ r.basis.source = "contract_base" => Contracted(r.vendor, r.basis.percent)
    BY <1>1 DEF DuesInv, AccrualLoaded
  <1>3. new \in Ve!Commissions
    BY <1>2 DEF Ve!Commissions, Basis
  <1>4. DuesGrow /\ DuesTables'
    BY <1>1, <1>3 DEF DuesGrow, DuesInv, DuesTables, Ve!VendorsTypeOK
  <1>5. /\ new.vendor = r.vendor /\ new.source = r.basis.source /\ new.percent = r.basis.percent
    OBVIOUS
  <1>6. Ve!TrailBacked'
    BY <1>1, <1>2, <1>5 DEF Ve!TrailBacked, Submitted
  <1>7. Ve!LockedToJoining'
    BY <1>1, <1>2, <1>5 DEF Ve!LockedToJoining, Contracted
  <1>8. \A c \in Clerk : AccrualLoaded(c)'
    <2>1. AccrualLoaded(w)'
      BY <1>1 DEF AccrualLoaded, Ve!Idle
    <2>2. \A c \in Clerk \ {w} : AccrualLoaded(c)'
      BY <1>1, <1>4, AccrualStaysLoaded DEF DuesInv
    <2> QED
      BY <2>1, <2>2
  <1>9. req' = [c \in Clerk |-> req'[c]]
    BY <1>1
  <1> QED
    BY <1>4, <1>6, <1>7, <1>8, <1>9 DEF DuesInv

LEMMA DuesStep ==
  ASSUME DaysAndClients, DuesInv, [Ve!Next]_(Ve!vars)
  PROVE  DuesInv' /\ Ve!SpecificRate
  <1>1. CASE UNCHANGED Ve!vars
    <2>1. UNCHANGED <<vendor, contract, rate, sub, gone, placement, commission, pointed, req>>
      BY <1>1 DEF Ve!vars
    <2>2. DuesGrow /\ DuesTables'
      BY <2>1 DEF DuesGrow, DuesInv, DuesTables, Ve!VendorsTypeOK
    <2>3. req' = [c \in Clerk |-> req'[c]]
      BY <2>1 DEF DuesInv
    <2>4. DuesInv'
      BY <2>1, <2>2, <2>3, TablesGrow
    <2> QED
      BY <2>1, <2>4 DEF Ve!SpecificRate
  <1>2. ASSUME NEW w \in Clerk, Ve!Fail(w)
        PROVE  DuesInv' /\ Ve!SpecificRate
    <2>1. /\ req' = [c \in Clerk |-> IF c = w THEN Ve!Idle ELSE req[c]]
          /\ UNCHANGED <<vendor, contract, rate, sub, gone, placement, commission, pointed>>
      BY <1>2 DEF Ve!Fail, Ve!Finish, Ve!tables, DuesInv
    <2>2. DuesGrow /\ DuesTables'
      BY <2>1 DEF DuesGrow, DuesInv, DuesTables, Ve!VendorsTypeOK
    <2>3. req' = [c \in Clerk |-> req'[c]] /\ \A c \in Clerk : req'[c] = req[c] \/ AccrualLoaded(c)'
      BY <2>1 DEF AccrualLoaded, Ve!Idle
    <2>4. DuesInv'
      BY <2>1, <2>2, <2>3, TablesGrow
    <2> QED
      BY <2>1, <2>4 DEF Ve!SpecificRate
  <1>3. ASSUME NEW w \in Clerk, Ve!CommitCommission(w)
        PROVE  DuesInv' /\ Ve!SpecificRate
    <2>1. req' = [c \in Clerk |-> IF c = w THEN Ve!Idle ELSE req[c]]
      BY <1>3 DEF Ve!CommitCommission, Ve!Finish, DuesInv
    <2> QED
      BY <1>3, <2>1, AccrualCommits DEF Ve!SpecificRate
  <1>4. ASSUME NEW w \in Clerk, NEW named \in Vendor \cup {Ve!Null},
               NEW override \in Percentage \cup {Ve!Null}, Ve!PostCommission(w, named, override)
        PROVE  DuesInv' /\ Ve!SpecificRate
    <2>1. DuesInv' /\ \A c \in Clerk \ {w} : req'[c] = req[c]
      BY <1>4, AccrualBegins
    <2> PICK v : v = req'[w].vendor
      OBVIOUS
    <2> PICK won : won = req'[w].basis
      OBVIOUS
    <2>2. /\ won.source = "client_rate" => won.percent = rate[<<v, placement.client>>]
          /\ won.source = "contract_base" =>
               /\ \A c \in Client : c = placement.client => rate[<<v, c>>] = Ve!Null
               /\ \E k \in Ve!InForce(v) :
                    /\ contract[k].percent = won.percent
                    /\ \A l \in Ve!InForce(v) : contract[l].from <= contract[k].from
      BY <1>4, AccrualBegins
    <2>3. Ve!SpecificRate
      BY <2>1, <2>2 DEF Ve!SpecificRate
    <2> QED
      BY <2>1, <2>3
  <1>5. ASSUME UNCHANGED req
        PROVE  Ve!SpecificRate
    BY <1>5 DEF Ve!SpecificRate
  <1>6. ASSUME \/ \E v \in Vendor : Ve!CreateVendor(v)
               \/ \E k \in Contract, v \in Vendor, from \in Day, until \in Day \cup {Ve!Null},
                    pct \in Percentage : Ve!CreateContract(k, v, from, until, pct)
               \/ \E v \in Vendor, c \in Client, pct \in Percentage : Ve!SetClientRate(v, c, pct)
        PROVE  DuesInv' /\ Ve!SpecificRate
    <2>1. UNCHANGED req
      BY <1>6 DEF Ve!CreateVendor, Ve!CreateContract, Ve!SetClientRate
    <2> QED
      BY <1>5, <1>6, <2>1, VendorSteps
  <1>7. ASSUME \/ \E s \in Sub, v \in Vendor, c \in Candidate, j \in Job \cup {Ve!Null} :
                    Ve!CreateSubmission(s, v, c, j)
               \/ \E l, s \in Candidate : Ve!Merge(l, s)
        PROVE  DuesInv' /\ Ve!SpecificRate
    <2>1. UNCHANGED req
      BY <1>7 DEF Ve!CreateSubmission, Ve!Merge
    <2> QED
      BY <1>5, <1>7, <2>1, TrailSteps
  <1> QED
    BY <1>1, <1>2, <1>3, <1>4, <1>6, <1>7 DEF Ve!Next

-----------------------------------------------------------------------------
(* Migrations: one row at a revision, up and down.                         *)

Borders == {6, 7, 8, 9, 10, 13, 17, 19, 23, 24, 26, 27, 34, 35, 37, 39, 40, 41}

\* A step passes one revision: every other is on the same side of both ends.
LEMMA OneBorder ==
  ASSUME NEW s \in Mi!Steps
  PROVE  /\ s[1] \in Nat /\ s[2] \in Nat /\ s[1] < s[2] /\ s[2] \in Borders
         /\ \A b \in Borders : b = s[2] \/ (b <= s[1] <=> b <= s[2])
  BY DEF Mi!Steps, Borders

\* Two steps that start or end at one revision are one.
LEMMA RevisionsAreNumbers == Mi!Revisions \subseteq Nat
  BY OneBorder DEF Mi!Revisions

\* What holds of one row at a revision, and of the templates.
Sound(k, r) ==
  /\ r.of = "candidate" =>
       /\ r.phone \in {Mi!Null, r.given}
       /\ r.enc \in {Mi!Null, r.given}
       /\ r.enc = r.given \/ r.late \/ (k < 7 /\ r.phone = r.given)
       /\ k >= 23 => r.doc = IF r.gone THEN "none" ELSE "present"
  /\ r.of = "belonging" /\ Mi!Since[r.col] <= k => r.app = r.job /\ r.child = r.job

-----------------------------------------------------------------------------
(* Upgrades.                                                               *)

LEMMA UpOfCandidate ==
  ASSUME NEW s \in Mi!Steps, NEW r \in Mi!Candidates(s[1]), Sound(s[1], r)
  PROVE  Mi!Up(s[2], r) \in Mi!Candidates(s[2]) /\ Sound(s[2], Mi!Up(s[2], r))
  <1> DEFINE u == Mi!Up(s[2], r)
  <1>1. /\ s[1] \in Nat /\ s[2] \in Nat /\ s[1] < s[2]
        /\ \A b \in {6, 7, 8, 23} : b = s[2] \/ (b <= s[1] <=> b <= s[2])
    BY OneBorder DEF Borders
  <1>2. r.of = "candidate" /\ u = Mi!UpCandidate(s[2], r)
    BY DEF Mi!Candidates, Mi!PlainColumn, Mi!SealedColumn, Mi!Up
  <1>3. CASE s[2] = 7
    <2>1. u = IF r.phone = Mi!Null THEN r ELSE [r EXCEPT !.enc = r.phone, !.late = FALSE]
      BY <1>2, <1>3 DEF Mi!UpCandidate, Mi!Backfilled
    <2>2. s[1] < 7 /\ s[1] < 8 /\ ~(s[2] < 6) /\ s[2] < 8 /\ s[2] < 23
      BY <1>1, <1>3
    <2>3. /\ r \in [of : {"candidate"}, given : Number \cup {Mi!Null}, late : BOOLEAN,
                    phone : Number \cup {Mi!Null}, enc : Number \cup {Mi!Null},
                    gone : BOOLEAN, doc : {"none", "former", "present"}]
          /\ Mi!Candidates(s[2]) =
               [of : {"candidate"}, given : Number \cup {Mi!Null}, late : BOOLEAN,
                phone : Number \cup {Mi!Null}, enc : Number \cup {Mi!Null},
                gone : BOOLEAN, doc : {"none", "former", "present"}]
      <3>1. Mi!Candidates(s[2]) =
               [of : {"candidate"}, given : Number \cup {Mi!Null}, late : BOOLEAN,
                phone : Number \cup {Mi!Null}, enc : Number \cup {Mi!Null},
                gone : BOOLEAN, doc : {"none", "former", "present"}]
        BY <2>2, Zenon DEF Mi!Candidates, Mi!PlainColumn, Mi!SealedColumn
      <3>2. /\ r.phone \in Number \cup {Mi!Null} /\ r.enc \in Number \cup {Mi!Null}
            /\ r = [of |-> "candidate", given |-> r.given, late |-> r.late, phone |-> r.phone,
                    enc |-> r.enc, gone |-> r.gone, doc |-> r.doc]
            /\ r.given \in Number \cup {Mi!Null} /\ r.late \in BOOLEAN /\ r.gone \in BOOLEAN
            /\ r.doc \in {"none", "former", "present"}
        BY <2>2 DEF Mi!Candidates, Mi!PlainColumn, Mi!SealedColumn
      <3> QED
        BY <3>1, <3>2
    <2>4. CASE r.phone = Mi!Null
      <3>1. u = r
        BY <2>1, <2>4
      <3>2. Sound(s[2], r)
        BY <2>2, <2>4, <1>1, <1>2 DEF Sound
      <3> QED
        BY <2>3, <3>1, <3>2
    <2>5. CASE r.phone # Mi!Null
      <3>1. u = [r EXCEPT !.enc = r.phone, !.late = FALSE]
        BY <2>1, <2>5
      <3>2. /\ u \in Mi!Candidates(s[2]) /\ u.of = "candidate"
            /\ u.phone = r.phone /\ u.enc = r.phone /\ u.given = r.given
        BY <2>3, <3>1
      <3>3. r.phone = r.given
        BY <1>2, <2>5 DEF Sound
      <3>4. Sound(s[2], u)
        BY <1>1, <2>2, <3>2, <3>3 DEF Sound
      <3> QED
        BY <3>2, <3>4
    <2> QED
      BY <2>4, <2>5
  <1>4. CASE s[2] = 8
    BY <1>1, <1>2, <1>4 DEF Mi!UpCandidate, Mi!Candidates, Mi!PlainColumn, Mi!SealedColumn, Sound
  <1>5. CASE s[2] = 23
    BY <1>1, <1>2, <1>5 DEF Mi!UpCandidate, Mi!Indexed, Mi!Candidates, Mi!PlainColumn,
       Mi!SealedColumn, Sound
  <1>6. CASE s[2] \notin {7, 8, 23}
    <2>1. u = r
      BY <1>2, <1>6 DEF Mi!UpCandidate
    <2> QED
      BY <1>1, <1>2, <1>6, <2>1 DEF Mi!Candidates, Mi!PlainColumn, Mi!SealedColumn, Sound
  <1> QED
    BY <1>3, <1>4, <1>5, <1>6

LEMMA UpOfApplication ==
  ASSUME NEW s \in Mi!Steps, NEW r \in Mi!Applications(s[1])
  PROVE  /\ Mi!Up(s[2], r) \in Mi!Applications(s[2])
         /\ \A set \in Mi!Standings : r.stage \in set <=> Mi!Up(s[2], r).stage \in set
  <1>1. /\ s[1] \in Nat /\ s[2] \in Nat /\ s[1] < s[2]
        /\ 24 = s[2] \/ (24 <= s[1] <=> 24 <= s[2])
    BY OneBorder DEF Borders
  <1>2. r.of = "application" /\ Mi!Up(s[2], r) = Mi!UpApplication(s[2], r)
    BY DEF Mi!Applications, Mi!Up
  <1>3. CASE s[2] = 24
    <2>1. r \in [of : {"application"}, stage : Mi!OldStages, hold : {Mi!NoStage}]
      BY <1>1, <1>3 DEF Mi!Applications
    <2>2. /\ Mi!Forward[r.stage] \in Mi!Stages
          /\ \A set \in Mi!Standings : r.stage \in set <=> Mi!Forward[r.stage] \in set
      BY <2>1 DEF Mi!Forward, Mi!OldStages, Mi!Stages, Mi!Standings, Mi!Represented, Mi!Closing
    <2> QED
      BY <1>1, <1>2, <1>3, <2>1, <2>2 DEF Mi!UpApplication, Mi!Applications
  <1>4. CASE s[2] # 24
    BY <1>1, <1>2, <1>4 DEF Mi!UpApplication, Mi!Applications
  <1> QED
    BY <1>3, <1>4

LEMMA UpOfBelonging ==
  ASSUME NEW s \in Mi!Steps, NEW r \in Mi!Belongings(s[1]), Sound(s[1], r)
  PROVE  Mi!Up(s[2], r) \in Mi!Belongings(s[2]) /\ Sound(s[2], Mi!Up(s[2], r))
  <1>1. /\ s[1] \in Nat /\ s[2] \in Nat /\ s[1] < s[2]
        /\ \A b \in {17, 19} : b = s[2] \/ (b <= s[1] <=> b <= s[2])
    BY OneBorder DEF Borders
  <1>2. r.of = "belonging" /\ Mi!Up(s[2], r) = Mi!UpBelonging(s[2], r)
    BY DEF Mi!Belongings, Mi!Since, Mi!Up
  <1>3. /\ r = [of |-> "belonging", col |-> r.col, job |-> r.job, app |-> r.app,
               child |-> r.child]
        /\ r.col \in DOMAIN Mi!Since /\ r.job \in Owner \cup {Mi!Null}
        /\ Mi!Since[r.col] \in {17, 19}
    BY DEF Mi!Belongings, Mi!Since
  <1>4. CASE Mi!Since[r.col] = s[2]
    <2> PICK j : j = r.job
      OBVIOUS
    <2>1. Mi!Up(s[2], r) = [of |-> "belonging", col |-> r.col, job |-> j, app |-> j, child |-> j]
      BY <1>2, <1>3, <1>4 DEF Mi!UpBelonging, Mi!Inherited
    <2>2. [of |-> "belonging", col |-> r.col, job |-> j, app |-> j, child |-> j]
            \in Mi!Belongings(s[2])
      BY <1>1, <1>3, <1>4 DEF Mi!Belongings
    <2> QED
      BY <2>1, <2>2 DEF Sound
  <1>5. CASE Mi!Since[r.col] # s[2]
    <2>1. Mi!Up(s[2], r) = r /\ (Mi!Since[r.col] <= s[1] <=> Mi!Since[r.col] <= s[2])
      BY <1>1, <1>2, <1>3, <1>5 DEF Mi!UpBelonging
    <2>2. r \in Mi!Belongings(s[2])
      BY <2>1 DEF Mi!Belongings
    <2> QED
      BY <1>2, <2>1, <2>2 DEF Sound
  <1> QED
    BY <1>4, <1>5

Plain(k) == {Mi!Nothing} \cup Mi!Consents(k) \cup Mi!Requests(k) \cup Mi!Interviews(k) \cup Mi!Tests(k)

LEMMA UpOfOthers ==
  ASSUME NEW s \in Mi!Steps, NEW r \in Plain(s[1])
  PROVE  r \in Plain(s[2]) /\ Mi!Up(s[2], r) = r /\ Sound(s[2], r)
  <1>1. /\ s[1] \in Nat /\ s[2] \in Nat /\ s[1] < s[2]
    BY OneBorder
  <1>2. r.of \in {"nothing", "consent", "request", "interview", "test"}
    <2>1. CASE r = Mi!Nothing
      BY <2>1 DEF Mi!Nothing
    <2>2. CASE r \in Mi!Consents(s[1])
      BY <2>2 DEF Mi!Consents, Mi!CandidateSubject, Mi!StudentSubject, Mi!RightToRepresent
    <2>3. CASE r \in Mi!Requests(s[1])
      BY <2>3 DEF Mi!Requests, Mi!LegalHold, Mi!EngineStates
    <2>4. CASE r \in Mi!Interviews(s[1]) \cup Mi!Tests(s[1])
      BY <2>4 DEF Mi!Interviews, Mi!Reproposed, Mi!Tests, Mi!AcademyPairing
    <2> QED
      BY <2>1, <2>2, <2>3, <2>4 DEF Plain
  <1>3. r \in Mi!Consents(s[1]) => r \in Mi!Consents(s[2])
    BY <1>1 DEF Mi!Consents, Mi!CandidateSubject, Mi!StudentSubject, Mi!RightToRepresent
  <1>4. r \in Mi!Requests(s[1]) => r \in Mi!Requests(s[2])
    <2> SUFFICES ASSUME r \in Mi!Requests(s[1])
                 PROVE  r \in Mi!Requests(s[2])
      OBVIOUS
    <2>1. CASE s[1] < 10
      <3>1. /\ r = [of |-> "request", status |-> r.status, held |-> FALSE]
            /\ r.status \in {"pending", "processing", "completed", "rejected"}
        BY <2>1 DEF Mi!Requests, Mi!LegalHold, Mi!EngineStates
      <3>2. /\ r.status \in {"pending", "processing", "completed", "rejected"}
                            \cup (IF s[2] < 10 THEN {} ELSE {"approved", "legal_hold"})
            /\ FALSE \in IF s[2] < 10 THEN {FALSE} ELSE BOOLEAN
        BY <3>1
      <3>3. \A A, B : r.status \in A /\ FALSE \in B =>
              [of |-> "request", status |-> r.status, held |-> FALSE]
                \in [of : {"request"}, status : A, held : B]
        OBVIOUS
      <3> QED
        BY <3>1, <3>2, <3>3, Zenon DEF Mi!Requests, Mi!LegalHold, Mi!EngineStates
    <2>2. CASE ~(s[1] < 10) /\ ~(s[2] < 10)
      <3>1. Mi!Requests(s[1]) = Mi!Requests(s[2])
        BY <2>2 DEF Mi!Requests, Mi!LegalHold, Mi!EngineStates
      <3> QED
        BY <3>1
    <2> QED
      BY <1>1, <2>1, <2>2
  <1>5. r \in Mi!Interviews(s[1]) => r \in Mi!Interviews(s[2])
    BY <1>1 DEF Mi!Interviews, Mi!Reproposed
  <1>6. r \in Mi!Tests(s[1]) => r \in Mi!Tests(s[2])
    BY <1>1 DEF Mi!Tests, Mi!AcademyPairing
  <1> QED
    BY <1>2, <1>3, <1>4, <1>5, <1>6 DEF Plain, Mi!Up, Sound

-----------------------------------------------------------------------------
(* Downgrades.                                                             *)

Refusable == {9, 10, 34, 35}

LEMMA DownOfCandidate ==
  ASSUME NEW s \in Mi!Steps, NEW r \in Mi!Candidates(s[2]), Sound(s[2], r)
  PROVE  /\ Mi!Down(s[2], r) \in Mi!Candidates(s[1])
         /\ Sound(s[1], Mi!Down(s[2], r))
         /\ Mi!Down(s[2], r).of = "candidate"
         /\ s[2] # 6 => Mi!Down(s[2], r) = r
  <1> DEFINE d == Mi!Down(s[2], r)
  <1>1. /\ s[1] \in Nat /\ s[2] \in Nat /\ s[1] < s[2]
        /\ \A b \in {6, 7, 8, 23} : b = s[2] \/ (b <= s[1] <=> b <= s[2])
    BY OneBorder DEF Borders
  <1>2. r.of = "candidate" /\ d = Mi!DownCandidate(s[2], r)
    BY DEF Mi!Candidates, Mi!PlainColumn, Mi!SealedColumn, Mi!Down
  <1>3. CASE s[2] = 6
    <2>1. d = [r EXCEPT !.enc = Mi!Null, !.given = r.phone, !.late = FALSE]
      BY <1>2, <1>3 DEF Mi!DownCandidate
    <2>2. /\ r \in [of : {"candidate"}, given : Number \cup {Mi!Null}, late : BOOLEAN,
                    phone : Number \cup {Mi!Null}, enc : Number \cup {Mi!Null},
                    gone : BOOLEAN, doc : {"none", "former", "present"}]
      BY <1>3 DEF Mi!Candidates, Mi!PlainColumn, Mi!SealedColumn
    <2>3. /\ d \in [of : {"candidate"}, given : Number \cup {Mi!Null}, late : BOOLEAN,
                    phone : Number \cup {Mi!Null}, enc : {Mi!Null},
                    gone : BOOLEAN, doc : {"none", "former", "present"}]
          /\ d.of = "candidate" /\ d.phone = r.phone /\ d.given = r.phone /\ d.enc = Mi!Null
      BY <2>1, <2>2
    <2>4. s[1] < 6 /\ s[1] < 7 /\ s[1] < 8 /\ ~(s[1] >= 23)
      BY <1>1, <1>3
    <2>5. d \in Mi!Candidates(s[1])
      BY <2>2, <2>3, <2>4 DEF Mi!Candidates, Mi!PlainColumn, Mi!SealedColumn
    <2>6. Sound(s[1], d)
      BY <2>3, <2>4 DEF Sound
    <2> QED
      BY <1>3, <2>3, <2>5, <2>6
  <1>4. CASE s[2] # 6
    <2>1. d = r
      BY <1>2, <1>4 DEF Mi!DownCandidate
    <2>2. /\ s[1] < 7 <=> s[2] < 7 \/ s[2] = 7
          /\ s[1] < 6 <=> s[2] < 6
          /\ s[2] < 8 => s[1] < 8
          /\ s[1] >= 23 => s[2] >= 23
      BY <1>1, <1>4
    <2>3. r \in Mi!Candidates(s[1])
      BY <2>2 DEF Mi!Candidates, Mi!PlainColumn, Mi!SealedColumn
    <2>4. Sound(s[1], r)
      BY <1>1, <1>2, <2>2 DEF Sound
    <2> QED
      BY <1>2, <1>4, <2>1, <2>3, <2>4
  <1> QED
    BY <1>3, <1>4

LEMMA DownOfApplication ==
  ASSUME NEW s \in Mi!Steps, NEW r \in Mi!Applications(s[2])
  PROVE  /\ Mi!Down(s[2], r) \in Mi!Applications(s[1])
         /\ \A set \in Mi!Standings : r.stage \in set <=> Mi!Down(s[2], r).stage \in set
  <1>1. /\ s[1] \in Nat /\ s[2] \in Nat /\ s[1] < s[2]
        /\ 24 = s[2] \/ (24 <= s[1] <=> 24 <= s[2])
    BY OneBorder DEF Borders
  <1>2. r.of = "application" /\ Mi!Down(s[2], r) = Mi!DownApplication(s[2], r)
    BY DEF Mi!Applications, Mi!Down
  <1>3. CASE s[2] = 24
    <2>1. r \in [of : {"application"}, stage : Mi!Stages, hold : Mi!Stages \cup {Mi!NoStage}]
      BY <1>1, <1>3 DEF Mi!Applications
    <2>2. /\ Mi!Reverse(r.stage) \in Mi!OldStages
          /\ \A set \in Mi!Standings : r.stage \in set <=> Mi!Reverse(r.stage) \in set
      BY <2>1 DEF Mi!Reverse, Mi!OldStages, Mi!Stages, Mi!Standings, Mi!Represented, Mi!Closing
    <2>3. Mi!Down(s[2], r) = [of |-> "application", stage |-> Mi!Reverse(r.stage),
                              hold |-> Mi!NoStage]
      BY <1>2, <1>3, <2>1 DEF Mi!DownApplication
    <2>4. s[1] < 24
      BY <1>1, <1>3
    <2> QED
      BY <2>2, <2>3, <2>4 DEF Mi!Applications
  <1>4. CASE s[2] # 24
    BY <1>1, <1>2, <1>4 DEF Mi!DownApplication, Mi!Applications
  <1> QED
    BY <1>3, <1>4

LEMMA DownOfBelonging ==
  ASSUME NEW s \in Mi!Steps, NEW r \in Mi!Belongings(s[2]), Sound(s[2], r)
  PROVE  Mi!Down(s[2], r) \in Mi!Belongings(s[1]) /\ Sound(s[1], Mi!Down(s[2], r))
  <1>1. /\ s[1] \in Nat /\ s[2] \in Nat /\ s[1] < s[2]
        /\ \A b \in {17, 19} : b = s[2] \/ (b <= s[1] <=> b <= s[2])
    BY OneBorder DEF Borders
  <1>2. r.of = "belonging" /\ Mi!Down(s[2], r) = Mi!DownBelonging(s[2], r)
    BY DEF Mi!Belongings, Mi!Since, Mi!Down
  <1>3. /\ r = [of |-> "belonging", col |-> r.col, job |-> r.job, app |-> r.app,
               child |-> r.child]
        /\ r.col \in DOMAIN Mi!Since /\ r.job \in Owner \cup {Mi!Null}
        /\ Mi!Since[r.col] \in {17, 19}
    BY DEF Mi!Belongings, Mi!Since
  <1>4. CASE Mi!Since[r.col] = s[2]
    <2> PICK j : j = IF r.col = "client_id" THEN r.job ELSE Mi!Null
      OBVIOUS
    <2>1. Mi!Down(s[2], r) = [of |-> "belonging", col |-> r.col, job |-> j,
                              app |-> Mi!Null, child |-> Mi!Null]
      BY <1>2, <1>3, <1>4 DEF Mi!DownBelonging
    <2>2. [of |-> "belonging", col |-> r.col, job |-> j, app |-> Mi!Null, child |-> Mi!Null]
            \in Mi!Belongings(s[1])
      BY <1>1, <1>3, <1>4 DEF Mi!Belongings
    <2>3. ~(Mi!Since[r.col] <= s[1])
      BY <1>1, <1>4
    <2> QED
      BY <2>1, <2>2, <2>3 DEF Sound
  <1>5. CASE Mi!Since[r.col] # s[2]
    <2>1. Mi!Down(s[2], r) = r /\ (Mi!Since[r.col] <= s[1] <=> Mi!Since[r.col] <= s[2])
      BY <1>1, <1>2, <1>3, <1>5 DEF Mi!DownBelonging
    <2>2. r \in Mi!Belongings(s[1])
      BY <2>1 DEF Mi!Belongings
    <2> QED
      BY <1>2, <2>1, <2>2 DEF Sound
  <1> QED
    BY <1>4, <1>5

\* A row of another table fits when the rollback promises it, and is none of
\* the tables above whether it fits or not.
LEMMA DownOfOthers ==
  ASSUME NEW s \in Mi!Steps, NEW r \in Plain(s[2])
  PROVE  /\ s[2] \notin Refusable => Mi!Down(s[2], r) \in Plain(s[1])
         /\ Sound(s[1], Mi!Down(s[2], r)) /\ Mi!Down(s[2], r).of # "candidate"
  <1>1. /\ s[1] \in Nat /\ s[2] \in Nat /\ s[1] < s[2]
        /\ \A b \in {9, 10, 13, 24, 26, 27, 34, 35} : b = s[2] \/ (b <= s[1] <=> b <= s[2])
    BY OneBorder DEF Borders
  <1>2. CASE r = Mi!Nothing
    <2>1. Mi!Down(s[2], r) = Mi!Nothing
      BY <1>2 DEF Mi!Down, Mi!Nothing
    <2> QED
      BY <2>1 DEF Plain, Sound, Mi!Nothing
  <1>3. CASE r \in Mi!Consents(s[2])
    <2>1. /\ r.of = "consent" /\ Mi!Down(s[2], r) = Mi!DownConsent(s[2], r)
          /\ r = [of |-> "consent", subject |-> r.subject, purpose |-> r.purpose]
      BY <1>3 DEF Mi!Consents, Mi!CandidateSubject, Mi!StudentSubject, Mi!RightToRepresent, Mi!Down
    <2>2. Sound(s[1], Mi!Down(s[2], r)) /\ Mi!Down(s[2], r).of # "candidate"
      BY <2>1 DEF Mi!DownConsent, Sound, Mi!Nothing
    <2>3. ASSUME s[2] \notin Refusable PROVE Mi!Down(s[2], r) \in Plain(s[1])
      <3>1. CASE s[2] = 24 /\ r.purpose = "rtr"
        BY <2>1, <3>1 DEF Mi!DownConsent, Plain
      <3>2. CASE s[2] = 24 /\ r.purpose # "rtr"
        <4>1. r.purpose = "data_processing" /\ (s[1] < 9 <=> s[2] < 9) /\ (s[1] < 34 <=> s[2] < 34)
          BY <1>1, <1>3, <3>2 DEF Mi!Consents, Mi!CandidateSubject, Mi!StudentSubject,
             Mi!RightToRepresent
        <4>2. r \in Mi!Consents(s[1])
          BY <1>3, <2>1, <4>1 DEF Mi!Consents, Mi!CandidateSubject, Mi!StudentSubject,
             Mi!RightToRepresent
        <4> QED
          BY <2>1, <3>2, <4>2 DEF Mi!DownConsent, Plain
      <3>3. CASE s[2] # 24
        <4>1. (s[1] < 9 <=> s[2] < 9) /\ (s[1] < 34 <=> s[2] < 34) /\ (s[1] < 24 <=> s[2] < 24)
          BY <1>1, <2>3, <3>3 DEF Refusable
        <4>2. r \in Mi!Consents(s[1])
          BY <1>3, <4>1 DEF Mi!Consents, Mi!CandidateSubject, Mi!StudentSubject, Mi!RightToRepresent
        <4> QED
          BY <2>1, <3>3, <4>2 DEF Mi!DownConsent, Plain
      <3> QED
        BY <3>1, <3>2, <3>3
    <2> QED
      BY <2>2, <2>3
  <1>4. CASE r \in Mi!Requests(s[2])
    <2>1. /\ r.of = "request" /\ Mi!Down(s[2], r) = Mi!DownRequest(s[2], r)
      BY <1>4 DEF Mi!Requests, Mi!LegalHold, Mi!EngineStates, Mi!Down
    <2>2. Sound(s[1], Mi!Down(s[2], r)) /\ Mi!Down(s[2], r).of # "candidate"
      BY <1>4, <2>1 DEF Mi!DownRequest, Sound, Mi!Requests, Mi!LegalHold, Mi!EngineStates
    <2>3. ASSUME s[2] \notin Refusable PROVE Mi!Down(s[2], r) \in Plain(s[1])
      <3>1. s[1] < 10 <=> s[2] < 10
        BY <1>1, <2>3 DEF Refusable
      <3>2. Mi!Requests(s[1]) = Mi!Requests(s[2])
        BY <3>1, Zenon DEF Mi!Requests, Mi!LegalHold, Mi!EngineStates
      <3> QED
        BY <1>4, <2>1, <2>3, <3>2 DEF Mi!DownRequest, Plain, Refusable
    <2> QED
      BY <2>2, <2>3
  <1>5. CASE r \in Mi!Interviews(s[2])
    <2>1. /\ r.of = "interview" /\ Mi!Down(s[2], r) = Mi!DownInterview(s[2], r) /\ ~(s[2] < 13)
          /\ r = [of |-> "interview", status |-> r.status]
      BY <1>5 DEF Mi!Interviews, Mi!Reproposed, Mi!Down
    <2>2. CASE s[2] = 13
      BY <2>1, <2>2 DEF Mi!DownInterview, Plain, Sound, Mi!Nothing
    <2>3. CASE s[2] # 13
      <3>1. ~(s[1] < 13) /\ (s[2] < 27 => s[1] < 27) /\ (s[2] # 27 => (s[1] < 27 <=> s[2] < 27))
            /\ (s[2] = 27 => s[1] < 27)
        BY <1>1, <2>1, <2>3
      <3>2. CASE s[2] = 27 /\ r.status = "rescheduled"
        <4>1. Mi!Down(s[2], r) = [of |-> "interview", status |-> "scheduled"]
          BY <2>1, <2>3, <3>2 DEF Mi!DownInterview
        <4> QED
          BY <3>1, <4>1 DEF Plain, Sound, Mi!Interviews, Mi!Reproposed
      <3>3. CASE ~(s[2] = 27 /\ r.status = "rescheduled")
        <4>1. Mi!Down(s[2], r) = r
          BY <2>1, <2>3, <3>3 DEF Mi!DownInterview
        <4>2. r \in Mi!Interviews(s[1])
          BY <1>5, <2>1, <3>1, <3>3 DEF Mi!Interviews, Mi!Reproposed
        <4> QED
          BY <2>1, <4>1, <4>2 DEF Plain, Sound
      <3> QED
        BY <3>2, <3>3
    <2> QED
      BY <2>2, <2>3
  <1>6. CASE r \in Mi!Tests(s[2])
    <2>1. /\ r.of = "test" /\ Mi!Down(s[2], r) = Mi!DownTest(s[2], r) /\ ~(s[2] < 26)
      BY <1>6 DEF Mi!Tests, Mi!AcademyPairing, Mi!Down
    <2>2. CASE s[2] = 26
      BY <2>1, <2>2 DEF Mi!DownTest, Plain, Sound, Mi!Nothing
    <2>3. CASE s[2] # 26
      <3>1. Mi!Down(s[2], r) = r /\ ~(s[1] < 26)
        BY <1>1, <2>1, <2>3 DEF Mi!DownTest
      <3>2. s[2] \notin Refusable => (s[1] < 35 <=> s[2] < 35)
        BY <1>1 DEF Refusable
      <3>3. s[2] \notin Refusable => r \in Mi!Tests(s[1])
        BY <1>6, <2>1, <3>1, <3>2 DEF Mi!Tests, Mi!AcademyPairing
      <3> QED
        BY <2>1, <3>1, <3>3 DEF Plain, Sound
    <2> QED
      BY <2>2, <2>3
  <1> QED
    BY <1>2, <1>3, <1>4, <1>5, <1>6 DEF Plain

-----------------------------------------------------------------------------
(* Steps.                                                                  *)

LEMMA UpFits ==
  ASSUME NEW s \in Mi!Steps, NEW r \in Mi!Rows(s[1]), Sound(s[1], r)
  PROVE  /\ Mi!Up(s[2], r) \in Mi!Rows(s[2]) /\ Sound(s[2], Mi!Up(s[2], r))
         /\ Mi!Up(s[2], r).of = r.of
         /\ s[2] # 7 /\ r.of = "candidate" => Mi!Up(s[2], r).enc = r.enc
         /\ r.of = "application" =>
              \A set \in Mi!Standings : r.stage \in set <=> Mi!Up(s[2], r).stage \in set
         /\ r.of \in {"request", "consent"} => Mi!Up(s[2], r) = r
  <1>1. CASE r \in Mi!Candidates(s[1])
    <2>1. Mi!Up(s[2], r) \in Mi!Candidates(s[2]) /\ Sound(s[2], Mi!Up(s[2], r))
      BY <1>1, UpOfCandidate
    <2>2. r.of = "candidate" /\ Mi!Up(s[2], r).of = "candidate"
      BY <1>1, <2>1 DEF Mi!Candidates, Mi!PlainColumn, Mi!SealedColumn
    <2>3. ASSUME s[2] # 7 PROVE Mi!Up(s[2], r).enc = r.enc
      BY <1>1, <2>2, <2>3 DEF Mi!Up, Mi!UpCandidate, Mi!Indexed, Mi!Candidates, Mi!PlainColumn,
         Mi!SealedColumn
    <2> QED
      BY <2>1, <2>2, <2>3 DEF Mi!Rows
  <1>2. CASE r \in Mi!Applications(s[1])
    <2>1. Mi!Up(s[2], r) \in Mi!Applications(s[2])
      BY <1>2, UpOfApplication
    <2>2. r.of = "application" /\ Mi!Up(s[2], r).of = "application"
      BY <1>2, <2>1 DEF Mi!Applications
    <2> QED
      BY <1>2, <2>1, <2>2, UpOfApplication DEF Mi!Rows, Sound
  <1>3. CASE r \in Mi!Belongings(s[1])
    <2>1. Mi!Up(s[2], r) \in Mi!Belongings(s[2]) /\ Sound(s[2], Mi!Up(s[2], r))
      BY <1>3, UpOfBelonging
    <2>2. r.of = "belonging" /\ Mi!Up(s[2], r).of = "belonging"
      BY <1>3, <2>1 DEF Mi!Belongings
    <2> QED
      BY <2>1, <2>2 DEF Mi!Rows
  <1>4. CASE r \in Plain(s[1])
    <2>1. r \in Plain(s[2]) /\ Mi!Up(s[2], r) = r /\ Sound(s[2], r)
      BY <1>4, UpOfOthers
    <2>2. r.of \notin {"candidate", "application"}
      <3>1. \A q \in Mi!Interviews(s[1]) \cup Mi!Tests(s[1]) : q.of \in {"interview", "test"}
        BY DEF Mi!Interviews, Mi!Reproposed, Mi!Tests, Mi!AcademyPairing
      <3>2. \A q \in Mi!Consents(s[1]) \cup Mi!Requests(s[1]) : q.of \in {"consent", "request"}
        BY DEF Mi!Consents, Mi!CandidateSubject, Mi!StudentSubject, Mi!RightToRepresent,
           Mi!Requests, Mi!LegalHold, Mi!EngineStates
      <3> QED
        BY <1>4, <3>1, <3>2 DEF Plain, Mi!Nothing
    <2>3. r \in Mi!Rows(s[2])
      BY <2>1 DEF Plain, Mi!Rows
    <2> QED
      BY <2>1, <2>2, <2>3
  <1> QED
    BY <1>1, <1>2, <1>3, <1>4 DEF Mi!Rows, Plain

LEMMA DownFits ==
  ASSUME NEW s \in Mi!Steps, NEW r \in Mi!Rows(s[2]), Sound(s[2], r)
  PROVE  /\ s[2] \notin Refusable => Mi!Down(s[2], r) \in Mi!Rows(s[1])
         /\ Sound(s[1], Mi!Down(s[2], r))
         /\ Mi!Down(s[2], r).of = "candidate" =>
              r.of = "candidate" /\ (s[2] # 6 => Mi!Down(s[2], r) = r)
         /\ r.of = "application" =>
              \A set \in Mi!Standings : r.stage \in set <=> Mi!Down(s[2], r).stage \in set
  <1>1. CASE r \in Mi!Candidates(s[2])
    <2>1. r.of = "candidate"
      BY <1>1 DEF Mi!Candidates, Mi!PlainColumn, Mi!SealedColumn
    <2> QED
      BY <1>1, <2>1, DownOfCandidate DEF Mi!Rows
  <1>2. CASE r \in Mi!Applications(s[2])
    <2>1. Mi!Down(s[2], r) \in Mi!Applications(s[1])
      BY <1>2, DownOfApplication
    <2>2. Mi!Down(s[2], r).of = "application"
      BY <2>1 DEF Mi!Applications
    <2> QED
      BY <1>2, <2>1, <2>2, DownOfApplication DEF Mi!Rows, Sound
  <1>3. CASE r \in Mi!Belongings(s[2])
    <2>1. Mi!Down(s[2], r) \in Mi!Belongings(s[1]) /\ Sound(s[1], Mi!Down(s[2], r))
      BY <1>3, DownOfBelonging
    <2>2. r.of = "belonging" /\ Mi!Down(s[2], r).of = "belonging"
      BY <1>3, <2>1 DEF Mi!Belongings
    <2> QED
      BY <2>1, <2>2 DEF Mi!Rows
  <1>4. CASE r \in Plain(s[2])
    <2>1. /\ s[2] \notin Refusable => Mi!Down(s[2], r) \in Plain(s[1])
          /\ Sound(s[1], Mi!Down(s[2], r)) /\ Mi!Down(s[2], r).of # "candidate"
      BY <1>4, DownOfOthers
    <2>2. r.of # "application"
      <3>1. \A q \in Mi!Interviews(s[2]) \cup Mi!Tests(s[2]) : q.of \in {"interview", "test"}
        BY DEF Mi!Interviews, Mi!Reproposed, Mi!Tests, Mi!AcademyPairing
      <3>2. \A q \in Mi!Consents(s[2]) \cup Mi!Requests(s[2]) : q.of \in {"consent", "request"}
        BY DEF Mi!Consents, Mi!CandidateSubject, Mi!StudentSubject, Mi!RightToRepresent,
           Mi!Requests, Mi!LegalHold, Mi!EngineStates
      <3> QED
        BY <1>4, <3>1, <3>2 DEF Plain, Mi!Nothing
    <2>3. Mi!Down(s[2], r) \in Plain(s[1]) => Mi!Down(s[2], r) \in Mi!Rows(s[1])
      BY DEF Plain, Mi!Rows
    <2> QED
      BY <2>1, <2>2, <2>3
  <1> QED
    BY <1>1, <1>2, <1>3, <1>4 DEF Mi!Rows, Plain

\* A row tells which table it is of.
LEMMA RequestsAlone ==
  ASSUME NEW k, NEW r \in Mi!Rows(k), r.of = "request"
  PROVE  r \in Mi!Requests(k)
  <1>1. \A q \in Mi!Interviews(k) \cup Mi!Tests(k) : q.of \in {"interview", "test"}
    BY DEF Mi!Interviews, Mi!Reproposed, Mi!Tests, Mi!AcademyPairing
  <1>2. \A q \in Mi!Candidates(k) : q.of = "candidate"
    BY DEF Mi!Candidates, Mi!PlainColumn, Mi!SealedColumn
  <1>3. \A q \in Mi!Applications(k) : q.of = "application"
    BY DEF Mi!Applications
  <1>4. \A q \in Mi!Belongings(k) : q.of = "belonging"
    BY DEF Mi!Belongings
  <1>5. \A q \in Mi!Consents(k) : q.of = "consent"
    BY DEF Mi!Consents, Mi!CandidateSubject, Mi!StudentSubject, Mi!RightToRepresent
  <1> QED
    BY <1>1, <1>2, <1>3, <1>4, <1>5 DEF Mi!Rows, Mi!Nothing

LEMMA CandidatesAlone ==
  ASSUME NEW k, NEW r \in Mi!Rows(k), r.of = "candidate"
  PROVE  r \in Mi!Candidates(k)
  <1>1. \A q \in Mi!Interviews(k) \cup Mi!Tests(k) : q.of \in {"interview", "test"}
    BY DEF Mi!Interviews, Mi!Reproposed, Mi!Tests, Mi!AcademyPairing
  <1>2. \A q \in Mi!Requests(k) : q.of = "request"
    BY DEF Mi!Requests, Mi!LegalHold, Mi!EngineStates
  <1>3. \A q \in Mi!Applications(k) : q.of = "application"
    BY DEF Mi!Applications
  <1>4. \A q \in Mi!Belongings(k) : q.of = "belonging"
    BY DEF Mi!Belongings
  <1>5. \A q \in Mi!Consents(k) : q.of = "consent"
    BY DEF Mi!Consents, Mi!CandidateSubject, Mi!StudentSubject, Mi!RightToRepresent
  <1> QED
    BY <1>1, <1>2, <1>3, <1>4, <1>5 DEF Mi!Rows, Mi!Nothing

SchemaInv == /\ Mi!MigrationsTypeOK
             /\ Mi!TemplatesSeeded
             /\ \A i \in Slot : Sound(at, row[i])

LEMMA SchemaStart ==
  ASSUME Mi!Init
  PROVE  SchemaInv
  <1>1. at = 5 /\ at \in Mi!Revisions /\ sealing = FALSE /\ templates = {}
    BY DEF Mi!Init, Mi!Revisions, Mi!Steps
  <1>2. \A i \in Slot : row[i] = Mi!Nothing /\ row[i] \in Mi!Rows(at) /\ Sound(at, row[i])
    BY DEF Mi!Init, Mi!Rows, Mi!Nothing, Sound
  <1>3. row \in [Slot -> Mi!Rows(at)] /\ Mi!Apart(at, row)
    BY <1>1, <1>2 DEF Mi!Init, Mi!Apart
  <1>4. \A s \in Mi!Steps : ~(s[2] <= at)
    BY <1>1 DEF Mi!Steps
  <1> QED
    BY <1>1, <1>2, <1>3, <1>4 DEF SchemaInv, Mi!MigrationsTypeOK, Mi!TemplatesSeeded

\* What the next upgrade and the next rollback leave of the rows.
LEMMA UpgradeFits ==
  ASSUME SchemaInv, NEW s \in Mi!Steps, at = s[1]
  PROVE  /\ \A i \in Slot : Mi!Upgraded(s[2])[i] \in Mi!Rows(s[2])
                           /\ Sound(s[2], Mi!Upgraded(s[2])[i])
         /\ s[2] # 7 => Mi!Accepted(s[2], Mi!Upgraded(s[2]))
  <1>1. \A i \in Slot : row[i] \in Mi!Rows(s[1]) /\ Sound(s[1], row[i])
                      /\ Mi!Upgraded(s[2])[i] = Mi!Up(s[2], row[i])
    BY DEF SchemaInv, Mi!MigrationsTypeOK, Mi!Upgraded
  <1>2. \A i \in Slot : Mi!Upgraded(s[2])[i] \in Mi!Rows(s[2])
                      /\ Sound(s[2], Mi!Upgraded(s[2])[i])
    BY <1>1, UpFits
  <1>3. ASSUME s[2] # 7 PROVE Mi!Apart(s[2], Mi!Upgraded(s[2]))
    <2>1. s[2] >= 7 => s[1] >= 7
      BY <1>3, OneBorder DEF Borders
    <2>2. \A i \in Slot : Mi!Upgraded(s[2])[i].of = "candidate" =>
            row[i].of = "candidate" /\ Mi!Upgraded(s[2])[i].enc = row[i].enc
      BY <1>1, <1>3, UpFits
    <2>3. Mi!Apart(s[1], row)
      BY DEF SchemaInv, Mi!MigrationsTypeOK
    <2> QED
      BY <2>1, <2>2, <2>3 DEF Mi!Apart
  <1> QED
    BY <1>2, <1>3 DEF Mi!Accepted

LEMMA RollbackFits ==
  ASSUME SchemaInv, NEW s \in Mi!Steps, at = s[2]
  PROVE  /\ \A i \in Slot : Sound(s[1], Mi!Downgraded(s[2])[i])
         /\ s[2] \notin Refusable => Mi!Accepted(s[1], Mi!Downgraded(s[2]))
  <1>1. \A i \in Slot : row[i] \in Mi!Rows(s[2]) /\ Sound(s[2], row[i])
                      /\ Mi!Downgraded(s[2])[i] = Mi!Down(s[2], row[i])
    BY DEF SchemaInv, Mi!MigrationsTypeOK, Mi!Downgraded
  <1>2. \A i \in Slot : Sound(s[1], Mi!Downgraded(s[2])[i])
    BY <1>1, DownFits
  <1>3. s[2] \notin Refusable => \A i \in Slot : Mi!Downgraded(s[2])[i] \in Mi!Rows(s[1])
    BY <1>1, DownFits
  <1>4. Mi!Apart(s[1], Mi!Downgraded(s[2]))
    <2>1. s[1] >= 7 => s[2] >= 7 /\ s[2] # 6
      BY OneBorder
    <2>2. s[2] # 6 => \A i \in Slot : Mi!Downgraded(s[2])[i].of = "candidate" =>
            Mi!Downgraded(s[2])[i] = row[i]
      BY <1>1, DownFits
    <2>3. Mi!Apart(s[2], row)
      BY DEF SchemaInv, Mi!MigrationsTypeOK
    <2> QED
      BY <2>1, <2>2, <2>3 DEF Mi!Apart
  <1> QED
    BY <1>2, <1>3, <1>4 DEF Mi!Accepted

LEMMA SchemaKept ==
  ASSUME SchemaInv
  PROVE  Mi!MigrationsKept
  <1>1. Mi!NumbersKept /\ Mi!SearchTells /\ Mi!Rederived
    BY DEF SchemaInv, Sound, Mi!NumbersKept, Mi!SearchTells, Mi!Rederived
  <1>2. Mi!UpgradesFit
    BY UpgradeFits DEF Mi!UpgradesFit
  <1>3. Mi!RollbacksFit
    BY RollbackFits DEF Mi!RollbacksFit, Refusable
  <1> QED
    BY <1>1, <1>2, <1>3 DEF SchemaInv, Mi!MigrationsKept

LEMMA UpgradeKeeps ==
  ASSUME SchemaInv, NEW s \in Mi!Steps, Mi!Upgrade(s)
  PROVE  SchemaInv' /\ Mi!StandingKept
  <1>1. /\ at = s[1] /\ at' = s[2] /\ row' = Mi!Upgraded(s[2]) /\ sealing' = sealing
        /\ Mi!Accepted(s[2], row') /\ templates' = Mi!Seeded(s[2])
    BY DEF Mi!Upgrade
  <1>2. Mi!MigrationsTypeOK'
    <2>1. at' \in Mi!Revisions
      BY <1>1 DEF Mi!Revisions
    <2>2. row' \in [Slot -> Mi!Rows(at')] /\ Mi!Apart(at', row')
      BY <1>1 DEF Mi!Accepted, Mi!Upgraded
    <2>3. templates' \subseteq Mi!Seeds
      BY <1>1 DEF Mi!Seeded, SchemaInv, Mi!MigrationsTypeOK
    <2> QED
      BY <1>1, <2>1, <2>2, <2>3 DEF SchemaInv, Mi!MigrationsTypeOK
  <1>3. Mi!TemplatesSeeded'
    <2> SUFFICES ASSUME NEW t \in Mi!Steps, t[2] <= s[2]
                 PROVE  Mi!Unseeded(t[2]) \subseteq templates'
      BY <1>1 DEF Mi!TemplatesSeeded
    <2>1. Mi!Unseeded(t[2]) \subseteq Mi!Seeds
      BY DEF Mi!Unseeded, Mi!Seeds
    <2>2. CASE s[2] \in Mi!Seeding
      BY <1>1, <2>1, <2>2 DEF Mi!Seeded
    <2>3. CASE s[2] \notin Mi!Seeding
      <3>1. t[2] <= s[1] \/ t[2] = s[2]
        BY OneBorder
      <3>2. t[2] = s[2] => Mi!Unseeded(t[2]) = {}
        BY <2>3 DEF Mi!Seeding, Mi!Unseeded
      <3>3. t[2] <= s[1] => Mi!Unseeded(t[2]) \subseteq templates
        BY <1>1 DEF SchemaInv, Mi!TemplatesSeeded
      <3> QED
        BY <1>1, <2>3, <3>1, <3>2, <3>3 DEF Mi!Seeded
    <2> QED
      BY <2>2, <2>3
  <1>4. \A i \in Slot : Sound(at', row'[i])
    BY <1>1, UpgradeFits
  <1>5. Mi!StandingKept
    <2>1. \A i \in Slot : /\ row[i] \in Mi!Rows(s[1]) /\ Sound(s[1], row[i])
                         /\ row'[i] = Mi!Up(s[2], row[i])
      BY <1>1 DEF SchemaInv, Mi!MigrationsTypeOK, Mi!Upgraded
    <2> QED
      BY <2>1, UpFits DEF Mi!StandingKept
  <1> QED
    BY <1>2, <1>3, <1>4, <1>5 DEF SchemaInv

LEMMA DowngradeKeeps ==
  ASSUME SchemaInv, NEW s \in Mi!Steps, Mi!Downgrade(s)
  PROVE  SchemaInv' /\ Mi!StandingKept
  <1>1. /\ at = s[2] /\ at' = s[1] /\ row' = Mi!Downgraded(s[2]) /\ sealing' = sealing
        /\ Mi!Accepted(s[1], row') /\ templates' = templates \ Mi!Unseeded(s[2])
    BY DEF Mi!Downgrade
  <1>2. Mi!MigrationsTypeOK'
    <2>1. at' \in Mi!Revisions
      BY <1>1 DEF Mi!Revisions
    <2>2. row' \in [Slot -> Mi!Rows(at')] /\ Mi!Apart(at', row')
      BY <1>1 DEF Mi!Accepted, Mi!Downgraded
    <2>3. templates' \subseteq Mi!Seeds
      BY <1>1 DEF SchemaInv, Mi!MigrationsTypeOK
    <2> QED
      BY <1>1, <2>1, <2>2, <2>3 DEF SchemaInv, Mi!MigrationsTypeOK
  <1>3. Mi!TemplatesSeeded'
    <2> SUFFICES ASSUME NEW t \in Mi!Steps, t[2] <= s[1]
                 PROVE  Mi!Unseeded(t[2]) \subseteq templates'
      BY <1>1 DEF Mi!TemplatesSeeded
    <2>1. t[2] # s[2] /\ t[2] <= at
      BY <1>1, OneBorder
    <2>2. Mi!Unseeded(t[2]) \cap Mi!Unseeded(s[2]) = {}
      BY <2>1 DEF Mi!Unseeded
    <2>3. Mi!Unseeded(t[2]) \subseteq templates
      BY <2>1 DEF SchemaInv, Mi!TemplatesSeeded
    <2> QED
      BY <1>1, <2>2, <2>3
  <1>4. \A i \in Slot : Sound(at', row'[i])
    BY <1>1, RollbackFits
  <1>5. Mi!StandingKept
    <2> SUFFICES ASSUME NEW i \in Slot
                 PROVE  /\ row[i].of = "application" =>
                             \A set \in Mi!Standings : row[i].stage \in set <=> row'[i].stage \in set
                        /\ row[i].of = "request" /\ row[i].status = "legal_hold" => row'[i] = row[i]
                        /\ row[i].of = "consent" /\ row[i].purpose # "rtr" => row'[i] = row[i]
      BY DEF Mi!StandingKept
    <2>1. /\ row[i] \in Mi!Rows(s[2]) /\ Sound(s[2], row[i])
          /\ row'[i] = Mi!Down(s[2], row[i]) /\ row'[i] \in Mi!Rows(s[1])
      BY <1>1 DEF SchemaInv, Mi!MigrationsTypeOK, Mi!Downgraded, Mi!Accepted
    <2>2. row[i].of = "application" =>
            \A set \in Mi!Standings : row[i].stage \in set <=> row'[i].stage \in set
      BY <2>1, DownFits
    <2>3. row[i].of = "consent" /\ row[i].purpose # "rtr" => row'[i] = row[i]
      BY <2>1 DEF Mi!Down, Mi!DownConsent
    <2>4. ASSUME row[i].of = "request", row[i].status = "legal_hold", s[2] = 10
          PROVE  FALSE
      <3>1. s[1] < 10
        BY <2>4, OneBorder
      <3>2. row[i] \in Mi!Requests(s[2])
        BY <2>1, <2>4, RequestsAlone
      <3>3. row'[i].of = "request" /\ row'[i].status = "legal_hold"
        BY <2>1, <2>4, <3>2 DEF Mi!Down, Mi!DownRequest, Mi!Requests, Mi!LegalHold, Mi!EngineStates
      <3>4. row'[i] \in Mi!Requests(s[1])
        BY <2>1, <3>3, RequestsAlone
      <3> QED
        BY <3>1, <3>3, <3>4 DEF Mi!Requests, Mi!LegalHold, Mi!EngineStates
    <2>5. row[i].of = "request" /\ s[2] # 10 => row'[i] = row[i]
      BY <2>1 DEF Mi!Down, Mi!DownRequest
    <2> QED
      BY <2>2, <2>3, <2>4, <2>5
  <1> QED
    BY <1>2, <1>3, <1>4, <1>5 DEF SchemaInv

\* A row of the present revision, once it is sound.
LEMMA PutKeeps ==
  ASSUME SchemaInv, NEW i \in Slot, NEW r, Mi!Put(i, r), Sound(at, r)
  PROVE  SchemaInv'
  <1>1. /\ row' = [row EXCEPT ![i] = r] /\ at' = at /\ sealing' = sealing
        /\ templates' = templates /\ Mi!Accepted(at, row')
    BY DEF Mi!Put
  <1>2. \A j \in Slot : row'[j] = IF j = i THEN r ELSE row[j]
    BY <1>1 DEF SchemaInv, Mi!MigrationsTypeOK
  <1>3. row' \in [Slot -> Mi!Rows(at')] /\ Mi!Apart(at', row')
    BY <1>1 DEF SchemaInv, Mi!MigrationsTypeOK, Mi!Accepted
  <1>4. \A j \in Slot : Sound(at', row'[j])
    BY <1>1, <1>2 DEF SchemaInv
  <1> QED
    BY <1>1, <1>3, <1>4 DEF SchemaInv, Mi!MigrationsTypeOK, Mi!TemplatesSeeded

LEMMA InsertCandidateKeeps ==
  ASSUME SchemaInv, NEW i \in Slot, NEW n \in Number \cup {Mi!Null}, Mi!InsertCandidate(i, n)
  PROVE  SchemaInv'
  <1> PICK late : late = (at >= 7 /\ ~sealing /\ n # Mi!Null)
    OBVIOUS
  <1>1. PICK q : q = [of |-> "candidate", given |-> n, late |-> late,
                      phone |-> IF sealing THEN Mi!Null ELSE n,
                      enc |-> IF sealing THEN n ELSE Mi!Null, gone |-> FALSE, doc |-> "none"]
    OBVIOUS
  <1>2. Mi!Put(i, Mi!Refreshed(q))
    BY <1>1, Zenon DEF Mi!InsertCandidate
  <1>3. at \in Nat /\ sealing \in BOOLEAN
    BY RevisionsAreNumbers DEF SchemaInv, Mi!MigrationsTypeOK
  <1>4. /\ q.of = "candidate" /\ q.given = n /\ q.gone = FALSE
        /\ q.phone \in {Mi!Null, n} /\ q.enc \in {Mi!Null, n}
        /\ q.enc = n \/ q.late \/ (at < 7 /\ q.phone = n)
    <2>1. /\ q.of = "candidate" /\ q.given = n /\ q.gone = FALSE /\ q.late = late
          /\ q.phone = (IF sealing THEN Mi!Null ELSE n)
          /\ q.enc = (IF sealing THEN n ELSE Mi!Null)
      BY <1>1
    <2>2. at < 7 \/ at >= 7
      BY <1>3
    <2>3. late \/ sealing \/ at < 7 \/ n = Mi!Null
      BY <2>2, Zenon
    <2> QED
      BY <2>1, <2>3
  <1>5. Mi!Refreshed(q) = IF at >= 23 THEN [q EXCEPT !.doc = "present"] ELSE q
    BY <1>1 DEF Mi!Refreshed, Mi!Indexed
  <1>6. Sound(at, Mi!Refreshed(q))
    <2>1. CASE at >= 23
      <3>1. Mi!Refreshed(q) = [of |-> "candidate", given |-> n, late |-> q.late,
                               phone |-> q.phone, enc |-> q.enc, gone |-> FALSE,
                               doc |-> "present"]
        BY <1>1, <1>5, <2>1
      <3> QED
        BY <1>4, <2>1, <3>1 DEF Sound
    <2>2. CASE ~(at >= 23)
      BY <1>4, <1>5, <2>2 DEF Sound
    <2> QED
      BY <2>1, <2>2
  <1> QED
    BY <1>2, <1>6, PutKeeps

LEMMA UpdateCandidateKeeps ==
  ASSUME SchemaInv, NEW i \in Slot, NEW deleted \in BOOLEAN, Mi!UpdateCandidate(i, deleted)
  PROVE  SchemaInv'
  <1> PICK q : q = [row[i] EXCEPT !.gone = deleted]
    OBVIOUS
  <1>1. Mi!Put(i, Mi!Refreshed(q)) /\ row[i].of = "candidate" /\ Sound(at, row[i])
    BY DEF Mi!UpdateCandidate, SchemaInv
  <1>2. row[i] \in Mi!Candidates(at)
    BY <1>1, CandidatesAlone DEF SchemaInv, Mi!MigrationsTypeOK
  <1>3. /\ q.of = "candidate" /\ q.gone = deleted /\ q.given = row[i].given /\ q.late = row[i].late
        /\ q.phone = row[i].phone /\ q.enc = row[i].enc
        /\ q \in [of : {"candidate"}, given : Number \cup {Mi!Null}, late : BOOLEAN,
                 phone : Number \cup {Mi!Null}, enc : Number \cup {Mi!Null},
                 gone : BOOLEAN, doc : {"none", "former", "present"}]
    BY <1>2 DEF Mi!Candidates, Mi!PlainColumn, Mi!SealedColumn
  <1> PICK u : u = Mi!Refreshed(q)
    OBVIOUS
  <1>4. CASE at >= 23
    <2>1. Mi!Refreshed(q) = [q EXCEPT !.doc = IF deleted THEN "none" ELSE "present"]
      BY <1>3, <1>4 DEF Mi!Refreshed, Mi!Indexed
    <2>2. /\ u.of = "candidate" /\ u.gone = deleted /\ u.given = row[i].given
          /\ u.late = row[i].late /\ u.phone = row[i].phone /\ u.enc = row[i].enc
          /\ u.doc = IF deleted THEN "none" ELSE "present"
      BY <1>3, <2>1
    <2>3. Sound(at, u)
      BY <1>1, <2>2 DEF Sound
    <2> QED
      BY <1>1, <2>3, PutKeeps
  <1>5. CASE ~(at >= 23)
    <2>1. Mi!Refreshed(q) = q \/ Mi!Refreshed(q) = [q EXCEPT !.doc = "former"]
      BY <1>5 DEF Mi!Refreshed
    <2>2. /\ u.of = "candidate" /\ u.gone = deleted /\ u.given = row[i].given
          /\ u.late = row[i].late /\ u.phone = row[i].phone /\ u.enc = row[i].enc
      BY <1>3, <2>1
    <2>3. Sound(at, u)
      BY <1>1, <1>5, <2>2 DEF Sound
    <2> QED
      BY <1>1, <2>3, PutKeeps
  <1> QED
    BY <1>4, <1>5

LEMMA SchemaStep ==
  ASSUME SchemaInv, [Mi!Next]_(Mi!vars)
  PROVE  SchemaInv' /\ Mi!StandingKept
  <1>1. CASE UNCHANGED Mi!vars
    BY <1>1 DEF Mi!vars, SchemaInv, Mi!MigrationsTypeOK, Mi!TemplatesSeeded, Mi!StandingKept
  <1>2. ASSUME NEW s \in Mi!Steps, Mi!Upgrade(s) \/ Mi!Downgrade(s)
        PROVE  SchemaInv' /\ Mi!StandingKept
    BY <1>2, UpgradeKeeps, DowngradeKeeps
  <1>3. CASE Mi!CutOver \/ Mi!RollBackRelease
    BY <1>3 DEF Mi!CutOver, Mi!RollBackRelease, SchemaInv, Mi!MigrationsTypeOK,
                Mi!TemplatesSeeded, Mi!StandingKept
  <1>4. ASSUME NEW i \in Slot, NEW n \in Number \cup {Mi!Null}, Mi!InsertCandidate(i, n)
        PROVE  SchemaInv' /\ Mi!StandingKept
    BY <1>4, InsertCandidateKeeps DEF Mi!InsertCandidate, Mi!Put, Mi!StandingKept
  <1>5. ASSUME NEW i \in Slot, NEW deleted \in BOOLEAN, Mi!UpdateCandidate(i, deleted)
        PROVE  SchemaInv' /\ Mi!StandingKept
    BY <1>5, UpdateCandidateKeeps DEF Mi!UpdateCandidate, Mi!Put, Mi!StandingKept
  <1>6. ASSUME NEW i \in Slot, NEW r \in Mi!Rows(at), Mi!Insert(i, r)
        PROVE  SchemaInv' /\ Mi!StandingKept
    <2>1. Sound(at, r) /\ Mi!Put(i, r)
      BY <1>6 DEF Mi!Insert, Mi!Filed, Sound
    <2> QED
      BY <2>1, PutKeeps DEF Mi!Put, Mi!StandingKept
  <1> QED
    BY <1>1, <1>2, <1>3, <1>4, <1>5, <1>6 DEF Mi!Next

-----------------------------------------------------------------------------
(* The three together.                                                     *)

\* Every step is one of the part that runs.
LEMMA StepsOfAPart ==
  ASSUME [AnyNext]_allVars
  PROVE  /\ part' = part
         /\ part = "enrollment" => [Next]_vars
         /\ part = "vendors" => [Ve!Next]_(Ve!vars)
         /\ part = "migrations" => [Mi!Next]_(Mi!vars)
  <1>1. CASE UNCHANGED allVars
    BY <1>1 DEF allVars, vars, Ve!vars, Mi!vars
  <1>2. CASE part = "enrollment" /\ Next /\ UNCHANGED RestOfEnrollment
    BY <1>2 DEF RestOfEnrollment
  <1>3. CASE part = "vendors" /\ Ve!Next /\ UNCHANGED RestOfVendors
    BY <1>3 DEF RestOfVendors
  <1>4. CASE part = "migrations" /\ Mi!Next /\ UNCHANGED RestOfMigrations
    BY <1>4 DEF RestOfMigrations
  <1> QED
    BY <1>1, <1>2, <1>3, <1>4 DEF AnyNext

AnyInv == /\ part = "enrollment" => IInv
          /\ part = "vendors" => DuesInv
          /\ part = "migrations" => SchemaInv

LEMMA AnyStart ==
  ASSUME AnyInit
  PROVE  AnyInv
  BY Start, DuesStart, SchemaStart DEF AnyInit, AnyInv

LEMMA AnyStep ==
  ASSUME DaysAndClients, AnyInv, [AnyNext]_allVars
  PROVE  /\ AnyInv'
         /\ part = "vendors" => Ve!SpecificRate
         /\ part = "migrations" => Mi!StandingKept
  <1>1. ASSUME part = "enrollment" PROVE IInv'
    BY <1>1, StepsOfAPart, Invariance DEF AnyInv
  <1>2. ASSUME part = "vendors" PROVE DuesInv' /\ Ve!SpecificRate
    BY <1>2, StepsOfAPart, DuesStep DEF AnyInv
  <1>3. ASSUME part = "migrations" PROVE SchemaInv' /\ Mi!StandingKept
    BY <1>3, StepsOfAPart, SchemaStep DEF AnyInv
  <1> QED
    BY <1>1, <1>2, <1>3, StepsOfAPart DEF AnyInv

\* academy.py:640-728, academy_transitions.py:27-76: with any number of requests
\* whoever is or was let into a course paid or was waived, nobody pays or is let
\* in unpriced, and a paid enrollment is backed by a payment with its receipt.
THEOREM EnrollmentsHold ==
  AnySpec => []EnrollmentsKept
  <1> DEFINE Inv == part = "enrollment" => IInv
  <1>1. AnyInit => Inv
    BY Start DEF AnyInit
  <1>2. Inv /\ [AnyNext]_allVars => Inv'
    BY StepsOfAPart, Invariance
  <1>3. Inv => EnrollmentsKept
    BY DEF IInv, Tables, EnrollmentsKept
  <1> QED
    BY <1>1, <1>2, <1>3, PTL DEF AnySpec

\* vendor_mgmt.py:48-78, 183-254: with any vendors, contracts and merges, and
\* however accruals overlap with them, whoever is owed a commission submitted the
\* candidate, at a percent of a contract in force at the joining when it is one's.
THEOREM CommissionsHold ==
  ASSUME DaysAndClients
  PROVE  AnySpec => []CommissionsKept
  <1>1. AnyInit => AnyInv
    BY AnyStart
  <1>2. AnyInv /\ [AnyNext]_allVars => AnyInv'
    BY AnyStep
  <1>3. AnyInv => CommissionsKept
    BY DEF AnyInv, DuesInv, DuesTables, CommissionsKept, Ve!CommissionsKept
  <1> QED
    BY <1>1, <1>2, <1>3, PTL DEF AnySpec

\* alembic/versions: of any rows written under the revisions, none stops the
\* next upgrade or a rollback that promises to be possible, no number is lost, a
\* search finds what rows say now, and none names another than its job does.
THEOREM MigrationsHold ==
  AnySpec => []MigrationsKept
  <1> DEFINE Inv == part = "migrations" => SchemaInv
  <1>1. AnyInit => Inv
    BY SchemaStart DEF AnyInit
  <1>2. Inv /\ [AnyNext]_allVars => Inv'
    BY StepsOfAPart, SchemaStep
  <1>3. Inv => MigrationsKept
    BY SchemaKept DEF MigrationsKept
  <1> QED
    BY <1>1, <1>2, <1>3, PTL DEF AnySpec

\* vendor_mgmt.py:3-6: with any vendors, contracts and rates, an accrual takes a
\* client's rate where there is one, and else the latest contract in force.
\* 0010, 0024: a migrated application stands as it did, and holds hold.
THEOREM DuesStepsHold ==
  ASSUME DaysAndClients
  PROVE  AnySpec => DuesSteps
  <1>1. AnyInit => AnyInv
    BY AnyStart
  <1>2. AnyInv /\ [AnyNext]_allVars => 
           /\ AnyInv'
           /\ part = "vendors" => Ve!SpecificRate
           /\ part = "migrations" => Mi!StandingKept
    BY AnyStep
  <1> QED
    BY <1>1, <1>2, PTL DEF AnySpec, DuesSteps
=============================================================================
