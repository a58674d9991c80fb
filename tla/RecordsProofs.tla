---------------------------- MODULE RecordsProofs ---------------------------
(***************************************************************************)
(* Theorems about the parts of MCRecords, for any values of its constants  *)
(* but where an assumption says so.  The parts share no state, so each     *)
(* invariant speaks of one part while that part runs.                      *)
(*                                                                         *)
(* Offers: a date of joining and one of acceptance stay once they are      *)
(* there, so what a request loaded of them still holds when it commits.    *)
(* Invoices: an UPDATE writes the columns that differ from the loaded row; *)
(* where a base tells its rates apart by their amounts, it writes a rate   *)
(* and its amount together or neither.                                     *)
(* Replay: outside the excused slots one request is in flight at a time,   *)
(* and a row that was made is the answer kept or about to be.              *)
(* Queue: a sweep's loaded count is below the calls made for the row, by   *)
(* one more for each row it has tried, and calls only grow.                *)
(* Erasure: what a request knows of the subject is erased with him or was  *)
(* never his; an object that is gone cannot come back.                     *)
(* Paper: a shuffle of finitely many options reaches every one of them,    *)
(* and even shares are no more questions than the paper has places.        *)
(***************************************************************************)
EXTENDS MCRecords, Integers, FiniteSetTheorems, SequenceTheorems, TLAPS

-----------------------------------------------------------------------------
(* Offers.                                                                 *)

DatesApart == Of!Null \notin Date

OfferRow == [status : Of!OfferStatuses, joining : Date \cup {Of!Null}, accepted : BOOLEAN]

\* What a request loaded and wants, and what of it stays true.
OfferLoaded(w) ==
  LET r == req[w] IN
  /\ r.op = "offer" =>
       /\ r.seen \in OfferRow /\ r.wanted \in OfferRow
       /\ r.seen.accepted => r.wanted.accepted /\ offer.accepted
       /\ r.wanted.status = "accepted" => r.wanted.accepted
       /\ r.seen.joining # Of!Null => offer.joining # Of!Null
       /\ r.seen.joining # Of!Null \/ r.by = "release" => r.wanted.joining # Of!Null
  /\ r.op = "submission" => r.seen \in Of!SubmissionStatuses /\ r.wanted \in Of!SubmissionStatuses

OffersInv ==
  /\ Of!OffersTypeOK
  /\ req = [w \in Worker |-> req[w]]
  /\ \A w \in Worker : OfferLoaded(w)
  /\ Of!AcceptedIsDated

\* A date of joining and one of acceptance stay.
OfferGrows == /\ offer.accepted => offer'.accepted
              /\ offer.joining # Of!Null => offer'.joining # Of!Null

LEMMA OfferStaysLoaded ==
  ASSUME OfferGrows, NEW w \in Worker, OfferLoaded(w), req'[w] = req[w]
  PROVE  OfferLoaded(w)'
  BY DEF OfferGrows, OfferLoaded

LEMMA OfferFinishes ==
  ASSUME OffersInv, OfferGrows, NEW w \in Worker, Of!Finish(w)
  PROVE  /\ req' = [v \in Worker |-> req'[v]]
         /\ \A v \in Worker : OfferLoaded(v)'
  <1>1. req' = [v \in Worker |-> IF v = w THEN Of!Idle ELSE req[v]]
    BY DEF OffersInv, Of!Finish
  <1>2. OfferLoaded(w)'
    BY <1>1 DEF OfferLoaded, Of!Idle
  <1>3. \A v \in Worker \ {w} : OfferLoaded(v)'
    BY <1>1, OfferStaysLoaded DEF OffersInv
  <1> QED
    BY <1>1, <1>2, <1>3

LEMMA OfferBegins ==
  ASSUME OffersInv, NEW w \in Worker, NEW r, Of!Begin(w, r),
         r.op \in {"offer", "submission"},
         r.op = "offer" =>
           /\ r.seen = offer /\ r.wanted \in OfferRow
           /\ r.seen.accepted => r.wanted.accepted
           /\ r.wanted.status = "accepted" => r.wanted.accepted
           /\ r.seen.joining # Of!Null \/ r.by = "release" => r.wanted.joining # Of!Null,
         r.op = "submission" => r.seen \in Of!SubmissionStatuses /\ r.wanted \in Of!SubmissionStatuses
  PROVE  OffersInv'
  <1>1. /\ req' = [v \in Worker |-> IF v = w THEN r ELSE req[v]]
        /\ UNCHANGED <<offer, submission>>
    BY DEF Of!Begin, OffersInv
  <1>2. OfferLoaded(w)'
    BY <1>1 DEF OfferLoaded, OffersInv, Of!OffersTypeOK, OfferRow
  <1>3. \A v \in Worker \ {w} : OfferLoaded(v)'
    BY <1>1, OfferStaysLoaded DEF OffersInv, OfferGrows
  <1> QED
    BY <1>1, <1>2, <1>3 DEF OffersInv, Of!OffersTypeOK, Of!AcceptedIsDated

\* The UPDATE of an offer.
LEMMA OfferCommits ==
  ASSUME DatesApart, OffersInv, NEW w \in Worker, Of!CommitOffer(w)
  PROVE  OffersInv' /\ (req[w].by = "release" => offer'.joining # Of!Null)
  <1> PICK r : r = req[w]
    OBVIOUS
  <1>1. /\ r.op = "offer"
        /\ offer' = [f \in DOMAIN offer |-> Of!Column(offer[f], r.seen[f], r.wanted[f])]
        /\ Of!Finish(w)
        /\ submission' = submission
    BY DEF Of!CommitOffer
  <1>2. offer \in OfferRow
    BY DEF OffersInv, Of!OffersTypeOK, OfferRow
  <1>3. /\ r.seen \in OfferRow /\ r.wanted \in OfferRow
        /\ r.seen.accepted => r.wanted.accepted /\ offer.accepted
        /\ r.wanted.status = "accepted" => r.wanted.accepted
        /\ r.seen.joining # Of!Null => offer.joining # Of!Null
        /\ r.seen.joining # Of!Null \/ r.by = "release" => r.wanted.joining # Of!Null
    BY <1>1 DEF OffersInv, OfferLoaded
  <1>4. DOMAIN offer = {"status", "joining", "accepted"}
    BY <1>2 DEF OfferRow
  <1>5. /\ offer'.status = Of!Column(offer.status, r.seen.status, r.wanted.status)
        /\ offer'.joining = Of!Column(offer.joining, r.seen.joining, r.wanted.joining)
        /\ offer'.accepted = Of!Column(offer.accepted, r.seen.accepted, r.wanted.accepted)
    BY <1>1, <1>4
  <1>6. offer' = [status |-> offer'.status, joining |-> offer'.joining, accepted |-> offer'.accepted]
    BY <1>1, <1>4
  <1>7. /\ offer.status \in Of!OfferStatuses /\ r.wanted.status \in Of!OfferStatuses
        /\ offer.joining \in Date \cup {Of!Null} /\ r.wanted.joining \in Date \cup {Of!Null}
        /\ offer.accepted \in BOOLEAN /\ r.wanted.accepted \in BOOLEAN /\ r.seen.accepted \in BOOLEAN
    BY <1>2, <1>3 DEF OfferRow
  <1>8. offer'.status \in Of!OfferStatuses /\ offer'.joining \in Date \cup {Of!Null}
    BY <1>5, <1>7 DEF Of!Column
  <1>9. offer'.accepted \in BOOLEAN
    BY <1>5, <1>7, Zenon DEF Of!Column
  <1>10. offer' \in OfferRow
    BY <1>6, <1>8, <1>9 DEF OfferRow
  <1>11. offer.joining # Of!Null => offer'.joining # Of!Null
    BY <1>3, <1>5, <1>7 DEF Of!Column
  <1>12. offer.accepted => offer'.accepted
    BY <1>3, <1>5, <1>7 DEF Of!Column
  <1>13. offer'.status = "accepted" => offer'.accepted
    BY <1>3, <1>5, <1>7, <1>12 DEF Of!Column, OffersInv, Of!AcceptedIsDated
  <1>14. r.by = "release" => offer'.joining # Of!Null
    BY <1>3, <1>5, <1>7 DEF Of!Column
  <1>15. /\ req' = [v \in Worker |-> req'[v]]
         /\ \A v \in Worker : OfferLoaded(v)'
    BY <1>1, <1>11, <1>12, OfferFinishes DEF OfferGrows
  <1> QED
    BY <1>1, <1>10, <1>13, <1>14, <1>15
       DEF OffersInv, Of!OffersTypeOK, Of!AcceptedIsDated, OfferRow

LEMMA OffersStart ==
  ASSUME Of!Init
  PROVE  OffersInv
  <1>1. /\ offer \in [status : {"draft"}, joining : Date \cup {Of!Null}, accepted : {FALSE}]
        /\ submission = "submitted"
        /\ req = [w \in Worker |-> Of!Idle]
    BY DEF Of!Init
  <1>2. Of!OffersTypeOK
    BY <1>1 DEF Of!OffersTypeOK, Of!OfferStatuses, Of!SubmissionStatuses
  <1>3. \A w \in Worker : OfferLoaded(w)
    BY <1>1 DEF OfferLoaded, Of!Idle
  <1> QED
    BY <1>1, <1>2, <1>3 DEF OffersInv, Of!AcceptedIsDated

\* The requests that load the offer.
LEMMA OfferRequests ==
  ASSUME DatesApart, OffersInv, NEW w \in Worker,
         \/ \E date \in Date : Of!PostRelease(w, date) \/ Of!PatchJoining(w, date)
         \/ \E status \in Of!OfferStatuses \cup {Of!Same}, date \in Date \cup {Of!Null} :
              Of!PatchOffer(w, status, date)
  PROVE  OffersInv'
  <1>1. offer \in OfferRow /\ (offer.status = "accepted" => offer.accepted)
    BY DEF OffersInv, Of!OffersTypeOK, OfferRow, Of!AcceptedIsDated
  <1>2. /\ offer.status \in Of!OfferStatuses /\ offer.joining \in Date \cup {Of!Null}
        /\ offer.accepted \in BOOLEAN
    BY <1>1 DEF OfferRow
  <1>3. ASSUME NEW by, NEW wanted \in OfferRow, Of!OnOffer(w, by, wanted),
               offer.accepted => wanted.accepted,
               wanted.status = "accepted" => wanted.accepted,
               offer.joining # Of!Null \/ by = "release" => wanted.joining # Of!Null
        PROVE  OffersInv'
    <2> PICK r : r = [op |-> "offer", by |-> by, seen |-> offer, wanted |-> wanted]
      OBVIOUS
    <2>1. /\ Of!Begin(w, r) /\ r.op = "offer" /\ r.by = by
          /\ r.seen = offer /\ r.wanted = wanted
      BY <1>3 DEF Of!OnOffer
    <2> QED
      BY <1>3, <2>1, OfferBegins
  <1>4. ASSUME NEW date \in Date, Of!PostRelease(w, date)
        PROVE  OffersInv'
    <2> PICK wanted : wanted = [offer EXCEPT !.status = "released", !.joining = date]
      OBVIOUS
    <2>1. Of!OnOffer(w, "release", wanted)
      BY <1>4 DEF Of!PostRelease, Of!Released
    <2>2. /\ wanted \in OfferRow /\ wanted.status = "released" /\ wanted.joining = date
          /\ wanted.accepted = offer.accepted
      BY <1>1 DEF OfferRow, Of!OfferStatuses
    <2> QED
      BY <2>1, <2>2, <1>3, DatesApart DEF DatesApart
  <1>5. ASSUME NEW date \in Date, Of!PatchJoining(w, date)
        PROVE  OffersInv'
    <2> PICK wanted : wanted = [offer EXCEPT !.joining = date]
      OBVIOUS
    <2>1. Of!OnOffer(w, "joining", wanted)
      BY <1>5 DEF Of!PatchJoining
    <2>2. /\ wanted \in OfferRow /\ wanted.status = offer.status /\ wanted.joining = date
          /\ wanted.accepted = offer.accepted
      BY <1>1 DEF OfferRow
    <2> QED
      BY <2>1, <2>2, <1>1, <1>3, DatesApart DEF DatesApart
  <1>6. ASSUME NEW status \in Of!OfferStatuses \cup {Of!Same}, NEW date \in Date \cup {Of!Null},
               Of!PatchOffer(w, status, date)
        PROVE  OffersInv'
    <2> PICK wanted : wanted = [status |-> Of!Named(status, offer.status),
                                joining |-> Of!Named(date, offer.joining),
                                accepted |-> Of!Dated(status)]
      OBVIOUS
    <2>1. Of!OnOffer(w, "staff", wanted)
      BY <1>6 DEF Of!PatchOffer
    <2>2. /\ wanted.status = Of!Named(status, offer.status)
          /\ wanted.joining = Of!Named(date, offer.joining)
          /\ wanted.accepted = Of!Dated(status)
      OBVIOUS
    <2>3. wanted.status \in Of!OfferStatuses /\ wanted.joining \in Date \cup {Of!Null}
      BY <1>2, <2>2 DEF Of!Named
    <2>4. Of!Dated(status) \in BOOLEAN
      BY <1>2, Zenon DEF Of!Dated
    <2>5. wanted \in OfferRow
      BY <2>2, <2>3, <2>4 DEF OfferRow
    <2>6. /\ offer.accepted => wanted.accepted
          /\ wanted.status = "accepted" => wanted.accepted
      BY <1>1, <2>2 DEF Of!Named, Of!Dated
    <2>7. offer.joining # Of!Null => wanted.joining # Of!Null
      BY <2>2 DEF Of!Named
    <2> QED
      BY <2>1, <2>5, <2>6, <2>7, <1>3
  <1> QED
    BY <1>4, <1>5, <1>6

\* The submission, which no check of the offer reads.
LEMMA SubmissionRequests ==
  ASSUME OffersInv, NEW w \in Worker,
         \/ \E decision \in {"approve", "reject"} : Of!PostFeedback(w, decision)
         \/ \E status \in Of!SubmissionStatuses \cup {Of!Same} : Of!PatchSubmission(w, status)
         \/ Of!CommitSubmission(w)
  PROVE  OffersInv'
  <1>1. submission \in Of!SubmissionStatuses
    BY DEF OffersInv, Of!OffersTypeOK
  <1>2. ASSUME NEW status \in Of!SubmissionStatuses, Of!OnSubmission(w, status)
        PROVE  OffersInv'
    <2> PICK r : r = [op |-> "submission", seen |-> submission, wanted |-> status]
      OBVIOUS
    <2>1. Of!Begin(w, r) /\ r.op = "submission" /\ r.seen = submission /\ r.wanted = status
      BY <1>2 DEF Of!OnSubmission
    <2> QED
      BY <1>1, <2>1, OfferBegins
  <1>3. ASSUME NEW decision \in {"approve", "reject"}, Of!PostFeedback(w, decision)
        PROVE  OffersInv'
    <2>1. \E status \in Of!SubmissionStatuses : Of!OnSubmission(w, status)
      BY <1>3 DEF Of!PostFeedback, Of!SubmissionStatuses
    <2> QED
      BY <1>2, <2>1
  <1>4. ASSUME NEW status \in Of!SubmissionStatuses \cup {Of!Same}, Of!PatchSubmission(w, status)
        PROVE  OffersInv'
    <2>1. Of!Named(status, submission) \in Of!SubmissionStatuses
      BY <1>1 DEF Of!Named
    <2> QED
      BY <1>2, <1>4, <2>1 DEF Of!PatchSubmission
  <1>5. ASSUME Of!CommitSubmission(w)
        PROVE  OffersInv'
    <2> PICK r : r = req[w]
      OBVIOUS
    <2>1. /\ r.op = "submission" /\ submission' = Of!Column(submission, r.seen, r.wanted)
          /\ Of!Finish(w) /\ offer' = offer
      BY <1>5 DEF Of!CommitSubmission
    <2>2. submission' \in Of!SubmissionStatuses
      BY <2>1, <1>1 DEF Of!Column, OffersInv, OfferLoaded
    <2>3. /\ req' = [v \in Worker |-> req'[v]]
          /\ \A v \in Worker : OfferLoaded(v)'
      BY <2>1, OfferFinishes DEF OfferGrows
    <2> QED
      BY <2>1, <2>2, <2>3 DEF OffersInv, Of!OffersTypeOK, Of!AcceptedIsDated
  <1> QED
    BY <1>3, <1>4, <1>5

LEMMA OffersStep ==
  ASSUME DatesApart, OffersInv, [Of!Next]_(Of!vars)
  PROVE  OffersInv'
  <1>1. ASSUME NEW w \in Worker, Of!Fail(w)
        PROVE  OffersInv'
    <2>1. Of!Finish(w) /\ UNCHANGED <<offer, submission>>
      BY <1>1 DEF Of!Fail
    <2>2. /\ req' = [v \in Worker |-> req'[v]]
          /\ \A v \in Worker : OfferLoaded(v)'
      BY <2>1, OfferFinishes DEF OfferGrows
    <2> QED
      BY <2>1, <2>2 DEF OffersInv, Of!OffersTypeOK, Of!AcceptedIsDated
  <1>2. CASE UNCHANGED Of!vars
    BY <1>2 DEF Of!vars, OffersInv, OfferLoaded, Of!OffersTypeOK, Of!AcceptedIsDated
  <1> QED
    BY <1>1, <1>2, OfferRequests, OfferCommits, SubmissionRequests DEF Of!Next

LEMMA OfferReleasesDated ==
  ASSUME DatesApart, OffersInv
  PROVE  Of!DatedRelease
  BY OfferCommits DEF Of!DatedRelease

LEMMA OffersFollow ==
  ASSUME OffersInv
  PROVE  Of!OffersKept
  BY DEF OffersInv, Of!OffersKept

\* While the offers run, a step is one of theirs, and their invariant holds.
LEMMA OffersRun ==
  [Next]_vars /\ part' = "offers" => part = "offers" /\ [Of!Next]_(Of!vars)
  BY DEF Next, vars, Of!vars, RestOfOffers, RestOfInvoices, RestOfReplay,
         RestOfQueue, RestOfErasure, RestOfPaper

LEMMA OffersInvariant ==
  ASSUME DatesApart
  PROVE  Spec => [](part = "offers" => OffersInv)
  <1> DEFINE Inv == part = "offers" => OffersInv
  <1>1. Init => Inv
    <2>1. Init /\ part = "offers" => Of!Init
      BY DEF Init
    <2> QED
      BY <2>1, OffersStart
  <1>2. Inv /\ [Next]_vars => Inv'
    BY OffersRun, OffersStep
  <1> QED
    BY <1>1, <1>2, PTL DEF Spec

(* workflow.py:218-242, client_portal.py:255-303, for any dates and any    *)
(* requests: an accepted offer has its acceptance date, whoever released,  *)
(* dated, and answered it meanwhile.                                       *)
THEOREM OffersHold ==
  ASSUME DatesApart
  PROVE  Spec => []OffersKept
  <1>1. (part = "offers" => OffersInv) => OffersKept
    BY OffersFollow DEF OffersKept
  <1> QED
    BY <1>1, OffersInvariant, PTL

-----------------------------------------------------------------------------
(* Invoices.                                                               *)

RatesAreNumbers == /\ Base \subseteq Nat /\ FeeRate \in Nat
                   /\ GstRate \subseteq Nat /\ TdsRate \subseteq Nat

\* On a fee that tells its taxes apart, each beside its rate.
Matched(bill) == In!Telling(bill.base) => In!Matching(bill)

\* What a request loaded and wants.
BillLoaded(w) ==
  LET r == req[w] IN
  /\ r.op = "invoice" =>
       /\ r.of \in {"original", "credit"}
       /\ r.gst \in In!Gst /\ r.tds \in In!Tds
       /\ invoice[r.of] # In!NoRow
       /\ r.seen \in In!Bill /\ Matched(r.seen)
       /\ r.seen.base = invoice[r.of].base
       /\ r.wanted = In!Retaxed(r.seen, r.gst, r.tds)
  /\ r.op = "credit" => r.seen \in In!Bill

BillsInv ==
  /\ In!InvoicesTypeOK
  /\ invoice = [i \in {"original", "credit"} |-> invoice[i]]
  /\ req = [w \in Worker |-> req[w]]
  /\ \A w \in Worker : BillLoaded(w)
  /\ \A i \in {"original", "credit"} : invoice[i] # In!NoRow => Matched(invoice[i])
  /\ invoice["original"].fee = In!Fee(invoice["original"].base)

LEMMA PercentIsInt ==
  ASSUME NEW a \in Int, NEW b \in Int
  PROVE  In!Percent(a, b) \in Int
  <1>1. a * b \in Int
    OBVIOUS
  <1> QED
    BY <1>1 DEF In!Percent

LEMMA TaxIsInt ==
  ASSUME RatesAreNumbers, NEW base \in Base, NEW rate \in In!Gst \cup In!Tds
  PROVE  /\ In!Fee(base) \in Int
         /\ In!Tax(base, rate) \in Int
         /\ In!OrZero(In!Tax(base, rate)) \in Int
  <1>1. /\ base \in Int /\ 100 * base \in Int /\ FeeRate \in Int /\ rate \in Int
    BY DEF RatesAreNumbers, In!Gst, In!Tds, In!Null
  <1>2. In!Fee(base) \in Int
    BY <1>1, PercentIsInt DEF In!Fee
  <1>3. In!Percent(In!Fee(base), rate) \in Int
    BY <1>1, <1>2, PercentIsInt
  <1> QED
    BY <1>2, <1>3 DEF In!Tax, In!OrZero, In!Null

\* What _compute_invoice makes of a row.
LEMMA Retaxing ==
  ASSUME RatesAreNumbers, NEW bill \in In!Bill, NEW gst \in In!Gst, NEW tds \in In!Tds
  PROVE  LET new == In!Retaxed(bill, gst, tds)
             g == In!Supplied(gst, bill.gst)
             t == In!Supplied(tds, bill.tds) IN
         /\ g \in In!Gst /\ t \in In!Tds
         /\ new \in In!Bill
         /\ new.base = bill.base /\ new.fee = bill.fee
         /\ new.gst = g /\ new.gstAmount = In!Tax(bill.base, g)
         /\ new.tds = t /\ new.tdsAmount = In!Tax(bill.base, t)
         /\ new.total = In!Total(bill.base, g, t)
         /\ In!Matching(new)
  <1> PICK g : g = In!Supplied(gst, bill.gst)
    OBVIOUS
  <1> PICK t : t = In!Supplied(tds, bill.tds)
    OBVIOUS
  <1> PICK ga : ga = In!Tax(bill.base, g)
    OBVIOUS
  <1> PICK ta : ta = In!Tax(bill.base, t)
    OBVIOUS
  <1> PICK all : all = In!Total(bill.base, g, t)
    OBVIOUS
  <1> PICK new : new = [bill EXCEPT !.gst = g, !.gstAmount = ga, !.tds = t, !.tdsAmount = ta, !.total = all]
    OBVIOUS
  <1>1. In!Retaxed(bill, gst, tds) = new
    BY DEF In!Retaxed
  <1>2. bill.base \in Base /\ bill.gst \in In!Gst /\ bill.tds \in In!Tds
    BY DEF In!Bill
  <1>3. g \in In!Gst /\ t \in In!Tds
    BY <1>2 DEF In!Supplied
  <1>4. ga \in Int /\ ta \in Int /\ In!Fee(bill.base) \in Int /\ In!OrZero(ga) \in Int /\ In!OrZero(ta) \in Int
    BY <1>2, <1>3, TaxIsInt
  <1>5. all \in Int
    BY <1>4 DEF In!Total
  <1>6. /\ new \in In!Bill
        /\ new.base = bill.base /\ new.fee = bill.fee
        /\ new.gst = g /\ new.gstAmount = ga /\ new.tds = t /\ new.tdsAmount = ta /\ new.total = all
    BY <1>3, <1>4, <1>5 DEF In!Bill
  <1>7. In!Matching(new)
    BY <1>6 DEF In!Matching
  <1> QED
    BY <1>1, <1>3, <1>6, <1>7

\* What an UPDATE leaves of a row.
Updated(stored, seen, wanted) ==
  [f \in DOMAIN stored |-> IF f \in In!Assignable THEN In!Column(stored[f], seen[f], wanted[f])
                           ELSE stored[f]]

LEMMA UpdatedColumns ==
  ASSUME NEW stored \in In!Bill, NEW seen \in In!Bill, NEW wanted \in In!Bill
  PROVE  LET new == Updated(stored, seen, wanted) IN
         /\ new \in In!Bill
         /\ new.base = stored.base /\ new.fee = stored.fee
         /\ new.gst = In!Column(stored.gst, seen.gst, wanted.gst)
         /\ new.gstAmount = In!Column(stored.gstAmount, seen.gstAmount, wanted.gstAmount)
         /\ new.tds = In!Column(stored.tds, seen.tds, wanted.tds)
         /\ new.tdsAmount = In!Column(stored.tdsAmount, seen.tdsAmount, wanted.tdsAmount)
         /\ new.total = In!Column(stored.total, seen.total, wanted.total)
  <1> PICK new : new = Updated(stored, seen, wanted)
    OBVIOUS
  <1>1. DOMAIN stored = {"row", "base", "fee", "gst", "gstAmount", "tds", "tdsAmount", "total"}
    BY DEF In!Bill
  <1>2. /\ new.row = stored.row /\ new.base = stored.base /\ new.fee = stored.fee
        /\ new.gst = In!Column(stored.gst, seen.gst, wanted.gst)
        /\ new.gstAmount = In!Column(stored.gstAmount, seen.gstAmount, wanted.gstAmount)
        /\ new.tds = In!Column(stored.tds, seen.tds, wanted.tds)
        /\ new.tdsAmount = In!Column(stored.tdsAmount, seen.tdsAmount, wanted.tdsAmount)
        /\ new.total = In!Column(stored.total, seen.total, wanted.total)
    BY <1>1 DEF Updated, In!Assignable
  <1>3. new = [row |-> new.row, base |-> new.base, fee |-> new.fee, gst |-> new.gst,
               gstAmount |-> new.gstAmount, tds |-> new.tds, tdsAmount |-> new.tdsAmount,
               total |-> new.total]
    BY <1>1 DEF Updated
  <1>4. /\ new.row \in {TRUE} /\ new.base \in Base /\ new.fee \in Int
        /\ new.gst \in In!Gst /\ new.gstAmount \in Int
        /\ new.tds \in In!Tds /\ new.tdsAmount \in Int
        /\ new.total \in Int
    BY <1>2 DEF In!Bill, In!Column
  <1>5. new \in In!Bill
    BY <1>3, <1>4 DEF In!Bill
  <1> QED
    BY <1>2, <1>5

LEMMA Updating ==
  ASSUME RatesAreNumbers, NEW stored \in In!Bill, NEW seen \in In!Bill,
         NEW gst \in In!Gst, NEW tds \in In!Tds,
         NEW wanted, wanted = In!Retaxed(seen, gst, tds),
         stored.base = seen.base, Matched(stored), Matched(seen),
         NEW new, new = Updated(stored, seen, wanted)
  PROVE  /\ new \in In!Bill /\ new.base = stored.base /\ new.fee = stored.fee
         /\ Matched(new)
         /\ gst = In!Null /\ In!Exact(seen.gst) => new.gst = stored.gst
         /\ tds = In!Null /\ In!Exact(seen.tds) => new.tds = stored.tds
         /\ stored = seen /\ stored.fee = In!Fee(stored.base) => In!AddsUp(new)
  <1> PICK g : g = In!Supplied(gst, seen.gst)
    OBVIOUS
  <1> PICK t : t = In!Supplied(tds, seen.tds)
    OBVIOUS
  <1>1. /\ g \in In!Gst /\ t \in In!Tds /\ wanted \in In!Bill
        /\ wanted.base = seen.base
        /\ wanted.gst = g /\ wanted.gstAmount = In!Tax(seen.base, g)
        /\ wanted.tds = t /\ wanted.tdsAmount = In!Tax(seen.base, t)
        /\ wanted.total = In!Total(seen.base, g, t)
    BY Retaxing
  <1>2. /\ new \in In!Bill
        /\ new.base = stored.base /\ new.fee = stored.fee
        /\ new.gst = In!Column(stored.gst, seen.gst, wanted.gst)
        /\ new.gstAmount = In!Column(stored.gstAmount, seen.gstAmount, wanted.gstAmount)
        /\ new.tds = In!Column(stored.tds, seen.tds, wanted.tds)
        /\ new.tdsAmount = In!Column(stored.tdsAmount, seen.tdsAmount, wanted.tdsAmount)
        /\ new.total = In!Column(stored.total, seen.total, wanted.total)
    BY <1>1, UpdatedColumns
  <1>3. /\ seen.gst \in In!Gst /\ seen.tds \in In!Tds
        /\ stored.gst \in In!Gst /\ stored.tds \in In!Tds
    BY DEF In!Bill
  <1>4. ASSUME In!Telling(new.base)
        PROVE  In!Matching(new)
    <2> PICK b : b = seen.base
      OBVIOUS
    <2>1. new.base = b /\ stored.base = b /\ In!Telling(b)
      BY <1>2, <1>4
    <2>2. /\ seen.gstAmount = In!Tax(b, seen.gst) /\ seen.tdsAmount = In!Tax(b, seen.tds)
          /\ stored.gstAmount = In!Tax(b, stored.gst) /\ stored.tdsAmount = In!Tax(b, stored.tds)
      BY <2>1 DEF Matched, In!Matching
    <2>3. ASSUME NEW x \in In!Gst \cup In!Tds, NEW y \in In!Gst \cup In!Tds
          PROVE  /\ In!Exact(x) /\ In!Exact(In!Tax(b, x))
                 /\ In!Tax(b, x) = In!Tax(b, y) => x = y
      BY <2>1 DEF In!Telling
    <2>4. new.gstAmount = In!Tax(b, new.gst)
      <3>1. /\ In!Exact(seen.gst) /\ In!Exact(In!Tax(b, seen.gst))
            /\ In!Tax(b, g) = In!Tax(b, seen.gst) => g = seen.gst
        BY <1>1, <1>3, <2>3
      <3> QED
        BY <3>1, <1>1, <1>2, <2>2 DEF In!Column
    <2>5. new.tdsAmount = In!Tax(b, new.tds)
      <3>1. /\ In!Exact(seen.tds) /\ In!Exact(In!Tax(b, seen.tds))
            /\ In!Tax(b, t) = In!Tax(b, seen.tds) => t = seen.tds
        BY <1>1, <1>3, <2>3
      <3> QED
        BY <3>1, <1>1, <1>2, <2>2 DEF In!Column
    <2> QED
      BY <2>1, <2>4, <2>5 DEF In!Matching
  <1>5. /\ gst = In!Null /\ In!Exact(seen.gst) => new.gst = stored.gst
        /\ tds = In!Null /\ In!Exact(seen.tds) => new.tds = stored.tds
    BY <1>1, <1>2 DEF In!Column, In!Supplied
  <1>6. ASSUME stored = seen, stored.fee = In!Fee(stored.base)
        PROVE  In!AddsUp(new)
    <2>1. /\ new.gstAmount = wanted.gstAmount /\ new.tdsAmount = wanted.tdsAmount
          /\ new.total = wanted.total
      BY <1>2, <1>6 DEF In!Column
    <2> QED
      BY <2>1, <1>1, <1>2, <1>6 DEF In!AddsUp, In!Total
  <1> QED
    BY <1>2, <1>4, <1>5, <1>6 DEF Matched

LEMMA Mirroring ==
  ASSUME RatesAreNumbers, NEW bill \in In!Bill
  PROVE  In!Mirror(bill) \in In!Bill /\ Matched(In!Mirror(bill))
  <1> PICK new : new = [bill EXCEPT !.fee = -bill.fee, !.total = -bill.total, !.gst = In!Null,
                                   !.gstAmount = In!Null, !.tds = In!Null, !.tdsAmount = In!Null]
    OBVIOUS
  <1>1. In!Mirror(bill) = new
    BY DEF In!Mirror
  <1>2. /\ -bill.fee \in Int /\ -bill.total \in Int /\ In!Null \in Int
        /\ In!Null \in In!Gst /\ In!Null \in In!Tds
    BY DEF In!Bill, In!Null, In!Gst, In!Tds
  <1>3. /\ new \in In!Bill
        /\ new.gst = In!Null /\ new.gstAmount = In!Null
        /\ new.tds = In!Null /\ new.tdsAmount = In!Null
    BY <1>2 DEF In!Bill
  <1>4. In!Matching(new)
    BY <1>3 DEF In!Matching, In!Tax
  <1> QED
    BY <1>1, <1>3, <1>4 DEF Matched

\* A row that is there stays, with its base.
BillsGrow == \A i \in {"original", "credit"} :
               invoice[i] # In!NoRow => /\ invoice'[i] # In!NoRow
                                        /\ invoice'[i].base = invoice[i].base

LEMMA BillStaysLoaded ==
  ASSUME BillsGrow, NEW w \in Worker, BillLoaded(w), req'[w] = req[w]
  PROVE  BillLoaded(w)'
  <1> PICK r : r = req[w]
    OBVIOUS
  <1>1. /\ (r.op = "invoice" =>
              /\ r.of \in {"original", "credit"}
              /\ r.gst \in In!Gst /\ r.tds \in In!Tds
              /\ invoice[r.of] # In!NoRow
              /\ r.seen \in In!Bill /\ Matched(r.seen)
              /\ r.seen.base = invoice[r.of].base
              /\ r.wanted = In!Retaxed(r.seen, r.gst, r.tds))
        /\ (r.op = "credit" => r.seen \in In!Bill)
    BY DEF BillLoaded
  <1>2. r.op = "invoice" => invoice'[r.of] # In!NoRow /\ r.seen.base = invoice'[r.of].base
    BY <1>1 DEF BillsGrow
  <1> QED
    BY <1>1, <1>2 DEF BillLoaded

LEMMA BillFinishes ==
  ASSUME BillsInv, BillsGrow, NEW w \in Worker, In!Finish(w)
  PROVE  /\ req' = [v \in Worker |-> req'[v]]
         /\ \A v \in Worker : BillLoaded(v)'
  <1>1. req' = [v \in Worker |-> IF v = w THEN In!Idle ELSE req[v]]
    BY DEF BillsInv, In!Finish
  <1>2. BillLoaded(w)'
    BY <1>1 DEF BillLoaded, In!Idle
  <1>3. \A v \in Worker \ {w} : BillLoaded(v)'
    BY <1>1, BillStaysLoaded DEF BillsInv
  <1> QED
    BY <1>1, <1>2, <1>3

LEMMA BillBegins ==
  ASSUME BillsInv, NEW w \in Worker, NEW r, In!Begin(w, r),
         r.op = "invoice" =>
           /\ r.of \in {"original", "credit"}
           /\ r.gst \in In!Gst /\ r.tds \in In!Tds
           /\ r.seen = invoice[r.of] /\ invoice[r.of] # In!NoRow
           /\ r.wanted = In!Retaxed(r.seen, r.gst, r.tds),
         r.op = "credit" => r.seen \in In!Bill
  PROVE  BillsInv'
  <1>1. /\ req' = [v \in Worker |-> IF v = w THEN r ELSE req[v]]
        /\ UNCHANGED invoice
    BY DEF In!Begin, BillsInv
  <1>2. r.op = "invoice" => invoice[r.of] \in In!Bill /\ Matched(invoice[r.of])
    BY DEF BillsInv, In!InvoicesTypeOK
  <1>3. BillLoaded(w)'
    BY <1>1, <1>2 DEF BillLoaded
  <1>4. \A v \in Worker \ {w} : BillLoaded(v)'
    BY <1>1, BillStaysLoaded DEF BillsInv, BillsGrow
  <1> QED
    BY <1>1, <1>3, <1>4 DEF BillsInv, In!InvoicesTypeOK

LEMMA BillsStart ==
  ASSUME RatesAreNumbers, In!Init
  PROVE  BillsInv
  <1>1. PICK base \in Base, gst \in In!Gst, tds \in In!Tds :
             invoice = [i \in {"original", "credit"} |->
                          IF i = "original" THEN In!Billed(base, gst, tds) ELSE In!NoRow]
    BY DEF In!Init
  <1>2. req = [w \in Worker |-> In!Idle]
    BY DEF In!Init
  <1> PICK b : b = In!Billed(base, gst, tds)
    OBVIOUS
  <1>3. /\ In!Fee(base) \in Int /\ In!Tax(base, gst) \in Int /\ In!Tax(base, tds) \in Int
        /\ In!OrZero(In!Tax(base, gst)) \in Int /\ In!OrZero(In!Tax(base, tds)) \in Int
    BY TaxIsInt
  <1>4. In!Total(base, gst, tds) \in Int
    BY <1>3 DEF In!Total
  <1>5. /\ b \in In!Bill /\ b.base = base /\ b.fee = In!Fee(base)
        /\ b.gst = gst /\ b.gstAmount = In!Tax(base, gst)
        /\ b.tds = tds /\ b.tdsAmount = In!Tax(base, tds)
    BY <1>3, <1>4 DEF In!Billed, In!Bill
  <1>6. invoice["original"] = b /\ invoice["credit"] = In!NoRow
    BY <1>1
  <1>7. \A w \in Worker : BillLoaded(w)
    BY <1>2 DEF BillLoaded, In!Idle
  <1>8. Matched(b)
    BY <1>5 DEF Matched, In!Matching
  <1> QED
    BY <1>1, <1>2, <1>5, <1>6, <1>7, <1>8 DEF BillsInv, In!InvoicesTypeOK

LEMMA BillCommits ==
  ASSUME RatesAreNumbers, BillsInv, NEW w \in Worker, In!CommitInvoice(w)
  PROVE  /\ BillsInv'
         /\ req[w].gst = In!Null /\ In!Exact(req[w].seen.gst) =>
              invoice'[req[w].of].gst = invoice[req[w].of].gst
         /\ req[w].tds = In!Null /\ In!Exact(req[w].seen.tds) =>
              invoice'[req[w].of].tds = invoice[req[w].of].tds
         /\ In!Lone(w) => In!AddsUp(invoice'["original"])
  <1> PICK r : r = req[w]
    OBVIOUS
  <1> PICK new : new = Updated(invoice[r.of], r.seen, r.wanted)
    OBVIOUS
  <1>1. /\ r.op = "invoice"
        /\ invoice' = [invoice EXCEPT ![r.of] = new]
        /\ In!Finish(w)
    BY DEF In!CommitInvoice, Updated
  <1>2. /\ r.of \in {"original", "credit"}
        /\ r.gst \in In!Gst /\ r.tds \in In!Tds
        /\ invoice[r.of] # In!NoRow
        /\ r.seen \in In!Bill /\ Matched(r.seen)
        /\ r.seen.base = invoice[r.of].base
        /\ r.wanted = In!Retaxed(r.seen, r.gst, r.tds)
    BY <1>1 DEF BillsInv, BillLoaded
  <1>3. invoice[r.of] \in In!Bill /\ Matched(invoice[r.of])
    BY <1>2 DEF BillsInv, In!InvoicesTypeOK
  <1>4. /\ new \in In!Bill /\ new.base = invoice[r.of].base /\ new.fee = invoice[r.of].fee
        /\ Matched(new)
        /\ r.gst = In!Null /\ In!Exact(r.seen.gst) => new.gst = invoice[r.of].gst
        /\ r.tds = In!Null /\ In!Exact(r.seen.tds) => new.tds = invoice[r.of].tds
        /\ invoice[r.of] = r.seen /\ invoice[r.of].fee = In!Fee(invoice[r.of].base) => In!AddsUp(new)
    <2> PICK stored : stored = invoice[r.of]
      OBVIOUS
    <2>1. /\ stored \in In!Bill /\ Matched(stored) /\ stored.base = r.seen.base
          /\ new = Updated(stored, r.seen, r.wanted)
      BY <1>2, <1>3
    <2>2. r.gst \in In!Gst /\ r.tds \in In!Tds /\ r.seen \in In!Bill /\ Matched(r.seen)
          /\ r.wanted = In!Retaxed(r.seen, r.gst, r.tds)
      BY <1>2
    <2>3. Matched(new)
      BY <2>1, <2>2, Updating
    <2>4. new \in In!Bill
      BY <2>1, <2>2, Updating
    <2>5. r.wanted \in In!Bill
      BY <2>2, Retaxing
    <2>6. new.base = stored.base /\ new.fee = stored.fee
      BY <2>1, <2>2, <2>5, UpdatedColumns
    <2>7. r.gst = In!Null /\ In!Exact(r.seen.gst) => new.gst = stored.gst
      BY <2>1, <2>2, Updating
    <2>8. r.tds = In!Null /\ In!Exact(r.seen.tds) => new.tds = stored.tds
      BY <2>1, <2>2, Updating
    <2>9. stored = r.seen /\ stored.fee = In!Fee(stored.base) => In!AddsUp(new)
      BY <2>1, <2>2, Updating
    <2> QED
      BY <2>3, <2>7, <2>8, <2>9, <2>4, <2>6
  <1>5. /\ invoice' = [i \in {"original", "credit"} |-> invoice'[i]]
        /\ invoice'[r.of] = new
        /\ \A i \in {"original", "credit"} \ {r.of} : invoice'[i] = invoice[i]
    BY <1>1, <1>2 DEF BillsInv
  <1>6. \A b \in In!Bill : b # In!NoRow
    BY DEF In!Bill, In!NoRow
  <1>7. BillsGrow
    BY <1>2, <1>4, <1>5, <1>6 DEF BillsGrow
  <1>8. /\ req' = [v \in Worker |-> req'[v]]
        /\ \A v \in Worker : BillLoaded(v)'
    BY <1>1, <1>7, BillFinishes
  <1>9. In!InvoicesTypeOK'
    BY <1>2, <1>4, <1>5 DEF BillsInv, In!InvoicesTypeOK
  <1>10. \A i \in {"original", "credit"} : invoice'[i] # In!NoRow => Matched(invoice'[i])
    BY <1>4, <1>5 DEF BillsInv
  <1>11. invoice'["original"].fee = In!Fee(invoice'["original"].base)
    BY <1>2, <1>4, <1>5 DEF BillsInv
  <1>12. In!Lone(w) => In!AddsUp(invoice'["original"])
    BY <1>2, <1>4, <1>5 DEF In!Lone, BillsInv
  <1> QED
    BY <1>4, <1>5, <1>8, <1>9, <1>10, <1>11, <1>12 DEF BillsInv

LEMMA BillsStep ==
  ASSUME RatesAreNumbers, BillsInv, [In!Next]_(In!vars)
  PROVE  BillsInv'
  <1>1. ASSUME NEW w \in Worker, NEW i \in {"original", "credit"}, NEW gst \in In!Gst,
               NEW tds \in In!Tds, In!PatchInvoice(w, i, gst, tds)
        PROVE  BillsInv'
    <2> PICK r : r = [op |-> "invoice", of |-> i, seen |-> invoice[i], gst |-> gst, tds |-> tds,
                      wanted |-> In!Retaxed(invoice[i], gst, tds)]
      OBVIOUS
    <2>1. /\ In!Begin(w, r) /\ invoice[i] # In!NoRow
          /\ r.op = "invoice" /\ r.of = i /\ r.seen = invoice[i] /\ r.gst = gst /\ r.tds = tds
          /\ r.wanted = In!Retaxed(r.seen, r.gst, r.tds)
      BY <1>1 DEF In!PatchInvoice
    <2> QED
      BY <2>1, BillBegins
  <1>2. ASSUME NEW w \in Worker, In!PostCredit(w)
        PROVE  BillsInv'
    <2> PICK r : r = [op |-> "credit", seen |-> invoice["original"]]
      OBVIOUS
    <2>1. In!Begin(w, r) /\ r.op = "credit" /\ r.seen = invoice["original"]
      BY <1>2 DEF In!PostCredit
    <2>2. r.seen \in In!Bill
      BY <2>1 DEF BillsInv, In!InvoicesTypeOK
    <2> QED
      BY <2>1, <2>2, BillBegins
  <1>3. ASSUME NEW w \in Worker, In!CommitCredit(w)
        PROVE  BillsInv'
    <2> PICK new : new = In!Mirror(req[w].seen)
      OBVIOUS
    <2>1. /\ req[w].op = "credit" /\ invoice["credit"] = In!NoRow
          /\ invoice' = [invoice EXCEPT !["credit"] = new]
          /\ In!Finish(w)
      BY <1>3 DEF In!CommitCredit
    <2>2. new \in In!Bill /\ Matched(new)
      BY <2>1, Mirroring DEF BillsInv, BillLoaded
    <2>3. /\ invoice' = [i \in {"original", "credit"} |-> invoice'[i]]
          /\ invoice'["credit"] = new
          /\ invoice'["original"] = invoice["original"]
      BY <2>1 DEF BillsInv
    <2>4. BillsGrow
      BY <2>1, <2>3 DEF BillsGrow
    <2>5. /\ req' = [v \in Worker |-> req'[v]]
          /\ \A v \in Worker : BillLoaded(v)'
      BY <2>1, <2>4, BillFinishes
    <2> QED
      BY <2>2, <2>3, <2>5 DEF BillsInv, In!InvoicesTypeOK
  <1>4. ASSUME NEW w \in Worker, In!Fail(w)
        PROVE  BillsInv'
    <2>1. In!Finish(w) /\ UNCHANGED invoice
      BY <1>4 DEF In!Fail
    <2>2. /\ req' = [v \in Worker |-> req'[v]]
          /\ \A v \in Worker : BillLoaded(v)'
      BY <2>1, BillFinishes DEF BillsGrow
    <2> QED
      BY <2>1, <2>2 DEF BillsInv, In!InvoicesTypeOK
  <1>5. CASE UNCHANGED In!vars
    BY <1>5 DEF In!vars, BillsInv, BillLoaded, In!InvoicesTypeOK
  <1> QED
    BY <1>1, <1>2, <1>3, <1>4, <1>5, BillCommits DEF In!Next

LEMMA BillsFollow ==
  ASSUME RatesAreNumbers, BillsInv
  PROVE  In!AmountsKept /\ In!SparingPatch /\ In!MendingRetax
  <1>1. In!AmountsKept
    BY DEF BillsInv, In!AmountsKept, In!AmountsMatchRates, Matched
  <1>2. In!SparingPatch
    BY BillCommits DEF In!SparingPatch
  <1>3. In!MendingRetax
    BY BillCommits DEF In!MendingRetax
  <1> QED
    BY <1>1, <1>2, <1>3

\* While the invoices run, a step is one of theirs, and their invariant holds.
LEMMA InvoicesRun ==
  [Next]_vars /\ part' = "invoices" => part = "invoices" /\ [In!Next]_(In!vars)
  BY DEF Next, vars, In!vars, RestOfOffers, RestOfInvoices, RestOfReplay,
         RestOfQueue, RestOfErasure, RestOfPaper

LEMMA InvoicesInvariant ==
  ASSUME RatesAreNumbers
  PROVE  Spec => [](part = "invoices" => BillsInv)
  <1> DEFINE Inv == part = "invoices" => BillsInv
  <1>1. Init => Inv
    <2>1. Init /\ part = "invoices" => In!Init
      BY DEF Init
    <2> QED
      BY <2>1, BillsStart
  <1>2. Inv /\ [Next]_vars => Inv'
    BY InvoicesRun, BillsStep
  <1> QED
    BY <1>1, <1>2, PTL DEF Spec

(* workflow.py:555-644, placements.py:269-317, for any fees, rates and     *)
(* requests: on a fee that tells its taxes apart a tax amount is that of   *)
(* the rate beside it, on the original and on its credit note.             *)
THEOREM AmountsHold ==
  ASSUME RatesAreNumbers
  PROVE  Spec => []AmountsKept
  <1>1. (part = "invoices" => BillsInv) => AmountsKept
    BY BillsFollow DEF AmountsKept
  <1> QED
    BY <1>1, InvoicesInvariant, PTL

-----------------------------------------------------------------------------
(* Replay.                                                                 *)

\* A null is no row's id.
RowsAreIds == Re!Null \notin Row

RowMade == [row : {TRUE}, tenant : Tenant, key : Header]

\* The slot a request is served for, and what it made.
SlotOf(w) == <<req[w].tenant, req[w].key>>

MadeBy(w) == [row |-> TRUE, tenant |-> req[w].tenant, key |-> req[w].key]

\* Requests that may still make a row or have not yet stored its answer.
InFlight(w, s) == req[w] # Re!Idle /\ SlotOf(w) = s

RowsOf(s) == {x \in Row : row[x] # Re!NoRow /\ <<row[x].tenant, row[x].key>> = s}

\* Outside the excused slots, requests are served one at a time, and a row
\* that was made is the answer kept or about to be.
Orderly(s) ==
  s \notin excused =>
    /\ \A v, w \in Worker : InFlight(v, s) /\ InFlight(w, s) => v = w
    /\ \A x \in RowsOf(s) :
         \/ cache[s] = x
         \/ \E w \in Worker : req[w].op = "store" /\ SlotOf(w) = s /\ req[w].made = x
    /\ \A w \in Worker : InFlight(w, s) => cache[s] = Re!Null

ReplayInv ==
  /\ Re!ReplayTypeOK
  /\ \A s \in Re!Slots : cache[s] # Re!Null =>
       row[cache[s]] # Re!NoRow /\ row[cache[s]].tenant = s[1]
  /\ Re!AnswersAreRows
  /\ \A w \in Worker : req[w].op = "store" => row[req[w].made] = MadeBy(w)
  /\ \A s \in Tenant \X Header : Orderly(s)

LEMMA ReplayStart ==
  ASSUME Re!Init
  PROVE  ReplayInv
  <1>1. Re!ReplayTypeOK
    BY DEF Re!Init, Re!ReplayTypeOK, Re!Slots
  <1>2. /\ \A s \in Re!Slots : cache[s] = Re!Null
        /\ \A x \in Row : row[x] = Re!NoRow
        /\ \A w \in Worker : req[w] = Re!Idle
        /\ answers = {} /\ excused = {}
    BY DEF Re!Init
  <1>3. Re!AnswersAreRows
    BY <1>2 DEF Re!AnswersAreRows
  <1>4. \A w \in Worker : req[w].op # "store"
    BY <1>2 DEF Re!Idle
  <1>5. \A s \in Tenant \X Header : Orderly(s)
    BY <1>2 DEF Orderly, InFlight, RowsOf
  <1> QED
    BY <1>1, <1>2, <1>3, <1>4, <1>5 DEF ReplayInv

ReplayRequest == [op : {"create"}, tenant : Tenant, key : Header]
                   \cup [op : {"store"}, tenant : Tenant, key : Header, made : Row]

\* A request that is being served has a slot of its own tenant.
LEMMA ServedSlot ==
  ASSUME Re!ReplayTypeOK, NEW w \in Worker, req[w] # Re!Idle
  PROVE  /\ req[w] \in ReplayRequest
         /\ req[w].tenant \in Tenant /\ req[w].key \in Header
         /\ SlotOf(w) \in Tenant \X Header /\ SlotOf(w) \in Re!Slots
         /\ Re!Slot(req[w].tenant, req[w].key) = SlotOf(w)
  <1>1. req[w] \in ReplayRequest
    BY DEF Re!ReplayTypeOK, ReplayRequest
  <1>2. req[w].tenant \in Tenant /\ req[w].key \in Header
    BY <1>1 DEF ReplayRequest
  <1> QED
    BY <1>1, <1>2 DEF SlotOf, Re!Slots, Re!Slot

\* A request begins: with the cache silent, or with its slot excused.
LEMMA ServingBegins ==
  ASSUME ReplayInv, NEW w \in Worker, NEW t \in Tenant, NEW k \in Header,
         req[w] = Re!Idle, UNCHANGED <<row, cache, answers>>,
         req' = [req EXCEPT ![w] = [op |-> "create", tenant |-> t, key |-> k]],
         excused' \in {excused, excused \cup {<<t, k>>}},
         \/ <<t, k>> \in excused'
         \/ cache[<<t, k>>] = Re!Null /\ \A v \in Worker : ~InFlight(v, <<t, k>>)
  PROVE  ReplayInv'
  <1> PICK r : r = [op |-> "create", tenant |-> t, key |-> k]
    OBVIOUS
  <1>1. r \in ReplayRequest /\ r.op = "create" /\ r.tenant = t /\ r.key = k
    BY DEF ReplayRequest
  <1>2. /\ req' \in [Worker -> {Re!Idle} \cup ReplayRequest]
        /\ req'[w] = r
        /\ \A v \in Worker \ {w} : req'[v] = req[v]
    BY <1>1 DEF ReplayInv, Re!ReplayTypeOK, ReplayRequest
  <1>3. <<t, k>> \in Tenant \X Header
    OBVIOUS
  <1>4. Re!ReplayTypeOK'
    BY <1>2, <1>3 DEF ReplayInv, Re!ReplayTypeOK, ReplayRequest
  <1>5. \A v \in Worker : req'[v].op = "store" => req'[v] = req[v]
    BY <1>1, <1>2
  <1>6. \A v \in Worker : req'[v].op = "store" => row'[req'[v].made] = MadeBy(v)'
    BY <1>5 DEF ReplayInv, MadeBy
  <1>7. \A v \in Worker, s \in Tenant \X Header :
           InFlight(v, s)' => InFlight(v, s) \/ (v = w /\ s = <<t, k>>)
    BY <1>1, <1>2 DEF InFlight, SlotOf
  <1>8. \A v \in Worker : req[v].op = "store" => v # w /\ req'[v] = req[v]
    BY <1>2 DEF Re!Idle
  <1>9. ASSUME NEW s \in Tenant \X Header
        PROVE  Orderly(s)'
    <2>1. SUFFICES ASSUME s \notin excused'
                   PROVE  /\ \A u, v \in Worker : InFlight(u, s)' /\ InFlight(v, s)' => u = v
                          /\ \A x \in RowsOf(s)' :
                               \/ cache'[s] = x
                               \/ \E v \in Worker : /\ req'[v].op = "store" /\ SlotOf(v)' = s
                                                    /\ req'[v].made = x
                          /\ \A v \in Worker : InFlight(v, s)' => cache'[s] = Re!Null
      BY DEF Orderly
    <2>2. s \notin excused /\ Orderly(s)
      BY <2>1 DEF ReplayInv
    <2>3. RowsOf(s)' = RowsOf(s)
      BY DEF RowsOf
    <2>4. \A x \in RowsOf(s)' :
            \/ cache'[s] = x
            \/ \E v \in Worker : /\ req'[v].op = "store" /\ SlotOf(v)' = s
                                 /\ req'[v].made = x
      BY <1>8, <2>2, <2>3 DEF Orderly, SlotOf
    <2>5. CASE s # <<t, k>>
      BY <1>7, <2>2, <2>4, <2>5 DEF Orderly
    <2>6. CASE s = <<t, k>>
      BY <1>7, <2>1, <2>4, <2>6
    <2> QED
      BY <2>5, <2>6
  <1>10. Re!AnswersAreRows'
    BY DEF ReplayInv, Re!AnswersAreRows
  <1> QED
    BY <1>4, <1>6, <1>9, <1>10 DEF ReplayInv

\* A request that is not in flight any longer leaves the others as they are.
LEMMA ServingEnds ==
  ASSUME Re!ReplayTypeOK, NEW w \in Worker, Re!Finish(w)
  PROVE  /\ req' \in [Worker -> {Re!Idle} \cup ReplayRequest]
         /\ req'[w] = Re!Idle
         /\ \A v \in Worker \ {w} : req'[v] = req[v]
         /\ \A v \in Worker : req'[v].op = "store" => v # w /\ req'[v] = req[v]
         /\ \A v \in Worker, s \in Tenant \X Header : InFlight(v, s)' => v # w /\ InFlight(v, s)
  <1>1. /\ req' \in [Worker -> {Re!Idle} \cup ReplayRequest]
        /\ req'[w] = Re!Idle
        /\ \A v \in Worker \ {w} : req'[v] = req[v]
    BY DEF Re!ReplayTypeOK, ReplayRequest, Re!Finish
  <1>2. \A v \in Worker : req'[v].op = "store" => v # w /\ req'[v] = req[v]
    BY <1>1 DEF Re!Idle
  <1>3. \A v \in Worker, s \in Tenant \X Header : InFlight(v, s)' => v # w /\ InFlight(v, s)
    BY <1>1 DEF InFlight, SlotOf
  <1> QED
    BY <1>1, <1>2, <1>3

LEMMA ReplayFails ==
  ASSUME ReplayInv, NEW w \in Worker, Re!Fail(w)
  PROVE  ReplayInv'
  <1> PICK mine : mine = SlotOf(w)
    OBVIOUS
  <1>1. /\ req[w] # Re!Idle /\ Re!Finish(w) /\ excused' = excused \cup {mine}
        /\ UNCHANGED <<row, cache, answers>>
    BY DEF Re!Fail, SlotOf
  <1>2. mine \in Tenant \X Header
    BY <1>1, ServedSlot DEF ReplayInv
  <1>3. /\ req' \in [Worker -> {Re!Idle} \cup ReplayRequest]
        /\ \A v \in Worker : req'[v].op = "store" => v # w /\ req'[v] = req[v]
        /\ \A v \in Worker \ {w} : req'[v] = req[v]
        /\ \A v \in Worker, s \in Tenant \X Header : InFlight(v, s)' => v # w /\ InFlight(v, s)
    BY <1>1, ServingEnds DEF ReplayInv
  <1>4. Re!ReplayTypeOK'
    BY <1>1, <1>2, <1>3 DEF ReplayInv, Re!ReplayTypeOK, ReplayRequest
  <1>5. \A v \in Worker : req'[v].op = "store" => row'[req'[v].made] = MadeBy(v)'
    BY <1>1, <1>3 DEF ReplayInv, MadeBy
  <1>6. ASSUME NEW s \in Tenant \X Header, s \notin excused'
        PROVE  /\ s # mine /\ s \notin excused /\ Orderly(s)
               /\ RowsOf(s)' = RowsOf(s)
    BY <1>1, <1>6 DEF ReplayInv, RowsOf
  <1>7. \A v \in Worker : req[v].op = "store" /\ SlotOf(v) # mine => req'[v] = req[v]
    BY <1>3
  <1>8. \A s \in Tenant \X Header : Orderly(s)'
    BY <1>1, <1>3, <1>6, <1>7 DEF Orderly, SlotOf
  <1>9. Re!AnswersAreRows'
    BY <1>1 DEF ReplayInv, Re!AnswersAreRows
  <1> QED
    BY <1>1, <1>4, <1>5, <1>8, <1>9 DEF ReplayInv

LEMMA ReplayExpires ==
  ASSUME ReplayInv, NEW t \in Tenant, NEW k \in Header, Re!Expire(t, k)
  PROVE  ReplayInv'
  <1> PICK mine : mine = <<t, k>>
    OBVIOUS
  <1>1. /\ cache' = [cache EXCEPT ![mine] = Re!Null]
        /\ excused' = excused \cup {mine} /\ UNCHANGED <<row, answers, req>>
    BY DEF Re!Expire, Re!Slot
  <1>2. mine \in Tenant \X Header /\ mine \in Re!Slots
    BY DEF Re!Slots
  <1>3. /\ cache' \in [Re!Slots -> Row \cup {Re!Null}]
        /\ cache'[mine] = Re!Null
        /\ \A s \in Re!Slots \ {mine} : cache'[s] = cache[s]
    BY <1>1, <1>2 DEF ReplayInv, Re!ReplayTypeOK
  <1>4. Re!ReplayTypeOK'
    BY <1>1, <1>2, <1>3 DEF ReplayInv, Re!ReplayTypeOK
  <1>5. \A s \in Re!Slots : cache'[s] # Re!Null =>
          row'[cache'[s]] # Re!NoRow /\ row'[cache'[s]].tenant = s[1]
    BY <1>1, <1>3 DEF ReplayInv
  <1>6. \A v \in Worker : req'[v].op = "store" => row'[req'[v].made] = MadeBy(v)'
    BY <1>1 DEF ReplayInv, MadeBy
  <1>7. ASSUME NEW s \in Tenant \X Header, s \notin excused'
        PROVE  /\ s \notin excused /\ Orderly(s) /\ RowsOf(s)' = RowsOf(s)
               /\ cache'[s] = cache[s]
               /\ \A v \in Worker : InFlight(v, s)' <=> InFlight(v, s)
    <2>1. s # mine /\ s \in Re!Slots
      BY <1>1, <1>7 DEF Re!Slots
    <2> QED
      BY <1>1, <1>3, <1>7, <2>1 DEF ReplayInv, RowsOf, InFlight, SlotOf
  <1>8. \A s \in Tenant \X Header : Orderly(s)'
    BY <1>1, <1>7 DEF Orderly, SlotOf
  <1>9. Re!AnswersAreRows'
    BY <1>1 DEF ReplayInv, Re!AnswersAreRows
  <1> QED
    BY <1>4, <1>5, <1>6, <1>8, <1>9 DEF ReplayInv

LEMMA ReplayHits ==
  ASSUME ReplayInv, NEW w \in Worker, NEW t \in Tenant, NEW k \in Header, Re!Hit(w, t, k)
  PROVE  ReplayInv'
  <1> PICK x : x = cache[<<t, k>>]
    OBVIOUS
  <1>1. /\ x # Re!Null /\ answers' = answers \cup {[tenant |-> t, row |-> x]}
        /\ UNCHANGED <<row, cache, excused, req>>
    BY DEF Re!Hit, Re!Slot
  <1>2. <<t, k>> \in Re!Slots
    BY DEF Re!Slots
  <1>3. x \in Row /\ row[x] # Re!NoRow /\ row[x].tenant = t
    BY <1>1, <1>2 DEF ReplayInv, Re!ReplayTypeOK
  <1>4. Re!ReplayTypeOK'
    <2>1. answers' \subseteq [tenant : Tenant, row : Row]
      BY <1>1, <1>3 DEF ReplayInv, Re!ReplayTypeOK
    <2> QED
      BY <1>1, <2>1 DEF ReplayInv, Re!ReplayTypeOK
  <1>5. Re!AnswersAreRows'
    BY <1>1, <1>3 DEF ReplayInv, Re!AnswersAreRows
  <1>6. \A v \in Worker : req'[v].op = "store" => row'[req'[v].made] = MadeBy(v)'
    BY <1>1 DEF ReplayInv, MadeBy
  <1>7. \A s \in Tenant \X Header : Orderly(s)'
    BY <1>1 DEF ReplayInv, Orderly, InFlight, SlotOf, RowsOf
  <1> QED
    BY <1>1, <1>4, <1>5, <1>6, <1>7 DEF ReplayInv

LEMMA ReplayCreates ==
  ASSUME RowsAreIds, ReplayInv, NEW w \in Worker, NEW x \in Row, Re!Create(w, x)
  PROVE  ReplayInv'
  <1> PICK mine : mine = SlotOf(w)
    OBVIOUS
  <1> PICK new : new = MadeBy(w)
    OBVIOUS
  <1> PICK r : r = [op |-> "store", tenant |-> req[w].tenant, key |-> req[w].key, made |-> x]
    OBVIOUS
  <1>1. /\ req[w].op = "create" /\ row[x] = Re!NoRow
        /\ row' = [row EXCEPT ![x] = new] /\ req' = [req EXCEPT ![w] = r]
        /\ UNCHANGED <<cache, answers, excused>>
    BY DEF Re!Create, Re!Committed, MadeBy
  <1>2. /\ req[w] # Re!Idle
        /\ req[w].tenant \in Tenant /\ req[w].key \in Header
        /\ mine \in Tenant \X Header /\ mine \in Re!Slots
    <2>1. req[w] # Re!Idle
      BY <1>1 DEF Re!Idle
    <2> QED
      BY <2>1, ServedSlot DEF ReplayInv
  <1>3. /\ new \in RowMade /\ new # Re!NoRow
        /\ new.tenant = req[w].tenant /\ new.key = req[w].key
        /\ <<new.tenant, new.key>> = mine
    BY <1>2 DEF MadeBy, RowMade, Re!NoRow, SlotOf
  <1>4. /\ r \in ReplayRequest /\ r.op = "store" /\ r.made = x
        /\ r.tenant = req[w].tenant /\ r.key = req[w].key
        /\ r # Re!Idle
    BY <1>2 DEF ReplayRequest, Re!Idle
  <1>5. /\ row' \in [Row -> {Re!NoRow} \cup RowMade] /\ row'[x] = new
        /\ \A y \in Row \ {x} : row'[y] = row[y]
    BY <1>1, <1>3 DEF ReplayInv, Re!ReplayTypeOK, RowMade
  <1>6. /\ req' \in [Worker -> {Re!Idle} \cup ReplayRequest] /\ req'[w] = r
        /\ \A v \in Worker \ {w} : req'[v] = req[v]
    BY <1>1, <1>4 DEF ReplayInv, Re!ReplayTypeOK, ReplayRequest
  <1>7. Re!ReplayTypeOK'
    BY <1>1, <1>5, <1>6 DEF ReplayInv, Re!ReplayTypeOK, ReplayRequest, RowMade
  <1>8. \A s \in Re!Slots : cache'[s] # Re!Null =>
          row'[cache'[s]] # Re!NoRow /\ row'[cache'[s]].tenant = s[1]
    <2> SUFFICES ASSUME NEW s \in Re!Slots, cache[s] # Re!Null
                 PROVE  row'[cache[s]] # Re!NoRow /\ row'[cache[s]].tenant = s[1]
      BY <1>1
    <2>1. cache[s] \in Row /\ row[cache[s]] # Re!NoRow /\ row[cache[s]].tenant = s[1]
      BY DEF ReplayInv, Re!ReplayTypeOK
    <2> QED
      BY <1>1, <1>5, <2>1
  <1>9. Re!AnswersAreRows'
    <2> SUFFICES ASSUME NEW a \in answers
                 PROVE  row'[a.row] # Re!NoRow /\ row'[a.row].tenant = a.tenant
      BY <1>1 DEF Re!AnswersAreRows
    <2>1. a.row \in Row /\ row[a.row] # Re!NoRow /\ row[a.row].tenant = a.tenant
      BY DEF ReplayInv, Re!AnswersAreRows, Re!ReplayTypeOK
    <2> QED
      BY <1>1, <1>5, <2>1
  <1>10. \A v \in Worker : req'[v].op = "store" => row'[req'[v].made] = MadeBy(v)'
    <2>1. row'[req'[w].made] = MadeBy(w)'
      BY <1>4, <1>5, <1>6 DEF MadeBy
    <2>2. ASSUME NEW v \in Worker \ {w}, req[v].op = "store"
          PROVE  row'[req[v].made] = MadeBy(v)
      <3>1. /\ req[v] # Re!Idle /\ row[req[v].made] = MadeBy(v)
            /\ MadeBy(v) # Re!NoRow
        BY <2>2 DEF ReplayInv, Re!Idle, MadeBy, Re!NoRow
      <3>2. req[v] \in ReplayRequest
        BY <3>1, ServedSlot DEF ReplayInv
      <3>3. req[v].made \in Row
        BY <2>2, <3>2 DEF ReplayRequest
      <3> QED
        BY <1>1, <1>5, <3>1, <3>3
    <2> QED
      BY <1>6, <2>1, <2>2 DEF MadeBy
  <1>11. \A v \in Worker, s \in Tenant \X Header : InFlight(v, s)' <=> InFlight(v, s)
    <2>1. \A s \in Tenant \X Header : InFlight(w, s)' <=> InFlight(w, s)
      BY <1>2, <1>4, <1>6 DEF InFlight, SlotOf
    <2> QED
      BY <1>6, <2>1 DEF InFlight, SlotOf
  <1>12. ASSUME NEW s \in Tenant \X Header, s \notin excused'
         PROVE  \A y \in RowsOf(s)' :
                  \/ cache'[s] = y
                  \/ \E v \in Worker : req'[v].op = "store" /\ SlotOf(v)' = s /\ req'[v].made = y
    <2>1. s \notin excused /\ Orderly(s)
      BY <1>1, <1>12 DEF ReplayInv
    <2>2. ASSUME NEW y \in RowsOf(s)', y # x
          PROVE  \/ cache'[s] = y
                 \/ \E v \in Worker : req'[v].op = "store" /\ SlotOf(v)' = s /\ req'[v].made = y
      <3>1. y \in RowsOf(s)
        BY <1>5, <2>2 DEF RowsOf
      <3>2. \A v \in Worker : req[v].op = "store" => v # w
        BY <1>1
      <3> QED
        BY <1>1, <1>6, <2>1, <3>1, <3>2 DEF Orderly, SlotOf
    <2>3. x \in RowsOf(s)' => s = mine
      BY <1>3, <1>5 DEF RowsOf
    <2>4. req'[w].op = "store" /\ SlotOf(w)' = mine /\ req'[w].made = x
      BY <1>4, <1>6 DEF SlotOf
    <2> QED
      BY <2>2, <2>3, <2>4
  <1>13. \A s \in Tenant \X Header : Orderly(s)'
    BY <1>1, <1>11, <1>12 DEF ReplayInv, Orderly
  <1> QED
    BY <1>7, <1>8, <1>9, <1>10, <1>13 DEF ReplayInv

LEMMA ReplayStores ==
  ASSUME RowsAreIds, ReplayInv, NEW w \in Worker, Re!Store(w)
  PROVE  ReplayInv' /\ Re!StayingAnswer
  <1> PICK mine : mine = SlotOf(w)
    OBVIOUS
  <1> PICK x : x = req[w].made
    OBVIOUS
  <1>1. /\ req[w].op = "store"
        /\ \/ cache' = Re!FirstWins(Re!Slot(req[w].tenant, req[w].key), x) /\ UNCHANGED excused
           \/ UNCHANGED cache /\ excused' = excused \cup {mine}
        /\ answers' = answers \cup {[tenant |-> req[w].tenant, row |-> x]}
        /\ Re!Finish(w) /\ row' = row
    BY DEF Re!Store, SlotOf
  <1>2. /\ req[w] # Re!Idle /\ req[w] \in ReplayRequest
        /\ req[w].tenant \in Tenant /\ req[w].key \in Header
        /\ mine \in Tenant \X Header /\ mine \in Re!Slots /\ mine[1] = req[w].tenant
        /\ Re!Slot(req[w].tenant, req[w].key) = mine
    <2>1. req[w] # Re!Idle
      BY <1>1 DEF Re!Idle
    <2> QED
      BY <2>1, ServedSlot DEF ReplayInv, SlotOf
  <1>3. /\ x \in Row /\ x # Re!Null
        /\ row[x] # Re!NoRow /\ row[x].tenant = req[w].tenant
        /\ <<row[x].tenant, row[x].key>> = mine
    <2>1. x \in Row
      BY <1>1, <1>2 DEF ReplayRequest
    <2>2. row[x] = MadeBy(w)
      BY <1>1 DEF ReplayInv
    <2> QED
      BY <1>2, <2>1, <2>2 DEF RowsAreIds, MadeBy, Re!NoRow, SlotOf
  <1>4. /\ req' \in [Worker -> {Re!Idle} \cup ReplayRequest]
        /\ \A v \in Worker : req'[v].op = "store" => v # w /\ req'[v] = req[v]
        /\ \A v \in Worker \ {w} : req'[v] = req[v]
        /\ \A v \in Worker, s \in Tenant \X Header : InFlight(v, s)' => v # w /\ InFlight(v, s)
    BY <1>1, ServingEnds DEF ReplayInv
  <1>5. /\ cache' \in [Re!Slots -> Row \cup {Re!Null}]
        /\ \A s \in Re!Slots \ {mine} : cache'[s] = cache[s]
        /\ cache[mine] # Re!Null => cache'[mine] = cache[mine]
        /\ cache[mine] = Re!Null => cache'[mine] \in {x, Re!Null}
        /\ cache[mine] = Re!Null /\ mine \notin excused' => cache'[mine] = x
    BY <1>1, <1>2, <1>3 DEF ReplayInv, Re!ReplayTypeOK, Re!FirstWins
  <1>6. excused' \subseteq Tenant \X Header /\ excused \subseteq excused'
    BY <1>1, <1>2 DEF ReplayInv, Re!ReplayTypeOK
  <1>7. answers' \subseteq [tenant : Tenant, row : Row]
    BY <1>1, <1>2, <1>3 DEF ReplayInv, Re!ReplayTypeOK
  <1>8. Re!ReplayTypeOK'
    BY <1>1, <1>4, <1>5, <1>6, <1>7 DEF ReplayInv, Re!ReplayTypeOK, ReplayRequest
  <1>9. \A s \in Re!Slots : cache'[s] # Re!Null =>
          row'[cache'[s]] # Re!NoRow /\ row'[cache'[s]].tenant = s[1]
    BY <1>1, <1>2, <1>3, <1>5 DEF ReplayInv
  <1>10. Re!AnswersAreRows'
    BY <1>1, <1>3 DEF ReplayInv, Re!AnswersAreRows
  <1>11. \A v \in Worker : req'[v].op = "store" => row'[req'[v].made] = MadeBy(v)'
    BY <1>1, <1>4 DEF ReplayInv, MadeBy
  <1>12. RowsOf(mine)' = RowsOf(mine) /\ \A s \in Tenant \X Header : RowsOf(s)' = RowsOf(s)
    BY <1>1 DEF RowsOf
  <1>13. InFlight(w, mine)
    BY <1>2 DEF InFlight
  <1>14. Orderly(mine)'
    <2> SUFFICES ASSUME mine \notin excused'
                 PROVE  /\ \A v \in Worker : ~InFlight(v, mine)'
                        /\ \A y \in RowsOf(mine)' : cache'[mine] = y
      BY DEF Orderly
    <2>1. mine \notin excused /\ Orderly(mine)
      BY <1>2, <1>6 DEF ReplayInv
    <2>2. \A v \in Worker : InFlight(v, mine) => v = w
      BY <1>13, <2>1 DEF Orderly
    <2>3. \A v \in Worker : ~InFlight(v, mine)'
      BY <1>2, <1>4, <2>2
    <2>4. cache[mine] = Re!Null /\ cache'[mine] = x
      BY <1>5, <1>13, <2>1 DEF Orderly
    <2>5. ASSUME NEW y \in RowsOf(mine)
          PROVE  y = x
      <3>1. y \in Row /\ y # Re!Null
        BY DEF RowsOf, RowsAreIds
      <3>2. PICK v \in Worker : req[v].op = "store" /\ SlotOf(v) = mine /\ req[v].made = y
        BY <2>1, <2>4, <3>1 DEF Orderly
      <3>3. InFlight(v, mine)
        BY <3>2 DEF InFlight, Re!Idle
      <3> QED
        BY <2>2, <3>2, <3>3
    <2> QED
      BY <1>12, <2>3, <2>4, <2>5
  <1>15. ASSUME NEW s \in Tenant \X Header, s # mine
         PROVE  Orderly(s)'
    <2>1. Orderly(s) /\ s \in Re!Slots
      BY DEF ReplayInv, Re!Slots
    <2>2. \A v \in Worker : SlotOf(v) = s => v # w
      BY <1>15
    <2>3. cache'[s] = cache[s]
      BY <1>5, <1>15, <2>1
    <2> QED
      BY <1>4, <1>6, <1>12, <2>1, <2>2, <2>3 DEF Orderly, SlotOf
  <1>16. Re!StayingAnswer
    BY <1>2, <1>5 DEF Re!StayingAnswer
  <1> QED
    BY <1>8, <1>9, <1>10, <1>11, <1>14, <1>15, <1>16 DEF ReplayInv

LEMMA ReplayStep ==
  ASSUME RowsAreIds, ReplayInv, [Re!Next]_(Re!vars)
  PROVE  ReplayInv'
  <1>1. ASSUME NEW w \in Worker, NEW t \in Tenant, NEW k \in Header, Re!Miss(w, t, k)
        PROVE  ReplayInv'
    <2>1. /\ req[w] = Re!Idle /\ cache[<<t, k>>] = Re!Null
          /\ req' = [req EXCEPT ![w] = [op |-> "create", tenant |-> t, key |-> k]]
          /\ UNCHANGED <<row, cache, answers>>
          /\ excused' = IF Re!Serving(<<t, k>>) = {} THEN excused ELSE excused \cup {<<t, k>>}
      BY <1>1 DEF Re!Miss, Re!Missed, Re!Slot
    <2>2. Re!Serving(<<t, k>>) = {} => \A v \in Worker : ~InFlight(v, <<t, k>>)
      BY DEF Re!Serving, Re!Slot, InFlight, SlotOf
    <2> QED
      BY <2>1, <2>2, ServingBegins
  <1>2. ASSUME NEW w \in Worker, NEW t \in Tenant, NEW k \in Header, Re!Unreachable(w, t, k)
        PROVE  ReplayInv'
    BY <1>2, ServingBegins DEF Re!Unreachable
  <1>3. ASSUME UNCHANGED Re!vars
        PROVE  ReplayInv'
    <2>1. UNCHANGED <<row, cache, answers, excused, req>>
      BY <1>3 DEF Re!vars
    <2>2. Re!ReplayTypeOK' /\ Re!AnswersAreRows'
      BY <2>1 DEF ReplayInv, Re!ReplayTypeOK, Re!AnswersAreRows
    <2>3. \A s \in Tenant \X Header : Orderly(s)'
      BY <2>1 DEF ReplayInv, Orderly, InFlight, SlotOf, RowsOf
    <2> QED
      BY <2>1, <2>2, <2>3 DEF ReplayInv, MadeBy
  <1> QED
    BY <1>1, <1>2, <1>3, ReplayHits, ReplayCreates, ReplayStores, ReplayFails, ReplayExpires
    DEF Re!Next

\* A slot that answers is never made to answer with another row.
LEMMA AnswerStays ==
  ASSUME RowsAreIds, ReplayInv, [Re!Next]_(Re!vars)
  PROVE  Re!StayingAnswer
  <1>1. ASSUME UNCHANGED cache
        PROVE  Re!StayingAnswer
    BY <1>1 DEF Re!StayingAnswer
  <1>2. ASSUME NEW t \in Tenant, NEW k \in Header, Re!Expire(t, k)
        PROVE  Re!StayingAnswer
    <2>1. \A s \in Re!Slots : cache'[s] \in {cache[s], Re!Null}
      BY <1>2 DEF Re!Expire, ReplayInv, Re!ReplayTypeOK
    <2> QED
      BY <2>1 DEF Re!StayingAnswer
  <1>3. ASSUME NEW w \in Worker, NEW t \in Tenant, NEW k \in Header,
               Re!Hit(w, t, k) \/ Re!Miss(w, t, k) \/ Re!Unreachable(w, t, k)
        PROVE  UNCHANGED cache
    BY <1>3 DEF Re!Hit, Re!Miss, Re!Unreachable
  <1>4. ASSUME NEW w \in Worker, NEW x \in Row, Re!Create(w, x) \/ Re!Fail(w)
        PROVE  UNCHANGED cache
    BY <1>4 DEF Re!Create, Re!Committed, Re!Fail
  <1>5. ASSUME NEW w \in Worker, Re!Fail(w)
        PROVE  UNCHANGED cache
    BY <1>5 DEF Re!Fail
  <1> QED
    BY <1>1, <1>2, <1>3, <1>4, <1>5, ReplayStores DEF Re!Next, Re!vars

LEMMA ReplayFollows ==
  ASSUME RowsAreIds, ReplayInv
  PROVE  Re!AnswersKept
  <1>1. ASSUME NEW x \in Row, NEW y \in Row, x # y, row[x] # Re!NoRow, row[x] = row[y],
               <<row[x].tenant, row[x].key>> \notin excused
        PROVE  FALSE
    <2> PICK s : s = <<row[x].tenant, row[x].key>>
      OBVIOUS
    <2>1. s \in Tenant \X Header /\ x \in RowsOf(s) /\ y \in RowsOf(s)
      BY <1>1 DEF ReplayInv, Re!ReplayTypeOK, RowsOf
    <2>2. /\ \A v, w \in Worker : InFlight(v, s) /\ InFlight(w, s) => v = w
          /\ \A z \in RowsOf(s) :
               \/ cache[s] = z
               \/ \E w \in Worker : req[w].op = "store" /\ SlotOf(w) = s /\ req[w].made = z
          /\ \A w \in Worker : InFlight(w, s) => cache[s] = Re!Null
      BY <1>1, <2>1 DEF ReplayInv, Orderly
    <2>3. \A w \in Worker : req[w].op = "store" /\ SlotOf(w) = s => InFlight(w, s)
      BY DEF InFlight, Re!Idle
    <2>4. x # Re!Null /\ y # Re!Null
      BY DEF RowsAreIds
    <2> QED
      BY <1>1, <2>1, <2>2, <2>3, <2>4
  <1>2. Re!OnceUnlessExcused
    BY <1>1 DEF Re!OnceUnlessExcused
  <1> QED
    BY <1>2 DEF ReplayInv, Re!AnswersKept

\* While the replay run, a step is one of theirs, and their invariant holds.
LEMMA ReplayRun ==
  [Next]_vars /\ part' = "replay" => part = "replay" /\ [Re!Next]_(Re!vars)
  BY DEF Next, vars, Re!vars, RestOfOffers, RestOfInvoices, RestOfReplay,
         RestOfQueue, RestOfErasure, RestOfPaper

LEMMA ReplayInvariant ==
  ASSUME RowsAreIds
  PROVE  Spec => [](part = "replay" => ReplayInv)
  <1> DEFINE Inv == part = "replay" => ReplayInv
  <1>1. Init => Inv
    <2>1. Init /\ part = "replay" => Re!Init
      BY DEF Init
    <2> QED
      BY <2>1, ReplayStart
  <1>2. Inv /\ [Next]_vars => Inv'
    BY ReplayRun, ReplayStep
  <1> QED
    BY <1>1, <1>2, PTL DEF Spec

-----------------------------------------------------------------------------
(* Paper.                                                                  *)

\* A finite bank; a question has options, and a test a length.
PapersFinite == IsFiniteSet(Question) /\ Width \in Nat \ {0} /\ Count \in Nat

BankRow == [level : Level, right : Pa!Options, active : BOOLEAN]

\* The served copy of q names as right the option that was right when drawn.
Remapped(q) == /\ paper[q].options \in Pa!Shuffles /\ paper[q].correct \in Pa!Options
               /\ meant[q] \in Pa!Options
               /\ paper[q].options[paper[q].correct] = meant[q]

PaperInv ==
  /\ bank \in [Question -> BankRow]
  /\ edits \in 0 .. Edits
  /\ DOMAIN paper \subseteq Question /\ drawn \subseteq Question
  /\ \A q \in DOMAIN paper : Remapped(q)
  /\ result = Pa!Null \/ (result.graded = TRUE /\ paper # <<>>)
  /\ Pa!GradedAsMeant /\ Pa!DrawnEvenly

\* The instance counts as the library does.
LEMMA PaperCounts ==
  ASSUME NEW S
  PROVE  Pa!Cardinality(S) = Cardinality(S)
  BY DEF Pa!Cardinality, Cardinality

\* A shuffle of finitely many options puts every one of them somewhere.
LEMMA ShufflesReach ==
  ASSUME PapersFinite, NEW shuffle \in Pa!Shuffles, NEW o \in Pa!Options
  PROVE  \E i \in Pa!Options : shuffle[i] = o
  <1>1. IsFiniteSet(Pa!Options)
    BY FS_Interval DEF Pa!Options, PapersFinite
  <1>2. shuffle \in Injection(Pa!Options, Pa!Options)
    BY DEF Pa!Shuffles, Injection, IsInjective
  <1>3. shuffle \in Surjection(Pa!Options, Pa!Options)
    BY <1>1, <1>2, FS_Injection
  <1> QED
    BY <1>3 DEF Surjection

\* Shares of so many questions a difficulty are no more than that many of each.
LEMMA SharesBounded ==
  ASSUME PapersFinite, PaperInv, NEW n \in Nat, NEW s \in Pa!Shares(n), Pa!Active # {}
  PROVE  /\ IsFiniteSet(Pa!Present) /\ Cardinality(Pa!Present) \in Nat \ {0}
         /\ Pa!Quota(n) \in Nat \ {0}
         /\ IsFiniteSet(s) /\ s \subseteq Pa!Active
         /\ Cardinality(s) <= Cardinality(Pa!Present) * Pa!Quota(n)
  <1>1. IsFiniteSet(Pa!Active) /\ Pa!Active \subseteq Question
    BY FS_Subset DEF Pa!Active, PapersFinite
  <1>2. \A q \in Pa!Active : bank[q].level \in Level /\ bank[q].level \in Pa!Present
                             /\ q \in Pa!Pool(bank[q].level)
    BY <1>1 DEF PaperInv, BankRow, Pa!Present, Pa!Pool
  <1>3. IsFiniteSet(Pa!Present)
    <2>1. PICK levels : levels = {bank[q].level : q \in Pa!Active}
      OBVIOUS
    <2>2. PICK f : f = [q \in Pa!Active |-> bank[q].level]
      OBVIOUS
    <2>3. f \in Surjection(Pa!Active, levels)
      BY <2>1, <2>2 DEF Surjection
    <2>4. IsFiniteSet(levels)
      BY <1>1, <2>3, FS_Surjection
    <2>5. Pa!Present \subseteq levels
      BY <2>1 DEF Pa!Present, Pa!Pool
    <2> QED
      BY <2>4, <2>5, FS_Subset
  <1>4. Cardinality(Pa!Present) \in Nat \ {0}
    <2>1. Pa!Present # {}
      BY <1>2
    <2> QED
      BY <1>3, <2>1, FS_CardinalityType, FS_EmptySet
  <1>5. PICK p : p = Cardinality(Pa!Present)
    OBVIOUS
  <1>6. Pa!Cardinality(Pa!Present) = p
    BY <1>5, PaperCounts
  <1>7. PICK quota : quota = Pa!Quota(n)
    OBVIOUS
  <1>8. quota \in Nat \ {0}
    <2>1. n \div p \in Nat
      BY <1>4, <1>5
    <2> QED
      BY <1>6, <1>7, <2>1 DEF Pa!Quota
  <1>9. s \subseteq Pa!Active /\ IsFiniteSet(s)
    <2>1. s \in SUBSET Pa!Active
      BY DEF Pa!Shares
    <2> QED
      BY <1>1, <2>1, FS_Subset
  <1>10. PICK own : own = [l \in Pa!Present |-> s \cap Pa!Pool(l)]
    OBVIOUS
  <1>11. ASSUME NEW l \in Pa!Present
         PROVE  \E g : g \in Injection(own[l], 1 .. quota)
    <2>1. own[l] = s \cap Pa!Pool(l) /\ IsFiniteSet(own[l])
      BY <1>9, <1>10, FS_Intersection
    <2>2. PICK c : c = Cardinality(own[l])
      OBVIOUS
    <2>3. c \in Nat /\ c <= quota
      <3>1. IsFiniteSet(Pa!Pool(l))
        <4>1. Pa!Pool(l) \in SUBSET Pa!Active
          BY DEF Pa!Pool
        <4> QED
          BY <1>1, <4>1, FS_Subset
      <3>2. Pa!Cardinality(s \cap Pa!Pool(l)) =
              IF Pa!Cardinality(Pa!Pool(l)) < quota THEN Pa!Cardinality(Pa!Pool(l)) ELSE quota
        BY <1>7 DEF Pa!Shares
      <3>3. Pa!Cardinality(s \cap Pa!Pool(l)) = c /\ Pa!Cardinality(Pa!Pool(l)) \in Nat
        BY <2>1, <2>2, <3>1, PaperCounts, FS_CardinalityType
      <3> QED
        BY <1>8, <3>2, <3>3
    <2>4. \E g : g \in Injection(own[l], 1 .. c)
      <3>1. ExistsBijection(1 .. c, own[l])
        BY <2>1, <2>2, FS_CardinalityType
      <3> QED
        <4>1. PICK h : h \in Bijection(1 .. c, own[l])
          BY <3>1 DEF ExistsBijection
        <4>2. h \in [1 .. c -> own[l]] /\ \A o \in own[l] : \E i \in 1 .. c : h[i] = o
          BY <4>1 DEF Bijection, Surjection
        <4>3. \A i, j \in 1 .. c : h[i] = h[j] => i = j
          BY <4>1, <4>2 DEF Bijection, Injection, IsInjective
        <4>4. PICK g : g = [o \in own[l] |-> CHOOSE i \in 1 .. c : h[i] = o]
          OBVIOUS
        <4>5. \A o \in own[l] : g[o] \in 1 .. c /\ h[g[o]] = o
          BY <4>2, <4>4
        <4>6. g \in [own[l] -> 1 .. c] /\ DOMAIN g = own[l]
          BY <4>4, <4>5
        <4>7. g \in Injection(own[l], 1 .. c)
          BY <4>5, <4>6 DEF Injection, IsInjective
        <4> QED
          BY <4>7
    <2>5. PICK g : g \in Injection(own[l], 1 .. c)
      BY <2>4
    <2>6. 1 .. c \subseteq 1 .. quota
      BY <1>8, <2>3
    <2>7. g \in Injection(own[l], 1 .. quota)
      BY <2>5, <2>6 DEF Injection
    <2> QED
      BY <2>7
  <1>12. PICK place : place = [l \in Pa!Present |-> CHOOSE g : g \in Injection(own[l], 1 .. quota)]
    OBVIOUS
  <1>13. \A l \in Pa!Present : place[l] \in Injection(own[l], 1 .. quota)
    BY <1>11, <1>12
  <1>14. PICK f : f = [q \in s |-> <<bank[q].level, place[bank[q].level][q]>>]
    OBVIOUS
  <1>15. ASSUME NEW q \in s
         PROVE  /\ bank[q].level \in Pa!Present /\ q \in own[bank[q].level]
                /\ place[bank[q].level][q] \in 1 .. quota
                /\ f[q] \in Pa!Present \X (1 .. quota)
    <2>1. bank[q].level \in Pa!Present /\ q \in own[bank[q].level]
      BY <1>2, <1>9, <1>10
    <2>2. place[bank[q].level][q] \in 1 .. quota
      BY <1>13, <2>1 DEF Injection
    <2> QED
      BY <1>14, <2>1, <2>2
  <1>16. ASSUME NEW q \in s, NEW r \in s, f[q] = f[r]
         PROVE  q = r
    <2>1. bank[q].level = bank[r].level /\ place[bank[q].level][q] = place[bank[r].level][r]
      BY <1>14, <1>16
    <2>2. PICK l \in Pa!Present : l = bank[q].level
      BY <1>15
    <2>3. q \in own[l] /\ r \in own[l] /\ place[l][q] = place[l][r]
      BY <1>15, <2>1, <2>2
    <2> QED
      BY <1>13, <2>3 DEF Injection, IsInjective
  <1>17. f \in Injection(s, Pa!Present \X (1 .. quota))
    BY <1>14, <1>15, <1>16 DEF Injection, IsInjective
  <1>18. /\ IsFiniteSet(Pa!Present \X (1 .. quota))
         /\ Cardinality(Pa!Present \X (1 .. quota)) = p * quota
    <2>1. IsFiniteSet(1 .. quota) /\ Cardinality(1 .. quota) = quota
      BY <1>8, FS_Interval
    <2> QED
      BY <1>3, <1>5, <2>1, FS_Product
  <1>19. Cardinality(s) <= p * quota
    BY <1>17, <1>18, FS_Injection
  <1> QED
    BY <1>3, <1>4, <1>5, <1>7, <1>8, <1>9, <1>19

\* What is served of a difficulty is its even share, or all there is.
LEMMA ServedEvenly ==
  ASSUME PapersFinite, PaperInv, Pa!Active # {}, NEW n \in Nat, NEW picks \in Pa!Picks(n),
         NEW l \in Pa!Present
  PROVE  \/ Cardinality(picks \cap Pa!Pool(l)) >= n \div Cardinality(Pa!Present)
         \/ Pa!Pool(l) \subseteq picks
  <1>1. IsFiniteSet(Pa!Active)
    BY FS_Subset DEF Pa!Active, PapersFinite
  <1>2. picks \in SUBSET Pa!Active /\ Pa!Cardinality(picks) = n
    BY DEF Pa!Picks, Pa!kSubset
  <1>3. IsFiniteSet(picks) /\ Cardinality(picks) = n
    BY <1>1, <1>2, FS_Subset, PaperCounts
  <1>4. PICK s \in Pa!Shares(n) : picks \subseteq s \/ s \subseteq picks
    BY DEF Pa!Picks
  <1>5. PICK p : p = Cardinality(Pa!Present)
    OBVIOUS
  <1>6. PICK quota : quota = Pa!Quota(n)
    OBVIOUS
  <1>7. /\ p \in Nat \ {0} /\ quota \in Nat \ {0} /\ IsFiniteSet(s)
        /\ Cardinality(s) <= p * quota
    BY <1>4, <1>5, <1>6, SharesBounded
  <1>8. quota = IF n \div p > 1 THEN n \div p ELSE 1
    BY <1>5, <1>6, PaperCounts DEF Pa!Quota
  <1>9. n \div p \in Nat /\ (n \div p) * p <= n
    BY <1>7
  <1>10. IsFiniteSet(picks \cap Pa!Pool(l)) /\ Cardinality(picks \cap Pa!Pool(l)) \in Nat
    BY <1>3, FS_Intersection, FS_CardinalityType
  <1>11. CASE n < p
    <2>1. n \div p = 0
      BY <1>7, <1>11
    <2> QED
      BY <1>5, <1>10, <2>1
  <1>12. CASE n >= p
    <2>1. n \div p >= 1
      BY <1>7, <1>12
    <2>2. quota = n \div p
      BY <1>8, <1>9, <2>1
    <2>3. Cardinality(s) \in Nat /\ Cardinality(s) <= n
      <3>1. p * quota = (n \div p) * p
        BY <1>7, <2>2
      <3>2. Cardinality(s) \in Nat /\ p * quota \in Nat
        BY <1>7, FS_CardinalityType
      <3> QED
        BY <1>7, <1>9, <3>1, <3>2
    <2>4. s \subseteq picks
      <3>1. CASE picks \subseteq s
        <4>1. Cardinality(picks) <= Cardinality(s)
          BY <1>7, <3>1, FS_Subset
        <4>2. Cardinality(s) = Cardinality(picks)
          BY <1>3, <2>3, <4>1
        <4> QED
          BY <1>7, <3>1, <4>2, FS_Subset
      <3> QED
        BY <1>4, <3>1
    <2>5. IsFiniteSet(Pa!Pool(l)) /\ Cardinality(Pa!Pool(l)) \in Nat
      <3>1. Pa!Pool(l) \in SUBSET Pa!Active
        BY DEF Pa!Pool
      <3> QED
        BY <1>1, <3>1, FS_Subset, FS_CardinalityType
    <2>6. Cardinality(s \cap Pa!Pool(l)) =
            IF Cardinality(Pa!Pool(l)) < quota THEN Cardinality(Pa!Pool(l)) ELSE quota
      <3>1. Pa!Cardinality(s \cap Pa!Pool(l)) =
              IF Pa!Cardinality(Pa!Pool(l)) < quota THEN Pa!Cardinality(Pa!Pool(l)) ELSE quota
        BY <1>6 DEF Pa!Shares
      <3> QED
        BY <3>1, PaperCounts
    <2>7. CASE Cardinality(Pa!Pool(l)) < quota
      <3>1. Cardinality(Pa!Pool(l)) = Cardinality(s \cap Pa!Pool(l))
        BY <2>6, <2>7
      <3>2. s \cap Pa!Pool(l) = Pa!Pool(l)
        BY <2>5, <3>1, FS_Subset
      <3> QED
        BY <2>4, <3>2
    <2>8. CASE ~(Cardinality(Pa!Pool(l)) < quota)
      <3>1. Cardinality(s \cap Pa!Pool(l)) = quota
        BY <2>6, <2>8
      <3>2. s \cap Pa!Pool(l) \in SUBSET (picks \cap Pa!Pool(l))
        BY <2>4
      <3>3. Cardinality(s \cap Pa!Pool(l)) <= Cardinality(picks \cap Pa!Pool(l))
        BY <1>10, <3>2, FS_Subset
      <3> QED
        BY <1>5, <1>10, <1>7, <2>2, <3>1, <3>3
    <2> QED
      BY <2>7, <2>8
  <1> QED
    BY <1>7, <1>11, <1>12

LEMMA PaperStart ==
  ASSUME PapersFinite, Edits \in Nat, Pa!Init
  PROVE  PaperInv
  <1>1. 0 \in Pa!Options
    BY DEF Pa!Options, PapersFinite
  <1>2. DOMAIN paper = {}
    BY DEF Pa!Init
  <1>3. bank \in [Question -> BankRow]
    <2>1. [level : Level, right : {0}, active : {TRUE}] \subseteq BankRow
      BY <1>1 DEF BankRow
    <2>2. PICK t : t = [level : Level, right : {0}, active : {TRUE}]
      OBVIOUS
    <2> QED
      BY <2>1, <2>2 DEF Pa!Init
  <1>4. result = Pa!Null /\ result.graded = FALSE /\ paper = <<>> /\ edits = 0
    BY DEF Pa!Init, Pa!Null
  <1>5. Pa!GradedAsMeant /\ Pa!DrawnEvenly
    BY <1>4 DEF Pa!GradedAsMeant, Pa!DrawnEvenly
  <1> QED
    <2>1. drawn = {}
      BY DEF Pa!Init
    <2> QED
      BY <1>2, <1>3, <1>4, <1>5, <2>1 DEF PaperInv

\* A question is frozen with its right option where the shuffle put it.
LEMMA FrozenRight ==
  ASSUME PapersFinite, PaperInv, NEW q \in Question, NEW shuffle \in Pa!Shuffles,
         NEW served, served = Pa!Frozen(q, shuffle)
  PROVE  /\ served.options \in Pa!Shuffles /\ served.correct \in Pa!Options
         /\ bank[q].right \in Pa!Options
         /\ served.options[served.correct] = bank[q].right
  <1>1. bank[q].right \in Pa!Options
    BY DEF PaperInv, BankRow
  <1>2. \E i \in Pa!Options : shuffle[i] = bank[q].right
    BY <1>1, ShufflesReach
  <1>3. PICK c : c = CHOOSE i \in Pa!Options : shuffle[i] = bank[q].right
    OBVIOUS
  <1>4. c \in Pa!Options /\ shuffle[c] = bank[q].right
    BY <1>2, <1>3
  <1>5. served = [options |-> shuffle, correct |-> c]
    BY <1>3 DEF Pa!Frozen
  <1>6. served.options = shuffle /\ served.correct = c
    BY <1>5
  <1> QED
    BY <1>1, <1>4, <1>6

\* DrawnEvenly after a step, from what the step leaves in its parts.
LEMMA EvenlyAfter ==
  ASSUME NEW levels, levels = {bank'[q].level : q \in drawn'},
         NEW served, served = DOMAIN paper',
         served \subseteq drawn',
         Pa!Cardinality(served) = Count \/ served = drawn',
         \A l \in levels :
           \/ Pa!Cardinality(served \cap {q \in drawn' : bank'[q].level = l})
                >= Pa!Cardinality(served) \div Pa!Cardinality(levels)
           \/ {q \in drawn' : bank'[q].level = l} \subseteq served
  PROVE  Pa!DrawnEvenly'
  BY DEF Pa!DrawnEvenly

\* Edits leave difficulties alone, so a paper once drawn evenly stays so.
LEMMA StillEven ==
  ASSUME PaperInv, UNCHANGED <<paper, drawn>>,
         \A q \in Question : bank'[q].level = bank[q].level
  PROVE  Pa!DrawnEvenly'
  <1>1. CASE paper = <<>>
    BY <1>1 DEF Pa!DrawnEvenly
  <1>2. CASE paper # <<>>
    <2>1. PICK levels : levels = {bank[q].level : q \in drawn}
      OBVIOUS
    <2>2. drawn \subseteq Question
      BY DEF PaperInv
    <2>3. levels = {bank'[q].level : q \in drawn}
      BY <2>1, <2>2
    <2>4. \A l : {q \in drawn : bank'[q].level = l} = {q \in drawn : bank[q].level = l}
      BY <2>2
    <2>5. PICK served : served = DOMAIN paper
      OBVIOUS
    <2>6. /\ served \subseteq drawn
          /\ Pa!Cardinality(served) = Count \/ served = drawn
          /\ \A l \in levels :
               \/ Pa!Cardinality(served \cap {q \in drawn : bank[q].level = l})
                    >= Pa!Cardinality(served) \div Pa!Cardinality(levels)
               \/ {q \in drawn : bank[q].level = l} \subseteq served
      BY <1>2, <2>1, <2>5 DEF PaperInv, Pa!DrawnEvenly
    <2>7. \A l \in levels :
            \/ Pa!Cardinality(served \cap {q \in drawn : bank'[q].level = l})
                 >= Pa!Cardinality(served) \div Pa!Cardinality(levels)
            \/ {q \in drawn : bank'[q].level = l} \subseteq served
      BY <2>4, <2>6
    <2> QED
      BY <2>3, <2>5, <2>6, <2>7, EvenlyAfter
  <1> QED
    BY <1>1, <1>2

LEMMA PaperIssued ==
  ASSUME PapersFinite, PaperInv, Pa!Issue
  PROVE  PaperInv'
  <1>1. PICK n : n = IF Pa!Cardinality(Pa!Active) < Count THEN Pa!Cardinality(Pa!Active) ELSE Count
    OBVIOUS
  <1>15. PICK picks \in Pa!Picks(n) :
           \E shuffle \in [picks -> Pa!Shuffles] :
             /\ paper' = [q \in picks |-> Pa!Frozen(q, shuffle[q])]
             /\ meant' = [q \in picks |-> bank[q].right]
    BY <1>1 DEF Pa!Issue
  <1>2. PICK shuffle \in [picks -> Pa!Shuffles] :
          /\ paper' = [q \in picks |-> Pa!Frozen(q, shuffle[q])]
          /\ meant' = [q \in picks |-> bank[q].right]
    BY <1>15
  <1>3. /\ paper = <<>> /\ Pa!Active # {} /\ drawn' = Pa!Active
        /\ UNCHANGED <<bank, result, edits>>
    BY DEF Pa!Issue
  <1>4. Pa!Active \subseteq Question /\ IsFiniteSet(Pa!Active)
    BY FS_Subset DEF Pa!Active, PapersFinite
  <1>5. n \in Nat /\ (n = Count \/ n = Cardinality(Pa!Active))
    BY <1>1, <1>4, FS_CardinalityType, PaperCounts DEF PapersFinite
  <1>6. picks \in SUBSET Pa!Active /\ Cardinality(picks) = n /\ IsFiniteSet(picks)
    <2>1. picks \in SUBSET Pa!Active /\ Pa!Cardinality(picks) = n
      BY DEF Pa!Picks, Pa!kSubset
    <2> QED
      BY <1>4, <2>1, FS_Subset, PaperCounts
  <1>7. DOMAIN paper' = picks /\ picks \subseteq Question
    BY <1>2, <1>4, <1>6
  <1>8. ASSUME NEW q \in picks
        PROVE  Remapped(q)'
    <2>1. PICK served : served = Pa!Frozen(q, shuffle[q])
      OBVIOUS
    <2>2. paper'[q] = served /\ meant'[q] = bank[q].right
      BY <1>2, <2>1
    <2>3. q \in Question /\ shuffle[q] \in Pa!Shuffles
      BY <1>2, <1>7
    <2>4. /\ served.options \in Pa!Shuffles /\ served.correct \in Pa!Options
          /\ bank[q].right \in Pa!Options
          /\ served.options[served.correct] = bank[q].right
      BY <2>1, <2>3, FrozenRight
    <2> QED
      BY <2>2, <2>4 DEF Remapped
  <1>9. result = Pa!Null /\ result' = Pa!Null /\ Pa!Null.graded = FALSE
    BY <1>3 DEF PaperInv, Pa!Null
  <1>10. Pa!GradedAsMeant'
    BY <1>9 DEF Pa!GradedAsMeant
  <1>11. {bank[q].level : q \in Pa!Active} = Pa!Present
    BY <1>4 DEF PaperInv, BankRow, Pa!Present, Pa!Pool
  <1>12. Pa!DrawnEvenly'
    <2>1. PICK levels : levels = {bank[q].level : q \in Pa!Active}
      OBVIOUS
    <2>2. n = Count \/ picks = Pa!Active
      BY <1>4, <1>5, <1>6, FS_Subset
    <2>3. ASSUME NEW l \in levels
          PROVE  \/ Cardinality(picks \cap {q \in Pa!Active : bank[q].level = l}) >= n \div Cardinality(levels)
                 \/ {q \in Pa!Active : bank[q].level = l} \subseteq picks
      <3>1. l \in Pa!Present /\ levels = Pa!Present
        BY <1>11, <2>1
      <3>2. Pa!Pool(l) = {q \in Pa!Active : bank[q].level = l}
        BY DEF Pa!Pool
      <3>3. \/ Cardinality(picks \cap Pa!Pool(l)) >= n \div Cardinality(Pa!Present)
            \/ Pa!Pool(l) \subseteq picks
        BY <1>2, <1>3, <1>5, <3>1, ServedEvenly
      <3> QED
        BY <3>1, <3>2, <3>3
    <2>4. /\ picks \subseteq Pa!Active
          /\ Pa!Cardinality(picks) = Count \/ picks = Pa!Active
          /\ \A l \in levels :
               \/ Pa!Cardinality(picks \cap {q \in Pa!Active : bank[q].level = l})
                    >= Pa!Cardinality(picks) \div Pa!Cardinality(levels)
               \/ {q \in Pa!Active : bank[q].level = l} \subseteq picks
      BY <1>6, <2>2, <2>3, PaperCounts
    <2>5. drawn' = Pa!Active /\ bank' = bank
      BY <1>3
    <2>6. levels = {bank'[q].level : q \in drawn'}
      BY <2>1, <2>5
    <2>7. \A l \in levels :
            \/ Pa!Cardinality(picks \cap {q \in drawn' : bank'[q].level = l})
                 >= Pa!Cardinality(picks) \div Pa!Cardinality(levels)
            \/ {q \in drawn' : bank'[q].level = l} \subseteq picks
      BY <2>4, <2>5
    <2> QED
      BY <1>7, <2>4, <2>5, <2>6, <2>7, EvenlyAfter
  <1>13. bank' \in [Question -> BankRow] /\ edits' \in 0 .. Edits
    BY <1>3 DEF PaperInv
  <1>14. \A q \in DOMAIN paper' : Remapped(q)'
    BY <1>7, <1>8
  <1> QED
    BY <1>3, <1>4, <1>7, <1>9, <1>10, <1>12, <1>13, <1>14 DEF PaperInv

LEMMA PaperEdited ==
  ASSUME PapersFinite, Edits \in Nat, PaperInv, NEW edited \in Question, Pa!Edit(edited)
  PROVE  PaperInv'
  <1>1. PICK newRight \in Pa!Options, newActive \in BOOLEAN :
          bank' = [bank EXCEPT ![edited].right = newRight, ![edited].active = newActive]
    BY DEF Pa!Edit
  <1>2. /\ UNCHANGED <<paper, meant, drawn, result>>
        /\ edits < Edits /\ edits' = edits + 1
    BY DEF Pa!Edit
  <1>3. PICK l \in Level : l = bank[edited].level
    BY DEF PaperInv, BankRow
  <1>4. PICK r : r = [level |-> l, right |-> newRight, active |-> newActive]
    OBVIOUS
  <1>5. bank[edited] \in BankRow
    BY DEF PaperInv
  <1>6. bank' = [bank EXCEPT ![edited] = r]
    <2>1. PICK b : b = bank[edited]
      OBVIOUS
    <2>2. b = [level |-> l, right |-> b.right, active |-> b.active]
      BY <1>3, <1>5, <2>1 DEF BankRow
    <2>3. PICK c : c = [b EXCEPT !.right = newRight]
      OBVIOUS
    <2>4. c = [level |-> l, right |-> newRight, active |-> b.active]
      BY <2>2, <2>3
    <2>5. [c EXCEPT !.active = newActive] = r
      BY <1>4, <2>4
    <2> QED
      BY <1>1, <1>5, <2>1, <2>3, <2>5 DEF PaperInv
  <1>7. r \in BankRow /\ r.level = bank[edited].level
    BY <1>3, <1>4 DEF BankRow
  <1>8. bank' \in [Question -> BankRow] /\ \A q \in Question : bank'[q].level = bank[q].level
    BY <1>6, <1>7 DEF PaperInv
  <1>9. edits' \in 0 .. Edits
    BY <1>2 DEF PaperInv
  <1>10. \A q \in DOMAIN paper : Remapped(q)'
    BY <1>2 DEF PaperInv, Remapped
  <1>11. Pa!GradedAsMeant'
    BY <1>2 DEF PaperInv, Pa!GradedAsMeant, Pa!Chosen
  <1>12. Pa!DrawnEvenly'
    BY <1>2, <1>8, StillEven
  <1> QED
    BY <1>2, <1>8, <1>9, <1>10, <1>11, <1>12 DEF PaperInv

LEMMA PaperSubmitted ==
  ASSUME PapersFinite, PaperInv, Pa!Submit
  PROVE  PaperInv'
  <1>1. /\ paper # <<>> /\ result = Pa!Null
        /\ UNCHANGED <<bank, paper, meant, drawn, edits>>
    BY DEF Pa!Submit
  <1>2. PICK given \in [DOMAIN paper -> Pa!Options \cup {Pa!Wrong}] :
          result' = [graded |-> TRUE, answers |-> given, score |-> Pa!Score(given),
                     passed |-> Pa!Passes(Pa!Score(given), Pa!Cardinality(DOMAIN paper))]
    BY DEF Pa!Submit
  <1>3. PICK score : score = Pa!Score(given)
    OBVIOUS
  <1>4. /\ result'.graded = TRUE /\ result'.answers = given /\ result'.score = score
        /\ result'.passed <=> Pa!Passes(score, Pa!Cardinality(DOMAIN paper))
    BY <1>2, <1>3
  <1>5. ASSUME NEW q \in DOMAIN paper
        PROVE  Pa!Chosen(q)' = meant[q] <=> given[q] = Pa!Right(q)
    <2>1. Remapped(q)
      BY DEF PaperInv
    <2>2. Pa!Wrong \notin Pa!Options
      BY DEF Pa!Wrong, Pa!Options, PapersFinite
    <2>3. Pa!Chosen(q)' = IF given[q] = Pa!Wrong THEN Pa!Wrong ELSE paper[q].options[given[q]]
      BY <1>1, <1>4 DEF Pa!Chosen, Pa!Wrong
    <2>4. given[q] \in Pa!Options \cup {Pa!Wrong}
      BY <1>2
    <2>5. \A i, j \in Pa!Options : paper[q].options[i] = paper[q].options[j] => i = j
      BY <2>1 DEF Remapped, Pa!Shuffles
    <2> QED
      BY <2>1, <2>2, <2>3, <2>4, <2>5 DEF Remapped, Pa!Right
  <1>6. {q \in DOMAIN paper : Pa!Chosen(q)' = meant[q]} = {q \in DOMAIN given : given[q] = Pa!Right(q)}
    <2>1. DOMAIN given = DOMAIN paper
      BY <1>2
    <2> QED
      BY <1>5, <2>1
  <1>7. Pa!GradedAsMeant'
    <2>1. score = Pa!Cardinality({q \in DOMAIN paper : Pa!Chosen(q)' = meant[q]})
      BY <1>3, <1>6 DEF Pa!Score
    <2>2. result'.passed <=> 10 * score >= 7 * Pa!Cardinality(DOMAIN paper)
      BY <1>4 DEF Pa!Passes
    <2> QED
      BY <1>1, <1>4, <2>1, <2>2 DEF Pa!GradedAsMeant
  <1>8. Pa!DrawnEvenly'
    BY <1>1, StillEven
  <1>9. \A q \in DOMAIN paper : Remapped(q)'
    BY <1>1 DEF PaperInv, Remapped
  <1> QED
    BY <1>1, <1>4, <1>7, <1>8, <1>9 DEF PaperInv

LEMMA PaperStep ==
  ASSUME PapersFinite, Edits \in Nat, PaperInv, [Pa!Next]_(Pa!vars)
  PROVE  PaperInv'
  <1>1. ASSUME UNCHANGED Pa!vars
        PROVE  PaperInv'
    <2>1. UNCHANGED <<bank, paper, meant, drawn, result, edits>>
      BY <1>1 DEF Pa!vars
    <2>2. Pa!GradedAsMeant' /\ Pa!DrawnEvenly'
      <3>1. Pa!DrawnEvenly'
        BY <2>1, StillEven
      <3>2. Pa!GradedAsMeant'
        BY <2>1 DEF PaperInv, Pa!GradedAsMeant, Pa!Chosen
      <3> QED
        BY <3>1, <3>2
    <2>3. \A q \in DOMAIN paper : Remapped(q)'
      BY <2>1 DEF PaperInv, Remapped
    <2> QED
      BY <2>1, <2>2, <2>3 DEF PaperInv
  <1> QED
    BY <1>1, PaperIssued, PaperEdited, PaperSubmitted DEF Pa!Next

LEMMA PaperFollows ==
  ASSUME PaperInv
  PROVE  Pa!PaperKept
  <1>1. Pa!PaperTypeOK
    BY DEF PaperInv, BankRow, Remapped, Pa!PaperTypeOK
  <1> QED
    BY <1>1 DEF PaperInv, Pa!PaperKept

\* While the paper run, a step is one of theirs, and their invariant holds.
LEMMA PaperRun ==
  [Next]_vars /\ part' = "paper" => part = "paper" /\ [Pa!Next]_(Pa!vars)
  BY DEF Next, vars, Pa!vars, RestOfOffers, RestOfInvoices, RestOfReplay,
         RestOfQueue, RestOfErasure, RestOfPaper

LEMMA PaperInvariant ==
  ASSUME PapersFinite, Edits \in Nat
  PROVE  Spec => [](part = "paper" => PaperInv)
  <1> DEFINE Inv == part = "paper" => PaperInv
  <1>1. Init => Inv
    <2>1. Init /\ part = "paper" => Pa!Init
      BY DEF Init
    <2> QED
      BY <2>1, PaperStart
  <1>2. Inv /\ [Next]_vars => Inv'
    BY PaperRun, PaperStep
  <1> QED
    BY <1>1, <1>2, PTL DEF Spec

(* idempotency.py:3-14, assessment_engine.py:3-13, 37-98, for any tenants, *)
(* keys, rows and requests and any finite bank: whoever is answered is     *)
(* told of a committed row of his own tenant, one key makes one row but    *)
(* for what interrupts it, a paper is drawn evenly, and it is graded by    *)
(* the options that were right when it was drawn.                          *)
THEOREM AnswersHold ==
  ASSUME RowsAreIds, PapersFinite, Edits \in Nat
  PROVE  Spec => []AnswersKept
  <1>1. (part = "replay" => ReplayInv) /\ (part = "paper" => PaperInv) => AnswersKept
    BY ReplayFollows, PaperFollows DEF AnswersKept
  <1> QED
    BY <1>1, ReplayInvariant, PaperInvariant, PTL

-----------------------------------------------------------------------------
(* The queue of notices.                                                   *)

\* What Notify assumes of its constants; and a runner serves no requests.
SweepersApart == No!NotifyAssumption /\ Worker \cap Sweeper = {}

Notice == [status : No!Statuses, attempts : 0 .. MaxAttempts]

\* Rows a sweep may take.
Sendable == No!ToSet(order)

\* What a sweep loaded and was answered, and what of it stays true.
SweepLoaded(s) ==
  LET r == req[s] IN
  \/ r = No!Idle
  \/ /\ r = [op |-> "sweep", batch |-> r.batch, results |-> r.results, attempts |-> r.attempts]
     /\ r.batch \subseteq Sendable
     /\ DOMAIN r.results \subseteq r.batch
     /\ \A k \in r.batch : /\ r.attempts[k] \in 0 .. MaxAttempts - 1
                           /\ r.attempts[k] <= tries[k]
     /\ \A k \in DOMAIN r.results : /\ r.attempts[k] + 1 <= tries[k]
                                    /\ r.results[k] \in BOOLEAN
                                    /\ r.results[k] = TRUE => k \in delivered

TriggerLoaded(w) ==
  req[w] = No!Idle \/ \E k \in Key : req[w] = [op |-> "trigger", key |-> k]

RowsTyped == rows \in [Key -> Notice]

QueueTyped == order \in Seq(Key) /\ No!IsInjective(order)

Takeable == \A k \in Sendable : k \in Registered /\ k \notin Unconsented /\ rows[k].status # "none"

CallsTyped == done \subseteq Key /\ delivered \subseteq Key /\ tries \in [Key -> 0 .. MaxAttempts]

Countable == \A k \in Key : /\ rows[k].status = "none" => rows[k] = No!NoRow
                            /\ rows[k].status = "pending" => rows[k].attempts < MaxAttempts

\* What is true of the rows, apart from the requests.
Recorded == /\ RowsTyped /\ QueueTyped /\ Takeable /\ CallsTyped /\ Countable
            /\ No!QueuedWithCause /\ No!StatusTells /\ No!ParkedUntouched

NoticeInv ==
  /\ Recorded
  /\ req = [w \in Worker \cup Sweeper |-> req[w]]
  /\ \A w \in Worker : TriggerLoaded(w)
  /\ \A s \in Sweeper : SweepLoaded(s)

LEMMA NoticeParts ==
  ASSUME NoticeInv
  PROVE  /\ rows \in [Key -> Notice]
         /\ order \in Seq(Key) /\ No!IsInjective(order)
         /\ \A k \in Sendable : k \in Registered /\ k \notin Unconsented /\ rows[k].status # "none"
         /\ done \subseteq Key /\ delivered \subseteq Key
         /\ tries \in [Key -> 0 .. MaxAttempts]
         /\ req = [w \in Worker \cup Sweeper |-> req[w]]
         /\ \A w \in Worker : TriggerLoaded(w)
         /\ \A s \in Sweeper : SweepLoaded(s)
         /\ \A k \in Key : /\ rows[k].status = "none" => rows[k] = No!NoRow
                           /\ rows[k].status = "pending" => rows[k].attempts < MaxAttempts
         /\ No!QueuedWithCause /\ No!StatusTells /\ No!ParkedUntouched
  BY DEF NoticeInv, Recorded, RowsTyped, QueueTyped, Takeable, CallsTyped, Countable

\* A call that was made, a delivery and a place in the queue stay.
NoticesGrow ==
  /\ Sendable \subseteq Sendable'
  /\ delivered \subseteq delivered'
  /\ \A k \in Key : tries[k] <= tries'[k]

LEMMA SendableKeys ==
  ASSUME order \in Seq(Key)
  PROVE  Sendable \subseteq Key
  BY DEF Sendable, No!ToSet

LEMMA SweepStaysLoaded ==
  ASSUME SweepersApart, NoticeInv, NoticesGrow, tries' \in [Key -> 0 .. MaxAttempts],
         NEW s \in Sweeper, req'[s] = req[s]
  PROVE  SweepLoaded(s)'
  <1> PICK r : r = req[s]
    OBVIOUS
  <1>1. CASE r = No!Idle
    BY <1>1 DEF SweepLoaded
  <1>2. CASE r # No!Idle
    <2>1. /\ r = [op |-> "sweep", batch |-> r.batch, results |-> r.results, attempts |-> r.attempts]
          /\ r.batch \subseteq Sendable
          /\ DOMAIN r.results \subseteq r.batch
          /\ \A k \in r.batch : /\ r.attempts[k] \in 0 .. MaxAttempts - 1
                                /\ r.attempts[k] <= tries[k]
          /\ \A k \in DOMAIN r.results : /\ r.attempts[k] + 1 <= tries[k]
                                         /\ r.results[k] \in BOOLEAN
                                         /\ r.results[k] = TRUE => k \in delivered
      BY <1>2, NoticeParts DEF SweepLoaded
    <2>2. \A k \in r.batch : k \in Key
      BY <2>1, SendableKeys, NoticeParts
    <2>3. \A k \in Key : tries[k] \in Int /\ tries'[k] \in Int /\ tries[k] <= tries'[k]
      BY NoticeParts DEF NoticesGrow
    <2>4. MaxAttempts \in Int
      BY DEF SweepersApart, No!NotifyAssumption
    <2>5. r.batch \subseteq Sendable' /\ delivered \subseteq delivered'
      BY <2>1 DEF NoticesGrow
    <2>6. \A k \in r.batch : /\ r.attempts[k] \in 0 .. MaxAttempts - 1
                             /\ r.attempts[k] <= tries'[k]
      BY <2>1, <2>2, <2>3, <2>4
    <2>7. \A k \in DOMAIN r.results : /\ r.attempts[k] + 1 <= tries'[k]
                                      /\ r.results[k] \in BOOLEAN
                                      /\ r.results[k] = TRUE => k \in delivered'
      BY <2>1, <2>2, <2>3, <2>4, <2>5
    <2> QED
      BY <2>1, <2>5, <2>6, <2>7 DEF SweepLoaded
  <1> QED
    BY <1>1, <1>2

LEMMA NoticesStart ==
  ASSUME SweepersApart, No!Init
  PROVE  NoticeInv
  <1>1. MaxAttempts \in Nat \ {0}
    BY DEF SweepersApart, No!NotifyAssumption
  <1>2. No!NoRow \in Notice /\ No!NoRow.status = "none" /\ No!NoRow.attempts = 0
    BY <1>1 DEF No!NoRow, Notice, No!Statuses
  <1>3. /\ rows \in [Key -> Notice] /\ \A k \in Key : rows[k] = No!NoRow /\ tries[k] = 0
        /\ tries \in [Key -> 0 .. MaxAttempts]
        /\ done = {} /\ delivered = {} /\ order = <<>>
        /\ \A w \in Worker \cup Sweeper : req[w] = No!Idle
        /\ req = [w \in Worker \cup Sweeper |-> req[w]]
    BY <1>1, <1>2 DEF No!Init
  <1>4. order \in Seq(Key) /\ No!IsInjective(order) /\ Sendable = {}
    BY <1>3 DEF No!IsInjective, Sendable, No!ToSet
  <1>5. No!QueuedWithCause /\ No!StatusTells /\ No!ParkedUntouched
    <2>1. No!QueuedWithCause /\ No!ParkedUntouched
      BY <1>2, <1>3 DEF SweepersApart, No!NotifyAssumption, No!QueuedWithCause, No!ParkedUntouched
    <2>2. No!StatusTells
      BY <1>1, <1>2, <1>3 DEF No!StatusTells
    <2> QED
      BY <2>1, <2>2
  <1> QED
    BY <1>2, <1>3, <1>4, <1>5 DEF NoticeInv, Recorded, RowsTyped, QueueTyped, Takeable,
       CallsTyped, Countable,
                                  TriggerLoaded, SweepLoaded

\* A key takes a place in the queue.
LEMMA PlaceTaken ==
  ASSUME NEW s \in Seq(Key), NEW i \in 1 .. Len(s) + 1, NEW k \in Key, No!IsInjective(s),
         k \notin No!ToSet(s), NEW t, t = No!InsertAt(s, i, k)
  PROVE  /\ t \in Seq(Key) /\ No!IsInjective(t)
         /\ No!ToSet(t) = No!ToSet(s) \cup {k}
  <1>1. /\ Len(s) \in Nat /\ DOMAIN s = 1 .. Len(s) /\ i \in Int
    OBVIOUS
  <1>2. /\ SubSeq(s, 1, i - 1) \in Seq(Key) /\ Len(SubSeq(s, 1, i - 1)) = i - 1
        /\ \A j \in 1 .. i - 1 : SubSeq(s, 1, i - 1)[j] = s[j]
    BY <1>1
  <1>3. /\ SubSeq(s, i, Len(s)) \in Seq(Key) /\ Len(SubSeq(s, i, Len(s))) = Len(s) - i + 1
        /\ \A j \in 1 .. Len(s) - i + 1 : SubSeq(s, i, Len(s))[j] = s[i + j - 1]
    BY <1>1
  <1>4. t = (SubSeq(s, 1, i - 1) \o <<k>>) \o SubSeq(s, i, Len(s))
    BY DEF No!InsertAt
  <1>5. /\ t \in Seq(Key) /\ Len(t) = Len(s) + 1
        /\ \A j \in 1 .. i - 1 : t[j] = s[j]
        /\ t[i] = k
        /\ \A j \in i + 1 .. Len(s) + 1 : t[j] = s[j - 1]
    <2> PICK u : u = SubSeq(s, 1, i - 1) \o <<k>>
      OBVIOUS
    <2> PICK v : v = SubSeq(s, i, Len(s))
      OBVIOUS
    <2>1. /\ u \in Seq(Key) /\ Len(u) = i /\ u[i] = k
          /\ \A j \in 1 .. i - 1 : u[j] = s[j]
      <3> PICK p : p = SubSeq(s, 1, i - 1)
        OBVIOUS
      <3> PICK e : e = <<k>>
        OBVIOUS
      <3>1. p \in Seq(Key) /\ Len(p) = i - 1 /\ \A j \in 1 .. i - 1 : p[j] = s[j]
        BY <1>2
      <3>2. e \in Seq(Key) /\ Len(e) = 1 /\ e[1] = k
        OBVIOUS
      <3>3. /\ p \o e \in Seq(Key) /\ Len(p \o e) = Len(p) + Len(e)
            /\ \A j \in 1 .. Len(p) + Len(e) : (p \o e)[j] = IF j <= Len(p) THEN p[j] ELSE e[j - Len(p)]
        BY <3>1, <3>2, ConcatProperties
      <3>4. u = p \o e
        OBVIOUS
      <3>5. u \in Seq(Key) /\ Len(u) = i
        BY <1>1, <3>1, <3>2, <3>3, <3>4
      <3>6. u[i] = k
        <4>1. i \in 1 .. Len(p) + Len(e) /\ ~(i <= Len(p)) /\ i - Len(p) = 1
          BY <1>1, <3>1, <3>2
        <4>2. (p \o e)[i] = e[i - Len(p)]
          BY <3>3, <4>1
        <4> QED
          BY <3>2, <3>4, <4>1, <4>2
      <3>7. ASSUME NEW j \in 1 .. i - 1
            PROVE  u[j] = s[j]
        <4>1. j \in 1 .. Len(p) + Len(e) /\ j <= Len(p)
          BY <1>1, <3>1, <3>2
        <4>2. (p \o e)[j] = p[j]
          BY <3>3, <4>1
        <4> QED
          BY <3>1, <3>4, <4>2
      <3> QED
        BY <3>5, <3>6, <3>7
    <2>2. /\ v \in Seq(Key) /\ Len(v) = Len(s) - i + 1
          /\ \A j \in 1 .. Len(s) - i + 1 : v[j] = s[i + j - 1]
      BY <1>3
    <2>3. /\ t = u \o v /\ t \in Seq(Key) /\ Len(t) = Len(s) + 1
          /\ \A j \in 1 .. i : t[j] = u[j]
          /\ \A j \in i + 1 .. Len(s) + 1 : t[j] = v[j - i]
      <3>1. t = u \o v
        BY <1>4
      <3>2. /\ u \o v \in Seq(Key) /\ Len(u \o v) = Len(u) + Len(v)
            /\ \A j \in 1 .. Len(u) + Len(v) : (u \o v)[j] = IF j <= Len(u) THEN u[j] ELSE v[j - Len(u)]
        <4>1. u \in Seq(Key) /\ v \in Seq(Key)
          BY <2>1, <2>2
        <4> QED
          BY <4>1, ConcatProperties
      <3>3. /\ t \in Seq(Key) /\ Len(t) = Len(u) + Len(v)
            /\ \A j \in 1 .. Len(u) + Len(v) : t[j] = IF j <= Len(u) THEN u[j] ELSE v[j - Len(u)]
        BY <3>1, <3>2, Zenon
      <3>4. Len(t) = Len(s) + 1 /\ t \in Seq(Key)
        BY <1>1, <2>1, <2>2, <3>3
      <3>5. \A j \in 1 .. i : t[j] = u[j]
        BY <1>1, <2>1, <2>2, <3>3
      <3>6. ASSUME NEW j \in i + 1 .. Len(s) + 1
            PROVE  t[j] = v[j - i]
        <4>1. Len(u) = i /\ j \in 1 .. Len(u) + Len(v) /\ ~(j <= Len(u))
          BY <1>1, <2>1, <2>2
        <4> QED
          BY <3>3, <4>1
      <3> QED
        BY <3>1, <3>4, <3>5, <3>6
    <2>4. ASSUME NEW j \in i + 1 .. Len(s) + 1
          PROVE  t[j] = s[j - 1]
      <3>1. j - i \in 1 .. Len(s) - i + 1 /\ i + (j - i) - 1 = j - 1
        BY <1>1
      <3> QED
        BY <2>2, <2>3, <3>1
    <2>5. i \in 1 .. i /\ \A j \in 1 .. i - 1 : j \in 1 .. i
      BY <1>1
    <2> QED
      BY <2>1, <2>3, <2>4, <2>5
  <1>6. No!IsInjective(t)
    <2>1. \A m, n \in 1 .. Len(s) : s[m] = s[n] => m = n
      BY <1>1 DEF No!IsInjective
    <2>2. \A m \in 1 .. Len(s) : s[m] # k
      BY <1>1 DEF No!ToSet
    <2>3. DOMAIN t = 1 .. Len(s) + 1
      BY <1>5
    <2>4. ASSUME NEW m \in 1 .. Len(s) + 1
          PROVE  /\ m < i => m \in 1 .. Len(s) /\ t[m] = s[m]
                 /\ m = i => t[m] = k
                 /\ m > i => m - 1 \in 1 .. Len(s) /\ t[m] = s[m - 1]
      <3>1. m < i => m \in 1 .. i - 1 /\ m \in 1 .. Len(s)
        BY <1>1
      <3>2. m > i => m \in i + 1 .. Len(s) + 1 /\ m - 1 \in 1 .. Len(s)
        BY <1>1
      <3> QED
        BY <1>5, <3>1, <3>2
    <2>5. ASSUME NEW m \in 1 .. Len(s) + 1, NEW n \in 1 .. Len(s) + 1, t[m] = t[n], m < n
          PROVE  FALSE
      <3>1. CASE m < i /\ n < i
        BY <2>1, <2>4, <2>5, <3>1
      <3>2. CASE m < i /\ n = i
        BY <2>2, <2>4, <2>5, <3>2
      <3>3. CASE m < i /\ n > i
        <4>1. s[m] = s[n - 1] /\ m \in 1 .. Len(s) /\ n - 1 \in 1 .. Len(s)
          BY <2>4, <2>5, <3>3
        <4>2. m = n - 1
          BY <2>1, <4>1
        <4> QED
          BY <1>1, <3>3, <4>2
      <3>4. CASE m = i /\ n > i
        BY <2>2, <2>4, <2>5, <3>4
      <3>5. CASE m > i /\ n > i
        <4>1. s[m - 1] = s[n - 1] /\ m - 1 \in 1 .. Len(s) /\ n - 1 \in 1 .. Len(s)
          BY <2>4, <2>5, <3>5
        <4>2. m - 1 = n - 1
          BY <2>1, <4>1
        <4> QED
          BY <1>1, <2>5, <4>2
      <3> QED
        BY <1>1, <2>5, <3>1, <3>2, <3>3, <3>4, <3>5
    <2> QED
      <3>1. ASSUME NEW m \in 1 .. Len(s) + 1, NEW n \in 1 .. Len(s) + 1, t[m] = t[n]
            PROVE  m = n
        <4>1. ~(m < n) /\ ~(n < m)
          BY <2>5, <3>1
        <4> QED
          BY <1>1, <4>1
      <3> QED
        BY <2>3, <3>1 DEF No!IsInjective
  <1>7. ASSUME NEW j \in 1 .. Len(s)
        PROVE  \E m \in 1 .. Len(t) : t[m] = s[j]
    <2>1. CASE j < i
      BY <1>1, <1>5, <2>1
    <2>2. CASE j >= i
      <3> PICK m : m = j + 1
        OBVIOUS
      <3>1. m \in i + 1 .. Len(s) + 1 /\ m \in 1 .. Len(t) /\ m - 1 = j
        BY <1>1, <1>5, <2>2
      <3>2. t[m] = s[j]
        BY <1>5, <3>1
      <3> QED
        BY <3>1, <3>2
    <2> QED
      BY <1>1, <2>1, <2>2
  <1>8. \A j \in 1 .. Len(t) : t[j] = k \/ \E m \in 1 .. Len(s) : t[j] = s[m]
    BY <1>1, <1>5
  <1>9. /\ DOMAIN t = 1 .. Len(t) /\ i \in 1 .. Len(t)
        /\ No!ToSet(t) = {t[j] : j \in 1 .. Len(t)}
        /\ No!ToSet(s) = {s[j] : j \in 1 .. Len(s)}
    <2>1. DOMAIN t = 1 .. Len(t) /\ i \in 1 .. Len(t)
      BY <1>1, <1>5
    <2>2. No!ToSet(s) = {s[j] : j \in 1 .. Len(s)}
      BY <1>1 DEF No!ToSet
    <2>3. No!ToSet(t) = {t[j] : j \in 1 .. Len(t)}
      BY <2>1 DEF No!ToSet
    <2> QED
      BY <2>1, <2>2, <2>3
  <1>10. No!ToSet(t) \subseteq No!ToSet(s) \cup {k}
    BY <1>8, <1>9
  <1>11. No!ToSet(s) \cup {k} \subseteq No!ToSet(t)
    BY <1>5, <1>7, <1>9
  <1> QED
    BY <1>5, <1>6, <1>10, <1>11

\* What the operators of the queue expect of a request that begins or ends.
LEMMA NoticeFinishes ==
  ASSUME SweepersApart, NoticeInv, NoticesGrow, tries' \in [Key -> 0 .. MaxAttempts],
         NEW w \in Worker \cup Sweeper, No!Finish(w)
  PROVE  /\ req' = [v \in Worker \cup Sweeper |-> req'[v]]
         /\ \A v \in Worker : TriggerLoaded(v)'
         /\ \A s \in Sweeper : SweepLoaded(s)'
  <1>1. req' = [v \in Worker \cup Sweeper |-> IF v = w THEN No!Idle ELSE req[v]]
    BY NoticeParts DEF No!Finish
  <1>2. \A v \in Worker : TriggerLoaded(v)'
    BY <1>1, NoticeParts DEF TriggerLoaded
  <1>3. ASSUME NEW s \in Sweeper
        PROVE  SweepLoaded(s)'
    <2>1. CASE s = w
      BY <1>1, <2>1 DEF SweepLoaded
    <2>2. CASE s # w
      BY <1>1, <2>2, SweepStaysLoaded
    <2> QED
      BY <2>1, <2>2
  <1> QED
    BY <1>1, <1>2, <1>3

\* A step that writes no row leaves all of that alone.
LEMMA StillRecorded ==
  ASSUME NoticeInv, UNCHANGED <<rows, order, done, tries, delivered>>
  PROVE  Recorded' /\ NoticesGrow /\ tries' \in [Key -> 0 .. MaxAttempts]
  <1>1. Sendable' = Sendable
    BY DEF Sendable, No!ToSet
  <1>2. No!IsInjective(order)'
    BY NoticeParts DEF No!IsInjective
  <1>3. No!QueuedWithCause' /\ No!StatusTells' /\ No!ParkedUntouched'
    BY NoticeParts DEF No!QueuedWithCause, No!StatusTells, No!ParkedUntouched
  <1>4. \A k \in Key : tries[k] \in Int
    BY NoticeParts
  <1>5. NoticesGrow
    BY <1>1, <1>4 DEF NoticesGrow
  <1>6. /\ rows' \in [Key -> Notice] /\ order' \in Seq(Key)
        /\ \A k \in Sendable' : k \in Registered /\ k \notin Unconsented /\ rows'[k].status # "none"
        /\ done' \subseteq Key /\ delivered' \subseteq Key /\ tries' \in [Key -> 0 .. MaxAttempts]
        /\ \A k \in Key : /\ rows'[k].status = "none" => rows'[k] = No!NoRow
                          /\ rows'[k].status = "pending" => rows'[k].attempts < MaxAttempts
    BY <1>1, NoticeParts
  <1>7. Recorded'
    <2>1. RowsTyped' /\ QueueTyped'
      BY <1>2, <1>6 DEF RowsTyped, QueueTyped
    <2>2. Takeable'
      BY <1>6 DEF Takeable
    <2>3. CallsTyped'
      BY <1>6 DEF CallsTyped
    <2>4. Countable'
      BY <1>6 DEF Countable
    <2> QED
      BY <2>1, <2>2, <2>3, <2>4, <1>3 DEF Recorded
  <1> QED
    BY <1>5, <1>6, <1>7

LEMMA TriggerBegins ==
  ASSUME SweepersApart, NoticeInv, NEW w \in Worker, NEW k \in Key, No!PostTrigger(w, k)
  PROVE  NoticeInv'
  <1> PICK r : r = [op |-> "trigger", key |-> k]
    OBVIOUS
  <1>1. /\ req' = [v \in Worker \cup Sweeper |-> IF v = w THEN r ELSE req[v]]
        /\ UNCHANGED <<rows, order, done, tries, delivered>>
    BY NoticeParts DEF No!PostTrigger
  <1>2. Recorded' /\ NoticesGrow /\ tries' \in [Key -> 0 .. MaxAttempts]
    BY <1>1, StillRecorded
  <1>3. \A v \in Worker : TriggerLoaded(v)'
    BY <1>1, NoticeParts DEF TriggerLoaded
  <1>4. \A s \in Sweeper : SweepLoaded(s)'
    BY <1>1, <1>2, SweepStaysLoaded DEF SweepersApart
  <1>5. req' = [v \in Worker \cup Sweeper |-> req'[v]]
    BY <1>1
  <1> QED
    BY <1>2, <1>3, <1>4, <1>5 DEF NoticeInv

LEMMA SweepStarts ==
  ASSUME SweepersApart, NoticeInv, NEW s \in Sweeper, No!StartSweep(s)
  PROVE  NoticeInv'
  <1> PICK batch : batch = {k \in No!Pending : No!Cardinality({j \in No!Pending : No!Older(j, k)}) < Batch}
    OBVIOUS
  <1> PICK loaded : loaded = [k \in batch |-> rows[k].attempts]
    OBVIOUS
  <1> PICK r : r = [op |-> "sweep", batch |-> batch, results |-> <<>>, attempts |-> loaded]
    OBVIOUS
  <1>1. /\ req' = [v \in Worker \cup Sweeper |-> IF v = s THEN r ELSE req[v]]
        /\ UNCHANGED <<rows, order, done, tries, delivered>>
    BY NoticeParts DEF No!StartSweep
  <1>2. Recorded' /\ NoticesGrow /\ tries' \in [Key -> 0 .. MaxAttempts]
    BY <1>1, StillRecorded
  <1>3. /\ batch \subseteq Sendable /\ Sendable \subseteq Key
        /\ \A k \in batch : rows[k].status = "pending"
    BY SendableKeys, NoticeParts DEF No!Pending, Sendable
  <1>4. MaxAttempts \in Nat \ {0}
    BY DEF SweepersApart, No!NotifyAssumption
  <1>5. ASSUME NEW k \in batch
        PROVE  loaded[k] \in 0 .. MaxAttempts - 1 /\ loaded[k] <= tries[k]
    <2>1. k \in Key /\ loaded[k] = rows[k].attempts /\ rows[k] \in Notice
      BY <1>3, NoticeParts
    <2>2. rows[k].attempts \in 0 .. MaxAttempts /\ rows[k].attempts < MaxAttempts
      BY <1>3, <2>1, NoticeParts DEF Notice
    <2>3. rows[k].attempts <= tries[k]
      BY <2>1, NoticeParts DEF No!StatusTells
    <2> QED
      BY <1>4, <2>1, <2>2, <2>3
  <1>6. SweepLoaded(s)'
    <2>1. req'[s] = r /\ r.batch = batch /\ r.results = <<>> /\ r.attempts = loaded
      BY <1>1
    <2>2. DOMAIN r.results = {}
      BY <2>1
    <2>3. batch \subseteq Sendable'
      BY <1>2, <1>3 DEF NoticesGrow
    <2>4. \A k \in r.batch : r.attempts[k] \in 0 .. MaxAttempts - 1 /\ r.attempts[k] <= tries'[k]
      BY <1>1, <1>5, <2>1
    <2> QED
      BY <2>1, <2>2, <2>3, <2>4 DEF SweepLoaded
  <1>7. \A v \in Sweeper \ {s} : SweepLoaded(v)'
    BY <1>1, <1>2, SweepStaysLoaded
  <1>8. \A v \in Worker : TriggerLoaded(v)'
    BY <1>1, NoticeParts DEF TriggerLoaded, SweepersApart
  <1>9. req' = [v \in Worker \cup Sweeper |-> req'[v]]
    BY <1>1
  <1> QED
    BY <1>2, <1>6, <1>7, <1>8, <1>9 DEF NoticeInv

LEMMA SweepSends ==
  ASSUME SweepersApart, NoticeInv, NEW s \in Sweeper, NEW ok \in BOOLEAN, No!SendNext(s, ok)
  PROVE  NoticeInv'
  <1> PICK r : r = req[s]
    OBVIOUS
  <1>1. PICK k \in No!Untried(s) :
          /\ tries' = [tries EXCEPT ![k] = No!Capped(@ + 1, MaxAttempts)]
          /\ delivered' = IF ok THEN delivered \cup {k} ELSE delivered
          /\ req' = [req EXCEPT ![s].results =
                       [j \in DOMAIN @ \cup {k} |-> IF j = k THEN ok ELSE @[j]]]
    BY DEF No!SendNext
  <1>2. r.op = "sweep" /\ UNCHANGED <<rows, order, done>>
    BY DEF No!SendNext
  <1>3. /\ r = [op |-> "sweep", batch |-> r.batch, results |-> r.results, attempts |-> r.attempts]
        /\ r.batch \subseteq Sendable
        /\ DOMAIN r.results \subseteq r.batch
        /\ \A j \in r.batch : r.attempts[j] \in 0 .. MaxAttempts - 1 /\ r.attempts[j] <= tries[j]
        /\ \A j \in DOMAIN r.results : /\ r.attempts[j] + 1 <= tries[j]
                                       /\ r.results[j] \in BOOLEAN
                                       /\ r.results[j] = TRUE => j \in delivered
    <2>1. r # No!Idle
      BY <1>2 DEF No!Idle
    <2> QED
      BY <2>1, NoticeParts DEF SweepLoaded
  <1>4. /\ Sendable \subseteq Key /\ k \in r.batch /\ k \in Key /\ k \in Sendable
        /\ k \in Registered /\ k \notin Unconsented
    BY <1>1, <1>3, SendableKeys, NoticeParts DEF No!Untried
  <1>5. MaxAttempts \in Nat \ {0}
    BY DEF SweepersApart, No!NotifyAssumption
  <1>6. /\ \A j \in Key : tries[j] \in 0 .. MaxAttempts
        /\ No!Capped(tries[k] + 1, MaxAttempts) \in 0 .. MaxAttempts
        /\ tries[k] <= No!Capped(tries[k] + 1, MaxAttempts)
        /\ r.attempts[k] + 1 <= No!Capped(tries[k] + 1, MaxAttempts)
    BY <1>3, <1>4, <1>5, NoticeParts DEF No!Capped
  <1>7. /\ tries' \in [Key -> 0 .. MaxAttempts]
        /\ tries'[k] = No!Capped(tries[k] + 1, MaxAttempts)
        /\ \A j \in Key \ {k} : tries'[j] = tries[j]
    BY <1>1, <1>4, <1>6, NoticeParts
  <1>8. \A j \in Key : tries[j] <= tries'[j]
    BY <1>6, <1>7
  <1>9. Sendable' = Sendable
    BY <1>2 DEF Sendable, No!ToSet
  <1>10. delivered \subseteq delivered' /\ delivered' \subseteq Key /\ (ok => k \in delivered')
    BY <1>1, <1>4, NoticeParts
  <1>11. NoticesGrow
    BY <1>8, <1>9, <1>10 DEF NoticesGrow
  <1> PICK results : results = [j \in DOMAIN r.results \cup {k} |-> IF j = k THEN ok ELSE r.results[j]]
    OBVIOUS
  <1> PICK new : new = [op |-> "sweep", batch |-> r.batch, results |-> results, attempts |-> r.attempts]
    OBVIOUS
  <1>12. [r EXCEPT !.results = results] = new
    BY <1>3
  <1>13. req' = [v \in Worker \cup Sweeper |-> IF v = s THEN new ELSE req[v]]
    BY <1>1, <1>12, NoticeParts
  <1>14. SweepLoaded(s)'
    <2>1. req'[s] = new /\ new.batch = r.batch /\ new.results = results /\ new.attempts = r.attempts
      BY <1>13
    <2>2. DOMAIN results = DOMAIN r.results \cup {k} /\ results[k] = ok
      OBVIOUS
    <2>3. \A j \in r.batch : r.attempts[j] \in 0 .. MaxAttempts - 1 /\ r.attempts[j] <= tries'[j]
      BY <1>3, <1>4, <1>5, <1>6, <1>7, <1>8
    <2>4. r.attempts[k] + 1 <= tries'[k] /\ results[k] \in BOOLEAN /\ (results[k] = TRUE => k \in delivered')
      BY <1>6, <1>7, <1>10, <2>2
    <2>5. ASSUME NEW j \in DOMAIN r.results, j # k
          PROVE  r.attempts[j] + 1 <= tries'[j] /\ results[j] \in BOOLEAN /\ (results[j] = TRUE => j \in delivered')
      <3>1. j \in Key /\ results[j] = r.results[j]
        BY <1>3, <1>4, <2>5
      <3> QED
        BY <1>3, <1>7, <1>10, <2>5, <3>1
    <2>6. \A j \in DOMAIN new.results : /\ new.attempts[j] + 1 <= tries'[j]
                                        /\ new.results[j] \in BOOLEAN
                                        /\ new.results[j] = TRUE => j \in delivered'
      BY <2>1, <2>2, <2>4, <2>5
    <2>7. DOMAIN new.results \subseteq new.batch /\ new.batch \subseteq Sendable'
      BY <1>3, <1>4, <1>9, <2>1, <2>2
    <2> QED
      BY <2>1, <2>3, <2>6, <2>7 DEF SweepLoaded
  <1>15. \A v \in Sweeper \ {s} : SweepLoaded(v)'
    BY <1>7, <1>11, <1>13, SweepStaysLoaded
  <1>16. \A v \in Worker : TriggerLoaded(v)'
    BY <1>13, NoticeParts DEF TriggerLoaded, SweepersApart
  <1>17. No!QueuedWithCause' /\ No!IsInjective(order)'
    BY <1>2, NoticeParts DEF No!QueuedWithCause, No!IsInjective
  <1>18. No!StatusTells'
    <2> SUFFICES ASSUME NEW j \in Key
                 PROVE  /\ rows[j].status = "sent" => j \in delivered'
                        /\ rows[j].status = "failed" => tries'[j] >= MaxAttempts
                        /\ rows[j].attempts <= tries'[j]
      BY <1>2 DEF No!StatusTells
    <2>1. /\ rows[j].status = "sent" => j \in delivered
          /\ rows[j].status = "failed" => tries[j] >= MaxAttempts
          /\ rows[j].attempts <= tries[j] /\ rows[j].attempts \in Int
          /\ tries[j] \in Int /\ tries'[j] \in Int
      BY <1>5, <1>7, NoticeParts DEF No!StatusTells, Notice
    <2> QED
      BY <1>5, <1>8, <1>10, <2>1
  <1>19. No!ParkedUntouched'
    BY <1>2, <1>4, <1>7, NoticeParts DEF No!ParkedUntouched
  <1>20. req' = [v \in Worker \cup Sweeper |-> req'[v]]
    BY <1>13
  <1>21. Recorded'
    <2>1. RowsTyped' /\ QueueTyped'
      BY <1>2, <1>17, NoticeParts DEF RowsTyped, QueueTyped
    <2>2. Takeable'
      BY <1>2, <1>9, NoticeParts DEF Takeable
    <2>3. CallsTyped'
      BY <1>2, <1>7, <1>10, NoticeParts DEF CallsTyped
    <2>4. Countable'
      BY <1>2, NoticeParts DEF Countable
    <2> QED
      BY <2>1, <2>2, <2>3, <2>4, <1>17, <1>18, <1>19 DEF Recorded
  <1> QED
    BY <1>14, <1>15, <1>16, <1>20, <1>21 DEF NoticeInv

LEMMA TriggerCommits ==
  ASSUME SweepersApart, NoticeInv, NEW w \in Worker, No!CommitTrigger(w)
  PROVE  NoticeInv'
  <1>1. PICK k \in Key : /\ done' = done \cup {k}
                         /\ IF k \in Templated THEN rows[k] = No!NoRow /\ No!Queued(k)
                                               ELSE UNCHANGED <<rows, order>>
                         /\ No!Finish(w) /\ UNCHANGED <<tries, delivered>>
    <2>1. req[w].op = "trigger"
      BY DEF No!CommitTrigger
    <2>2. req[w] # No!Idle
      BY <2>1 DEF No!Idle
    <2>3. PICK k \in Key : req[w] = [op |-> "trigger", key |-> k]
      BY <2>2, NoticeParts DEF TriggerLoaded
    <2>4. req[w].key = k
      BY <2>3
    <2> QED
      BY <2>4 DEF No!CommitTrigger
  <1>2. MaxAttempts \in Nat \ {0} /\ Templated \subseteq Key
    BY DEF SweepersApart, No!NotifyAssumption
  <1> PICK new : new = No!NewRow(k)
    OBVIOUS
  <1>3. /\ new \in Notice /\ new.status \in {"pending", "skipped"} /\ new.attempts = 0
        /\ new # No!NoRow
        /\ new.status = "pending" <=> k \notin Unconsented
    BY <1>2 DEF No!NewRow, Notice, No!Statuses, No!NoRow
  <1>4. ASSUME k \in Templated
        PROVE  Recorded' /\ Sendable \subseteq Sendable'
    <2>1. /\ rows[k] = No!NoRow /\ rows' = [rows EXCEPT ![k] = new]
          /\ IF k \in Registered /\ new.status = "pending"
             THEN \E i \in 1 .. Len(order) + 1 : order' = No!InsertAt(order, i, k)
             ELSE order' = order
      BY <1>1, <1>4 DEF No!Queued
    <2>2. /\ rows' \in [Key -> Notice] /\ rows'[k] = new
          /\ \A j \in Key \ {k} : rows'[j] = rows[j]
      BY <1>3, <2>1, NoticeParts
    <2>3. No!NoRow.status = "none"
      BY DEF No!NoRow
    <2>4. k \notin Sendable
      BY <2>1, <2>3, NoticeParts
    <2>5. /\ order' \in Seq(Key) /\ No!IsInjective(order')
          /\ Sendable' \in {Sendable, Sendable \cup {k}} /\ Sendable \subseteq Sendable'
          /\ k \in Sendable' => k \in Registered /\ new.status = "pending"
      <3>1. CASE k \in Registered /\ new.status = "pending"
        <4>1. PICK i \in 1 .. Len(order) + 1 : order' = No!InsertAt(order, i, k)
          BY <2>1, <3>1
        <4>2. /\ order' \in Seq(Key) /\ No!IsInjective(order')
              /\ No!ToSet(order') = No!ToSet(order) \cup {k}
          BY <2>4, <4>1, PlaceTaken, NoticeParts DEF Sendable
        <4>3. Sendable' = Sendable \cup {k}
          BY <4>2 DEF Sendable, No!ToSet
        <4> QED
          BY <3>1, <4>2, <4>3
      <3>2. CASE ~(k \in Registered /\ new.status = "pending")
        <4>1. order' = order
          BY <2>1, <3>2
        <4>2. Sendable' = Sendable
          BY <4>1 DEF Sendable, No!ToSet
        <4> QED
          BY <2>4, <4>1, <4>2, NoticeParts
      <3> QED
        BY <3>1, <3>2
    <2>6. \A j \in Sendable' : j \in Registered /\ j \notin Unconsented /\ rows'[j].status # "none"
      <3>1. Sendable \subseteq Key
        BY SendableKeys, NoticeParts
      <3>2. k \in Sendable' => k \in Registered /\ k \notin Unconsented /\ rows'[k].status # "none"
        BY <1>3, <2>2, <2>5
      <3>3. \A j \in Sendable : j \in Registered /\ j \notin Unconsented /\ rows'[j].status # "none"
        BY <2>2, <2>4, <3>1, NoticeParts
      <3> QED
        BY <2>5, <3>2, <3>3
    <2>7. \A j \in Key : /\ rows'[j].status = "none" => rows'[j] = No!NoRow
                         /\ rows'[j].status = "pending" => rows'[j].attempts < MaxAttempts
      <3>1. rows'[k].status # "none" /\ rows'[k].attempts < MaxAttempts
        BY <1>2, <1>3, <2>2
      <3>2. \A j \in Key \ {k} : /\ rows'[j].status = "none" => rows'[j] = No!NoRow
                                 /\ rows'[j].status = "pending" => rows'[j].attempts < MaxAttempts
        BY <2>2, NoticeParts
      <3> QED
        BY <3>1, <3>2
    <2>8. No!QueuedWithCause'
      BY <1>1, <1>3, <2>2, NoticeParts DEF No!QueuedWithCause, SweepersApart, No!NotifyAssumption
    <2>9. No!StatusTells'
      <3>1. tries[k] \in 0 .. MaxAttempts
        BY NoticeParts
      <3> QED
        BY <1>1, <1>2, <1>3, <2>2, <3>1, NoticeParts DEF No!StatusTells
    <2>10. No!ParkedUntouched'
      BY <1>1, <1>3, <2>2, NoticeParts DEF No!ParkedUntouched
    <2>11. No!IsInjective(order)'
      BY <2>5 DEF No!IsInjective
    <2>12. done' \subseteq Key /\ delivered' \subseteq Key /\ tries' \in [Key -> 0 .. MaxAttempts]
      BY <1>1, NoticeParts
    <2>13. rows' \in [Key -> Notice] /\ order' \in Seq(Key) /\ Sendable \subseteq Sendable'
      BY <2>2, <2>5
    <2> QED
      <3>1. RowsTyped' /\ QueueTyped'
        BY <2>11, <2>13 DEF RowsTyped, QueueTyped
      <3>2. Takeable'
        BY <2>6 DEF Takeable
      <3>3. CallsTyped'
        BY <2>12 DEF CallsTyped
      <3>4. Countable'
        BY <2>7 DEF Countable
      <3> QED
        BY <3>1, <3>2, <3>3, <3>4, <2>8, <2>9, <2>10, <2>13 DEF Recorded
  <1>5. ASSUME k \notin Templated
        PROVE  Recorded' /\ Sendable \subseteq Sendable'
    <2>1. UNCHANGED <<rows, order, tries, delivered>> /\ done' = done \cup {k}
      BY <1>1, <1>5
    <2>2. Sendable' = Sendable /\ No!IsInjective(order)'
      BY <2>1, NoticeParts DEF Sendable, No!ToSet, No!IsInjective
    <2>3. No!QueuedWithCause'
      BY <1>5, <2>1, NoticeParts DEF No!QueuedWithCause
    <2>4. No!StatusTells' /\ No!ParkedUntouched'
      BY <2>1, NoticeParts DEF No!StatusTells, No!ParkedUntouched
    <2> QED
      <3>1. RowsTyped' /\ QueueTyped'
        BY <2>1, <2>2, NoticeParts DEF RowsTyped, QueueTyped
      <3>2. Takeable'
        BY <2>1, <2>2, NoticeParts DEF Takeable
      <3>3. CallsTyped'
        BY <2>1, NoticeParts DEF CallsTyped
      <3>4. Countable'
        BY <2>1, NoticeParts DEF Countable
      <3> QED
        BY <3>1, <3>2, <3>3, <3>4, <2>2, <2>3, <2>4 DEF Recorded
  <1>6. Recorded' /\ Sendable \subseteq Sendable'
    BY <1>4, <1>5
  <1>7. \A j \in Key : tries[j] \in Int
    BY NoticeParts
  <1>8. NoticesGrow /\ tries' \in [Key -> 0 .. MaxAttempts]
    BY <1>1, <1>6, <1>7, NoticeParts DEF NoticesGrow
  <1>9. /\ req' = [v \in Worker \cup Sweeper |-> req'[v]]
        /\ \A v \in Worker : TriggerLoaded(v)'
        /\ \A s \in Sweeper : SweepLoaded(s)'
    BY <1>1, <1>8, NoticeFinishes
  <1> QED
    BY <1>6, <1>9 DEF NoticeInv

LEMMA SweepCommits ==
  ASSUME SweepersApart, NoticeInv, NEW s \in Sweeper, No!CommitSweep(s)
  PROVE  NoticeInv'
  <1> PICK r : r = req[s]
    OBVIOUS
  <1> PICK n : n = [k \in r.batch |-> No!Counted(r.attempts[k])]
    OBVIOUS
  <1>1. /\ r.op = "sweep" /\ No!Untried(s) = {}
        /\ rows' = [k \in Key |->
             IF k \in r.batch
             THEN [status |-> No!Settled(rows[k].status, n[k], r.results[k]), attempts |-> n[k]]
             ELSE rows[k]]
        /\ No!Finish(s) /\ UNCHANGED <<order, done, tries, delivered>>
    BY DEF No!CommitSweep
  <1>2. /\ r.batch \subseteq Sendable
        /\ DOMAIN r.results \subseteq r.batch
        /\ \A j \in r.batch : r.attempts[j] \in 0 .. MaxAttempts - 1 /\ r.attempts[j] <= tries[j]
        /\ \A j \in DOMAIN r.results : /\ r.attempts[j] + 1 <= tries[j]
                                       /\ r.results[j] \in BOOLEAN
                                       /\ r.results[j] = TRUE => j \in delivered
    <2>1. r # No!Idle
      BY <1>1 DEF No!Idle
    <2> QED
      BY <2>1, NoticeParts DEF SweepLoaded
  <1>3. MaxAttempts \in Nat \ {0}
    BY DEF SweepersApart, No!NotifyAssumption
  <1>4. Sendable \subseteq Key
    BY SendableKeys, NoticeParts
  <1>5. ASSUME NEW k \in Key, k \in r.batch
        PROVE  /\ rows'[k] \in Notice
               /\ rows'[k].status # "none" /\ rows[k].status # "none"
               /\ rows'[k].status = "pending" => rows'[k].attempts < MaxAttempts
               /\ rows'[k].status = "sent" => k \in delivered
               /\ rows'[k].status = "failed" => tries[k] >= MaxAttempts
               /\ rows'[k].attempts <= tries[k]
               /\ k \in Registered /\ k \notin Unconsented
    <2> PICK c : c = r.attempts[k] + 1
      OBVIOUS
    <2> PICK ok : ok = r.results[k]
      OBVIOUS
    <2>1. k \in DOMAIN r.results
      BY <1>1, <1>2, <1>5 DEF No!Untried
    <2>2. /\ c \in 1 .. MaxAttempts /\ c <= tries[k] /\ (ok => k \in delivered) /\ ok \in BOOLEAN
          /\ tries[k] \in Int
      BY <1>2, <1>3, <1>5, <2>1, NoticeParts
    <2>3. n[k] = c
      BY <1>5 DEF No!Counted
    <2>4. rows'[k] = [status |-> No!Settled(rows[k].status, c, ok), attempts |-> c]
      BY <1>1, <1>5, <2>3
    <2>5. /\ rows[k] \in Notice /\ rows[k].status # "none"
          /\ k \in Registered /\ k \notin Unconsented
          /\ rows[k].status = "sent" => k \in delivered
          /\ rows[k].status = "failed" => tries[k] >= MaxAttempts
      BY <1>2, <1>5, NoticeParts DEF No!StatusTells
    <2> PICK status1 : status1 = No!Settled(rows[k].status, c, ok)
      OBVIOUS
    <2>6. \/ status1 = "sent" /\ ok
          \/ status1 = "failed" /\ ~ok /\ c >= MaxAttempts
          \/ status1 = rows[k].status /\ ~ok /\ ~(c >= MaxAttempts)
      <3>1. CASE ok = TRUE
        BY <1>3, <2>2, <3>1 DEF No!Settled
      <3>2. CASE ok = FALSE
        BY <1>3, <2>2, <3>2 DEF No!Settled
      <3> QED
        BY <2>2, <3>1, <3>2
    <2>7. rows'[k].status = status1 /\ rows'[k].attempts = c /\ rows'[k] = [status |-> status1, attempts |-> c]
      BY <2>4
    <2>8. rows[k].status \in No!Statuses /\ {"sent", "failed"} \subseteq No!Statuses
      BY <2>5 DEF Notice, No!Statuses
    <2>9. c \in 0 .. MaxAttempts
      BY <1>3, <2>2
    <2>10. CASE status1 = "sent" /\ ok
      BY <2>2, <2>5, <2>7, <2>8, <2>9, <2>10 DEF Notice
    <2>11. CASE status1 = "failed" /\ c >= MaxAttempts
      BY <1>3, <2>2, <2>5, <2>7, <2>8, <2>9, <2>11 DEF Notice
    <2>12. CASE status1 = rows[k].status /\ ~(c >= MaxAttempts)
      BY <1>3, <2>2, <2>5, <2>7, <2>8, <2>9, <2>12 DEF Notice
    <2> QED
      BY <2>6, <2>10, <2>11, <2>12
  <1>6. ASSUME NEW k \in Key, k \notin r.batch
        PROVE  rows'[k] = rows[k]
    BY <1>1, <1>6
  <1>7. rows' \in [Key -> Notice]
    <2>1. \A k \in Key : rows'[k] \in Notice
      BY <1>5, <1>6, NoticeParts
    <2>2. rows' = [k \in Key |-> rows'[k]]
      BY <1>1
    <2> QED
      BY <2>1, <2>2
  <1>8. Sendable' = Sendable /\ No!IsInjective(order)'
    BY <1>1, NoticeParts DEF Sendable, No!ToSet, No!IsInjective
  <1>9. \A k \in Sendable' : k \in Registered /\ k \notin Unconsented /\ rows'[k].status # "none"
    BY <1>4, <1>5, <1>6, <1>8, NoticeParts
  <1>10. \A k \in Key : /\ rows'[k].status = "none" => rows'[k] = No!NoRow
                        /\ rows'[k].status = "pending" => rows'[k].attempts < MaxAttempts
    BY <1>5, <1>6, NoticeParts
  <1>11. No!NoRow.status = "none"
    BY DEF No!NoRow
  <1>12. No!QueuedWithCause'
    <2>1. \A k \in Key : rows'[k] # No!NoRow <=> rows[k] # No!NoRow
      BY <1>5, <1>6, <1>11
    <2>2. Templated \subseteq Key
      BY DEF SweepersApart, No!NotifyAssumption
    <2> QED
      BY <1>1, <2>1, <2>2, NoticeParts DEF No!QueuedWithCause
  <1>13. No!StatusTells'
    <2>1. ASSUME NEW k \in Key
          PROVE  /\ rows'[k].status = "sent" => k \in delivered'
                 /\ rows'[k].status = "failed" => tries'[k] >= MaxAttempts
                 /\ rows'[k].attempts <= tries'[k]
      <3>1. CASE k \in r.batch
        BY <1>1, <1>5, <3>1
      <3>2. CASE k \notin r.batch
        BY <1>1, <1>6, <3>2, NoticeParts DEF No!StatusTells
      <3> QED
        BY <3>1, <3>2
    <2> QED
      BY <2>1 DEF No!StatusTells
  <1>14. No!ParkedUntouched'
    BY <1>1, <1>5, <1>6, NoticeParts DEF No!ParkedUntouched
  <1>15. \A j \in Key : tries[j] \in Int
    BY NoticeParts
  <1>16. NoticesGrow /\ tries' \in [Key -> 0 .. MaxAttempts]
    BY <1>1, <1>8, <1>15, NoticeParts DEF NoticesGrow
  <1>17. /\ req' = [v \in Worker \cup Sweeper |-> req'[v]]
         /\ \A v \in Worker : TriggerLoaded(v)'
         /\ \A v \in Sweeper : SweepLoaded(v)'
    BY <1>1, <1>16, NoticeFinishes
  <1>18. Recorded'
    <2>1. RowsTyped' /\ QueueTyped'
      BY <1>1, <1>7, <1>8, NoticeParts DEF RowsTyped, QueueTyped
    <2>2. Takeable'
      BY <1>9 DEF Takeable
    <2>3. CallsTyped'
      BY <1>1, <1>16, NoticeParts DEF CallsTyped
    <2>4. Countable'
      BY <1>10 DEF Countable
    <2> QED
      BY <2>1, <2>2, <2>3, <2>4, <1>12, <1>13, <1>14 DEF Recorded
  <1> QED
    BY <1>17, <1>18 DEF NoticeInv

LEMMA NoticesStep ==
  ASSUME SweepersApart, NoticeInv, [No!Next]_(No!vars)
  PROVE  NoticeInv'
  <1>1. ASSUME NEW w \in Worker \cup Sweeper, No!Crash(w)
        PROVE  NoticeInv'
    <2>1. No!Finish(w) /\ UNCHANGED <<rows, order, done, tries, delivered>>
      BY <1>1 DEF No!Crash
    <2>2. Recorded' /\ NoticesGrow /\ tries' \in [Key -> 0 .. MaxAttempts]
      BY <2>1, StillRecorded
    <2>3. /\ req' = [v \in Worker \cup Sweeper |-> req'[v]]
          /\ \A v \in Worker : TriggerLoaded(v)'
          /\ \A s \in Sweeper : SweepLoaded(s)'
      BY <2>1, <2>2, NoticeFinishes
    <2> QED
      BY <2>2, <2>3 DEF NoticeInv
  <1>2. ASSUME UNCHANGED No!vars
        PROVE  NoticeInv'
    <2>1. UNCHANGED <<rows, order, done, tries, delivered, req>>
      BY <1>2 DEF No!vars
    <2>2. Recorded' /\ NoticesGrow /\ tries' \in [Key -> 0 .. MaxAttempts]
      BY <2>1, StillRecorded
    <2>3. \A v \in Worker : TriggerLoaded(v)'
      BY <2>1, NoticeParts DEF TriggerLoaded
    <2>4. \A s \in Sweeper : SweepLoaded(s)'
      BY <2>1, <2>2, SweepStaysLoaded
    <2> QED
      BY <2>1, <2>2, <2>3, <2>4 DEF NoticeInv
  <1> QED
    BY <1>1, <1>2, TriggerBegins, TriggerCommits, SweepStarts, SweepSends, SweepCommits
       DEF No!Next

LEMMA NoticesFollow ==
  ASSUME SweepersApart, NoticeInv
  PROVE  No!NotifyTypeOK /\ No!QueuedWithCause /\ No!StatusTells /\ No!ParkedUntouched
  <1>1. ASSUME NEW w \in Worker
        PROVE  req[w] = No!Idle \/ req[w].op = "trigger"
    <2>1. TriggerLoaded(w)
      BY NoticeParts
    <2>2. ASSUME NEW k \in Key, req[w] = [op |-> "trigger", key |-> k]
          PROVE  req[w].op = "trigger"
      BY <2>2
    <2> QED
      BY <2>1, <2>2 DEF TriggerLoaded
  <1>3. ASSUME NEW s \in Sweeper
        PROVE  req[s] = No!Idle \/ req[s].op = "sweep"
    <2>1. SweepLoaded(s)
      BY NoticeParts
    <2> QED
      BY <2>1 DEF SweepLoaded
  <1>2. No!ToSet(order) \subseteq {k \in Registered : rows[k].status # "none"}
    BY NoticeParts DEF Sendable
  <1> QED
    BY <1>1, <1>2, <1>3, NoticeParts DEF No!NotifyTypeOK, Notice

\* While the queue run, a step is one of theirs, and their invariant holds.
LEMMA QueueRun ==
  [Next]_vars /\ part' = "queue" => part = "queue" /\ [No!Next]_(No!vars)
  BY DEF Next, vars, No!vars, RestOfOffers, RestOfInvoices, RestOfReplay,
         RestOfQueue, RestOfErasure, RestOfPaper

LEMMA QueueInvariant ==
  ASSUME SweepersApart
  PROVE  Spec => [](part = "queue" => NoticeInv)
  <1> DEFINE Inv == part = "queue" => NoticeInv
  <1>1. Init => Inv
    <2>1. Init /\ part = "queue" => No!Init
      BY DEF Init
    <2> QED
      BY <2>1, NoticesStart
  <1>2. Inv /\ [Next]_vars => Inv'
    BY QueueRun, NoticesStep
  <1> QED
    BY <1>1, <1>2, PTL DEF Spec

(* notify.py:112-204, for any keys, templates, channels, consents, workers *)
(* and sweeps: a notice is queued exactly when its cause committed, its    *)
(* record never says more than happened, and what is parked or not         *)
(* consented to is never sent, however sweeps overlap, die and are rerun.  *)
THEOREM NoticesHold ==
  ASSUME SweepersApart
  PROVE  Spec => []NoticesKept
  <1>1. (part = "queue" => NoticeInv) => NoticesKept
    BY NoticesFollow DEF NoticesKept
  <1> QED
    BY <1>1, QueueInvariant, PTL

-----------------------------------------------------------------------------
(* Erasure.                                                                *)

Subject == [known : BOOLEAN, key : File \cup {Er!Null}, text : File \cup {Er!Null}, deleted : BOOLEAN]

Asked == [row : {TRUE}, status : {"pending", "legal_hold", "rejected", "completed"}, hold : BOOLEAN]

\* What an erasure begins with: a new request or an open one.
OpenRow == [row : {TRUE}, status : {"new", "pending", "legal_hold"}, hold : BOOLEAN]

\* A key that was handed out.
Issued(k) == k # Er!Null => k \in File /\ url[k] # "none"

\* An object that is gone and cannot come back.
Gone(k) == k \in File /\ url[k] = "expired" /\ bucket[k] = "none"

\* What a request loaded, and what of it stays true.
PersonLoaded(w) ==
  LET r == req[w] IN
  /\ r.op = "confirm" =>
       /\ r.seen \in Subject /\ r.wanted \in Subject
       /\ r.wanted.known = r.seen.known /\ r.wanted.deleted = r.seen.deleted
       /\ Issued(r.wanted.key)
  /\ r.op \in {"erase", "approve"} =>
       /\ r.of \in Request /\ r.email \in {"active", "erased"}
       /\ r.email = "erased" => user = "erased"
  /\ r.op = "approve" => r.seen \in OpenRow
  /\ r.op = "erasing" =>
       /\ r.of \in Request /\ r.seen \in Subject /\ r.loaded \in OpenRow
       /\ r.match \in BOOLEAN
       /\ r.match => /\ r.seen.known
                     /\ r.seen.key = Er!Null \/ r.seen.key \in r.left \/ Gone(r.seen.key)
       /\ ~r.match => user = "erased"
       /\ r.seen.deleted => cand.deleted
  /\ r.op = "decide" =>
       /\ r.of \in Request /\ request[r.of] \in Asked
       /\ r.seen \in Asked /\ r.wanted \in Asked
       /\ r.wanted.status \in {"legal_hold", "rejected"}

PersonInv ==
  /\ Er!ErasureTypeOK
  /\ req = [w \in Worker |-> req[w]]
  /\ \A w \in Worker : PersonLoaded(w)
  /\ \A k \in File : bucket[k] # "none" => url[k] # "none"
  /\ Issued(cand.key)
  /\ ~cand.known <=> user = "erased"
  /\ user = "erased" => cand.deleted
  /\ \A r \in Request : request[r] # Er!NoRow /\ request[r].status = "completed" => user = "erased"

\* What is never taken back.
PersonGrows ==
  /\ user = "erased" => user' = "erased"
  /\ cand.deleted => cand'.deleted
  /\ \A k \in File : /\ url[k] # "none" => url'[k] # "none"
                     /\ Gone(k) => Gone(k)'
  /\ \A r \in Request : request[r] \in Asked => request'[r] \in Asked

LEMMA PersonStaysLoaded ==
  ASSUME PersonGrows, NEW w \in Worker, PersonLoaded(w), req'[w] = req[w]
  PROVE  PersonLoaded(w)'
  <1> PICK r : r = req[w]
    OBVIOUS
  <1>1. r.op = "confirm" => Issued(r.wanted.key)'
    BY DEF PersonLoaded, PersonGrows, Issued
  <1>2. r.op \in {"erase", "approve"} => (r.email = "erased" => user' = "erased")
    BY DEF PersonLoaded, PersonGrows
  <1>3. r.op = "erasing" =>
          /\ r.match => r.seen.key = Er!Null \/ r.seen.key \in r.left \/ Gone(r.seen.key)'
          /\ ~r.match => user' = "erased"
          /\ r.seen.deleted => cand'.deleted
    BY DEF PersonLoaded, PersonGrows, Gone
  <1>4. r.op = "decide" => request'[r.of] \in Asked
    BY DEF PersonLoaded, PersonGrows
  <1> QED
    BY <1>1, <1>2, <1>3, <1>4 DEF PersonLoaded

LEMMA PersonFinishes ==
  ASSUME PersonInv, PersonGrows, NEW w \in Worker, Er!Finish(w)
  PROVE  /\ req' = [v \in Worker |-> req'[v]]
         /\ \A v \in Worker : PersonLoaded(v)'
  <1>1. req' = [v \in Worker |-> IF v = w THEN Er!Idle ELSE req[v]]
    BY DEF PersonInv, Er!Finish
  <1>2. PersonLoaded(w)'
    BY <1>1 DEF PersonLoaded, Er!Idle
  <1>3. \A v \in Worker \ {w} : PersonLoaded(v)'
    BY <1>1, PersonStaysLoaded DEF PersonInv
  <1> QED
    BY <1>1, <1>2, <1>3

\* A request that loads rows and writes none.
LEMMA PersonBegins ==
  ASSUME PersonInv, NEW w \in Worker, NEW r, Er!Begin(w, r),
         req'[w] = r => PersonLoaded(w)'
  PROVE  PersonInv'
  <1>1. /\ req' = [v \in Worker |-> IF v = w THEN r ELSE req[v]]
        /\ UNCHANGED <<user, cand, request, url, bucket>>
    BY DEF Er!Begin, PersonInv, Er!tables
  <1>2. PersonGrows
    BY <1>1 DEF PersonGrows, Gone
  <1>3. \A v \in Worker \ {w} : PersonLoaded(v)'
    BY <1>1, <1>2, PersonStaysLoaded DEF PersonInv
  <1>4. req' = [v \in Worker |-> req'[v]] /\ \A v \in Worker : PersonLoaded(v)'
    BY <1>1, <1>3
  <1>5. Er!ErasureTypeOK' /\ Issued(cand.key)'
    BY <1>1 DEF PersonInv, Er!ErasureTypeOK, Issued
  <1> QED
    BY <1>1, <1>4, <1>5 DEF PersonInv

LEMMA PersonStart ==
  ASSUME Er!Init
  PROVE  PersonInv
  <1>1. cand \in Subject /\ cand.key = Er!Null /\ cand.known /\ user = "active"
    BY DEF Er!Init, Subject
  <1>2. \A w \in Worker : PersonLoaded(w)
    BY DEF Er!Init, PersonLoaded, Er!Idle
  <1>3. /\ request \in [Request -> {Er!NoRow} \cup Asked]
        /\ \A r \in Request : request[r] # Er!NoRow => request[r].status # "completed"
    BY DEF Er!Init, Asked
  <1>4. Er!ErasureTypeOK
    BY <1>1, <1>3 DEF Er!Init, Er!ErasureTypeOK, Er!Contents, Subject, Asked
  <1>5. \A k \in File : bucket[k] = "none"
    BY DEF Er!Init
  <1>6. req = [w \in Worker |-> req[w]]
    BY DEF Er!Init
  <1> QED
    BY <1>1, <1>2, <1>3, <1>4, <1>5, <1>6 DEF PersonInv, Issued

\* What an UPDATE of a candidate and of a request leaves.
LEMMA SubjectWritten ==
  ASSUME NEW stored \in Subject, NEW seen \in Subject, NEW wanted \in Subject,
         NEW new, new = Er!Written(stored, seen, wanted)
  PROVE  /\ new \in Subject
         /\ new.known = IF wanted.known = seen.known THEN stored.known ELSE wanted.known
         /\ new.key = IF wanted.key = seen.key THEN stored.key ELSE wanted.key
         /\ new.text = IF wanted.text = seen.text THEN stored.text ELSE wanted.text
         /\ new.deleted = IF wanted.deleted = seen.deleted THEN stored.deleted ELSE wanted.deleted
  <1>1. DOMAIN stored = {"known", "key", "text", "deleted"}
    BY DEF Subject
  <1>2. /\ new.known = IF wanted.known = seen.known THEN stored.known ELSE wanted.known
        /\ new.key = IF wanted.key = seen.key THEN stored.key ELSE wanted.key
        /\ new.text = IF wanted.text = seen.text THEN stored.text ELSE wanted.text
        /\ new.deleted = IF wanted.deleted = seen.deleted THEN stored.deleted ELSE wanted.deleted
    BY <1>1 DEF Er!Written
  <1>3. new = [known |-> new.known, key |-> new.key, text |-> new.text, deleted |-> new.deleted]
    BY <1>1 DEF Er!Written
  <1>4. stored.known \in BOOLEAN /\ wanted.known \in BOOLEAN /\ stored.deleted \in BOOLEAN /\ wanted.deleted \in BOOLEAN
    BY DEF Subject
  <1>5. new.known \in BOOLEAN /\ new.deleted \in BOOLEAN
    BY <1>2, <1>4, Zenon
  <1>6. new.key \in File \cup {Er!Null} /\ new.text \in File \cup {Er!Null}
    BY <1>2 DEF Subject
  <1>7. new \in Subject
    BY <1>3, <1>5, <1>6 DEF Subject
  <1> QED
    BY <1>2, <1>7

LEMMA AskedWritten ==
  ASSUME NEW stored \in Asked \cup OpenRow, NEW seen \in Asked \cup OpenRow, NEW wanted \in Asked,
         NEW new, new = Er!Written(stored, seen, wanted),
         stored \in Asked \/ wanted.status # seen.status
  PROVE  /\ new \in Asked
         /\ new.status = IF wanted.status = seen.status THEN stored.status ELSE wanted.status
  <1>1. DOMAIN stored = {"row", "status", "hold"}
    BY DEF Asked, OpenRow
  <1>2. /\ new.row = IF wanted.row = seen.row THEN stored.row ELSE wanted.row
        /\ new.status = IF wanted.status = seen.status THEN stored.status ELSE wanted.status
        /\ new.hold = IF wanted.hold = seen.hold THEN stored.hold ELSE wanted.hold
    BY <1>1 DEF Er!Written
  <1>3. new = [row |-> new.row, status |-> new.status, hold |-> new.hold]
    BY <1>1 DEF Er!Written
  <1>4. stored.row = TRUE /\ wanted.row = TRUE /\ stored.hold \in BOOLEAN /\ wanted.hold \in BOOLEAN
    BY DEF Asked, OpenRow
  <1>5. new.row \in {TRUE} /\ new.hold \in BOOLEAN
    BY <1>2, <1>4, Zenon
  <1>6. new.status \in {"pending", "legal_hold", "rejected", "completed"}
    BY <1>2 DEF Asked
  <1>7. new \in Asked
    BY <1>3, <1>5, <1>6 DEF Asked
  <1> QED
    BY <1>2, <1>7

FilesGrow ==
  /\ url' \in [File -> {"none", "live", "expired"}]
  /\ bucket' \in [File -> Er!Contents \cup {"none"}]
  /\ \A k \in File : /\ url[k] # "none" => url'[k] # "none"
                     /\ Gone(k) => Gone(k)'
                     /\ bucket'[k] # "none" => url'[k] # "none"

\* The steps of the browser and of the bucket.
LEMMA FilesStep ==
  ASSUME PersonInv, UNCHANGED <<user, cand, request, req>>,
         NEW k \in File, NEW content \in Er!Contents,
         Er!Presign(k) \/ Er!Upload(k, content) \/ Er!Expire(k) \/ Er!RefuseConfirm(k)
  PROVE  PersonInv'
  <1>1. /\ url \in [File -> {"none", "live", "expired"}]
        /\ bucket \in [File -> Er!Contents \cup {"none"}]
    BY DEF PersonInv, Er!ErasureTypeOK
  <1>2. FilesGrow
    <2>1. CASE Er!Presign(k)
      BY <1>1, <2>1 DEF Er!Presign, FilesGrow, Gone, PersonInv
    <2>2. CASE Er!Upload(k, content)
      BY <1>1, <2>2 DEF Er!Upload, FilesGrow, Gone, PersonInv
    <2>3. CASE Er!Expire(k)
      BY <1>1, <2>3 DEF Er!Expire, FilesGrow, Gone, PersonInv
    <2>4. CASE Er!RefuseConfirm(k)
      BY <1>1, <2>4 DEF Er!RefuseConfirm, FilesGrow, Gone, PersonInv
    <2> QED
      BY <2>1, <2>2, <2>3, <2>4
  <1>3. PersonGrows
    BY <1>2 DEF FilesGrow, PersonGrows
  <1>4. \A w \in Worker : PersonLoaded(w)'
    BY <1>3, PersonStaysLoaded DEF PersonInv
  <1>5. Issued(cand.key)'
    BY <1>2 DEF FilesGrow, PersonInv, Issued
  <1>6. Er!ErasureTypeOK'
    BY <1>2 DEF FilesGrow, PersonInv, Er!ErasureTypeOK
  <1> QED
    BY <1>2, <1>4, <1>5, <1>6 DEF FilesGrow, PersonInv

LEMMA PersonAsks ==
  ASSUME PersonInv, NEW w \in Worker,
         \/ \E k \in File : Er!PostConfirm(w, k)
         \/ \E r \in Request : \/ Er!PostErase(w, r) \/ Er!PostApprove(w, r)
                                \/ Er!PostHold(w, r) \/ Er!PostReject(w, r)
  PROVE  PersonInv'
  <1>0. /\ cand \in Subject /\ user \in {"active", "erased"}
        /\ \A r \in Request : request[r] # Er!NoRow => request[r] \in Asked
    BY DEF PersonInv, Er!ErasureTypeOK, Subject, Asked
  <1>1. ASSUME NEW k \in File, Er!PostConfirm(w, k)
        PROVE  PersonInv'
    <2> PICK wanted : wanted = [cand EXCEPT !.key = k, !.text = Er!TextOf(k)]
      OBVIOUS
    <2> PICK r : r = [op |-> "confirm", seen |-> cand, wanted |-> wanted]
      OBVIOUS
    <2>1. /\ Er!Begin(w, r) /\ r.op = "confirm" /\ r.seen = cand /\ r.wanted = wanted
          /\ bucket[k] # "none" /\ UNCHANGED url
      BY <1>1 DEF Er!PostConfirm, Er!Begin
    <2>2. /\ wanted \in Subject /\ wanted.known = cand.known /\ wanted.deleted = cand.deleted
          /\ wanted.key = k
      BY <1>0 DEF Subject, Er!TextOf
    <2>3. url'[k] # "none"
      BY <2>1 DEF PersonInv
    <2>4. /\ r.seen \in Subject /\ r.wanted \in Subject
          /\ r.wanted.known = r.seen.known /\ r.wanted.deleted = r.seen.deleted
          /\ r.wanted.key \in File /\ url'[r.wanted.key] # "none"
      BY <1>0, <2>1, <2>2, <2>3
    <2>5. ASSUME req'[w] = r
          PROVE  PersonLoaded(w)'
      <3>1. Issued(req[w].wanted.key)'
        BY <2>4, <2>5 DEF Issued
      <3> QED
        BY <2>1, <2>4, <2>5, <3>1 DEF PersonLoaded
    <2> QED
      BY <2>1, <2>5, PersonBegins
  <1>2. ASSUME NEW i \in Request, Er!PostErase(w, i)
        PROVE  PersonInv'
    <2> PICK r : r = [op |-> "erase", of |-> i, email |-> user]
      OBVIOUS
    <2>1. /\ Er!Begin(w, r) /\ r.op = "erase" /\ r.of = i /\ r.email = user
          /\ user' = user
      BY <1>2 DEF Er!PostErase, Er!Begin, Er!tables
    <2>2. req'[w] = r => PersonLoaded(w)'
      BY <1>0, <2>1 DEF PersonLoaded
    <2> QED
      BY <2>1, <2>2, PersonBegins
  <1>3. ASSUME NEW i \in Request, Er!PostApprove(w, i)
        PROVE  PersonInv'
    <2> PICK r : r = [op |-> "approve", of |-> i, email |-> user, seen |-> request[i]]
      OBVIOUS
    <2>1. /\ Er!Begin(w, r) /\ r.op = "approve" /\ r.of = i /\ r.email = user /\ r.seen = request[i]
          /\ user' = user /\ Er!Open(i)
      BY <1>3 DEF Er!PostApprove, Er!Begin, Er!tables
    <2>2. request[i] \in OpenRow
      BY <1>0, <2>1 DEF Er!Open, Er!Exists, Asked, OpenRow
    <2>3. req'[w] = r => PersonLoaded(w)'
      BY <1>0, <2>1, <2>2 DEF PersonLoaded
    <2> QED
      BY <2>1, <2>3, PersonBegins
  <1>4. ASSUME NEW i \in Request, Er!Open(i), NEW wanted \in Asked,
               wanted.status \in {"legal_hold", "rejected"},
               Er!Begin(w, [op |-> "decide", of |-> i, seen |-> request[i], wanted |-> wanted])
        PROVE  PersonInv'
    <2> PICK r : r = [op |-> "decide", of |-> i, seen |-> request[i], wanted |-> wanted]
      OBVIOUS
    <2>1. /\ Er!Begin(w, r) /\ r.op = "decide" /\ r.of = i /\ r.seen = request[i] /\ r.wanted = wanted
          /\ request' = request
      BY <1>4 DEF Er!Begin, Er!tables
    <2>2. request[i] \in Asked
      BY <1>0, <1>4 DEF Er!Open, Er!Exists
    <2>3. req'[w] = r => PersonLoaded(w)'
      BY <1>4, <2>1, <2>2 DEF PersonLoaded
    <2> QED
      BY <2>1, <2>3, PersonBegins
  <1>5. ASSUME NEW i \in Request, Er!PostHold(w, i)
        PROVE  PersonInv'
    <2> PICK wanted : wanted = [row |-> TRUE, status |-> "legal_hold", hold |-> TRUE]
      OBVIOUS
    <2>1. wanted \in Asked /\ wanted.status = "legal_hold"
      BY DEF Asked
    <2> QED
      BY <1>4, <1>5, <2>1 DEF Er!PostHold
  <1>6. ASSUME NEW i \in Request, Er!PostReject(w, i)
        PROVE  PersonInv'
    <2> PICK wanted : wanted = [request[i] EXCEPT !.status = "rejected"]
      OBVIOUS
    <2>1. wanted \in Asked /\ wanted.status = "rejected"
      BY <1>0, <1>6 DEF Asked, Er!PostReject, Er!Open, Er!Exists
    <2> QED
      BY <1>4, <1>6, <2>1 DEF Er!PostReject
  <1> QED
    BY <1>1, <1>2, <1>3, <1>5, <1>6

\* Both ways into an erasure: a match has its object collected.
LEMMA Scrubbing ==
  ASSUME PersonInv, NEW w \in Worker, NEW gone \in SUBSET File, NEW match \in BOOLEAN,
         NEW keys, NEW disabled, NEW loaded \in OpenRow, req[w].of \in Request,
         Er!Scrub(w, match, keys, gone, disabled, loaded),
         match => cand.known /\ keys = Er!Collected(cand),
         ~match => user = "erased"
  PROVE  PersonInv'
  <1> PICK left : left = (keys \ gone) \cup {k \in File : url[k] = "live"}
    OBVIOUS
  <1> PICK r : r = [op |-> "erasing", of |-> req[w].of, match |-> match, seen |-> cand,
                    loaded |-> loaded, disabled |-> disabled, left |-> left]
    OBVIOUS
  <1>1. /\ gone \subseteq keys
        /\ bucket' = [k \in File |-> IF k \in gone THEN "none" ELSE bucket[k]]
        /\ req' = [v \in Worker |-> IF v = w THEN r ELSE req[v]]
        /\ UNCHANGED <<user, cand, request, url>>
    BY DEF Er!Scrub, Er!tables, PersonInv
  <1>2. /\ r.op = "erasing" /\ r.of = req[w].of /\ r.match = match /\ r.seen = cand
        /\ r.loaded = loaded /\ r.left = left
    OBVIOUS
  <1>3. /\ bucket' \in [File -> Er!Contents \cup {"none"}]
        /\ url \in [File -> {"none", "live", "expired"}]
        /\ cand \in Subject
    BY <1>1 DEF PersonInv, Er!ErasureTypeOK, Subject
  <1>4. PersonGrows
    BY <1>1 DEF PersonGrows, Gone
  <1>5. match /\ cand.key # Er!Null => cand.key \in left \/ Gone(cand.key)'
    <2> SUFFICES ASSUME match, cand.key # Er!Null, cand.key \notin left
                 PROVE  Gone(cand.key)'
      BY <1>1 DEF Gone
    <2>1. cand.key \in File /\ url[cand.key] # "none"
      BY DEF PersonInv, Issued
    <2>2. keys = {cand.key}
      BY DEF Er!Collected
    <2>3. cand.key \in gone /\ url[cand.key] # "live"
      BY <2>1, <2>2
    <2>4. bucket'[cand.key] = "none" /\ url[cand.key] = "expired"
      BY <1>1, <1>3, <2>1, <2>3
    <2> QED
      BY <1>1, <2>1, <2>4 DEF Gone
  <1>6. PersonLoaded(w)'
    <2>1. req'[w] = r
      BY <1>1
    <2> QED
      BY <1>1, <1>2, <1>3, <1>5, <2>1 DEF PersonLoaded, Gone
  <1>7. \A v \in Worker \ {w} : PersonLoaded(v)'
    BY <1>1, <1>4, PersonStaysLoaded DEF PersonInv
  <1>8. req' = [v \in Worker |-> req'[v]] /\ \A v \in Worker : PersonLoaded(v)'
    BY <1>1, <1>6, <1>7
  <1>9. Er!ErasureTypeOK' /\ Issued(cand.key)'
    BY <1>1, <1>3 DEF PersonInv, Er!ErasureTypeOK, Issued
  <1>10. \A k \in File : bucket'[k] # "none" => url'[k] # "none"
    BY <1>1 DEF PersonInv
  <1> QED
    BY <1>1, <1>8, <1>9, <1>10 DEF PersonInv

LEMMA ErasureBegins ==
  ASSUME PersonInv, NEW w \in Worker, NEW gone \in SUBSET File,
         Er!Disable(w, gone) \/ Er!Process(w, gone)
  PROVE  PersonInv'
  <1>1. cand.known \in BOOLEAN /\ cand.deleted \in BOOLEAN
    BY DEF PersonInv, Er!ErasureTypeOK
  <1>2. ASSUME Er!Disable(w, gone)
        PROVE  PersonInv'
    <2> PICK loaded : loaded = [row |-> TRUE, status |-> "new", hold |-> FALSE]
      OBVIOUS
    <2> PICK match : match = Er!Matched(req[w].email, Er!Disabled(cand))
      OBVIOUS
    <2> PICK live : live = (req[w].email = "active" /\ cand.known /\ ~cand.deleted)
      OBVIOUS
    <2>1. /\ req[w].op = "erase"
          /\ Er!Scrub(w, match, IF match THEN Er!Collected(cand) ELSE {}, gone, live, loaded)
      BY <1>2 DEF Er!Disable
    <2>2. loaded \in OpenRow
      BY DEF OpenRow
    <2>3. Er!Disabled(cand).known = cand.known
      BY DEF Er!Disabled, PersonInv, Er!ErasureTypeOK
    <2>4. /\ req[w].of \in Request /\ req[w].email \in {"active", "erased"}
          /\ req[w].email = "erased" => user = "erased"
      BY <2>1 DEF PersonInv, PersonLoaded
    <2>5. /\ match \in BOOLEAN /\ (match => cand.known) /\ (~match => user = "erased")
      BY <1>1, <2>3, <2>4 DEF Er!Matched, PersonInv
    <2> QED
      BY <2>1, <2>2, <2>4, <2>5, Scrubbing
  <1>3. ASSUME Er!Process(w, gone)
        PROVE  PersonInv'
    <2> PICK match : match = Er!Matched(req[w].email, cand)
      OBVIOUS
    <2>1. /\ req[w].op = "approve"
          /\ Er!Scrub(w, match, IF match THEN Er!Collected(cand) ELSE {}, gone, FALSE, req[w].seen)
      BY <1>3 DEF Er!Process
    <2>2. /\ req[w].of \in Request /\ req[w].email \in {"active", "erased"}
          /\ req[w].email = "erased" => user = "erased"
          /\ req[w].seen \in OpenRow
      BY <2>1 DEF PersonInv, PersonLoaded
    <2>3. /\ match \in BOOLEAN /\ (match => cand.known) /\ (~match => user = "erased")
      BY <1>1, <2>2 DEF Er!Matched, PersonInv
    <2> QED
      BY <2>1, <2>2, <2>3, Scrubbing
  <1> QED
    BY <1>2, <1>3

LEMMA ConfirmCommits ==
  ASSUME PersonInv, NEW w \in Worker, Er!CommitConfirm(w)
  PROVE  PersonInv'
  <1> PICK r : r = req[w]
    OBVIOUS
  <1>1. /\ r.op = "confirm" /\ cand' = Er!Written(cand, r.seen, r.wanted) /\ Er!Finish(w)
        /\ UNCHANGED <<user, request, url, bucket>>
    BY DEF Er!CommitConfirm
  <1>2. /\ r.seen \in Subject /\ r.wanted \in Subject
        /\ r.wanted.known = r.seen.known /\ r.wanted.deleted = r.seen.deleted
        /\ Issued(r.wanted.key)
    BY <1>1 DEF PersonInv, PersonLoaded
  <1>3. cand \in Subject
    BY DEF PersonInv, Er!ErasureTypeOK, Subject
  <1>4. /\ cand' \in Subject /\ cand'.known = cand.known /\ cand'.deleted = cand.deleted
        /\ cand'.key \in {cand.key, r.wanted.key}
    BY <1>1, <1>2, <1>3, SubjectWritten
  <1>5. PersonGrows
    BY <1>1, <1>4 DEF PersonGrows, Gone
  <1>6. req' = [v \in Worker |-> req'[v]] /\ \A v \in Worker : PersonLoaded(v)'
    BY <1>1, <1>5, PersonFinishes
  <1>7. Issued(cand.key)'
    BY <1>1, <1>2, <1>4 DEF Issued, PersonInv
  <1>8. Er!ErasureTypeOK'
    BY <1>1, <1>4 DEF PersonInv, Er!ErasureTypeOK, Subject
  <1> QED
    BY <1>1, <1>4, <1>6, <1>7, <1>8 DEF PersonInv

\* An erasure commits: what it leaves of the candidate and of the request.
LEMMA ErasureCommits ==
  ASSUME PersonInv, NEW w \in Worker, Er!CommitErasure(w)
  PROVE  /\ PersonInv'
         /\ req[w].match /\ cand = req[w].seen =>
              /\ cand'.key = Er!Null /\ cand'.text = Er!Null
              /\ cand.key = Er!Null \/ cand.key \in req[w].left \/ bucket'[cand.key] = "none"
  <1> PICK r : r = req[w]
    OBVIOUS
  <1> PICK empty : empty = Er!Anonymized(cand)
    OBVIOUS
  <1> PICK closed : closed = Er!Completed(r.loaded)
    OBVIOUS
  <1> PICK stored : stored = IF Er!Exists(request[r.of]) THEN request[r.of] ELSE r.loaded
    OBVIOUS
  <1> PICK asked : asked = Er!Written(stored, r.loaded, closed)
    OBVIOUS
  <1>1. /\ r.op = "erasing" /\ user' = "erased"
        /\ cand' = IF r.match THEN Er!Written(cand, r.seen, empty) ELSE cand
        /\ request' = [request EXCEPT ![r.of] = asked]
        /\ Er!Finish(w) /\ UNCHANGED <<url, bucket>>
    BY DEF Er!CommitErasure
  <1>2. /\ r.of \in Request /\ r.seen \in Subject /\ r.loaded \in OpenRow
        /\ r.match \in BOOLEAN
        /\ r.match => /\ r.seen.known
                      /\ r.seen.key = Er!Null \/ r.seen.key \in r.left \/ Gone(r.seen.key)
        /\ ~r.match => user = "erased"
        /\ r.seen.deleted => cand.deleted
    BY <1>1 DEF PersonInv, PersonLoaded
  <1>3. cand \in Subject /\ request \in [Request -> {Er!NoRow} \cup Asked]
    BY DEF PersonInv, Er!ErasureTypeOK, Subject, Asked
  <1>4. /\ empty \in Subject /\ ~empty.known /\ empty.deleted
        /\ empty.key = Er!Null /\ empty.text = Er!Null
    BY DEF Er!Anonymized, Subject
  <1>5. r.match =>
          /\ cand' \in Subject
          /\ cand'.known = IF empty.known = r.seen.known THEN cand.known ELSE empty.known
          /\ cand'.key = IF empty.key = r.seen.key THEN cand.key ELSE empty.key
          /\ cand'.text = IF empty.text = r.seen.text THEN cand.text ELSE empty.text
          /\ cand'.deleted = IF empty.deleted = r.seen.deleted THEN cand.deleted ELSE empty.deleted
    <2> PICK new : new = Er!Written(cand, r.seen, empty)
      OBVIOUS
    <2>1. r.seen \in Subject /\ empty \in Subject
      BY <1>2, <1>4
    <2>3. new \in Subject
      BY <1>3, <2>1, SubjectWritten
    <2>4. new.known = IF empty.known = r.seen.known THEN cand.known ELSE empty.known
      BY <1>3, <2>1, SubjectWritten
    <2>5. new.key = IF empty.key = r.seen.key THEN cand.key ELSE empty.key
      BY <1>3, <2>1, SubjectWritten
    <2>6. new.text = IF empty.text = r.seen.text THEN cand.text ELSE empty.text
      BY <1>3, <2>1, SubjectWritten
    <2>7. new.deleted = IF empty.deleted = r.seen.deleted THEN cand.deleted ELSE empty.deleted
      BY <1>3, <2>1, SubjectWritten
    <2>2. r.match => cand' = new
      BY <1>1
    <2> QED
      BY <2>2, <2>3, <2>4, <2>5, <2>6, <2>7
  <1>6. cand' \in Subject /\ ~cand'.known /\ cand'.deleted /\ cand'.key \in {cand.key, Er!Null}
    <2>1. CASE r.match
      <3>1. ~cand'.known
        BY <1>2, <1>4, <1>5, <2>1, Zenon
      <3>2. empty.deleted = TRUE
        BY DEF Er!Anonymized
      <3>3. cand'.deleted
        BY <1>2, <1>5, <2>1, <3>2, Zenon
      <3> QED
        BY <1>4, <1>5, <2>1, <3>1, <3>3
    <2>2. CASE ~r.match
      BY <1>1, <1>2, <1>3, <2>2 DEF PersonInv
    <2> QED
      BY <2>1, <2>2
  <1>7. r.match /\ cand = r.seen =>
          /\ cand'.key = Er!Null /\ cand'.text = Er!Null
          /\ cand.key = Er!Null \/ cand.key \in r.left \/ bucket'[cand.key] = "none"
    BY <1>1, <1>2, <1>4, <1>5 DEF Gone
  <1>8. asked \in Asked
    <2>1. stored \in Asked \cup OpenRow
      BY <1>2, <1>3 DEF Er!Exists
    <2>2. closed \in Asked /\ closed.status = "completed"
      BY <1>2 DEF Er!Completed, OpenRow, Asked
    <2>3. closed.status # r.loaded.status
      BY <1>2, <2>2 DEF OpenRow
    <2> QED
      BY <1>2, <2>1, <2>2, <2>3, AskedWritten
  <1>9. /\ request' \in [Request -> {Er!NoRow} \cup Asked]
        /\ \A i \in Request : request[i] \in Asked => request'[i] \in Asked
    BY <1>1, <1>2, <1>3, <1>8
  <1>10. PersonGrows
    BY <1>1, <1>6, <1>9 DEF PersonGrows, Gone
  <1>11. req' = [v \in Worker |-> req'[v]] /\ \A v \in Worker : PersonLoaded(v)'
    BY <1>1, <1>10, PersonFinishes
  <1>12. Issued(cand.key)'
    BY <1>1, <1>6 DEF Issued, PersonInv
  <1>13. Er!ErasureTypeOK'
    BY <1>1, <1>6, <1>9 DEF PersonInv, Er!ErasureTypeOK, Subject, Asked
  <1> QED
    BY <1>1, <1>6, <1>7, <1>11, <1>12, <1>13 DEF PersonInv

LEMMA DecisionCommits ==
  ASSUME PersonInv, NEW w \in Worker, Er!CommitDecision(w)
  PROVE  PersonInv'
  <1> PICK r : r = req[w]
    OBVIOUS
  <1> PICK new : new = Er!Written(request[r.of], r.seen, r.wanted)
    OBVIOUS
  <1>1. /\ r.op = "decide" /\ request' = [request EXCEPT ![r.of] = new] /\ Er!Finish(w)
        /\ UNCHANGED <<user, cand, url, bucket>>
    BY DEF Er!CommitDecision
  <1>2. /\ r.of \in Request /\ request[r.of] \in Asked
        /\ r.seen \in Asked /\ r.wanted \in Asked
        /\ r.wanted.status \in {"legal_hold", "rejected"}
    BY <1>1 DEF PersonInv, PersonLoaded
  <1>3. /\ new \in Asked
        /\ new.status = IF r.wanted.status = r.seen.status THEN request[r.of].status ELSE r.wanted.status
    BY <1>2, AskedWritten
  <1>4. request \in [Request -> {Er!NoRow} \cup Asked]
    BY DEF PersonInv, Er!ErasureTypeOK, Asked
  <1>5. /\ request' \in [Request -> {Er!NoRow} \cup Asked]
        /\ request'[r.of] = new
        /\ \A i \in Request \ {r.of} : request'[i] = request[i]
    BY <1>1, <1>2, <1>3, <1>4
  <1>6. PersonGrows
    BY <1>1, <1>3, <1>5 DEF PersonGrows, Gone
  <1>7. req' = [v \in Worker |-> req'[v]] /\ \A v \in Worker : PersonLoaded(v)'
    BY <1>1, <1>6, PersonFinishes
  <1>8. request[r.of] # Er!NoRow
    <2>1. request[r.of].row = TRUE /\ Er!NoRow.row = FALSE
      BY <1>2 DEF Asked, Er!NoRow
    <2> QED
      BY <2>1
  <1>9. \A i \in Request : request'[i] # Er!NoRow /\ request'[i].status = "completed" => user' = "erased"
    BY <1>1, <1>2, <1>3, <1>5, <1>8 DEF PersonInv
  <1>10. Er!ErasureTypeOK' /\ Issued(cand.key)'
    BY <1>1, <1>5 DEF PersonInv, Er!ErasureTypeOK, Asked, Issued
  <1> QED
    BY <1>1, <1>7, <1>9, <1>10 DEF PersonInv

LEMMA PersonStep ==
  ASSUME PersonInv, [Er!Next]_(Er!vars)
  PROVE  PersonInv'
  <1>1. ASSUME NEW w \in Worker, Er!Fail(w)
        PROVE  PersonInv'
    <2>1. Er!Finish(w) /\ UNCHANGED <<user, cand, request, url, bucket>>
      BY <1>1 DEF Er!Fail, Er!tables
    <2>2. PersonGrows
      BY <2>1 DEF PersonGrows, Gone
    <2>3. req' = [v \in Worker |-> req'[v]] /\ \A v \in Worker : PersonLoaded(v)'
      BY <2>1, <2>2, PersonFinishes
    <2>4. Er!ErasureTypeOK' /\ Issued(cand.key)'
      BY <2>1 DEF PersonInv, Er!ErasureTypeOK, Issued
    <2> QED
      BY <2>1, <2>3, <2>4 DEF PersonInv
  <1>2. ASSUME UNCHANGED Er!vars
        PROVE  PersonInv'
    <2>1. UNCHANGED <<user, cand, request, url, bucket, req>>
      BY <1>2 DEF Er!vars
    <2>2. PersonGrows
      BY <2>1 DEF PersonGrows, Gone
    <2>3. \A v \in Worker : PersonLoaded(v)'
      BY <2>1, <2>2, PersonStaysLoaded DEF PersonInv
    <2>4. Er!ErasureTypeOK' /\ Issued(cand.key)'
      BY <2>1 DEF PersonInv, Er!ErasureTypeOK, Issued
    <2> QED
      BY <2>1, <2>3, <2>4 DEF PersonInv
  <1>3. ASSUME NEW k \in File, Er!Presign(k) \/ Er!Expire(k) \/ Er!RefuseConfirm(k)
        PROVE  PersonInv'
    <2>1. UNCHANGED <<user, cand, request, req>>
      BY <1>3 DEF Er!Presign, Er!Expire, Er!RefuseConfirm, Er!tables
    <2>2. "text" \in Er!Contents
      BY DEF Er!Contents
    <2> QED
      BY <1>3, <2>1, <2>2, FilesStep
  <1>4. ASSUME NEW k \in File, NEW content \in Er!Contents, Er!Upload(k, content)
        PROVE  PersonInv'
    BY <1>4, FilesStep DEF Er!Upload, Er!tables
  <1>5. ASSUME NEW w \in Worker, NEW k \in File, Er!PostConfirm(w, k)
        PROVE  PersonInv'
    BY <1>5, PersonAsks
  <1>6. ASSUME NEW w \in Worker,
               \E r \in Request : \/ Er!PostErase(w, r) \/ Er!PostApprove(w, r)
                                 \/ Er!PostHold(w, r) \/ Er!PostReject(w, r)
        PROVE  PersonInv'
    BY <1>6, PersonAsks
  <1>7. ASSUME NEW w \in Worker, Er!CommitConfirm(w) \/ Er!CommitErasure(w) \/ Er!CommitDecision(w)
        PROVE  PersonInv'
    BY <1>7, ConfirmCommits, ErasureCommits, DecisionCommits
  <1>8. CASE Er!Next
    <2>1. ASSUME NEW w \in Worker,
                 \/ \E k \in File : Er!PostConfirm(w, k)
                 \/ Er!CommitConfirm(w)
                 \/ \E r \in Request : \/ Er!PostErase(w, r)
                                       \/ Er!PostApprove(w, r)
                                       \/ Er!PostHold(w, r)
                                       \/ Er!PostReject(w, r)
                 \/ \E gone \in SUBSET File : Er!Disable(w, gone) \/ Er!Process(w, gone)
                 \/ Er!CommitErasure(w)
                 \/ Er!CommitDecision(w)
                 \/ Er!Fail(w)
          PROVE  PersonInv'
      BY <1>1, <1>5, <1>6, <1>7, <2>1, ErasureBegins
    <2> QED
      BY <1>3, <1>8, <1>4, <2>1 DEF Er!Next
  <1> QED
    BY <1>2, <1>8

LEMMA ErasureCleans ==
  ASSUME PersonInv
  PROVE  Er!CleaningErasure
  BY ErasureCommits DEF Er!CleaningErasure, Er!Quiet

LEMMA PersonFollows ==
  ASSUME PersonInv
  PROVE  Er!ErasureKept
  BY DEF PersonInv, Er!ErasureKept, Er!CompletedMeansErased, Er!Exists

\* While the erasure run, a step is one of theirs, and their invariant holds.
LEMMA ErasureRun ==
  [Next]_vars /\ part' = "erasure" => part = "erasure" /\ [Er!Next]_(Er!vars)
  BY DEF Next, vars, Er!vars, RestOfOffers, RestOfInvoices, RestOfReplay,
         RestOfQueue, RestOfErasure, RestOfPaper

LEMMA ErasureInvariant ==
  Spec => [](part = "erasure" => PersonInv)
  <1> DEFINE Inv == part = "erasure" => PersonInv
  <1>1. Init => Inv
    <2>1. Init /\ part = "erasure" => Er!Init
      BY DEF Init
    <2> QED
      BY <2>1, PersonStart
  <1>2. Inv /\ [Next]_vars => Inv'
    BY ErasureRun, PersonStep
  <1> QED
    BY <1>1, <1>2, PTL DEF Spec

(* erasure.py:133-147, for any requests, files and workers: a request that *)
(* is reported complete has erased its subject.                            *)
THEOREM ErasureHolds ==
  Spec => []ErasureKept
  <1>1. (part = "erasure" => PersonInv) => ErasureKept
    BY PersonFollows DEF ErasureKept
  <1> QED
    BY <1>1, ErasureInvariant, PTL

-----------------------------------------------------------------------------
(* What one commit does.                                                   *)


(* client_portal.py:260-276, workflow.py:608-609, idempotency.py:33,       *)
(* erasure.py:66-130: a release dates its offer; a loaded tax rate undoes  *)
(* none, and a lone update of an invoice adds up; the first answer stays;  *)
(* and an erasure that nothing overlaps leaves neither text nor file.      *)
THEOREM StepsHold ==
  ASSUME DatesApart, RatesAreNumbers, RowsAreIds
  PROVE  Spec => StepsKept
  <1> DEFINE Inv == /\ part = "offers" => OffersInv
                    /\ part = "invoices" => BillsInv
                    /\ part = "replay" => ReplayInv
                    /\ part = "erasure" => PersonInv
  <1>1. Inv /\ [Next]_vars =>
          [/\ part = "offers" => Of!DatedRelease
           /\ part = "invoices" => In!SparingPatch /\ In!MendingRetax
           /\ part = "replay" => Re!StayingAnswer
           /\ part = "erasure" => Er!CleaningErasure]_vars
    <2> SUFFICES ASSUME Inv, [Next]_vars
                 PROVE  /\ part = "offers" => Of!DatedRelease
                        /\ part = "invoices" => In!SparingPatch /\ In!MendingRetax
                        /\ part = "replay" => Re!StayingAnswer
                        /\ part = "erasure" => Er!CleaningErasure
      OBVIOUS
    <2>1. part = "offers" => Of!DatedRelease
      BY OfferReleasesDated
    <2>2. part = "invoices" => In!SparingPatch /\ In!MendingRetax
      BY BillsFollow
    <2>3. part = "replay" => Re!StayingAnswer
      <3>1. part' = part
        BY DEF Next, vars, RestOfOffers, RestOfInvoices, RestOfReplay, RestOfQueue, RestOfErasure,
           RestOfPaper
      <3> QED
        BY <3>1, ReplayRun, AnswerStays
    <2>4. part = "erasure" => Er!CleaningErasure
      BY ErasureCleans
    <2> QED
      BY <2>1, <2>2, <2>3, <2>4
  <1>2. Spec => []Inv
    BY OffersInvariant, InvoicesInvariant, ReplayInvariant, ErasureInvariant, PTL
  <1> QED
    BY <1>1, <1>2, PTL DEF Spec, StepsKept
=============================================================================
