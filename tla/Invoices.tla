------------------------------ MODULE Invoices ------------------------------
(***************************************************************************)
(* One application's invoice, its taxes and the credit note against it     *)
(* (backend/app/routers/workflow.py, and placements.py for the note).      *)
(*                                                                         *)
(* A PATCH loads a row, computes every amount from it and commits an       *)
(* UPDATE that names only the columns whose value differs from the loaded  *)
(* one.  The comparison is between a float and the Decimal that was loaded *)
(* and finds every value that binary fractions cannot express different    *)
(* from itself.  The status, which no check reads, and a second credit     *)
(* note, which Placements speaks of, are left out.                         *)
(***************************************************************************)
EXTENDS Integers

CONSTANTS
  Worker,   \* threads serving requests
  Base,     \* billing bases of the invoice, in rupees
  FeeRate,  \* its fee rate (1500 unless the request says otherwise)
  GstRate,  \* GST rates a request may supply
  TdsRate   \* TDS rates a request may supply

VARIABLES
  invoice, \* "original" or "credit" -> the invoices row
  req      \* Worker -> the request it serves and the row it loaded

vars == <<invoice, req>>

\* Amounts are in paise, rates in hundredths of a percent.
Null == -1             \* the SQL NULL: no rate, no amount
Gst == GstRate \cup {Null}
Tds == TdsRate \cup {Null}
Idle == [op |-> "idle"]
NoRow == [row |-> FALSE]

-----------------------------------------------------------------------------
(* _compute_invoice: a tax is computed only when its rate is supplied.     *)

\* _round2 on paise: the nearest, since the amounts are not negative.
Percent(amount, rate) == (amount * rate + 5000) \div 10000

Fee(base) == Percent(100 * base, FeeRate)

Tax(base, rate) == IF rate = Null THEN Null ELSE Percent(Fee(base), rate)

OrZero(amount) == IF amount = Null THEN 0 ELSE amount

Total(base, gst, tds) == Fee(base) + OrZero(Tax(base, gst)) - OrZero(Tax(base, tds))

Billed(base, gst, tds) ==
  [row |-> TRUE, base |-> base, fee |-> Fee(base), gst |-> gst, gstAmount |-> Tax(base, gst),
   tds |-> tds, tdsAmount |-> Tax(base, tds), total |-> Total(base, gst, tds)]

-----------------------------------------------------------------------------

\* POST /invoices or a placement has created the invoice.
Init == /\ \E base \in Base, gst \in Gst, tds \in Tds :
             invoice = [i \in {"original", "credit"} |->
                          IF i = "original" THEN Billed(base, gst, tds) ELSE NoRow]
        /\ req = [w \in Worker |-> Idle]

Begin(w, r) == req[w] = Idle /\ req' = [req EXCEPT ![w] = r] /\ UNCHANGED invoice

Finish(w) == req' = [req EXCEPT ![w] = Idle]

\* A dead worker: nothing is left behind.
Fail(w) == req[w] # Idle /\ Finish(w) /\ UNCHANGED invoice

\* Fault: the UPDATE names every column the handler assigned.
Assigned(stored, seen, wanted) == wanted

\* Two decimals that are also a binary fraction: quarters.  None equals None.
Exact(n) == n = Null \/ n % 25 = 0

\* What an UPDATE leaves in a column: one found equal to the loaded value is
\* not named.
Column(stored, seen, wanted) == IF wanted = seen /\ Exact(seen) THEN stored ELSE wanted

Supplied(rate, seen) == IF rate = Null THEN seen ELSE rate

-----------------------------------------------------------------------------
(* The invoice and the credit note, both reached by PATCH /invoices/{id}.  *)

\* Fault: a rate that is not supplied again is dropped from the total.
RetaxedAlone(row, gst, tds) ==
  [row EXCEPT !.gst = Supplied(gst, row.gst), !.gstAmount = Tax(row.base, Supplied(gst, row.gst)),
              !.tds = Supplied(tds, row.tds), !.tdsAmount = Tax(row.base, Supplied(tds, row.tds)),
              !.total = Total(row.base, gst, tds)]

\* Fault: the taxes are charged on the billing base, not on the fee.
TaxedOnBase(row, gst, tds) ==
  LET g == Supplied(gst, row.gst)
      t == Supplied(tds, row.tds)
      Charge(rate) == IF rate = Null THEN Null ELSE Percent(100 * row.base, rate) IN
  [row EXCEPT !.gst = g, !.gstAmount = Charge(g), !.tds = t, !.tdsAmount = Charge(t),
              !.total = Fee(row.base) + OrZero(Charge(g)) - OrZero(Charge(t))]

\* A rate that is not supplied is the loaded one.
Retaxed(row, gst, tds) ==
  LET g == Supplied(gst, row.gst)
      t == Supplied(tds, row.tds) IN
  [row EXCEPT !.gst = g, !.gstAmount = Tax(row.base, g),
              !.tds = t, !.tdsAmount = Tax(row.base, t),
              !.total = Total(row.base, g, t)]

\* PATCH /invoices/{id}: without a rate it sets the status only.
PatchInvoice(w, i, gst, tds) ==
  /\ invoice[i] # NoRow
  /\ gst # Null \/ tds # Null
  /\ Begin(w, [op |-> "invoice", of |-> i, seen |-> invoice[i], gst |-> gst, tds |-> tds,
               wanted |-> Retaxed(invoice[i], gst, tds)])

\* The columns it assigns.
Assignable == {"gst", "gstAmount", "tds", "tdsAmount", "total"}

CommitInvoice(w) ==
  LET r == req[w] IN
  /\ r.op = "invoice"
  /\ invoice' = [invoice EXCEPT ![r.of] =
                   [f \in DOMAIN @ |-> IF f \in Assignable THEN Column(@[f], r.seen[f], r.wanted[f])
                                       ELSE @[f]]]
  /\ Finish(w)

\* POST /invoices/{id}/credit-note: the loaded fee and total with their signs
\* turned, and no tax.
PostCredit(w) == /\ invoice["credit"] = NoRow
                 /\ Begin(w, [op |-> "credit", seen |-> invoice["original"]])

\* Fault: the rates are mirrored with the amounts.
MirroredRates(row) == [row EXCEPT !.fee = -row.fee, !.total = -row.total,
                                  !.gst = -row.gst, !.gstAmount = Null,
                                  !.tds = -row.tds, !.tdsAmount = Null]

Mirror(row) == [row EXCEPT !.fee = -row.fee, !.total = -row.total,
                           !.gst = Null, !.gstAmount = Null, !.tds = Null, !.tdsAmount = Null]

CommitCredit(w) == /\ req[w].op = "credit"
                   /\ invoice["credit"] = NoRow
                   /\ invoice' = [invoice EXCEPT !["credit"] = Mirror(req[w].seen)]
                   /\ Finish(w)

-----------------------------------------------------------------------------

Next == \E w \in Worker :
          \/ \E i \in {"original", "credit"}, gst \in Gst, tds \in Tds :
               PatchInvoice(w, i, gst, tds)
          \/ CommitInvoice(w)
          \/ PostCredit(w)
          \/ CommitCredit(w)
          \/ Fail(w)

Spec == Init /\ [][Next]_vars

-----------------------------------------------------------------------------

Bill == [row : {TRUE}, base : Base, fee : Int, gst : Gst, gstAmount : Int,
         tds : Tds, tdsAmount : Int, total : Int]

InvoicesTypeOK == /\ invoice["original"] \in Bill
                  /\ invoice["credit"] \in Bill \cup {NoRow}

\* On such a fee the rates come to amounts that differ and that are exact.
Telling(base) ==
  /\ \A x \in Gst \cup Tds : Exact(x) /\ Exact(Tax(base, x))
  /\ \A x, y \in Gst \cup Tds : Tax(base, x) = Tax(base, y) => x = y

Matching(row) == /\ row.gstAmount = Tax(row.base, row.gst)
                 /\ row.tdsAmount = Tax(row.base, row.tds)

(* workflow.py:623 writes a rate and its amount together, but column by    *)
(* column against the loaded row: on a fee whose taxes are exact and tell  *)
(* the rates apart, overlapping updates never leave one without the other. *)
AmountsMatchRates ==
  \A i \in {"original", "credit"} :
    invoice[i] # NoRow /\ Telling(invoice[i].base) => Matching(invoice[i])

SparingPatch ==
  \A w \in Worker :
     CommitInvoice(w) =>
       LET r == req[w] IN
       /\ r.gst = Null /\ Exact(r.seen.gst) => invoice'[r.of].gst = invoice[r.of].gst
       /\ r.tds = Null /\ Exact(r.seen.tds) => invoice'[r.of].tds = invoice[r.of].tds

(* workflow.py:608-609, "Tax is only ever applied from explicitly supplied *)
(* rates": a rate that was merely loaded, and is exact, does not undo one  *)
(* that was supplied meanwhile.                                            *)
LoadedRateUndoesNone == [][SparingPatch]_vars

AddsUp(row) == row.total = row.fee + OrZero(row.gstAmount) - OrZero(row.tdsAmount)

Lone(w) == req[w].of = "original" /\ req[w].seen = invoice["original"]

MendingRetax ==
  \A w \in Worker : CommitInvoice(w) /\ Lone(w) => AddsUp(invoice'["original"])

(* workflow.py:608, "recomputes totals": an update of the original invoice *)
(* that nothing overlapped leaves a total that adds up, also after earlier *)
(* overlaps had left one that did not.                                     *)
RetaxMends == [][MendingRetax]_vars

(* What is always true of the amounts of an invoice.                       *)
AmountsKept == InvoicesTypeOK /\ AmountsMatchRates

-----------------------------------------------------------------------------
(* What the documents expect and the code defeats: see the README, 'Where  *)
(* the code and its documents part'.                                       *)

(* placements.py:275, "Negative fee mirror of the original": a PATCH of    *)
(* the credit note computes its total anew from a positive fee.            *)
CreditIsNegative == invoice["credit"] # NoRow => invoice["credit"].total <= 0

(* workflow.py:608, "recomputes totals", when updates overlap.             *)
TotalsAddUp == AddsUp(invoice["original"])

(* workflow.py:623 again, on any fee: an amount that is not exact is named *)
(* by every update and put back beside a rate supplied meanwhile.          *)
AmountsAlwaysMatch == Matching(invoice["original"])
=============================================================================
