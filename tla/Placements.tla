----------------------------- MODULE Placements -----------------------------
(***************************************************************************)
(* The commercial layer of one requisition: placements with their          *)
(* guarantee window, the fee invoice, replacement, credit note and vendor  *)
(* commission (backend/app/routers/placements.py, vendor_mgmt.py) and the  *)
(* guarantee sweep (backend/app/jobs.py).                                  *)
(*                                                                         *)
(* Every handler checks the rows it loaded and then commits inserts and    *)
(* updates by primary key; no UPDATE is guarded, and the only UNIQUE key   *)
(* is one commission per placement.                                        *)
(***************************************************************************)
EXTENDS Naturals, Sequences, FiniteSets

CONSTANTS
  App,           \* applications for the requisition
  Worker,        \* threads serving requests
  Sweeper,       \* runs of the guarantee sweep that may overlap
  MaxPlacements, \* bound on the placements made
  MaxInvoices    \* bound on fee invoices and credit notes

ASSUME PlacementAssumption == {MaxPlacements, MaxInvoices} \subseteq Nat

VARIABLES
  joined,      \* applications at stage 'joined'
  placements,  \* placements rows, in insertion order
  over,        \* placements whose guarantee_until has passed
  invoices,    \* fee invoices and credit notes, in insertion order
  commission,  \* placement -> status of its vendor_commissions row
  completed,   \* placement -> outcome -> GuaranteeCompletion events emitted
  req          \* Worker or Sweeper -> what it is doing and the rows it loaded

vars == <<joined, placements, over, invoices, commission, completed, req>>

rows == <<joined, placements, over, invoices, commission, completed>>

Idle == [op |-> "idle"]
None == 0              \* the SQL NULL of replacement_for and credit_note_of
NoCommission == "none"
Outcomes == {"cleared", "breached"}

Init == /\ joined = {}
        /\ placements = <<>>
        /\ over = {}
        /\ invoices = <<>>
        /\ commission = [p \in 1 .. MaxPlacements |-> NoCommission]
        /\ completed = [p \in 1 .. MaxPlacements |-> [o \in Outcomes |-> 0]]
        /\ req = [w \in Worker \cup Sweeper |-> Idle]

Placed == DOMAIN placements

Of(a) == {p \in Placed : placements[p].app = a}

FeeInvoices(p) == {i \in DOMAIN invoices : /\ invoices[i].placement = p
                                           /\ invoices[i].creditOf = None}

CreditNotes(i) == {c \in DOMAIN invoices : invoices[c].creditOf = i}

Begin(w, r) == req[w] = Idle /\ req' = [req EXCEPT ![w] = r] /\ UNCHANGED rows

Finish(w) == req' = [req EXCEPT ![w] = Idle]

\* A refusal, a failed constraint or a dead worker: nothing is left behind.
Fail(w) == req[w] # Idle /\ Finish(w) /\ UNCHANGED rows

-----------------------------------------------------------------------------
(* derived_guarantee_state: the dates decide, unless a fact was recorded.  *)

DerivedState(p) ==
  IF placements[p].status \in {"breached", "replaced"} THEN placements[p].status
  ELSE IF p \in over THEN "cleared" ELSE "in_guarantee"

-----------------------------------------------------------------------------
(* POST /applications/{id}/placement                                       *)

PostPlacement(w, a) == /\ a \in joined
                       /\ Of(a) = {}
                       /\ Begin(w, [op |-> "place", app |-> a])

\* Fault: the status is one of before the check constraint.
PendingPlacement(a, orig) == [app |-> a, status |-> "pending", for |-> orig]

NewPlacement(a, orig) == [app |-> a, status |-> "active", for |-> orig]

FeeInvoice(p) == [placement |-> p, creditOf |-> None]

CommitPlacement(w) ==
  /\ req[w].op = "place"
  /\ Len(placements) < MaxPlacements /\ Len(invoices) < MaxInvoices
  /\ placements' = Append(placements, NewPlacement(req[w].app, None))
  /\ invoices' = Append(invoices, FeeInvoice(Len(placements) + 1))
  /\ Finish(w)
  /\ UNCHANGED <<joined, over, commission, completed>>

-----------------------------------------------------------------------------
(* POST /placements/{id}/breach.  It also sets jobs.status to 'open', the  *)
(* only value any handler ever writes there: nothing changes.              *)

PostBreach(w, p) == /\ DerivedState(p) = "in_guarantee"
                    /\ Begin(w, [op |-> "breach", placement |-> p])

CommitBreach(w) ==
  LET p == req[w].placement IN
  /\ req[w].op = "breach"
  /\ placements' = [placements EXCEPT ![p].status = "breached"]
  /\ completed' = [completed EXCEPT ![p]["breached"] = @ + 1]
  /\ Finish(w)
  /\ UNCHANGED <<joined, over, invoices, commission>>

-----------------------------------------------------------------------------
(* POST /placements/{id}/replacement                                       *)

PostReplacement(w, p, a) ==
  /\ placements[p].status = "breached"
  /\ a \in joined
  /\ Of(a) = {}
  /\ Begin(w, [op |-> "replace", placement |-> p, app |-> a])

\* Fault: a replacement is billed like any placement.
CommitReplacementBilled(w) ==
  LET p == req[w].placement IN
  /\ req[w].op = "replace"
  /\ Len(placements) < MaxPlacements /\ Len(invoices) < MaxInvoices
  /\ placements' = Append([placements EXCEPT ![p].status = "replaced"],
                          NewPlacement(req[w].app, p))
  /\ invoices' = Append(invoices, FeeInvoice(Len(placements) + 1))
  /\ Finish(w)
  /\ UNCHANGED <<joined, over, commission, completed>>

CommitReplacement(w) ==
  LET p == req[w].placement IN
  /\ req[w].op = "replace"
  /\ Len(placements) < MaxPlacements
  /\ placements' = Append([placements EXCEPT ![p].status = "replaced"],
                          NewPlacement(req[w].app, p))
  /\ Finish(w)
  /\ UNCHANGED <<joined, over, invoices, commission, completed>>

-----------------------------------------------------------------------------
(* guarantee_sweep: load what is due, then flip and report each of them.   *)

\* Fault: every active placement is swept.
DueEarly == {p \in Placed : placements[p].status = "active"}

\* Fault: the sweep looks for the status the code derives but never stores.
DueDerived == {p \in Placed : placements[p].status = "in_guarantee" /\ p \in over}

Due == {p \in Placed : placements[p].status = "active" /\ p \in over}

StartSweep(w) == Due # {} /\ Begin(w, [op |-> "sweep", due |-> Due])

\* Fault: the status flips and the event is left to a later step.
CommitSweepSilent(w) ==
  /\ req[w].op = "sweep"
  /\ placements' = [p \in Placed |-> IF p \in req[w].due
                                     THEN [placements[p] EXCEPT !.status = "cleared"]
                                     ELSE placements[p]]
  /\ Finish(w)
  /\ UNCHANGED <<joined, over, invoices, commission, completed>>

CommitSweep(w) ==
  LET due == req[w].due IN
  /\ req[w].op = "sweep"
  /\ placements' = [p \in Placed |-> IF p \in due
                                     THEN [placements[p] EXCEPT !.status = "cleared"]
                                     ELSE placements[p]]
  /\ completed' = [p \in DOMAIN completed |->
                     IF p \in due THEN [completed[p] EXCEPT !["cleared"] = @ + 1]
                     ELSE completed[p]]
  /\ Finish(w)
  /\ UNCHANGED <<joined, over, invoices, commission>>

-----------------------------------------------------------------------------
(* POST /invoices/{id}/credit-note: inserts the note, then looks for an    *)
(* accrued commission on the placement to void.                            *)

PostCreditNote(w, i) == /\ invoices[i].creditOf = None
                        /\ CreditNotes(i) = {}
                        /\ Begin(w, [op |-> "credit", invoice |-> i])

LoadAccrued(w) ==
  /\ req[w].op = "credit"
  /\ req' = [req EXCEPT ![w] =
               [op |-> "void accrued", invoice |-> req[w].invoice,
                accrued |-> commission[invoices[req[w].invoice].placement] = "accrued"]]
  /\ UNCHANGED rows

CommitCreditNote(w) ==
  LET r == req[w]
      p == invoices[r.invoice].placement
  IN /\ r.op = "void accrued"
     /\ Len(invoices) < MaxInvoices
     /\ invoices' = Append(invoices, [placement |-> p, creditOf |-> r.invoice])
     /\ commission' = IF r.accrued THEN [commission EXCEPT ![p] = "void"] ELSE commission
     /\ Finish(w)
     /\ UNCHANGED <<joined, placements, over, completed>>

-----------------------------------------------------------------------------
(* POST /placements/{id}/commission, and the commission's void, mark-paid  *)

\* The placement is no replacement and its one fee invoice is not credited.
FeeBearing(p) == /\ placements[p].for = None
                 /\ Cardinality(FeeInvoices(p)) = 1
                 /\ \A i \in FeeInvoices(p) : CreditNotes(i) = {}

PostCommission(w, p) == /\ commission[p] = NoCommission
                        /\ FeeBearing(p)
                        /\ Begin(w, [op |-> "accrue", placement |-> p])

CommitCommission(w) ==
  LET p == req[w].placement IN
  /\ req[w].op = "accrue"
  /\ commission[p] = NoCommission
  /\ commission' = [commission EXCEPT ![p] = "accrued"]
  /\ Finish(w)
  /\ UNCHANGED <<joined, placements, over, invoices, completed>>

\* Voiding a void commission again only rewords its reason: the status loaded
\* and the status assigned are equal, so the UPDATE does not name it.
PostVoid(w, p) == /\ commission[p] = "accrued"
                  /\ Begin(w, [op |-> "settle", placement |-> p, to |-> "void"])

PostMarkPaid(w, p) == /\ commission[p] = "accrued"
                      /\ Begin(w, [op |-> "settle", placement |-> p, to |-> "paid"])

CommitSettlement(w) ==
  /\ req[w].op = "settle"
  /\ commission' = [commission EXCEPT ![req[w].placement] = req[w].to]
  /\ Finish(w)
  /\ UNCHANGED <<joined, placements, over, invoices, completed>>

-----------------------------------------------------------------------------
\* The pipeline takes an application to 'joined', and off it: on to
\* 'guarantee', or on hold and back.
Join(a) == /\ a \notin joined
           /\ joined' = joined \cup {a}
           /\ UNCHANGED <<placements, over, invoices, commission, completed, req>>

MoveOn(a) == /\ a \in joined
             /\ joined' = joined \ {a}
             /\ UNCHANGED <<placements, over, invoices, commission, completed, req>>

\* guarantee_until passes.
WindowEnds(p) == /\ p \notin over
                 /\ over' = over \cup {p}
                 /\ UNCHANGED <<joined, placements, invoices, commission, completed, req>>

Request(w) ==
  \/ \E a \in App : PostPlacement(w, a)
  \/ \E p \in Placed : \/ PostBreach(w, p)
                       \/ \E a \in App : PostReplacement(w, p, a)
                       \/ PostCommission(w, p) \/ PostVoid(w, p) \/ PostMarkPaid(w, p)
  \/ \E i \in DOMAIN invoices : PostCreditNote(w, i)
  \/ LoadAccrued(w)

Commit(w) == \/ CommitPlacement(w) \/ CommitBreach(w) \/ CommitReplacement(w)
             \/ CommitCreditNote(w) \/ CommitCommission(w) \/ CommitSettlement(w)

Next == \/ \E w \in Worker : Request(w) \/ Commit(w) \/ Fail(w)
        \/ \E w \in Sweeper : StartSweep(w) \/ CommitSweep(w) \/ Fail(w)
        \/ \E a \in App : Join(a) \/ MoveOn(a)
        \/ \E p \in Placed : WindowEnds(p)

Spec == Init /\ [][Next]_vars

\* The sweep is run again and again and not killed every time: what operating
\* it means (jobs.py:9-12 names the runner), not something the code enforces.
FairSpec == /\ Spec
            /\ SF_vars(\E w \in Sweeper : StartSweep(w))
            /\ SF_vars(\E w \in Sweeper : CommitSweep(w))

-----------------------------------------------------------------------------
\* The shape of the state.
PlacementTypeOK ==
  /\ joined \subseteq App
  /\ placements \in Seq([app : App, status : {"active", "cleared", "breached", "replaced"},
                         for : {None} \cup Placed])
  /\ over \subseteq Placed
  /\ invoices \in Seq([placement : Placed, creditOf : {None} \cup DOMAIN invoices])
  /\ \A p \in DOMAIN commission : commission[p] \in {NoCommission, "accrued", "paid", "void"}
  /\ \A p \in DOMAIN completed : completed[p] \in [Outcomes -> Nat]

\* placements.py:196-197, vendor_mgmt.py:10, "Replacements accrue nothing (no
\* fee)": a replacement has neither invoice nor commission, and whatever earned
\* a commission was billed.
ReplacementIsFree ==
  \A p \in Placed :
    /\ placements[p].for # None => FeeInvoices(p) = {} /\ commission[p] = NoCommission
    /\ commission[p] # NoCommission => FeeInvoices(p) # {}

\* However breach, sweep and replacement overlap, a status that has left the
\* window was reported: the timeline holds the completion it claims.
OutcomeReported ==
  \A p \in Placed :
    /\ placements[p].status = "cleared" => completed[p]["cleared"] > 0
    /\ placements[p].status \in {"breached", "replaced"} => completed[p]["breached"] > 0

\* jobs.py:37, 45: a placement is reported cleared only once its window is over.
ClearedAfterWindow ==
  \A p \in Placed : completed[p]["cleared"] > 0 => p \in over

\* placements.py:71-317, vendor_mgmt.py:183-298, jobs.py:43-61: however the
\* commercial requests and the sweep overlap, a replacement is free, what earned
\* a commission was billed, and a status shows only what was reported, 'cleared'
\* after its window.
PlacementsKept ==
  PlacementTypeOK /\ ReplacementIsFree /\ OutcomeReported /\ ClearedAfterWindow

\* jobs.py:6-7, "a missed run self-heal on the next pass": a placement whose
\* window is over does not stay active.
Active(p) == p \in Placed /\ placements[p].status = "active"

SelfHeals == \A p \in 1 .. MaxPlacements : p \in over ~> ~Active(p)

-----------------------------------------------------------------------------
(* What the documents expect and overlapping requests defeat: see the      *)
(* README, "Where the code and its documents part".                        *)

\* placements.py:6, "A REPLACEMENT placement raises NO invoice (no double fee)":
\* one joining is billed once, a replacement's not at all.
NoDoubleFee ==
  \A a \in App :
    LET billed == {p \in Of(a) : FeeInvoices(p) # {}} IN
    Cardinality(billed) <= IF \E p \in Of(a) : placements[p].for # None THEN 0 ELSE 1

\* jobs.py:44-46, "ONE GuaranteeCompletion each ... a second run (or a run after
\* downtime) can never double-emit".
OneCompletionEach == \A p \in Placed, o \in Outcomes : completed[p][o] <= 1

\* jobs.py:37, "breached/replaced are explicit terminal facts".
BreachStands ==
  [][\A p \in Placed : placements[p].status \in {"breached", "replaced"} =>
       placements'[p].status \in {"breached", "replaced"}]_vars

\* placements.py:208, "Only a breached placement can be replaced", after which
\* it is 'replaced': one free replacement for one breach.
OneReplacement ==
  \A p \in Placed : Cardinality({q \in Placed : placements[q].for = p}) <= 1

\* vendor_mgmt.py:10-12, "a credit-noted invoice refuses accrual, and the
\* credit-note endpoint auto-voids an accrued commission (no-double-count both
\* directions)".
CreditedEarnsNothing ==
  \A i \in DOMAIN invoices :
    CreditNotes(i) # {} => commission[invoices[i].placement] # "accrued"

\* placements.py:299, "paid commissions need explicit handling", and
\* vendor_mgmt.py:274, "A paid commission cannot be voided here".
PaidStaysPaid ==
  [][\A p \in Placed : commission[p] = "paid" => commission'[p] = "paid"]_vars
=============================================================================
