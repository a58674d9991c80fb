------------------------------- MODULE Offers -------------------------------
(***************************************************************************)
(* One application's offer and submission, written by staff                *)
(* (backend/app/routers/workflow.py) and by the client (client_portal.py). *)
(*                                                                         *)
(* Handlers load a row, check it, then commit an UPDATE by primary key     *)
(* that names only the columns whose value differs from the loaded one.    *)
(* CTC, notes and the right-to-represent date are data that no check reads *)
(* and are left out.                                                       *)
(***************************************************************************)
CONSTANTS
  Date,    \* joining dates
  Worker   \* threads serving requests

VARIABLES
  offer,      \* the offers row
  submission, \* the status of the submissions row
  req         \* Worker -> the request it serves and the row it loaded

vars == <<offer, submission, req>>

Null == "null"         \* the SQL NULL: no date, or a field not named
Same == "same"         \* a field the request does not name
Idle == [op |-> "idle"]

OfferStatuses == {"draft", "released", "accepted", "declined", "withdrawn"}
SubmissionStatuses == {"submitted", "under_review", "shortlisted", "rejected"}

\* POST offers and submissions have been answered.
Init == /\ offer \in [status : {"draft"}, joining : Date \cup {Null}, accepted : {FALSE}]
        /\ submission = "submitted"
        /\ req = [w \in Worker |-> Idle]

Begin(w, r) == /\ req[w] = Idle
               /\ req' = [req EXCEPT ![w] = r]
               /\ UNCHANGED <<offer, submission>>

Finish(w) == req' = [req EXCEPT ![w] = Idle]

\* A dead worker: nothing is left behind.
Fail(w) == /\ req[w] # Idle
           /\ Finish(w)
           /\ UNCHANGED <<offer, submission>>

\* What an UPDATE leaves in a column: one that was not changed is not named.
Column(stored, seen, wanted) == IF wanted = seen THEN stored ELSE wanted

\* Fault: a field the request does not name is stored as it came.
Raw(field, seen) == field

Named(field, seen) == IF field \in {Same, Null} THEN seen ELSE field

-----------------------------------------------------------------------------
(* The offer, for staff and for the client's HR.                           *)

OnOffer(w, by, wanted) == Begin(w, [op |-> "offer", by |-> by, seen |-> offer, wanted |-> wanted])

\* Fault: the joining date is left as the draft had it.
ReleasedUndated(date) == [offer EXCEPT !.status = "released"]

Released(date) == [offer EXCEPT !.status = "released", !.joining = date]

\* POST /client/offers/{id}/release, of a draft only.
PostRelease(w, date) == offer.status = "draft" /\ OnOffer(w, "release", Released(date))

\* PATCH /client/offers/{id}/joining-date, before it is accepted.
PatchJoining(w, date) == /\ offer.status \in {"draft", "released"}
                         /\ OnOffer(w, "joining", [offer EXCEPT !.joining = date])

\* Fault: the acceptance is dated only if the client had released the offer.
DatedIfReleased(status) ==
  offer.accepted \/ (status = "accepted" /\ offer.status = "released")

Dated(status) == offer.accepted \/ status = "accepted"

\* PATCH /offers/{id}, by staff: any status, whatever it was.
PatchOffer(w, status, date) ==
  OnOffer(w, "staff", [status |-> Named(status, offer.status),
                       joining |-> Named(date, offer.joining),
                       accepted |-> Dated(status)])

CommitOffer(w) ==
  LET r == req[w] IN
  /\ r.op = "offer"
  /\ offer' = [f \in DOMAIN offer |-> Column(offer[f], r.seen[f], r.wanted[f])]
  /\ Finish(w)
  /\ UNCHANGED submission

-----------------------------------------------------------------------------
(* The submission: POST /client/submissions/{id}/feedback decides, PATCH   *)
(* /submissions/{id} sets any status.                                      *)

OnSubmission(w, status) ==
  Begin(w, [op |-> "submission", seen |-> submission, wanted |-> status])

PostFeedback(w, decision) ==
  OnSubmission(w, IF decision = "approve" THEN "shortlisted" ELSE "rejected")

PatchSubmission(w, status) == OnSubmission(w, Named(status, submission))

CommitSubmission(w) ==
  LET r == req[w] IN
  /\ r.op = "submission"
  /\ submission' = Column(submission, r.seen, r.wanted)
  /\ Finish(w)
  /\ UNCHANGED offer

-----------------------------------------------------------------------------

Next == \E w \in Worker :
          \/ \E date \in Date : PostRelease(w, date)
          \/ \E date \in Date : PatchJoining(w, date)
          \/ \E status \in OfferStatuses \cup {Same}, date \in Date \cup {Null} :
               PatchOffer(w, status, date)
          \/ CommitOffer(w)
          \/ \E decision \in {"approve", "reject"} : PostFeedback(w, decision)
          \/ \E status \in SubmissionStatuses \cup {Same} : PatchSubmission(w, status)
          \/ CommitSubmission(w)
          \/ Fail(w)

Spec == Init /\ [][Next]_vars

-----------------------------------------------------------------------------

OffersTypeOK == /\ offer \in [status : OfferStatuses, joining : Date \cup {Null}, accepted : BOOLEAN]
                /\ submission \in SubmissionStatuses

(* workflow.py:234-235 stamps the acceptance from the loaded row: whatever *)
(* overlaps, an accepted offer has its acceptance date.                    *)
AcceptedIsDated == offer.status = "accepted" => offer.accepted

DatedRelease ==
  \A w \in Worker :
     CommitOffer(w) /\ req[w].by = "release" => offer'.joining # Null

(* client_portal.py:239, "releasing an offer commits a joining date": when *)
(* a release commits, the offer has one, although a date equal to the      *)
(* loaded one is not written and the row may have moved on.                *)
ReleaseIsDated == [][DatedRelease]_vars

(* What is always true of an offer and its joining date.                   *)
OffersKept == OffersTypeOK /\ AcceptedIsDated

-----------------------------------------------------------------------------
(* What the documents expect and overlapping requests defeat: see the      *)
(* README, 'Where the code and its documents part'.                        *)

(* client_portal.py:259, "draft -> released only".                         *)
ReleasedFromDraft ==
  [][\A w \in Worker : CommitOffer(w) /\ req[w].by = "release" => offer.status = "draft"]_vars

(* client_portal.py:292, "not after the candidate accepts".                *)
JoiningFixedByAcceptance ==
  [][\A w \in Worker :
       CommitOffer(w) /\ req[w].by = "joining" /\ offer.status = "accepted"
         => offer'.joining = offer.joining]_vars
=============================================================================
