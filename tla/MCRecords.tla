----------------------------- MODULE MCRecords ------------------------------
(***************************************************************************)
(* The rows that are corrected, answered again, sent or erased, for TLC: a *)
(* behaviour is one of an offer, an invoice, the answers kept for          *)
(* idempotency keys, the queue of notices, an erasure, or the paper of a   *)
(* test.  They share no state: while one runs, the variables of the others *)
(* alone are off.                                                          *)
(***************************************************************************)
EXTENDS TLC

CONSTANTS
  Date,                                                                 \* Offers
  Base, FeeRate, GstRate, TdsRate,                                      \* Invoices
  Tenant, Header, Row,                                                     \* Replay
  Key, Templated, Registered, Unconsented, Sweeper, MaxAttempts, Batch, \* Notify
  Request, Waiting, File,                                               \* Erasure
  Question, Level, Width, Count, Edits,                                 \* Paper
  Worker                                                                \* shared

VARIABLES
  part, \* the part that runs
  offer, submission, invoice, row, cache, answers, excused, rows, order, done, tries, delivered,
  user, cand, request, url, bucket, req, bank, paper, meant, drawn, result, edits

Of == INSTANCE Offers
In == INSTANCE Invoices
Re == INSTANCE Replay WITH Key <- Header
No == INSTANCE Notify
Er == INSTANCE Erasure WITH Key <- File
Pa == INSTANCE Paper

vars == <<part, offer, submission, invoice, row, cache, answers, excused, rows, order,
          done, tries, delivered, user, cand, request, url, bucket, req, bank, paper,
          meant, drawn, result, edits>>

Off == "off"

RestOfOffers == <<part, invoice, row, cache, answers, excused, rows, order, done, tries,
                  delivered, user, cand, request, url, bucket, bank, paper, meant, drawn,
                  result, edits>>
RestOfInvoices == <<part, offer, submission, row, cache, answers, excused, rows, order,
                    done, tries, delivered, user, cand, request, url, bucket, bank, paper,
                    meant, drawn, result, edits>>
RestOfReplay == <<part, offer, submission, invoice, rows, order, done, tries, delivered,
                  user, cand, request, url, bucket, bank, paper, meant, drawn, result,
                  edits>>
RestOfQueue == <<part, offer, submission, invoice, row, cache, answers, excused, user,
                 cand, request, url, bucket, bank, paper, meant, drawn, result, edits>>
RestOfErasure == <<part, offer, submission, invoice, row, cache, answers, excused, rows,
                   order, done, tries, delivered, bank, paper, meant, drawn, result, edits>>
RestOfPaper == <<part, offer, submission, invoice, row, cache, answers, excused, rows,
                 order, done, tries, delivered, user, cand, request, url, bucket, req>>

Init ==
  \/ /\ part = "offers" /\ Of!Init
     /\ invoice = Off /\ row = Off /\ cache = Off /\ answers = Off /\ excused = Off
     /\ rows = Off /\ order = Off /\ done = Off /\ tries = Off /\ delivered = Off
     /\ user = Off /\ cand = Off /\ request = Off /\ url = Off /\ bucket = Off
     /\ bank = Off /\ paper = Off /\ meant = Off /\ drawn = Off /\ result = Off
     /\ edits = Off
  \/ /\ part = "invoices" /\ In!Init
     /\ offer = Off /\ submission = Off /\ row = Off /\ cache = Off /\ answers = Off
     /\ excused = Off /\ rows = Off /\ order = Off /\ done = Off /\ tries = Off
     /\ delivered = Off /\ user = Off /\ cand = Off /\ request = Off /\ url = Off
     /\ bucket = Off /\ bank = Off /\ paper = Off /\ meant = Off /\ drawn = Off
     /\ result = Off /\ edits = Off
  \/ /\ part = "replay" /\ Re!Init
     /\ offer = Off /\ submission = Off /\ invoice = Off /\ rows = Off /\ order = Off
     /\ done = Off /\ tries = Off /\ delivered = Off /\ user = Off /\ cand = Off
     /\ request = Off /\ url = Off /\ bucket = Off /\ bank = Off /\ paper = Off
     /\ meant = Off /\ drawn = Off /\ result = Off /\ edits = Off
  \/ /\ part = "queue" /\ No!Init
     /\ offer = Off /\ submission = Off /\ invoice = Off /\ row = Off /\ cache = Off
     /\ answers = Off /\ excused = Off /\ user = Off /\ cand = Off /\ request = Off
     /\ url = Off /\ bucket = Off /\ bank = Off /\ paper = Off /\ meant = Off
     /\ drawn = Off /\ result = Off /\ edits = Off
  \/ /\ part = "erasure" /\ Er!Init
     /\ offer = Off /\ submission = Off /\ invoice = Off /\ row = Off /\ cache = Off
     /\ answers = Off /\ excused = Off /\ rows = Off /\ order = Off /\ done = Off
     /\ tries = Off /\ delivered = Off /\ bank = Off /\ paper = Off /\ meant = Off
     /\ drawn = Off /\ result = Off /\ edits = Off
  \/ /\ part = "paper" /\ Pa!Init
     /\ offer = Off /\ submission = Off /\ invoice = Off /\ row = Off /\ cache = Off
     /\ answers = Off /\ excused = Off /\ rows = Off /\ order = Off /\ done = Off
     /\ tries = Off /\ delivered = Off /\ user = Off /\ cand = Off /\ request = Off
     /\ url = Off /\ bucket = Off /\ req = Off

Next ==
  \/ part = "offers" /\ Of!Next /\ UNCHANGED RestOfOffers
  \/ part = "invoices" /\ In!Next /\ UNCHANGED RestOfInvoices
  \/ part = "replay" /\ Re!Next /\ UNCHANGED RestOfReplay
  \/ part = "queue" /\ No!Next /\ UNCHANGED RestOfQueue
  \/ part = "erasure" /\ Er!Next /\ UNCHANGED RestOfErasure
  \/ part = "paper" /\ Pa!Next /\ UNCHANGED RestOfPaper

Spec == Init /\ [][Next]_vars

Symmetry == UNION {Permutations(s) : s \in {Worker, File, (Templated \cap Registered) \ Unconsented}}

-----------------------------------------------------------------------------

(* workflow.py:218-242, client_portal.py:255-303: an accepted offer has    *)
(* its acceptance date, whoever released, dated and answered it meanwhile. *)
OffersKept == part = "offers" => Of!OffersKept

(* workflow.py:555-644, placements.py:269-317: a tax amount is that of the *)
(* rate beside it, on the original and on its credit note.                 *)
AmountsKept == part = "invoices" => In!AmountsKept

(* idempotency.py:3-14: whoever is answered is told of a committed row of  *)
(* his own tenant, and one key makes one row but for what interrupts it;   *)
(* and the answers of a test are graded as its paper was meant             *)
(* (assessment_engine.py:3-13, 37-98).                                     *)
AnswersKept == /\ (part = "replay" => Re!AnswersKept)
               /\ (part = "paper" => Pa!PaperKept)

(* notify.py:112-204: a notice is queued exactly when its cause committed, *)
(* its record never says more than happened, and what is parked or not     *)
(* consented to is never sent, however sweeps overlap, die and are rerun.  *)
NoticesKept ==
  part = "queue" =>
    No!NotifyTypeOK /\ No!QueuedWithCause /\ No!StatusTells /\ No!ParkedUntouched

(* erasure.py:133-147: a request reported complete has erased its subject. *)
ErasureKept == part = "erasure" => Er!ErasureKept

(* What one commit does.  A release dates the offer (client_portal.py:260- *)
(* 276); a loaded tax rate undoes none, and a lone update of an invoice    *)
(* adds up (workflow.py:608-609); the first answer stays (idempotency.py:  *)
(* 33); and an erasure that nothing overlaps leaves neither text nor file  *)
(* (erasure.py:66-130).                                                    *)
StepsKept ==
  [][/\ part = "offers" => Of!DatedRelease
     /\ part = "invoices" => In!SparingPatch /\ In!MendingRetax
     /\ part = "replay" => Re!StayingAnswer
     /\ part = "erasure" => Er!CleaningErasure]_vars
=============================================================================
