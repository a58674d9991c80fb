------------------------------ MODULE Erasure ------------------------------
(***************************************************************************)
(* One person's erasure (backend/app/erasure.py, behind routers/privacy.py *)
(* and admin.py) against the uploads of the person's resume (resumes.py,   *)
(* storage.py).                                                            *)
(*                                                                         *)
(* Handlers load rows, then commit an UPDATE by primary key that names     *)
(* only the columns whose value differs from the loaded one; a row that a  *)
(* transaction has written stays locked until it ends.  The bucket is      *)
(* outside the transaction: an object is gone at once, also when the       *)
(* transaction then dies.  under_legal_hold is a stub that answers False;  *)
(* requests from before the engine existed are pending and wait for staff. *)
(***************************************************************************)
CONSTANTS
  Request, \* ids of dpdp_requests rows
  Waiting, \* those a former version has left pending
  Key,     \* keys under the candidate's prefix in the bucket
  Worker   \* threads serving requests

VARIABLES
  user,    \* the status of the users row; erasing it also changes its email
  cand,    \* the candidates row, found by the user's email
  request, \* Request -> the dpdp_requests row
  url,     \* Key -> its upload URL: "none", "live" or "expired"
  bucket,  \* Key -> what the object holds, or "none"
  req      \* Worker -> the request it serves and the rows it loaded

vars == <<user, cand, request, url, bucket, req>>

tables == <<user, cand, request>>

Null == "null"         \* the SQL NULL
NoRow == [row |-> FALSE]
Idle == [op |-> "idle"]

\* A document with text, a scan without, and one that confirm refuses.
Contents == {"text", "scan", "bad"}

\* The columns that identify the person are written together: one field.
Init == /\ user = "active"
        /\ cand = [known |-> TRUE, key |-> Null, text |-> Null, deleted |-> FALSE]
        /\ request = [r \in Request |->
             IF r \in Waiting THEN [row |-> TRUE, status |-> "pending", hold |-> FALSE] ELSE NoRow]
        /\ url = [k \in Key |-> "none"]
        /\ bucket = [k \in Key |-> "none"]
        /\ req = [w \in Worker |-> Idle]

Exists(r) == r # NoRow

Open(r) == Exists(request[r]) /\ request[r].status \notin {"completed", "rejected"}

Begin(w, r) == /\ req[w] = Idle
               /\ req' = [req EXCEPT ![w] = r]
               /\ UNCHANGED <<tables, url, bucket>>

Finish(w) == req' = [req EXCEPT ![w] = Idle]

\* A dead worker: its transaction leaves nothing behind; what it deleted in
\* the bucket stays deleted.
Fail(w) == req[w] # Idle /\ Finish(w) /\ UNCHANGED <<tables, url, bucket>>

\* What an UPDATE leaves: a column that was not changed is not named.
Written(stored, seen, wanted) ==
  [f \in DOMAIN stored |-> IF wanted[f] = seen[f] THEN stored[f] ELSE wanted[f]]

\* Rows that an erasure in progress has written and not yet committed.
Erasing == {w \in Worker : req[w].op = "erasing"}

RequestLocked(r) == \E v \in Erasing : req[v].of = r

CandLocked == \E v \in Erasing : req[v].disabled

-----------------------------------------------------------------------------
(* The resume: POST presign, the upload by the browser, POST confirm.      *)

\* A fresh key for every upload.
Presign(k) == /\ ~cand.deleted
              /\ url[k] = "none"
              /\ url' = [url EXCEPT ![k] = "live"]
              /\ UNCHANGED <<tables, bucket, req>>

\* As often as the browser likes, until the URL expires.
Upload(k, content) == /\ url[k] = "live"
                      /\ bucket' = [bucket EXCEPT ![k] = content]
                      /\ UNCHANGED <<tables, url, req>>

Expire(k) == /\ url[k] = "live"
             /\ url' = [url EXCEPT ![k] = "expired"]
             /\ UNCHANGED <<tables, bucket, req>>

TextOf(k) == IF bucket[k] = "text" THEN k ELSE Null

PostConfirm(w, k) ==
  /\ ~cand.deleted
  /\ bucket[k] \in {"text", "scan"}
  /\ Begin(w, [op |-> "confirm", seen |-> cand,
               wanted |-> [cand EXCEPT !.key = k, !.text = TextOf(k)]])

\* The wrong size or type: the object is deleted.
RefuseConfirm(k) == /\ ~cand.deleted
                    /\ bucket[k] = "bad"
                    /\ bucket' = [bucket EXCEPT ![k] = "none"]
                    /\ UNCHANGED <<tables, url, req>>

CommitConfirm(w) == /\ req[w].op = "confirm"
                    /\ ~CandLocked
                    /\ cand' = Written(cand, req[w].seen, req[w].wanted)
                    /\ Finish(w)
                    /\ UNCHANGED <<user, request, url, bucket>>

-----------------------------------------------------------------------------
(* POST /privacy/erase and POST /admin/erasure-requests/{id}/approve.      *)

\* The person asks: the new request is approved at once.
PostErase(w, r) ==
  ~Exists(request[r]) /\ Begin(w, [op |-> "erase", of |-> r, email |-> user])

\* Staff approves one that waits.
PostApprove(w, r) ==
  Open(r) /\ Begin(w, [op |-> "approve", of |-> r, email |-> user, seen |-> request[r]])

Disabled(row) == [row EXCEPT !.deleted = TRUE]

\* Fault: only candidates that are not disabled are looked for.
MatchedLive(email, row) == email = "active" /\ row.known /\ ~row.deleted

\* By email: an erased user and an erased candidate match nothing.
Matched(email, row) == email = "active" /\ row.known

\* Fault: the key is collected after the column has been cleared.
CollectedLate(row) == {}

Collected(row) == {row.key} \ {Null}

Anonymized(row) == [known |-> FALSE, key |-> Null, text |-> Null, deleted |-> TRUE]

\* The rows are loaded and the object is deleted; a deletion that fails is
\* logged.  "left" is what may outlive the transaction: an object that could
\* not be deleted, or that the browser may still upload (history).
Scrub(w, match, keys, gone, disabled, loaded) ==
  /\ gone \subseteq keys
  /\ bucket' = [k \in Key |-> IF k \in gone THEN "none" ELSE bucket[k]]
  /\ req' = [req EXCEPT ![w] =
               [op |-> "erasing", of |-> @.of, match |-> match, seen |-> cand, loaded |-> loaded,
                disabled |-> disabled, left |-> (keys \ gone) \cup {k \in Key : url[k] = "live"}]]
  /\ UNCHANGED <<tables, url>>

\* The candidate is disabled, which locks it, then matched.
Disable(w, gone) ==
  LET email == req[w].email
      live == email = "active" /\ cand.known /\ ~cand.deleted
      match == Matched(email, Disabled(cand)) IN
  /\ req[w].op = "erase"
  /\ ~CandLocked
  /\ Scrub(w, match, IF match THEN Collected(cand) ELSE {}, gone, live,
           [row |-> TRUE, status |-> "new", hold |-> FALSE])

\* The request is written, then the candidate is matched, and not locked.
Process(w, gone) ==
  LET match == Matched(req[w].email, cand) IN
  /\ req[w].op = "approve"
  /\ ~RequestLocked(req[w].of)
  /\ Scrub(w, match, IF match THEN Collected(cand) ELSE {}, gone, FALSE, req[w].seen)

\* Fault: the request is left as run_erasure found it.
StillProcessing(seen) == [seen EXCEPT !.status = "processing", !.hold = FALSE]

Completed(seen) == [seen EXCEPT !.status = "completed", !.hold = FALSE]

CommitErasure(w) ==
  LET r == req[w] IN
  /\ r.op = "erasing"
  /\ ~(CandLocked /\ ~r.disabled /\ r.match)
  /\ user' = "erased"
  /\ cand' = IF r.match THEN Written(cand, r.seen, Anonymized(cand)) ELSE cand
  /\ request' = [request EXCEPT ![r.of] =
                   Written(IF Exists(@) THEN @ ELSE r.loaded, r.loaded, Completed(r.loaded))]
  /\ Finish(w)
  /\ UNCHANGED <<url, bucket>>

-----------------------------------------------------------------------------
(* POST /admin/erasure-requests/{id}/legal-hold and /reject.               *)

PostHold(w, r) ==
  Open(r) /\ Begin(w, [op |-> "decide", of |-> r, seen |-> request[r],
                       wanted |-> [row |-> TRUE, status |-> "legal_hold", hold |-> TRUE]])

PostReject(w, r) ==
  Open(r) /\ Begin(w, [op |-> "decide", of |-> r, seen |-> request[r],
                       wanted |-> [request[r] EXCEPT !.status = "rejected"]])

CommitDecision(w) ==
  LET r == req[w] IN
  /\ r.op = "decide"
  /\ ~RequestLocked(r.of)
  /\ request' = [request EXCEPT ![r.of] = Written(@, r.seen, r.wanted)]
  /\ Finish(w)
  /\ UNCHANGED <<user, cand, url, bucket>>

-----------------------------------------------------------------------------

Next == \/ \E k \in Key : \/ Presign(k)
                          \/ \E content \in Contents : Upload(k, content)
                          \/ Expire(k)
                          \/ RefuseConfirm(k)
        \/ \E w \in Worker :
             \/ \E k \in Key : PostConfirm(w, k)
             \/ CommitConfirm(w)
             \/ \E r \in Request : \/ PostErase(w, r)
                                   \/ PostApprove(w, r)
                                   \/ PostHold(w, r)
                                   \/ PostReject(w, r)
             \/ \E gone \in SUBSET Key : Disable(w, gone) \/ Process(w, gone)
             \/ CommitErasure(w)
             \/ CommitDecision(w)
             \/ Fail(w)

Spec == Init /\ [][Next]_vars

-----------------------------------------------------------------------------

(* No request is ever seen approved or processing: both statuses are       *)
(* passed within one transaction (erasure.py:133-150).                     *)
ErasureTypeOK ==
  /\ user \in {"active", "erased"}
  /\ cand \in [known : BOOLEAN, key : Key \cup {Null}, text : Key \cup {Null}, deleted : BOOLEAN]
  /\ request \in [Request -> {NoRow} \cup
       [row : {TRUE}, status : {"pending", "legal_hold", "rejected", "completed"}, hold : BOOLEAN]]
  /\ url \in [Key -> {"none", "live", "expired"}]
  /\ bucket \in [Key -> Contents \cup {"none"}]

(* erasure.py:9-16: whatever overlaps or dies, a completed request and an  *)
(* erased login mean that the person's candidate was found, disabled and   *)
(* stripped of all that identifies the person, and the columns stay so.    *)
CompletedMeansErased ==
  user = "erased" \/ (\E r \in Request : Exists(request[r]) /\ request[r].status = "completed")
    => user = "erased" /\ ~cand.known /\ cand.deleted

Quiet(w) == req[w].match /\ cand = req[w].seen

CleaningErasure ==
  \A w \in Worker :
     CommitErasure(w) /\ Quiet(w) =>
       /\ cand'.key = Null
       /\ cand'.text = Null
       /\ cand.key = Null \/ cand.key \in req[w].left \/ bucket'[cand.key] = "none"

(* erasure.py:66-69, the bucket "sits outside the DB cascade": an erasure  *)
(* that found the candidate and that no confirmed upload overlapped leaves *)
(* neither the key nor the text, and no object under the key unless its    *)
(* deletion failed or the upload URL still lived.                          *)
QuietErasureCleans == [][CleaningErasure]_vars

(* What is always true of an erasure that was reported complete.           *)
ErasureKept == ErasureTypeOK /\ CompletedMeansErased

-----------------------------------------------------------------------------
(* What the documents expect and overlapping requests defeat: see the      *)
(* README, 'Where the code and its documents part'.                        *)

(* erasure.py:109, "extracted text is PII - must not survive erasure".     *)
NoTextSurvives == user = "erased" => cand.text = Null

(* erasure.py:67, "Resume files ARE PII": superseded uploads, and those    *)
(* not confirmed, are in no column and are not deleted.                    *)
NoFileSurvives == user = "erased" => \A k \in Key : bucket[k] = "none"

(* resumes.py:78, "the confirmed upload + extracted text".                 *)
TextIsOfFile == cand.text \in {Null, cand.key}

(* admin.py:154-155, the "explicit approval that clears the hold".         *)
CompletedClearsHold ==
  \A r \in Request :
    Exists(request[r]) /\ request[r].status = "completed" => ~request[r].hold
=============================================================================
