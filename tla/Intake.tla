------------------------------- MODULE Intake -------------------------------
(***************************************************************************)
(* How a person enters the talent pool: candidates created by staff or by  *)
(* themselves (backend/app/routers/staffing.py, register.py), the fuzzy    *)
(* duplicate scan (dedup.py), and what becomes of the link to a portal     *)
(* login in merges (dup_reviews.py) and erasures (erasure.py).             *)
(*                                                                         *)
(* An intake is one transaction in two steps: the row is flushed, which    *)
(* takes its unique keys, and the scan sees what others have committed;    *)
(* then everything is committed.  All names here are alike, so that the    *)
(* scan matches whenever both have a skill, which they then share.         *)
(***************************************************************************)
EXTENDS Naturals, FiniteSets

CONSTANTS
  Cand,    \* ids of candidates rows, 1 .. n, given in the order of the commits
  Email,   \* addresses people give
  Phone,   \* phone numbers, each with the PAN of the same person
  Logins,  \* addresses of active users with the candidate role
  Skilled, \* whether people give skills: a set of booleans
  Worker   \* threads serving requests

VARIABLES
  cand,    \* Cand -> the candidates row
  consent, \* candidates with a data_processing row in the ledger
  reviews, \* candidate_dup_reviews: incoming -> the row
  login,   \* addresses whose user is active
  req      \* Worker -> the intake it serves and what its scan found

vars == <<cand, consent, reviews, login, req>>

Null == "null"
NoHit == 0
NoRow == [row |-> FALSE]
Idle == [op |-> "idle"]
Unflagged == [status |-> "none"]

Init == /\ cand = [c \in Cand |-> NoRow]
        /\ consent = {}
        /\ reviews = [c \in Cand |-> Unflagged]
        /\ login = Logins
        /\ req = [w \in Worker |-> Idle]

Exists(c) == cand[c] # NoRow

Live(c) == Exists(c) /\ cand[c].live

Finish(w) == req' = [req EXCEPT ![w] = Idle]

\* A refusal or a dead worker: the transaction rolls back.
Fail(w) == req[w] # Idle /\ Finish(w) /\ UNCHANGED <<cand, consent, reviews, login>>

-----------------------------------------------------------------------------
(* The exact and the fuzzy check.                                          *)

\* The blind index: a retired row has given its number up.  A flush that meets
\* an uncommitted one waits for it, here until it commits or rolls back.
PhoneFree(p) == /\ \A c \in Cand : Exists(c) => cand[c].phone # p
                /\ \A w \in Worker : req[w] # Idle => req[w].new.phone # p

\* Fault: only rows of the same source are scanned.
SameSource(new) == {c \in Cand : Live(c) /\ cand[c].skilled /\ new.skilled /\ cand[c].source = new.source}

\* The second signal is a shared skill: without any given the scan finds none.
Similar(new) == {c \in Cand : Live(c) /\ cand[c].skilled /\ new.skilled}

Intake(w, new) ==
  /\ req[w] = Idle
  /\ new.phone # Null => PhoneFree(new.phone)
  /\ \/ Similar(new) = {} /\ req' = [req EXCEPT ![w] = [op |-> "intake", new |-> new, hit |-> NoHit]]
     \/ \E c \in Similar(new) : req' = [req EXCEPT ![w] = [op |-> "intake", new |-> new, hit |-> c]]
  /\ UNCHANGED <<cand, consent, reviews, login>>

Person(email, phone, skilled, source, user) ==
  [row |-> TRUE, email |-> email, phone |-> phone, skilled |-> skilled,
   source |-> source, user |-> user, known |-> TRUE, live |-> TRUE]

\* POST /candidates: the phone may be left out.
CreateCandidate(w, email, phone, skilled) == Intake(w, Person(email, phone, skilled, "staff", Null))

\* The user is named by the address.
Linked(email) == IF email \in login THEN email ELSE Null

\* POST /register/candidate, with captcha and consent.
RegisterCandidate(w, email, phone, skilled) ==
  Intake(w, Person(email, phone, skilled, "self", Linked(email)))

\* Fault: consent is recorded for those who can sign in.
OnceLinked(r, c) == IF r.new.user # Null THEN consent \cup {c} ELSE consent

Consented(r, c) == IF r.new.source = "self" THEN consent \cup {c} ELSE consent

\* Fault: the review takes a status of its own.
Suspect(r) == [status |-> "suspect", matched |-> r.hit]

Flagged(r) == [status |-> "pending", matched |-> r.hit]

CommitIntake(w, c) ==
  LET r == req[w] IN
  /\ r.op = "intake"
  /\ \A d \in Cand : Exists(d) <=> d < c
  /\ cand' = [cand EXCEPT ![c] = r.new]
  /\ consent' = Consented(r, c)
  /\ reviews' = IF r.hit = NoHit THEN reviews ELSE [reviews EXCEPT ![c] = Flagged(r)]
  /\ Finish(w)
  /\ UNCHANGED login

-----------------------------------------------------------------------------
(* Reviews and erasures, one step each: their overlaps are the subject of  *)
(* Merge and Erasure.                                                      *)

Dismiss(c) == /\ reviews[c].status = "pending"
              /\ reviews' = [reviews EXCEPT ![c].status = "dismissed"]
              /\ UNCHANGED <<cand, consent, login, req>>

\* Fault: the loser keeps its number.
KeepsNumber(row) == [row EXCEPT !.live = FALSE]

Retired(row) == [row EXCEPT !.live = FALSE, !.phone = Null]

\* The survivor without a login takes the loser's.
Merge(c) ==
  LET s == reviews[c].matched IN
  /\ reviews[c].status = "pending"
  /\ Live(c) /\ Live(s)
  /\ cand' = [cand EXCEPT ![c] = Retired(@),
                          ![s].user = IF @ = Null THEN cand[c].user ELSE @]
  /\ reviews' = [reviews EXCEPT ![c].status = "merged"]
  /\ UNCHANGED <<consent, login, req>>

Matched(e) == {c \in Cand : Exists(c) /\ cand[c].email = e}

Scrubbed(row) == [row EXCEPT !.email = Null, !.phone = Null, !.known = FALSE, !.live = FALSE]

\* POST /privacy/erase, by the user with the address e.
Erase(e) == /\ e \in login
            /\ cand' = [c \in Cand |-> IF c \in Matched(e) THEN Scrubbed(cand[c]) ELSE cand[c]]
            /\ login' = login \ {e}
            /\ UNCHANGED <<consent, reviews, req>>

-----------------------------------------------------------------------------

Next == \/ \E w \in Worker :
             \/ \E e \in Email, p \in Phone, k \in Skilled :
                  CreateCandidate(w, e, p, k) \/ RegisterCandidate(w, e, p, k)
             \/ \E e \in Email, k \in Skilled : CreateCandidate(w, e, Null, k)
             \/ \E c \in Cand : CommitIntake(w, c)
             \/ Fail(w)
        \/ \E c \in Cand : Dismiss(c) \/ Merge(c)
        \/ \E e \in Email : Erase(e)

Spec == Init /\ [][Next]_vars

-----------------------------------------------------------------------------

Rows == [row : {TRUE}, email : Email \cup {Null}, phone : Phone \cup {Null}, skilled : BOOLEAN,
         source : {"staff", "self"}, user : Logins \cup {Null}, known : BOOLEAN, live : BOOLEAN]

IntakeTypeOK ==
  /\ cand \in [Cand -> Rows \cup {NoRow}]
  /\ consent \subseteq Cand
  /\ reviews \in [Cand -> {Unflagged} \cup
                          [status : {"pending", "merged", "dismissed"}, matched : Cand]]
  /\ login \subseteq Logins

(* register.py:8, "PAN/phone are NOT collected without recorded consent":  *)
(* no candidate who registered, merged or erased since or not, is without  *)
(* a row in the ledger, with or without a login.                           *)
ConsentOnRecord == \A c \in Cand : Exists(c) /\ cand[c].source = "self" => c \in consent

(* dedup.py:16-18, "create-then-flag": of look-alikes that are live, one   *)
(* was first, and only as many more escape the queue as intakes overlapped *)
(* it.                                                                     *)
UnflaggedBounded ==
  Cardinality({c \in Cand : Live(c) /\ cand[c].skilled /\ reviews[c] = Unflagged})
    <= Cardinality(Worker)

(* dup_reviews.py:20-22, the loser's blind indexes are "cleared like        *)
(* erasure": a number is only ever held by a row that is live, so whoever  *)
(* was merged away or erased can be taken in again.                        *)
NumberHeldByLive == \A c \in Cand : Exists(c) /\ cand[c].phone # Null => Live(c)

(* What is always true of candidates, however they came in.                *)
IntakeKept == IntakeTypeOK /\ ConsentOnRecord /\ UnflaggedBounded /\ NumberHeldByLive

-----------------------------------------------------------------------------
(* What the documents expect and the code, or overlapping requests, defeat:*)
(* see the README, 'Where the code and its documents part'.                *)

(* dedup.py:69, "insert ONE pending dup_reviews row for the best fuzzy      *)
(* hit": two intakes that overlap do not see each other.                   *)
LookAlikesFlagged ==
  Cardinality({c \in Cand : Live(c) /\ cand[c].skilled /\ reviews[c] = Unflagged}) <= 1

(* erasure.py:80, "Irreversibly scrub the person's PII": a merge moved the *)
(* login to a row with another address, and the erasure matches addresses. *)
ErasureScrubsLinked ==
  \A e \in Logins \ login, c \in Cand : Exists(c) /\ cand[c].user = e => ~cand[c].known

(* readmodels.py:3-6, the dashboard reads "the candidate row linked" and is *)
(* "never an error": a login whose owner registers once more, with another *)
(* phone and PAN, has two, and the query for one row raises.               *)
OneRowPerLogin ==
  \A e \in login : Cardinality({c \in Cand : Live(c) /\ cand[c].user = e}) <= 1
=============================================================================
