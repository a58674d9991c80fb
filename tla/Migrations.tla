----------------------------- MODULE Migrations -----------------------------
(***************************************************************************)
(* The data of several releases under the revisions of                     *)
(* backend/alembic/versions.  A revision is its number; those that touch   *)
(* no row modelled here belong to the step that passes them.  A step is a  *)
(* transaction: when a row does not fit the constraints it creates, the    *)
(* database is as before.                                                  *)
(*                                                                         *)
(* The tables' rows are rewritten each for itself, and only candidates     *)
(* meet, in a UNIQUE: the slots hold candidates, or one row of another     *)
(* table.  Former releases are not part of the repository: they write      *)
(* whatever their revision admits.  The release that reads and writes      *)
(* encrypted columns alone is deployed after 0007 and before 0008.         *)
(***************************************************************************)
EXTENDS StageGraph

CONSTANTS
  Slot,   \* places for rows
  Number, \* phone numbers
  Owner   \* clients and hiring managers that rows name

VARIABLES
  at,       \* the revision in alembic_version
  sealing,  \* that release is deployed
  row,      \* Slot -> a row, or Nothing
  templates \* codes in notification_templates

vars == <<at, sealing, row, templates>>

Null == "null"                   \* the SQL NULL, and a column that is not there
Nothing == [of |-> "nothing"]

\* <<down_revision, revision>>
Steps == {<<5, 6>>, <<6, 7>>, <<7, 8>>, <<8, 9>>, <<9, 10>>, <<10, 13>>, <<13, 17>>,
          <<17, 19>>, <<19, 23>>, <<23, 24>>, <<24, 26>>, <<26, 27>>, <<27, 34>>,
          <<34, 35>>, <<35, 37>>, <<37, 39>>, <<39, 40>>, <<40, 41>>}

Revisions == {s[1] : s \in Steps} \cup {s[2] : s \in Steps}

-----------------------------------------------------------------------------
(* The rows that a revision's columns, CHECKs and NOT NULLs admit.         *)

\* phone, dropped by 0008, and phone_enc with its blind index, added by 0006.
PlainColumn(k) == IF k < 8 THEN Number \cup {Null} ELSE {Null}
SealedColumn(k) == IF k < 6 THEN {Null} ELSE Number \cup {Null}

\* given: the number the person left; late: it came in plain after the
\* backfill.  Both are history.  doc: what search_doc was computed from.
Candidates(k) ==
  [of : {"candidate"}, given : Number \cup {Null}, late : BOOLEAN,
   phone : PlainColumn(k), enc : SealedColumn(k), gone : BOOLEAN, doc : {"none", "former", "present"}]

OldStages == {"sourced", "screened", "assessed", "submitted", "interview", "offer",
              "placed", "rejected", "on_hold"}

Applications(k) ==
  IF k < 24 THEN [of : {"application"}, stage : OldStages, hold : {NoStage}]
  ELSE [of : {"application"}, stage : Stages, hold : Stages \cup {NoStage}]

\* A job, one of its applications and one row below it, in a column that names
\* whose they are; jobs had client_id from the start.
Since == [client_id |-> 17, owner_user_id |-> 19]

Belongings(k) ==
  UNION {[of : {"belonging"}, col : {c},
          job : IF c = "client_id" \/ Since[c] <= k THEN Owner \cup {Null} ELSE {Null},
          app : IF Since[c] <= k THEN Owner \cup {Null} ELSE {Null},
          child : IF Since[c] <= k THEN Owner \cup {Null} ELSE {Null}] : c \in DOMAIN Since}

\* ck_consents_one_subject and ck_consents_purpose, as they were widened.
CandidateSubject(k) == IF k < 9 THEN {} ELSE {"candidate"}
StudentSubject(k) == IF k < 34 THEN {} ELSE {"student"}
RightToRepresent(k) == IF k < 24 THEN {} ELSE {"rtr"}

Consents(k) ==
  [of : {"consent"},
   subject : {"user"} \cup CandidateSubject(k) \cup StudentSubject(k),
   purpose : {"data_processing"} \cup RightToRepresent(k)]

\* 0010: the column legal_hold, and the states of the erasure engine.
LegalHold(k) == IF k < 10 THEN {FALSE} ELSE BOOLEAN
EngineStates(k) == IF k < 10 THEN {} ELSE {"approved", "legal_hold"}

Requests(k) ==
  [of : {"request"},
   status : {"pending", "processing", "completed", "rejected"} \cup EngineStates(k),
   held : LegalHold(k)]

Reproposed(k) == IF k < 27 THEN {} ELSE {"rescheduled"}

Interviews(k) ==
  IF k < 13 THEN {}
  ELSE [of : {"interview"},
        status : {"scheduled", "completed", "cancelled", "no_show"} \cup Reproposed(k)]

\* ck_tests_one_identity.
AcademyPairing(k) == IF k < 35 THEN {} ELSE {"enrollment"}

Tests(k) ==
  IF k < 26 THEN {} ELSE [of : {"test"}, for : {"application"} \cup AcademyPairing(k)]

Rows(k) == {Nothing} \cup Candidates(k) \cup Applications(k) \cup Belongings(k)
             \cup Consents(k) \cup Requests(k) \cup Interviews(k) \cup Tests(k)

\* The UNIQUE on the blind index; NULLs are distinct.
Apart(k, rows) ==
  k >= 7 => \A i, j \in Slot :
    /\ rows[i].of = "candidate" /\ rows[j].of = "candidate"
    /\ rows[i].enc = rows[j].enc /\ rows[i].enc # Null
    => i = j

Accepted(k, rows) == (\A i \in Slot : rows[i] \in Rows(k)) /\ Apart(k, rows)

-----------------------------------------------------------------------------
(* What upgrade() and downgrade() of revision k make of a row.             *)

\* Fault: rows without a plain number are rewritten too.
BackfilledAll(r) == [r EXCEPT !.enc = r.phone, !.late = FALSE]

\* 0007: rows with a plain number have it encrypted.
Backfilled(r) == IF r.phone = Null THEN r ELSE [r EXCEPT !.enc = r.phone, !.late = FALSE]

\* Fault: a deleted row is indexed again.
IndexedAlways(r) == [r EXCEPT !.doc = "present"]

\* 0023: candidates_search_doc_refresh().
Indexed(r) == [r EXCEPT !.doc = IF r.gone THEN "none" ELSE "present"]

UpCandidate(k, r) == CASE k = 7 -> Backfilled(r)
                       [] k = 8 -> [r EXCEPT !.phone = Null]
                       [] k = 23 -> Indexed(r)
                       [] OTHER -> r

\* Rolling back before 0006 gives up what is encrypted.
DownCandidate(k, r) ==
  IF k = 6 THEN [r EXCEPT !.enc = Null, !.given = r.phone, !.late = FALSE] ELSE r

Forward == [sourced |-> "applied", screened |-> "screening", assessed |-> "aptitude_passed",
            submitted |-> "submitted_to_client", interview |-> "client_round_1",
            offer |-> "offer", placed |-> "joined", rejected |-> "dropped",
            on_hold |-> "on_hold"]

\* Fault: the offer that was accepted is no stage of the former vocabulary.
ReverseLacking(s) ==
  CASE s = "applied" -> "sourced"
    [] s \in {"screening", "aptitude_test", "aptitude_failed"} -> "screened"
    [] s \in {"aptitude_passed", "internal_interview", "internal_passed", "rtr_pending"} ->
         "assessed"
    [] s = "submitted_to_client" -> "submitted"
    [] s \in {"client_round_1", "client_round_2", "client_round_3"} -> "interview"
    [] s \in {"joined", "guarantee", "invoiced", "paid"} -> "placed"
    [] s \in Closing -> "rejected"
    [] OTHER -> s

Reverse(s) ==
  CASE s = "applied" -> "sourced"
    [] s \in {"screening", "aptitude_test", "aptitude_failed"} -> "screened"
    [] s \in {"aptitude_passed", "internal_interview", "internal_passed", "rtr_pending"} ->
         "assessed"
    [] s = "submitted_to_client" -> "submitted"
    [] s \in {"client_round_1", "client_round_2", "client_round_3"} -> "interview"
    [] s \in {"offer", "offer_accepted"} -> "offer"
    [] s \in {"joined", "guarantee", "invoiced", "paid"} -> "placed"
    [] s \in Closing -> "rejected"
    [] OTHER -> s

UpApplication(k, r) == IF k = 24 THEN [r EXCEPT !.stage = Forward[r.stage]] ELSE r

DownApplication(k, r) ==
  IF k = 24 THEN [r EXCEPT !.stage = Reverse(r.stage), !.hold = NoStage] ELSE r

\* Fault: the rows below are derived from applications not derived yet.
InheritedBelowFirst(r) == [r EXCEPT !.app = r.job, !.child = r.app]

\* 0017, 0019: applications take the job's, the rest then their application's.
Inherited(r) == [r EXCEPT !.app = r.job, !.child = r.job]

UpBelonging(k, r) == IF k = Since[r.col] THEN Inherited(r) ELSE r

DownBelonging(k, r) ==
  IF k # Since[r.col] THEN r
  ELSE [r EXCEPT !.app = Null, !.child = Null,
                 !.job = IF r.col = "client_id" THEN r.job ELSE Null]

\* Fault: the consents that the CHECK no longer knows are left.
DownConsentKept(k, r) == r

DownConsent(k, r) == IF k = 24 /\ r.purpose = "rtr" THEN Nothing ELSE r

\* Fault: a hold is released to make the request fit.
DownRequestReleased(k, r) ==
  IF k = 10 THEN [r EXCEPT !.held = FALSE,
                           !.status = IF r.status = "legal_hold" THEN "rejected" ELSE r.status]
  ELSE r

DownRequest(k, r) == IF k = 10 THEN [r EXCEPT !.held = FALSE] ELSE r

DownInterview(k, r) ==
  IF k = 13 THEN Nothing
  ELSE IF k = 27 /\ r.status = "rescheduled" THEN [r EXCEPT !.status = "scheduled"]
  ELSE r

DownTest(k, r) == IF k = 26 THEN Nothing ELSE r

Up(k, r) == CASE r.of = "candidate" -> UpCandidate(k, r)
              [] r.of = "application" -> UpApplication(k, r)
              [] r.of = "belonging" -> UpBelonging(k, r)
              [] OTHER -> r

Down(k, r) == CASE r.of = "candidate" -> DownCandidate(k, r)
                [] r.of = "application" -> DownApplication(k, r)
                [] r.of = "belonging" -> DownBelonging(k, r)
                [] r.of = "consent" -> DownConsent(k, r)
                [] r.of = "request" -> DownRequest(k, r)
                [] r.of = "interview" -> DownInterview(k, r)
                [] r.of = "test" -> DownTest(k, r)
                [] OTHER -> r

Upgraded(k) == [i \in Slot |-> Up(k, row[i])]
Downgraded(k) == [i \in Slot |-> Down(k, row[i])]

-----------------------------------------------------------------------------
(* SEED_NOTIFICATION_TEMPLATES, with the revision that takes one away.     *)

Seeds == {"student_welcome", "admin_new_student_application", "academy_payment_link",
          "academy_enrolment_active", "academy_aptitude_invite", "academy_enrolment_waived"}

Seeding == {34, 37, 39, 40, 41}

Unseeded(k) ==
  CASE k = 34 -> {"student_welcome", "admin_new_student_application"}
    [] k = 37 -> {"academy_payment_link"}
    [] k = 39 -> {"academy_enrolment_active"}
    [] k = 40 -> {"academy_aptitude_invite"}
    [] k = 41 -> {"academy_enrolment_waived"}
    [] OTHER -> {}

\* Fault: only the oldest of the seeding revisions inserts what is missing.
SeededOnce(k) == IF k = 34 THEN templates \cup Seeds ELSE templates

\* seed_notification_templates inserts every template that is missing.
Seeded(k) == IF k \in Seeding THEN templates \cup Seeds ELSE templates

-----------------------------------------------------------------------------
Init == /\ at = 5
        /\ sealing = FALSE
        /\ row = [i \in Slot |-> Nothing]
        /\ templates = {}

\* 0008 is run when the release that seals is live.
May(k) == k = 8 => sealing

Upgrade(s) ==
  /\ at = s[1]
  /\ May(s[2])
  /\ Accepted(s[2], Upgraded(s[2]))
  /\ at' = s[2]
  /\ row' = Upgraded(s[2])
  /\ templates' = Seeded(s[2])
  /\ UNCHANGED sealing

Downgrade(s) ==
  /\ at = s[2]
  /\ s[2] = 6 => ~sealing
  /\ Accepted(s[1], Downgraded(s[2]))
  /\ at' = s[1]
  /\ row' = Downgraded(s[2])
  /\ templates' = templates \ Unseeded(s[2])
  /\ UNCHANGED sealing

CutOver == at >= 7 /\ ~sealing /\ sealing' = TRUE /\ UNCHANGED <<at, row, templates>>

RollBackRelease == at < 8 /\ sealing /\ sealing' = FALSE /\ UNCHANGED <<at, row, templates>>

Put(i, r) == /\ row' = [row EXCEPT ![i] = r]
             /\ Accepted(at, row')
             /\ UNCHANGED <<at, sealing, templates>>

\* The trigger, since 0023; before it nothing maintains the column.
Refreshed(r) == IF at >= 23 THEN Indexed(r)
                ELSE IF r.doc = "present" THEN [r EXCEPT !.doc = "former"] ELSE r

InsertCandidate(i, n) ==
  /\ row[i] = Nothing
  /\ \A j \in Slot : row[j].of \in {"nothing", "candidate"}
  /\ Put(i, Refreshed([of |-> "candidate", given |-> n,
                       late |-> at >= 7 /\ ~sealing /\ n # Null,
                       phone |-> IF sealing THEN Null ELSE n,
                       enc |-> IF sealing THEN n ELSE Null,
                       gone |-> FALSE, doc |-> "none"]))

\* Any UPDATE of a candidate, one that is deleted included.
UpdateCandidate(i, gone) ==
  /\ row[i].of = "candidate"
  /\ row[i].gone => gone
  /\ Put(i, Refreshed([row[i] EXCEPT !.gone = gone]))

\* What the programs keep true of the rows they write: a row filed since a
\* backfill names whom its job names, a hold in the present vocabulary
\* remembers the stage, a request on legal hold is held.
Filed(r) ==
  /\ r.of = "belonging" /\ Since[r.col] <= at => r.app = r.job /\ r.child = r.job
  /\ r.of = "application" /\ at >= 24 => (r.hold # NoStage <=> r.stage = "on_hold")
  /\ r.of = "request" /\ r.status = "legal_hold" => r.held

Insert(i, r) == /\ \A j \in Slot : row[j] = Nothing
                /\ r.of # "candidate"
                /\ Filed(r)
                /\ Put(i, r)

Next == \/ \E s \in Steps : Upgrade(s) \/ Downgrade(s)
        \/ CutOver
        \/ RollBackRelease
        \/ \E i \in Slot : \/ \E n \in Number \cup {Null} : InsertCandidate(i, n)
                           \/ \E gone \in BOOLEAN : UpdateCandidate(i, gone)
                           \/ \E r \in Rows(at) : Insert(i, r)

-----------------------------------------------------------------------------
MigrationsTypeOK == /\ at \in Revisions
                    /\ sealing \in BOOLEAN
                    /\ row \in [Slot -> Rows(at)] /\ Apart(at, row)
                    /\ templates \subseteq Seeds

\* 0006-0008: no number but the given one is stored, and it is stored where
\* the release to come reads it, save one that came in plain after the backfill.
NumbersKept ==
  \A i \in Slot : row[i].of = "candidate" =>
    /\ row[i].phone \in {Null, row[i].given}
    /\ row[i].enc \in {Null, row[i].given}
    /\ \/ row[i].enc = row[i].given
       \/ row[i].late
       \/ at < 7 /\ row[i].phone = row[i].given

\* 0023: since the trigger, a search finds each candidate by what the row says
\* now, and a deleted one by nothing.
SearchTells ==
  at >= 23 => \A i \in Slot : row[i].of = "candidate" =>
    row[i].doc = IF row[i].gone THEN "none" ELSE "present"

\* 0017, 0019: since a backfill, no row names another than its job does.
Rederived ==
  \A i \in Slot : row[i].of = "belonging" /\ Since[row[i].col] <= at =>
    row[i].app = row[i].job /\ row[i].child = row[i].job

\* 0034-0041: every template that a release sends is there.
TemplatesSeeded == \A s \in Steps : s[2] <= at => Unseeded(s[2]) \subseteq templates

\* No row written under a revision stops the next one, two numbers alike before
\* 0007 apart.
UpgradesFit ==
  \A s \in Steps : at = s[1] /\ s[2] # 7 /\ May(s[2]) => Accepted(s[2], Upgraded(s[2]))

\* Nor its rollback, the four apart that admit it or add a subject.
RollbacksFit ==
  \A s \in Steps : at = s[2] /\ s[2] \notin {9, 10, 34, 35} =>
    Accepted(s[1], Downgraded(s[2]))

MigrationsKept == /\ MigrationsTypeOK /\ NumbersKept /\ SearchTells /\ Rederived
                  /\ TemplatesSeeded /\ UpgradesFit /\ RollbacksFit

\* 0010, 0024: whatever is migrated up and down, an application stays with the
\* client, joined, held or ended, a legal hold holds, and of the consents only
\* the rights to represent are given up.
Standings == {{"submitted", "interview", "placed"} \cup Represented,
              {"placed", "joined", "guarantee", "invoiced", "paid"},
              {"rejected"} \cup Closing, {"on_hold"}}

StandingKept ==
  at' # at => \A i \in Slot :
    /\ row[i].of = "application" =>
         \A set \in Standings : row[i].stage \in set <=> row'[i].stage \in set
    /\ row[i].of = "request" /\ row[i].status = "legal_hold" => row'[i] = row[i]
    /\ row[i].of = "consent" /\ row[i].purpose # "rtr" => row'[i] = row[i]

-----------------------------------------------------------------------------
(* What the repository says and the migrations do not keep.                *)

\* pipeline.py:15: from on_hold an application returns to its prior stage.  0024
\* gives the rows that were on hold no prior stage.
EveryHoldReopens ==
  at >= 24 => \A i \in Slot : row[i].of = "application" /\ row[i].stage = "on_hold" =>
    row[i].hold # NoStage

\* 0008:8-9: by the contract step nothing is left in the plain columns alone.
NothingLeftPlain ==
  at >= 8 => \A i \in Slot : row[i].of = "candidate" => row[i].enc = row[i].given

\* 0034:18: "Additive/reversible".
StudentsRollBack ==
  at = 34 => Accepted(27, Downgraded(34))
=============================================================================
