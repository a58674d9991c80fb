------------------------------ MODULE Pipeline ------------------------------
(***************************************************************************)
(* The applications table and the request handlers that write it: create,  *)
(* transition, the deprecated stage PATCH, internal evaluations and the    *)
(* right-to-represent consent (backend/app/routers/staffing.py over        *)
(* backend/app/pipeline.py).                                               *)
(*                                                                         *)
(* Handlers are synchronous functions on a thread pool, each with its own  *)
(* session on a READ COMMITTED database.  A request is two steps: it loads *)
(* the row and checks everything its code checks against that copy; then   *)
(* its transaction commits, with the guarded UPDATE evaluated against the  *)
(* row stored at that moment.  Between the two any other request may       *)
(* commit, and the request itself may die (its transaction rolls back).    *)
(***************************************************************************)
EXTENDS StageGraph, Sequences, FiniteSets

CONSTANTS
  App,         \* natural keys <job, candidate>: UNIQUE(job_id, candidate_id)
  Worker,      \* threads serving requests
  MaxVersion,  \* bound on applications.version
  CallerLag,   \* how far behind the row's version a caller's may be
  CallerLead   \* how far ahead of it: 0 when callers only use versions the
               \* API has returned to them, 1 when they count one ahead

ASSUME PipelineAssumption == /\ MaxVersion \in Nat \ {0}
                             /\ CallerLag \in Nat
                             /\ CallerLead \in Nat

VARIABLES
  row,      \* App -> the applications row
  journal,  \* App -> its StageChange rows in candidate_timeline, append-only
  evals,    \* App -> EvalTargets -> rows in internal_evaluations
  consents, \* App -> 'rtr' rows in shared.consents, append-only
  req       \* Worker -> the request it serves and the row it loaded

vars == <<row, journal, evals, consents, req>>

\* A natural key with no row yet.
NoRow == [stage |-> "unborn", version |-> 0, hold |-> NoStage, rtr |-> FALSE]

\* Fault: the insert uses the stage vocabulary of before the check constraint.
LegacyRow == [stage |-> "new", version |-> 1, hold |-> NoStage, rtr |-> FALSE]

\* The row create_application inserts; the version is the column's default.
NewRow == [stage |-> "applied", version |-> 1, hold |-> NoStage, rtr |-> FALSE]

\* EVAL_TARGETS: a verdict (round, result) is named by the stage it drives to.
EvalTargets == {"aptitude_passed", "aptitude_failed", "internal_passed", "dropped"}

Idle == [op |-> "idle"]

Init == /\ row = [a \in App |-> NoRow]
        /\ journal = [a \in App |-> <<>>]
        /\ evals = [a \in App |-> [t \in EvalTargets |-> 0]]
        /\ consents = [a \in App |-> 0]
        /\ req = [w \in Worker |-> Idle]

Exists(a) == row[a].stage # "unborn"

\* The versions a caller may send for a row it is about to change.
Expected(a) == {v \in 1 .. MaxVersion - 1 :
                  v + CallerLag >= row[a].version /\ v <= row[a].version + CallerLead}

-----------------------------------------------------------------------------
(* First step: load the row, check it.  A check that fails is a 4xx answer *)
(* and leaves no trace, so only the requests that pass it are started.     *)

Start(w, r) == /\ req[w] = Idle
               /\ req' = [req EXCEPT ![w] = r]
               /\ UNCHANGED <<row, journal, evals, consents>>

\* POST /applications, when no row holds the natural key.
PostApplication(w, a) == ~Exists(a) /\ Start(w, [op |-> "create", app |-> a])

\* POST /applications/{id}/rtr, when no consent is recorded.
PostRtr(w, a) == /\ Exists(a)
                 /\ ~row[a].rtr
                 /\ Start(w, [op |-> "rtr", app |-> a])

Write(op, a, to, v) ==
  [op |-> op, app |-> a, seen |-> row[a], to |-> to, expected |-> v]

\* POST /applications/{id}/transition: the caller's version and reason.
PostTransition(w, a, to, v) ==
  /\ Legal(row[a], to, TRUE)
  /\ v \in Expected(a)
  /\ Start(w, Write("move", a, to, v))

\* PATCH /applications/{id}/stage: the loaded version and no reason.
PatchStage(w, a, to) ==
  /\ Legal(row[a], to, FALSE)
  /\ row[a].version < MaxVersion
  /\ Start(w, Write("move", a, to, row[a].version))

\* POST /applications/{id}/evaluations: the caller's version, else the loaded.
PostEvaluation(w, a, to, v) ==
  /\ Legal(row[a], to, TRUE)
  /\ v \in Expected(a)
  /\ Start(w, Write("evaluate", a, to, v))

-----------------------------------------------------------------------------
(* Second step: the transaction commits, refuses or dies.                  *)

Finish(w) == req' = [req EXCEPT ![w] = Idle]

\* The UNIQUE constraint lets one insert through; the other request fails.
CommitApplication(w) ==
  LET a == req[w].app IN
  /\ req[w].op = "create"
  /\ ~Exists(a)
  /\ row' = [row EXCEPT ![a] = NewRow]
  /\ Finish(w)
  /\ UNCHANGED <<journal, evals, consents>>

RefuseDuplicate(w) == /\ req[w].op = "create"
                      /\ Exists(req[w].app)
                      /\ Finish(w)
                      /\ UNCHANGED <<row, journal, evals, consents>>

\* UPDATE ... SET rtr_consent_at WHERE id = :id, and the ledger row.
CommitRtr(w) ==
  LET a == req[w].app IN
  /\ req[w].op = "rtr"
  /\ row' = [row EXCEPT ![a].rtr = TRUE]
  /\ consents' = [consents EXCEPT ![a] = @ + 1]
  /\ Finish(w)
  /\ UNCHANGED <<journal, evals>>

\* Fault: the WHERE clause does not compare the version.
VersionIgnored(w) == TRUE

\* Fault: any version from the caller's on is accepted.
VersionNotBelow(w) == row[req[w].app].version >= req[w].expected

\* UPDATE ... WHERE id, tenant and version = expected_version.
VersionMatches(w) == row[req[w].app].version = req[w].expected

\* transition(): the row, its version and one StageChange row together.
Written(stored, r) == [stage |-> r.to,
                       version |-> stored.version + 1,
                       hold |-> HoldAfter(stored.hold, r.seen, r.to),
                       rtr |-> stored.rtr]

WriteStage(w) ==
  LET r == req[w] IN
  /\ VersionMatches(w)
  /\ row' = [row EXCEPT ![r.app] = Written(@, r)]
  /\ journal' = [journal EXCEPT ![r.app] =
                   Append(@, [from |-> r.seen.stage, to |-> r.to])]

CommitMove(w) == /\ req[w].op = "move"
                 /\ WriteStage(w)
                 /\ Finish(w)
                 /\ UNCHANGED <<evals, consents>>

\* Fault: the evaluation is committed before the stage change is tried.
CommitEvaluationFirst(w) ==
  /\ req[w].op = "evaluate"
  /\ evals' = [evals EXCEPT ![req[w].app][req[w].to] = @ + 1]
  /\ WriteStage(w) \/ (~VersionMatches(w) /\ UNCHANGED <<row, journal>>)
  /\ Finish(w)
  /\ UNCHANGED consents

CommitEvaluation(w) ==
  /\ req[w].op = "evaluate"
  /\ WriteStage(w)
  /\ evals' = [evals EXCEPT ![req[w].app][req[w].to] = @ + 1]
  /\ Finish(w)
  /\ UNCHANGED consents

\* No row matched: 409 STALE_STATE, everything rolled back.
RefuseStale(w) == /\ req[w].op \in {"move", "evaluate"}
                  /\ ~VersionMatches(w)
                  /\ Finish(w)
                  /\ UNCHANGED <<row, journal, evals, consents>>

\* The worker dies or loses its connection: the session rolls back.
Die(w) == /\ req[w] # Idle
          /\ Finish(w)
          /\ UNCHANGED <<row, journal, evals, consents>>

Request(w) == \E a \in App :
  \/ PostApplication(w, a)
  \/ PostRtr(w, a)
  \/ \E to \in Stages : PatchStage(w, a, to)
  \/ \E to \in Stages, v \in Expected(a) : PostTransition(w, a, to, v)
  \/ \E to \in EvalTargets, v \in Expected(a) : PostEvaluation(w, a, to, v)

Respond(w) == \/ CommitApplication(w)
              \/ RefuseDuplicate(w)
              \/ CommitRtr(w)
              \/ CommitMove(w)
              \/ CommitEvaluation(w)
              \/ RefuseStale(w)
              \/ Die(w)

Next == \E w \in Worker : Request(w) \/ Respond(w)

Spec == Init /\ [][Next]_vars

-----------------------------------------------------------------------------
Row == [stage : Stages \cup {"unborn"}, version : 0 .. MaxVersion,
        hold : Stages \cup {NoStage}, rtr : BOOLEAN]

Entry == [from : Stages, to : Stages]

WriteRequest == [op : {"move", "evaluate"}, app : App, seen : Row,
                 to : Stages, expected : 1 .. MaxVersion - 1]

Requests == {Idle} \cup [op : {"create", "rtr"}, app : App] \cup WriteRequest

\* The shape of the state.
TypeOK == /\ row \in [App -> Row]
          /\ journal \in [App -> Seq(Entry)]
          /\ evals \in [App -> [EvalTargets -> Nat]]
          /\ consents \in [App -> Nat]
          /\ req \in [Worker -> Requests]

\* Where the journal says the application stood after its first i moves.
StageAfter(a, i) == IF i = 0 THEN "applied" ELSE journal[a][i].to

Moves(a) == 1 .. Len(journal[a])

\* "Concurrent movers cannot both win" and "Every successful transition emits
\* ONE StageChange timeline row" (pipeline.py:26-28): the timeline is an
\* unbroken chain that starts at applied, ends at the stored stage and has one
\* entry for every version after the first.
JournalComplete ==
  \A a \in App :
    IF Exists(a)
    THEN /\ row[a].version = Len(journal[a]) + 1
         /\ row[a].stage = StageAfter(a, Len(journal[a]))
         /\ \A i \in Moves(a) : journal[a][i].from = StageAfter(a, i - 1)
    ELSE journal[a] = <<>>

\* No application the client has seen, held or not, lacks the candidate's
\* right-to-represent consent and its ledger row (the submitted_to_client gate
\* of transition(), reached only through requests that may be stale).
NeverRepresentedWithoutConsent ==
  \A a \in App :
    {row[a].stage, row[a].hold} \cap Represented # {} =>
      row[a].rtr /\ consents[a] > 0

\* on_hold remembers exactly the stage the journal says it was entered from,
\* a live one; a row that is open and not on hold remembers none, so a reopen
\* can never land on a stage the application was not held at.
HoldRemembers ==
  \A a \in App :
    /\ row[a].stage = "on_hold" =>
         /\ row[a].hold = journal[a][Len(journal[a])].from
         /\ row[a].hold \in Stages \ (Terminal \cup {"on_hold"})
    /\ row[a].stage \notin Closing \cup {"on_hold"} => row[a].hold = NoStage

\* tests/test_evaluations.py, "no shortcut to submit": whoever the client has
\* seen passed the aptitude round and then the internal round, in that order.
Vetted ==
  \A a \in App :
    row[a].stage \in Represented =>
      \E i, j \in Moves(a) : /\ i < j
                             /\ journal[a][i].to = "aptitude_passed"
                             /\ journal[a][j].to = "internal_passed"

\* An evaluation row never outlives a refused stage change: there are never
\* more recorded verdicts than moves to the stage such a verdict drives to.
EvaluationsBacked ==
  \A a \in App, t \in EvalTargets :
    evals[a][t] <= Cardinality({i \in Moves(a) : journal[a][i].to = t})

\* Nothing leaves paid, withdrawn or dropped, whatever was loaded before.
ClosedForGood ==
  [][\A a \in App : row[a].stage \in Terminal => row'[a].stage = row[a].stage]_vars

\* The requests together implement the one-step-at-a-time life of each
\* application: whatever the interleaving, every commit is one legal move.
Life == INSTANCE ApplicationLife
          WITH life <- [a \in App |-> [stage |-> row[a].stage,
                                       hold |-> row[a].hold,
                                       rtr |-> row[a].rtr]]

ImplementsLife == Life!Spec

-----------------------------------------------------------------------------
(* What the documents expect and overlapping requests defeat: see the      *)
(* README, "Where the code and its documents part".                        *)

\* tests/test_pipeline.py: recording the consent appends one ledger row.
OneConsentRow == \A a \in App : consents[a] <= 1
=============================================================================
