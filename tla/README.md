# Verification of the SPS staffing platform

TLA+ models of the platform: what the backend's request handlers and one-off
jobs do to the database when they overlap, fail and are retried, what the web
pages make of a connection that loses answers, and what the migrations do to the
rows of former releases; what TLC checks of that on small instances, and what
TLAPS proves for every instance.

## The system

The backend (`backend/app`) is a FastAPI application. Handlers are synchronous
functions on a thread pool; each opens its own SQLAlchemy session (`db.py`,
`get_db`) on a PostgreSQL database at READ COMMITTED, commits at most once or a
few times, and rolls back if anything is raised. Two one-off jobs (guarantee
sweep and dunning, `jobs.py`; send sweep, `notify.py`) run as separate processes
(`scripts/run_commercial_jobs.py`) and nothing keeps two of them from running at
once. All coordination is through rows: UNIQUE keys, one guarded UPDATE (the
version of an application), and otherwise "load the row, look at it, write it by
primary key". Redis keeps answers and figures for a while and may be down.

That last pattern is what the backend's models are about. Every handler is
modelled in two steps: it loads rows and makes all its checks on those copies
(`Post...`); later its transaction commits (`Commit...`), with guarded updates and
UNIQUE keys evaluated on what is stored then. Between the two any other request
may commit, or the process may die and leave nothing (`Fail`, `Crash`). SQLAlchemy
writes only the columns whose value differs from the loaded copy, and the
commits are modelled column by column for that reason.

The frontend (`frontend`) is a Next.js application over React Query. A page sends
a call, the server handles it, and the page handles the answer: three steps,
between any two of which a connection may break, a token expire, a timer fire,
or somebody else's call be served.

### Inventory

| Component | State | Operations | Hard part | Module |
|---|---|---|---|---|
| Application pipeline (`pipeline.py`, `routers/staffing.py`) | `applications.stage, version, hold_from_stage, rtr_consent_at`; StageChange timeline; `internal_evaluations`; `consents` | create, transition, stage PATCH, evaluate, record consent | stale copies and versions against one guarded UPDATE; hold and reopen; gates checked on a copy | Pipeline |
| Duplicate reviews (`routers/dup_reviews.py`, `pipeline.adopt_stage_on_merge`) | reviews, candidates (retired, login), owner and archived flag of applications, vendor submissions | merge, dismiss | merges in chains, merge against transition, against dismissal, against a new application | Merge |
| Candidate intake (`routers/staffing.py`, `register.py`, `dedup.py`) | candidates, logins, consents, reviews | create, register, scan, merge, erase | intakes that do not see each other; whose login and number a row is | Intake |
| Aptitude tests (`routers/assessments.py`, `take.py`) | `tests` (status, score, proctor document), TestCompletion events, notices, the application's stage | issue, fetch, snapshot, submit, waive, expiry | a submission deciding from a copy, beside waivers, retakes and staff moves | Assessments |
| Papers (`assessment_engine.py`, `select_bank_paper`) | question bank, frozen paper, result | draw, shuffle, edit the bank, grade | the key after a shuffle; a bank edited while the test is out | Paper |
| Commercial layer (`routers/placements.py`, `vendor_mgmt.py`, `jobs.guarantee_sweep`) | placements, invoices and credit notes, vendor commissions, GuaranteeCompletion events | place, breach, replace, credit, accrue, pay, void, sweep | sweeps overlapping each other and requests; nothing UNIQUE but one commission per placement | Placements |
| Vendor contracts and rates (`vendor_mgmt.py`, `workflow.py`) | vendors, contracts, client rates, vendor submissions, a commission's basis | create each, merge, accrue | which rate was in force, and whose candidate it was, when the accrual read them | Vendors |
| Invoices and tax (`workflow.py`, `placements.py`) | amounts and rates of an invoice and its credit note | create, update taxes, credit | rates and amounts written column by column against a copy | Invoices |
| Offers and submissions (`workflow.py`, `client_portal.py`) | offers; submissions | update, release, set the joining date, feedback | two owners of one row | Offers |
| Interviews (`workflow.py`) | interviews (status, time, calendar sequence), slots, reminders | update, reschedule, propose and choose a slot | a choice beside a reschedule or another round, slots proposed between a DELETE and its commit, the key of the reminder | Interviews |
| Client portal (`client_portal.py`, `repositories.py`) | logins' bindings, a job's client and owner, copies of both on every row below it | post, reassign, team, lists | rows filed while the job changes hands | Portal |
| Registration of clients (`register.py`, `admin.py`, `client_portal.py`) | requests, logins, client accounts | ask, approve, reject, invite | two decisions on one request; where a login came from | Registrations |
| CRM leads (`crm.py`) | a lead, its audit log, clients made of it | move, win, lose, convert | a conversion in two commits beside moves | Leads |
| Idempotency cache (`idempotency.py`) | answers per tenant and key | look up before, store after the commit | a retry between commit and store; eviction | Replay |
| Notifications (`notify.py`, `jobs.py`) | `notifications` as queue, ledger and delivery record | enqueue inside a business transaction, send sweep | overlapping and dying sweeps, attempts overwritten from copies, parked channels | Notify |
| Erasure (`erasure.py`, `privacy.py`, `admin.py`, `resumes.py`) | a person's login, candidate row, requests, stored objects | request, hold, approve, erase, upload | objects deleted before the commit; uploads racing it | Erasure |
| Academy enrollment (`academy.py`, `academy_transitions.py`, `academy_pricing.py`, `take.py`) | enrollments on two axes (status, payment), tests, payments, stored receipts | apply, issue, fetch, grade and price, pay, waive, staff move | five writers of one row, each from a copy; receipt stored before the commit | Enrollment |
| Academy catalogue (`academy.py`) | courses, cohorts, students, seats | create, publish, take back, register, apply, cancel | a course taken back while somebody applies; names taken twice | Campus |
| Reports (`reporting.py`, `founder.py`) | facts, cached figures, audit | read, refresh, export | a slow read stores what it found before a refresh | Reports |
| Sessions (`auth.py`, `deps.py`, `lib/api/client.ts`) | accounts, a browser's two cookies, calls in flight | login, call, silent refresh and retry, logout, erase | answers handled after a logout or another login | Session |
| Test-taking page (`app/take/[token]/page.tsx`) | the page, its submissions, the test | load, answer, tick, press, submit by itself | the timer against the button, over a connection that breaks | TakePage |
| Payment page (`academy/student/pay/page.tsx`) | the page, its calls, the enrollment | press, wait, reconcile, reload | a payment whose answer is lost | PayPage |
| Pipeline board (`employer/pipeline/page.tsx`, `hooks.ts`) | server's cards, the board shown, moves in flight | move at once, roll back, fetch | a fetch that left before a move and arrives after it | Board |
| Query cache (`hooks.ts`, `providers.tsx`) | a list, the writes to what it shows | every mutation and every list | who is told of which write, and a fetch overtaken by another | Screens |
| Enrollment page of the administrator (`admin/academy/enrollments/[id]/page.tsx`) | the row shown, the dialog, calls | offer, confirm, reload | a row moved elsewhere under an open dialog | Roster |
| Migrations (`alembic/versions`) | revision, rows of each table rewritten | upgrade, downgrade, the release that seals numbers, writes in between | rows that former releases wrote meeting new constraints | Migrations |
| Tenancy and access, AI widgets and parsing, timeline and audit log, read models, documents, validation and encryption, the rest of the frontend, deployment | see `PROJECT.json` | | predicates constant within a request, reads, rendering, or no state of record | not modelled |

How they meet. Evaluations, tests and merges all move an application (the first
two through `pipeline.transition`, the last by writing its stage directly); a
placement needs an application at `joined`, an accrual asks the resolver of
Vendors; grading prices an academy seat; requests, the test engine, slot choices
and dunning enqueue notices inside their own transactions; TakePage, PayPage,
Board and Roster are the browser's side of Assessments, Enrollment and Pipeline.

What makes each correct: an application moves one legal step per version, the
timeline says so, and no client sees a candidate who has not consented and been
vetted; a merge loses nobody; a verdict belongs to a test that was sat or waived
and never moves an application that has moved on; a replacement costs nothing
and every outcome is reported; a vendor is paid for a candidate it submitted, at
the most specific rate in force; nobody enters a course unpaid or unpriced; a
notice exists exactly when its cause committed and its status never overstates;
an interview has one chosen slot at most, and whoever it is for is reminded, but
for slots that outlive a reschedule; a
portal shows a client its own rows; a login goes back to an approval; a page
never tells of what the server does not have; and a release can be rolled out
over the rows of the ones before it.

`PROJECT.json` lists the hazards of this code at their lines, with the properties
aimed at each.

## The modules

### Components of the backend

- **StageGraph** - the static graph of `pipeline.py`: stages, `TRANSITIONS`,
  terminal stages, hold and reopen, and `Legal`, the checks of `transition()` on
  a row. Constants and operators only; Pipeline, ApplicationLife, Merge,
  Assessments and Migrations extend it.
- **Pipeline** - `row`, `journal`, `evals`, `consents` are the four tables; `req` is
  what each thread has loaded. `CommitMove` is the guarded UPDATE and the
  timeline entry of one transaction. A caller may send a version that lags
  (`CallerLag`) the stored one.
- **ApplicationLife** - the abstract specification: an application is born, consents
  and makes one legal move at a time. There are no requests, versions or
  journals. `ImplementsLife` is the refinement: project the row to stage, hold and
  consent.
- **Merge** - extends Pipeline with candidates, reviews and the merge handler.
- **Assessments** - the tests of one application beside staff moves of it, which
  are taken from StageGraph. **Paper** - how the paper of one test is drawn from
  the bank in even shares of each level, frozen with its options shuffled, and
  graded.
- **Placements** - the placements of one requisition, with calendar time reduced to
  the one fact the code asks: whether `guarantee_until` has passed (`over`).
  **Vendors** - the resolver of `vendor_mgmt.py:48-78` over what can be changed
  under it; `pointed` remembers which candidates a submission has named.
- **Enrollment** - a student's seats; prices are computed as `academy_pricing.py`
  does, from the percentage of right answers. **Campus** - everything before that:
  courses, cohorts, students, and who may sit where; `offered` remembers what was
  ever public.
- **Notify** - rows by idempotency key; `done` are the business operations that
  committed, `tries` and `delivered` what the channels really saw.
- **Interviews** - one interview, the slots proposed for it (`slots`, `chosen`) and its
  reminders by calendar sequence. The interview row is written from a copy, the
  slots by one bulk statement per request on the rows it finds when it begins
  (`found`), which it locks until it commits; it waits for those that found one of
  them first (`ahead`). A proposal's new rows wait for nobody. `strays` are the slots
  that were proposed while a reschedule had deleted and not committed yet.
- **Offers**, **Invoices**, **Leads**, **Registrations**, **Intake**, **Portal**, **Replay**,
  **Erasure** - one handler group each. Amounts are in paise and rates in
  hundredths of a percent, rounded half up (the code rounds binary floats half to
  even, which may differ at a tie; no property depends on that); a lead's `trail` is its audit
  log; `held` are the owners a job has had; `bucket` is the object store, outside
  every transaction.
- **Reports** - reads in steps (look up, compute, store, audit, answer); a figure is
  the number of facts it has seen.
- **Migrations** - the revisions that rewrite rows or narrow what rows may be. A row
  is one of a table at a revision (`Rows`); `Up` and `Down` rewrite it, a step is
  refused when a row does not fit (`Accepted`). Former releases are not in the
  repository: they write whatever their revision admits. `given` is the number a
  person left, whatever column it has been moved to.

### Pages

- **Session**, **TakePage**, **PayPage** - a page, its calls, and as much of the server
  as its answers depend on. Enrollment has the copies that staff and grading decide
  from; PayPage allows each of their moves from any status the row has had (`been`).
- **Board** - one job's board in one browser beside colleagues; `past` is what each
  version of a card was. **Screens** - for every mutation and every list of
  `hooks.ts`, one list and the writes to what it shows. Its constant tables are the
  query keys and the `invalidateQueries` of the source. **Roster** - the dialog that
  mirrors `academy_transitions.py` in the browser.

### Instances and proofs

- **MC...** - instances for TLC: symmetry, and start states further along the
  graph, each one a state that `Spec` itself reaches. `MCDues`, `MCPeople`,
  `MCRecords`, `MCWeb` and `MCSweeps` each hold several components that share no
  state: `part` (in `MCWeb` `shown`) says which of them a behaviour is of, and the
  variables of the others stay off or as they began. A property of such a module
  is "while my part runs, ...".
- **PipelineProofs** (Pipeline, Merge), **AssessmentProofs**, **PlacementProofs**,
  **InterviewProofs**, **DuesProofs** (MCDues), **PeopleProofs** (MCPeople),
  **RecordsProofs** (MCRecords), **WebProofs** (MCWeb) - the theorems.

Definitions under a comment that begins `Fault:` are the code with a plausible
bug put in; each shows that some property would notice.

## What the runs check

| Run | Instance | Question | Answer |
|---|---|---|---|
| `pipeline` | one application, two threads, callers one version behind: every overlap of the first five versions, and from the aptitude test on to version 9 | do racing, stale or repeated requests keep the timeline whole, the hold memory right and closed applications closed? Is every commit one legal move? Can a client be shown a candidate without consent or one who skipped a round? | `JournalComplete`, `HoldRemembers`, `EvaluationsBacked`, `NeverRepresentedWithoutConsent`, `Vetted`, `ClosedForGood`, `ImplementsLife` hold |
| `merge_chain` | three candidates, two overlapping merges in a chain, an application being filed | can a person drop out of a pipeline they were in? | `StillInPipeline` holds |
| `merge_consent` | one merge, from a consented application one step short of the client | does the consent survive the merge? | no: `ConsentBeforeClient` fails, a finding |
| `tests_race` | two threads, two tests, versions to 6 | can a stored grade move an application that has left its test, or one stay be completed twice? | `OverrideStands`, `VerdictsKept` hold |
| `placements_race` | two applications, two threads, one sweep, two placements, two invoices | is a replacement ever billed, an outcome unreported, a placement cleared early? | `PlacementsKept` holds |
| `placements_sweep` | two overlapping sweeps | is a completion reported once? | no: `OneCompletionEach` fails, a finding |
| `interviews_race` | three slots in rounds of any size, two threads, sequences to 1 | can choices, proposals and reschedules leave two chosen slots? Can a choice of a withdrawn round commit, or leave nobody reminded? | `InterviewsKept` holds; `ChosenIsReminded`, `ChoiceOfThisRound` hold but for slots proposed between the DELETE of a reschedule and its commit, which they except |
| `dues` | one seat with two tests and two payments; one placement with two vendors, contracts, percentages and days; two candidates or one other row under every revision | can copies let a student in unpaid or unpriced? Who is owed a commission, and at which rate? Does every revision fit the rows of the ones before it? | `EnrollmentsKept`, `CommissionsKept`, `MigrationsKept`, `DuesSteps` hold |
| `people` | two threads on the portal, intake, registrations, a lead, a board, the catalogue; a list; a dialog | whom does a portal show, who grants a login, what wins a lead, which look-alikes slip through, what does a board that came to rest show? | `PortalKept`, `ReassignMends`, `IntakeKept`, `GrantsKept`, `LeadsKept`, `BoardKept`, `CampusKept` hold |
| `records` | two threads on an offer, an invoice and its note, a keyed create, the queue with two sweeps, an erasure, a paper | do stale columns part an amount from its rate, does an answer tell of a row that is not there, does a notice go with its cause, is a completed erasure complete? | `OffersKept`, `AmountsKept`, `AnswersKept`, `NoticesKept`, `ErasureKept`, `StepsKept` hold |
| `web` | two users, two calls at a time, two tenants | what does a page show that the server does not have, and does every call, test, payment and figure come to rest? | `WebKept`, `SessionComesToRest`, `TestComesToRest`, `EveryPressEnds`, `FiguresConverge` hold |
| `sweeps` | two sweeps of one row each over two rows that may keep failing; one sweep of guarantees beside requests | is every sendable notice settled and every overdue guarantee cleared in the end? | `Settles`, `SelfHeals` hold |

What the names of the composed properties stand for:

| Property | Says |
|---|---|
| `VerdictsKept` | a stay at the test is completed once; no event or notice without a stored verdict |
| `PlacementsKept` | `ReplacementIsFree`, `OutcomeReported`, `ClearedAfterWindow` |
| `EnrollmentsKept` | `NoUnpaidAccess`, `NothingUnpriced`, `PaidIsBacked` (a payment of its own with its receipt) |
| `CommissionsKept` | whoever is owed submitted the candidate (`TrailBacked`); a contract's percent is that of one in force at the joining (`LockedToJoining`) |
| `MigrationsKept` | `NumbersKept`, `SearchTells`, `Rederived`, `TemplatesSeeded`, `UpgradesFit`, `RollbacksFit` |
| `DuesSteps` | `SpecificRate`: an accrual takes the most specific rate there is; `StandingKept`: a migration leaves every application where it stood, every hold held, every consent but the rights to represent |
| `PortalKept` | `PortalBoundary` (own client, own jobs), `OwnersBound`, `NeverMovedAgrees`; with `ReassignMends`, a lone reassignment leaves one owner everywhere |
| `IntakeKept` | `ConsentOnRecord`, `UnflaggedBounded`, `NumberHeldByLive` |
| `GrantsKept` | `ApprovedHasLogin`, `OneGrantPerRequest`, `RootedInApproval` |
| `LeadsKept` | `WonWasEarned`, `LostHasReason`, `ConversionStays`, `ClientsBounded` |
| `BoardKept` | `SettledBoardIsTrue` (Board), `OwnWritesShown` (Screens) |
| `CampusKept` | `PublishAgrees`, `SeatsWereOffered`, `OneRowPerName` (Campus); `MirrorsMachine`, `MovesOnceAndShowsIt` (Roster) |
| `OffersKept`, `AmountsKept` | an accepted offer is dated; an amount is its rate's where amounts tell rates apart |
| `AnswersKept` | `AnswersAreRows`, `OnceUnlessExcused` (Replay); `GradedAsMeant`, `DrawnEvenly` (Paper) |
| `NoticesKept`, `ErasureKept` | `QueuedWithCause`, `StatusTells`, `ParkedUntouched`; `CompletedMeansErased` |
| `StepsKept` | `DatedRelease`, `SparingPatch`, `MendingRetax`, `StayingAnswer`, `CleaningErasure` |
| `WebKept` | `QuietLogoutHolds`; `OneSubmission`, `ShownIsStored`; `DoneIsEnrolled`, `OneChargePerVisit`; `OwnFigures`, `RefreshIsFresh`, `NothingUnaudited` |

Each of them includes the type invariants of the modules it speaks of.

### Bounds, and why they are enough

- *Two threads.* A race here is between one request's load and its commit and
  whatever commits in between; that may be many commits of the other thread,
  which serves any number of requests one after the other. A third thread adds a
  second stale copy, which can matter only for a property about two stale copies
  at once; two sweeps beside two threads give four copies of the queue. Vendors
  has one clerk beside single-step changes of what the clerk loaded. All safety
  theorems are for any number of threads.
- *One application* in the pipeline and test runs: no handler there relates two
  applications, and the theorems hold for any number. Merge has three, the least
  that form a chain of reviews.
- *Versions.* Five reach a hold, a reopen and a second hold with a stale copy
  from before the first; nine, on a way to the aptitude test that one request at a
  time walks, reach past `submitted_to_client`, both rounds and a hold. `InFocus`
  of `MCPipeline` says what each of the two follows; early, callers lag behind the
  row, late they send the version it has.
- *`InFocus`* of `MCAssessments` follows the application only while it is at its
  test or one move off it, and snapshots only while there is one test: what
  follows later in the pipeline no longer reads a test, and a snapshot rewrites
  one.
- *Two tests, two payments, two placements, two invoices*: one and its rival,
  retake, replacement or credit note. *`Correct` = {44}* of 60: inside a discount
  tier, so that a price differs from the list price; that every tier is priced
  right is arithmetic of `Discount`, which the theorem leaves as it is.
- *Three slots, `MinSlots` 1*: the code asks for three slots in a round; rounds of one
  allow more than the code does and let three ids make up three rounds: one that is
  chosen from, one a reschedule deletes, one proposed beside it. *Sequences to 1*:
  before and after a reschedule; two reschedules may still overlap, both from 0.
  `SequenceNeverFalls` is defeated with sequences to 2.
- *Two vendors, contracts, percentages and days, one submission*: a contract ended
  before the joining and one in force, a base rate against a client's, a vendor
  who submitted against one who did not.
- *Two numbers and two slots* in Migrations: two candidates that meet in the UNIQUE
  of 0007, or one row of another table, since no other row meets another. Every
  revision is a state, with steps up and down between any of them.
- *Portal*: two clients with a founding administrator each and one user to be
  invited, one job, one candidate, one document. *Intake*: three candidates, so
  that two look-alikes can precede a third; all of them have a skill in common
  (`Skilled` = {TRUE}), which is when the scan can match. *Registrations*: two
  requests, two addresses. *Board*: two cards, two columns, two moves in flight,
  versions to 2. *Screens*: two writes to what a list shows; the tables of
  screens and hooks are the source's own. *Roster*: three moves.
- *Invoices*: one base whose taxes are exact in binary fractions and tell the rates
  apart, and one whose taxes are not: what `Telling` asks is true of one and false
  of the other.
- *Replay*: three rows, two tenants, one key. *Paper*: four questions of two levels,
  two options each, a paper of three, one edit.
- *`MaxAttempts` 2*: a first failure that leaves the row pending and the last one
  that gives it up. *`Batch` 1 or 2*: both smaller than a full queue.
- *Pages*: a time limit of two ticks, two answers, two charges, one fact per metric:
  before and after.
- Counters that only witness (`tries`, `charges`) stop at the largest value a
  property tells apart. Bounds are guards on what makes a counter grow, so what is
  reached is exact up to them.
- *Symmetry* is over threads, and over values that no definition tells apart. Where
  several parts share a run they share the permuted values too (a thread of one
  part is a row of another), so that few permutations serve them all; a part is
  symmetric in each of its sets, and what is permuted together leaves it so. Runs
  with liveness properties use none.

`CHECK_DEADLOCK FALSE` is set throughout: a bounded instance stops when its
versions, tests or payments are used up, and a service with nothing to do is not
stuck.

### Fairness

Safety runs assume none.

`sweeps` assumes that the scheduled runner is started again and again and that
some sweep which gets to its next step again and again eventually takes it (strong
fairness of each step, of one sweep or another, so that a process may die any
number of times but not all of them always). The code justifies it by the daily
schedule described in `scripts/run_commercial_jobs.py`. No fairness is assumed of
requests, of channels, or of the passing of a guarantee window.

`web` assumes that what is on its way goes on: the server answers a call or the
connection breaks (which counts as an answer), a browser handles what it has been
answered, a page's timer ticks and its effects run, an access token and a cached
figure expire. Weak fairness is enough, since each of these stays possible until
it happens. Nobody has to press, reload, log in or read, and no connection has to
hold. The timer of the test page starts its second anew whenever the candidate
answers (`take/[token]/page.tsx:96-100`), so that it ticks only because nobody answers
for ever: in the model answers are bounded (`MaxAnswers`), and `TestComesToRest` rests on that.

## What is proved

Every safety invariant and every action property that a passing run checks is
stated by a theorem, for any values of the constants but where an assumption
below says so, any number of threads among them. A composed property is proved
the way it is stated: an invariant of each part while it runs, and a lemma that
each step of the whole is one of that part.

| Module | Theorem | States | Assumes |
|---|---|---|---|
| PipelineProofs | `TypeCorrect`, `TimelineUnbroken`, `HoldsReopenInPlace`, `RepresentedWithConsent`, `RepresentedVetted`, `VerdictsBacked`, `TerminalIsFinal` | the invariants of Pipeline, and `ClosedForGood` | `HonestCallers` |
| | `ImplementsApplicationLife` | Pipeline implements ApplicationLife | `HonestCallers` |
| | `MergesTyped`, `NobodyFallsOut` | `MergeTypeOK`, `StillInPipeline` | - |
| AssessmentProofs | `VerdictsHold`, `OverridesHold` | `VerdictsKept`, `OverrideStands` | - |
| PlacementProofs | `PlacementsHold` | `PlacementsKept` | - |
| InterviewProofs | `InterviewsHold`, `ChosenAreReminded`, `ChoicesInTheirRound` | `InterviewsKept`, `ChosenIsReminded`, `ChoiceOfThisRound` | - |
| DuesProofs | `EnrollmentsHold`, `MigrationsHold` | `EnrollmentsKept`, `MigrationsKept` | - |
| | `CommissionsHold`, `DuesStepsHold` | `CommissionsKept`, `DuesSteps` | `DaysAndClients` |
| PeopleProofs | `PortalHolds`, `ReassignmentsMend` | `PortalKept`, `ReassignMends` | `FoundersKnown` |
| | `IntakeHolds` | `IntakeKept` | `IdsAreNumbers`, finitely many threads |
| | `GrantsHold` | `GrantsKept` | `NamesApart` |
| | `LeadsHold` | `LeadsKept` | `NullIsNoAccount`, finitely many threads |
| | `BoardHolds` | `BoardKept` | `BoardBounds`, `MaxWrites` a number |
| | `CampusHolds` | `CampusKept` | `MaxMoves` a number |
| RecordsProofs | `OffersHold`, `AmountsHold` | `OffersKept`, `AmountsKept` | `DatesApart`; `RatesAreNumbers` |
| | `AnswersHold` | `AnswersKept` | `RowsAreIds`, `PapersFinite`, `Edits` a number |
| | `NoticesHold`, `ErasureHolds` | `NoticesKept`, `ErasureKept` | `SweepersApart`; - |
| | `StepsHold` | `StepsKept` | `DatesApart`, `RatesAreNumbers`, `RowsAreIds` |
| WebProofs | `WebHolds` | `WebKept` | `NamesApart`, `BoundsAreNumbers` |

Beyond these, only the modules' own `ASSUME`s are used: bounds are numbers, the
SQL NULL is no id, and in Merge reviews form no cycle (a review is opened when the
later of the two candidates is created). The assumptions of the table say the
same kind of thing of modules that are instantiated: that NULL or a marker is no
member of a set of ids, that ids, days and rates are numbers, that sets the code
counts are finite, that sweeps and requests are different processes, and that the
portal's founding users have a binding. The one that says something of the world
is `HonestCallers` (`CallerLead = 0`: a caller sends only versions the API has
returned to it); it is needed, because the version a caller sends is compared
with the stored one in the UPDATE only, so that a caller who counts one ahead of
what it was given can match a row that its request never looked at. The theorems
about Merge do without it.

### The arguments

Hardly any of these properties is inductive, for one reason: a commit acts on a
stored row after checks on a copy. Each proof finds out what a copy may still be
relied on for.

**Pipeline.** `Snapshots`: the copy a request holds is never newer than the stored
row, equals it in stage and hold as long as the version has not moved, and a
consent it has seen is still there. So when the guarded UPDATE matches, the row is
the one that was checked, and the commit is a single `Legal` move
(`CommitsWhatItSaw`). Every step then changes the tables in one of four ways: not
at all, by a birth, by a consent, or by a legal move; each part of `IInv` is shown to
survive each of the four (`JournalStep`, `HoldStep`, `GateStep`, `VettedStep`).
`ImplementsLife` maps the same four to stuttering, `Apply`, `Consent` and `Move`.

**Merge.** A merge archives every row its candidate had when it was loaded, also
those that another merge has moved on since. `OneIsSafe`: a person who has a row
for a job has one that is live and that has come by no candidate whose rows a late
merge is yet to archive. `Became` says who somebody is by now, and `SamePerson` that
a row's present owner is what its first owner became. The oldest of a set of
candidates, which no review in it takes away, is where a chain must end.

**Assessments.** A copy of the application with the stored version is the stored
row, and a stay at the test is counted when it begins: a decision that moves the
application moves it off its test, and does so once a stay.

**Placements.** Rows are only added, a window that is over stays over, an event stays
emitted, a commission never becomes none again. No request relies on anything
else, a status least of all (`Tables`, `Free`, `AllReliable`, `Grows`).

**Interviews.** That one slot at most is chosen rests on the order in which statements
find the rows. `LockTable`: of two that found the same row, one waits for the other.
`Views`: a choice whose slot is still there has found everything that is chosen, so
it clears it. A choice keys its reminder with the sequence of its copy. Only a
reschedule writes the sequence; at its commit the rows its DELETE found are gone,
and their ids never come back, and all others are strays (`Reopening`). `Rounds`: as
long as the slot of a pending choice is stored and no stray, the sequence it loaded
is the stored one.

**Enrollment.** Five handlers write a seat from copies, none guarded. Two facts about
a seat never go away, that it has been priced and that it has been settled, and
no two requests hold one payment (`OwnPayment`).

**Vendors.** Submissions and contracts are never taken back and the candidates a
submission has named only grow, so what a resolver found still backs what it
writes. `SpecificRate` is about the moment it reads, and needs the resolver's levels
compared one by one.

**Migrations.** Rows are argued one by one. The revisions are a chain, and a step passes
one of them (`OneBorder`), so each table has one lemma per revision that touches it:
what `Up` makes of a row is a row of the next revision, what `Down` makes of it one
of the last (`UpFits`, `DownFits`). `Sound` is what the invariant needs of candidates:
the given number and nothing else, where the deployed release looks for it.

**Portal.** A row below a job names the job's client and an owner the job has had; a
job that has never changed hands has had one. Owners are active users of their
client because nobody is ever unbound or moved.

**Intake.** Each request between its flush and its commit can let in one look-alike
that the others do not see: unflagged candidates and requests of that kind together
are no more than the threads, whatever merges and erasures do.

**Registrations.** No row is deleted: an approval or an invitation can be traced to
what backed it when it was loaded (`GrantsBacked`, `CreatedByGrant`).

**Leads.** The audit log only grows, and the path to the stage a request loaded is in
it (`WayTo`). Clients of a lead and requests about to create one are no more than the
threads.

**Campus, Roster.** What was on offer when a seat was chosen stays in the history. No
move leads back to a status that a spent action accepts.

**Board, Screens.** A copy with a version is what the row was at that version; a copy the
server sends has every move that was settled before it was asked for. A fetch on
its way was asked after the last write told, or is followed by another (`Owing`), or
was overtaken.

**Offers, Invoices.** A date that is there stays there. An update writes a rate and its
amount together or neither, when the base tells rates apart: this is what makes
column-wise updates from stale copies safe, and `AmountsAlwaysMatch` is what
happens when it does not.

**Replay.** Outside the slots that are excused (a crash, an eviction, an unreachable
cache, an overlap) one request of a key is in flight at a time, and a row that was
made is the answer kept or about to be (`Orderly`).

**Notify.** A sweep's loaded count is below the calls made for the row, and calls only
grow: so no status overstates, whoever writes last.

**Erasure.** What a request knows of its subject is erased with the subject or was never
the subject's; an object that is gone cannot come back.

**Paper.** A shuffle of finitely many options reaches each of them, so the key's
position exists; even shares add up to no more than the paper's places.

**Session, TakePage, PayPage, Reports.** After a quiet logout no call in flight carries a
token. While no connection has broken, the one submission there is, is the one
the page awaits. While no payment was cut, at most one call pays, checks or fetches a
receipt: it holds the guard, or the page is at 'done'. What is cached or found is the tenant's, was true, and is no older
than the question it answers.

### What stays with TLC

- Liveness, which this prover cannot reach: `SessionComesToRest`, `TestComesToRest`,
  `EveryPressEnds`, `FiguresConverge`, `Settles`, `SelfHeals`. The small instances check
  them under the fairness above.
- What a recursive function computes for every input (induction over data). No
  theorem here needs it: numbers of rows are bounded by cardinalities, never by
  sums.
- The two violations, and the other rows of the next section.

Some properties are proved of the code as it is and not of what one would wish:
`UnflaggedBounded` and `ClientsBounded` bound a failure by the number of overlapping
requests (the run's bounds leave room for no more clients than that, the theorem's
do), `OnceUnlessExcused` names its excuses, `QuietLogoutHolds`, `ShownIsStored` and
`OneChargePerVisit` speak of a quiet network, `ReassignMends` and `CleaningErasure` of a
request that nothing overlaps. The next section has what they would be without.

## Where the code and its documents part

These are promises made in a docstring, a comment or a test that an overlap,
and in some cases a single request, defeats. Each is a definition at the end of
its module, so that TLC produces the schedule when it is named as an invariant or
property. Two have a run of their own and are findings in `PROJECT.json`; the
others were reproduced the same way.

| Definition | Promise | How an overlap defeats it |
|---|---|---|
| Pipeline `OneConsentRow` | `tests/test_pipeline.py:101-107`, one consent row | two requests both load `rtr_consent_at` NULL and both append (`staffing.py:386`) |
| Merge `ConsentBeforeClient` (run) | `pipeline.py:17-19`, consent before `submitted_to_client` | a merge copies the stage of the loser's row, not its consent (`pipeline.py:165`) |
| Merge `MovesWhatItChecked` | `pipeline.py:23-25`, "Concurrent movers cannot both win" | the adopted stage leaves the version alone, so a transition that checked the old stage still matches |
| Merge `LoginConflictFlagged` | `dup_reviews.py:182-184`, the conflict is flagged | two merges into one survivor both loaded it without a login (`:188`) |
| Merge `DismissedStayDistinct` | `dup_reviews.py:104`, both remain distinct people | the pending check is on a copy (`:109`); the later commit sets 'dismissed' over a merge |
| Merge `RetiredOwnNothingLive` | `dup_reviews.py:8`, `:20-21`, a loser shell | an application is filed for the loser after the merge listed them (`:153`) |
| Assessments `OneLiveTest` | `assessments.py:9`, one live test | two issues both find none (`:90`); nothing is UNIQUE |
| Assessments `WaivedOrGraded` | `assessments.py:153-154`, mutual exclusion | a submission that loaded the test before the waiver writes its score (`take.py:89`) |
| Assessments `WaiverOnRecord` | `assessments.py:150-152`, never indistinguishable | a snapshot rewrites the whole proctor document from its copy (`take.py:198`) |
| Assessments `VerdictStands` | `take.py:86-87`, a second submit returns the stored result | two submissions overlap; once the stage has moved no guarded UPDATE stops the second |
| Assessments `SubmittedOnce` | `take.py:12-13`, submitted once | a fetch that loaded 'issued' writes 'started' over 'submitted' (`:66-69`) |
| Placements `NoDoubleFee` | `placements.py:6`, no double fee | two placements of one application both find none (`:90`) |
| Placements `OneCompletionEach` (run) | `jobs.py:44-46`, can never double-emit | the status is tested by the SELECT, not by the UPDATE (`:48`) |
| Placements `BreachStands` | `jobs.py:37`, terminal facts | a sweep that loaded 'active' writes 'cleared' over a breach (`:52`) |
| Placements `OneReplacement` | `placements.py:198, 208`, one replacement | two requests both load 'breached' (`:207`) |
| Placements `CreditedEarnsNothing` | `vendor_mgmt.py:10-12`, both directions | an accrual and a credit note both find nothing of the other (`:212`) |
| Placements `PaidStaysPaid` | `vendor_mgmt.py:274` | a void that loaded 'accrued' overwrites 'paid' (`:275`) |
| Enrollment `OnePaidPayment` | `academy.py:674-677`, never a second payable row | two payments both find none (`:789`) |
| Enrollment `TerminalStays` | `academy_transitions.py:7` | a payment or a grade that loaded the row before a cancellation overwrites it |
| Enrollment `WaivedWithoutPayment` | `academy.py:748-749`, no payment | a payment and a waiver overlap |
| Enrollment `OneLiveEnrollment` | `academy.py:1179` | two applications for two cohorts of one course both find none live |
| Interviews `SequenceNeverFalls` | `ics.py:4`, bumped on every reschedule | it is bumped from a copy (`workflow.py:367`): a slow reschedule puts back a lower number |
| Interviews `OldSlotsWiped` | `workflow.py:361`, old slots wiped | slots proposed and committed between the DELETE (`:369`) and the commit (`:385`) survive; one chosen by a request that loaded the old sequence has no reminder under the new one |
| Interviews `RemindedOfTheTime` | `workflow.py:481-482`, a new reminder | a slot chosen again without a reschedule has the key of the first (`:494`) |
| Interviews `ScheduledAsChosen` | `workflow.py:459`, scheduled at that slot | the copy already held that time, so the column is not written (`:472`) over an update that committed meanwhile |
| Notify `SentOnce` | `notify.py:19-22`, never re-sends | a sweep dies after the channel took the row, or two sweeps load the same row |
| Notify `SentStaysSent` | `notify.py:175`, status guard | the slower of two sweeps writes 'failed' over 'sent' |
| Offers `ReleasedFromDraft` | `client_portal.py:259`, draft to released only | the status is checked on a copy (`:265`); staff decline or withdraw the draft before it commits |
| Offers `JoiningFixedByAcceptance` | `client_portal.py:292`, not after the candidate accepts | the acceptance commits between the check and the new date |
| Invoices `CreditIsNegative` | `placements.py:275`, negative fee mirror | an update of the credit note computes a total from a positive fee; no overlap needed |
| Invoices `TotalsAddUp` | `workflow.py:608`, recomputes totals | two updates each with one tax: the columns of both, the total of one |
| Invoices `AmountsAlwaysMatch` | `workflow.py:623` | an amount that no binary fraction expresses differs from its own copy, so every update writes it back beside a newer rate |
| Leads `OneClientPerLead` | `crm.py:258`, can never create a duplicate | two conversions both load the lead unconverted (`:266`) |
| Leads `TerminalIsFinal` | `crm.py:4-5`, won and lost terminal | a move that loaded the lead before it was closed commits after it |
| Registrations `RejectedGrantsNothing` | `models.py:354-355`, grants nothing | a rejection that loaded the request before its approval (`admin.py:236`) |
| Vendors `TrailSurvivesMerge` | `dup_reviews.py:18`, the submission is repointed | the placement is not, and its vendor's trail is no longer found |
| Vendors `UnnamedIsUnambiguous` | `vendor_mgmt.py:232`, specify the vendor | a second vendor's submission commits after the trail was read |
| Intake `LookAlikesFlagged` | `dedup.py:69`, one review for the best hit | two intakes that overlap do not see each other |
| Intake `ErasureScrubsLinked` | `erasure.py:80`, irreversibly scrub | a merge moved the login to a row with another address; the erasure matches addresses |
| Intake `OneRowPerLogin` | `readmodels.py:3-6`, never an error | a registered person registers again with another phone and PAN; no overlap needed |
| Portal `OwnersAgree` | `client_portal.py:385-386`, the old owner no longer sees it | a row filed while its job is reassigned keeps the former owner (`:397`) |
| Replay `OncePerKey` | `timeline.py:5-7`, never double-appends | two requests that overlap both miss; the answer is stored after the commit (`idempotency.py:30`) |
| Erasure `NoTextSurvives` | `erasure.py:109`, must not survive erasure | a confirmed upload that loaded the row before the erasure writes its text after it |
| Erasure `NoFileSurvives` | `erasure.py:67`, resume files are PII | superseded and unconfirmed uploads are in no column; no overlap needed |
| Erasure `TextIsOfFile` | `resumes.py:78`, the confirmed upload and its text | two confirmations write the key of one and the text of the other |
| Erasure `CompletedClearsHold` | `admin.py:154-155`, clears the hold | an approval that loaded the request before the hold: for it the column does not change, and is not written |
| Campus `NoSeatInDraft` | `academy.py:1182`, no applying to a draft | the course is taken back between the check (`:1183`) and the commit |
| Campus `SeatFoundFree` | `academy.py:1138`, dropped and cancelled are re-appliable | the same cohort's UNIQUE key refuses the student (`:1139`); no overlap needed |
| Session `OneAccount` | `auth.py:104-107`, both tokens set together for one account | a refresh is answered after somebody else has signed in |
| TakePage `ShownIsAlwaysStored` | `take.py:86-87`, returns the stored result | a submission after a lost connection overlaps the one still at the server |
| TakePage `TimeUpLeavesPaper` | `take/[token]/page.tsx:96` | an automatic submission that fails is not repeated and says nothing |
| PayPage `NeverAssumesFailure` | `pay/page.tsx:5-6`, never assume failure | a gateway's answer in the place of the server's is shown as a conflict |
| PayPage `ReceiptIsFree` | `pay/page.tsx:106`, no-op when already paid | a late grade of an older copy puts a waived enrollment back to 'offered', and asking for its receipt pays |
| PayPage `OneCharge` | `academy.py:676-677`, never a second payable row | after a reload during a slow payment the page offers to pay again |
| Reports `NeverOlder` | `reporting.py:14-15` | a slow read stores what it computed before a refresh |
| Screens `RefreshesItsLists` | `hooks.ts:204, 214, 223, 394`, refreshes its lists | a list's first fetch, or one of a list no page shows, is not asked again when it is overtaken |
| Roster `NoControlLingers` | `enrollments/[id]/page.tsx:98-101`, a refused control does not linger | the waiver's own 409 does not reload; no overlap needed |
| Migrations `EveryHoldReopens` | `pipeline.py:15`, back to its prior stage | 0024 leaves rows that were on hold without one, and a reopen answers 409 (`:120`) |
| Migrations `NothingLeftPlain` | `0008_candidate_pii_contract.py:8-9` | a number the former release stored after the backfill is dropped with its column |
| Migrations `StudentsRollBack` | `0034_academy_student_registration.py:18`, reversible | the rollback narrows a CHECK that a student's consent no longer fits |

Some smaller observations from the same reading.

- The academy status `tested` is in the vocabulary and never written.
- `Untold` of Screens lists the pairs of a mutation and a list it changes that no
  `onSuccess` refreshes: the timeline panel, the administrator's audit and lists,
  clients and jobs after a conversion, scorecards, overviews after a waiver.
- `useBrowseJobs` (`hooks.ts:494-501`) calls GET /jobs, which is for staff only
  (`staffing.py:277`).
- `anonymize_student` (`erasure.py:167-184`) is called by no endpoint.
- Of the migrations, one upgrade may be refused by a stored row (0007, when two
  rows have one number) and four rollbacks may (0009, 0010, 0034, 0035, which would
  narrow what a row may be); a rollback before 0006 gives up encrypted numbers, as
  it says. `UpgradesFit` and `RollbacksFit` say that these are all.

## What is abstracted, and what is not modelled

Left out of every guard: authentication, role and tenant checks, feature flags
and field validation (constant within a request, or refusals without effect).
A refusal of any kind is a request that is never posted. Formatting, audit rows
and HTTP status codes carry no state unless a property asks for them (a lead's
path is read from its audit log, a report's audit is a property). Papers and
answers are reduced, outside Paper, to the verdict or the number of right answers.
Time is reduced to facts that become true: a window has passed, a link has
expired, a cooldown is over. The candidate of an interview has an e-mail address
and the reminder template is active; without either, nobody is reminded and
`ChosenIsReminded` says nothing. Transactions run at READ COMMITTED, the database's
default. A bulk statement finds its rows and queues for them in one step, and those
who wait are served in the order they came: PostgreSQL takes the row locks one by
one, and what commits between two of those locks is not represented. The idempotency cache is in Replay only: elsewhere a
request without a key, or a retry it does not catch, is just one more request, so
the models allow everything it would prevent. In Intake all names are alike and
the score of the scan is a relation; in Board the callbacks given to one `mutate`
call, which React Query drops when a later one begins, are not represented.

Code outside the repository - Redis, React Query, the cookies and timers of the
browser, former releases - is modelled only as far as the repository relies on it.

Components that are not modelled, or partly, are listed with the reason in
`PROJECT.json`: tenancy and access (predicates over the caller's token), AI widgets
and parsing, timeline and audit log beyond the entries that matter above, read
models, documents, validation and encryption, the rest of the frontend, and
deployment. Of Erasure, the consent ledger is left out (it is only appended to), and
of Migrations the revisions that only add tables, columns or seeds.

## Plan

Written so far, in this order: StageGraph, Pipeline with ApplicationLife, Merge,
Assessments, Placements, Enrollment, Notify, Interviews, Portal, Offers, Invoices,
Leads, Registrations, Erasure, Session, TakePage, Vendors, Intake, Replay, Reports,
PayPage, Board, Campus, Screens, Roster, Paper, Migrations; and the proofs of all
that the runs check but liveness.

Next:

1. An abstract specification of a notice (queued, then sent, given up or left) that
   Notify implements, and one of a seat (priced, settled, active) that Enrollment
   implements, in the way Pipeline implements ApplicationLife.
2. The parts of liveness that are safety: that a fair sweep's next step takes away a
   row from what is pending, as action properties with proofs.
3. `ApplicationLife` for Assessments: that its application makes the same legal moves.

## Running

    tlc -workers 2 -config MCPipeline.cfg MCPipeline.tla
    tlapm PipelineProofs.tla

A run is the module and the configuration of one row of the table; each takes
under five minutes on two cores, and each proof module under half an hour.
