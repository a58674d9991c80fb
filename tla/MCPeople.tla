------------------------------ MODULE MCPeople ------------------------------
(***************************************************************************)
(* The parts that keep people and what is seen of them, for TLC: a         *)
(* behaviour is one of the client portal, the candidates' intake, the      *)
(* registration of clients, a lead, a pipeline board, the courses and      *)
(* cohorts of the academy, a browser's lists and one of its writes, or an  *)
(* administrator's page on one enrollment.  They share no state: while one *)
(* runs, the variables of the others alone are off.                        *)
(***************************************************************************)
EXTENDS TLC

CONSTANTS
  Client, User, hr, invited, rival, acme, other, Job, Candidate, Doc,          \* Portal
  Cand, Phone, Logins, Skilled,                                                \* Intake
  Card, Column, First, Move, MaxVersion,                                       \* Board
  Course, Slug, Cohort, Student, Identity,                                     \* Campus
  MaxWrites, MaxMoves,                                                         \* Screens, Roster
  Request, Email, Account, Worker                                              \* shared

FoundersOf == [u \in {hr, invited, rival} |->
                 CASE u = hr -> [role |-> "client_admin", client |-> acme]
                   [] u = rival -> [role |-> "client_admin", client |-> other]
                   [] u = invited -> [role |-> "none"]]

VARIABLES
  part, \* the part that runs
  binding, job, app, doc, held, cand, consent, reviews, request, login, account, granted,
  lead, trail, client, req, server, past, board, move, fetch, failed, mine, course,
  cohort, student, seat, offered, hook, query, truth, cache, mounted, call, owed, passed,
  status, moves, shown, modal, err, load, notice, told, pressed, stale

Po == INSTANCE Portal WITH Founders <- FoundersOf
In == INSTANCE Intake
Re == INSTANCE Registrations
Le == INSTANCE Leads
Bo == INSTANCE Board
Ca == INSTANCE Campus
Sc == INSTANCE Screens
Ro == INSTANCE Roster

vars == <<part, binding, job, app, doc, held, cand, consent, reviews, request, login,
          account, granted, lead, trail, client, req, server, past, board, move, fetch,
          failed, mine, course, cohort, student, seat, offered, hook, query, truth, cache,
          mounted, call, owed, passed, status, moves, shown, modal, err, load, notice,
          told, pressed, stale>>

Off == "off"

RestOfPortal == <<part, cand, consent, reviews, request, login, account, granted, lead,
                  trail, client, server, past, board, move, fetch, failed, mine, course,
                  cohort, student, seat, offered, hook, query, truth, cache, mounted, call,
                  owed, passed, status, moves, shown, modal, err, load, notice, told,
                  pressed, stale>>
RestOfIntake == <<part, binding, job, app, doc, held, request, account, granted, lead,
                  trail, client, server, past, board, move, fetch, failed, mine, course,
                  cohort, student, seat, offered, hook, query, truth, cache, mounted, call,
                  owed, passed, status, moves, shown, modal, err, load, notice, told,
                  pressed, stale>>
RestOfRegistrations == <<part, binding, job, app, doc, held, cand, consent, reviews, lead,
                         trail, client, server, past, board, move, fetch, failed, mine,
                         course, cohort, student, seat, offered, hook, query, truth, cache,
                         mounted, call, owed, passed, status, moves, shown, modal, err,
                         load, notice, told, pressed, stale>>
RestOfLeads == <<part, binding, job, app, doc, held, cand, consent, reviews, request,
                 login, account, granted, server, past, board, move, fetch, failed, mine,
                 course, cohort, student, seat, offered, hook, query, truth, cache,
                 mounted, call, owed, passed, status, moves, shown, modal, err, load,
                 notice, told, pressed, stale>>
RestOfBoard == <<part, binding, job, app, doc, held, cand, consent, reviews, request,
                 login, account, granted, lead, trail, client, req, course, cohort,
                 student, seat, offered, hook, query, truth, cache, mounted, call, owed,
                 passed, status, moves, shown, modal, err, load, notice, told, pressed,
                 stale>>
RestOfCampus == <<part, binding, job, app, doc, held, cand, reviews, request, login,
                  account, granted, lead, trail, client, server, past, board, move, fetch,
                  failed, mine, hook, query, truth, cache, mounted, call, owed, passed,
                  status, moves, shown, modal, err, load, notice, told, pressed, stale>>
RestOfScreens == <<part, binding, job, app, doc, held, cand, consent, reviews, request,
                   login, account, granted, lead, trail, client, req, server, past, board,
                   move, mine, course, cohort, student, seat, offered, status, moves,
                   shown, modal, err, load, notice, told, pressed, stale>>
RestOfRoster == <<part, binding, job, app, doc, held, cand, consent, reviews, request,
                  login, account, granted, lead, trail, client, req, server, past, board,
                  move, fetch, failed, mine, course, cohort, student, seat, offered, hook,
                  query, truth, cache, mounted, owed, passed>>

Init ==
  \/ /\ part = "portal" /\ Po!Init
     /\ cand = Off /\ consent = Off /\ reviews = Off /\ request = Off /\ login = Off
     /\ account = Off /\ granted = Off /\ lead = Off /\ trail = Off /\ client = Off
     /\ server = Off /\ past = Off /\ board = Off /\ move = Off /\ fetch = Off
     /\ failed = Off /\ mine = Off /\ course = Off /\ cohort = Off /\ student = Off
     /\ seat = Off /\ offered = Off /\ hook = Off /\ query = Off /\ truth = Off
     /\ cache = Off /\ mounted = Off /\ call = Off /\ owed = Off /\ passed = Off
     /\ status = Off /\ moves = Off /\ shown = Off /\ modal = Off /\ err = Off
     /\ load = Off /\ notice = Off /\ told = Off /\ pressed = Off /\ stale = Off
  \/ /\ part = "intake" /\ In!Init
     /\ binding = Off /\ job = Off /\ app = Off /\ doc = Off /\ held = Off
     /\ request = Off /\ account = Off /\ granted = Off /\ lead = Off /\ trail = Off
     /\ client = Off /\ server = Off /\ past = Off /\ board = Off /\ move = Off
     /\ fetch = Off /\ failed = Off /\ mine = Off /\ course = Off /\ cohort = Off
     /\ student = Off /\ seat = Off /\ offered = Off /\ hook = Off /\ query = Off
     /\ truth = Off /\ cache = Off /\ mounted = Off /\ call = Off /\ owed = Off
     /\ passed = Off /\ status = Off /\ moves = Off /\ shown = Off /\ modal = Off
     /\ err = Off /\ load = Off /\ notice = Off /\ told = Off /\ pressed = Off
     /\ stale = Off
  \/ /\ part = "registrations" /\ Re!Init
     /\ binding = Off /\ job = Off /\ app = Off /\ doc = Off /\ held = Off /\ cand = Off
     /\ consent = Off /\ reviews = Off /\ lead = Off /\ trail = Off /\ client = Off
     /\ server = Off /\ past = Off /\ board = Off /\ move = Off /\ fetch = Off
     /\ failed = Off /\ mine = Off /\ course = Off /\ cohort = Off /\ student = Off
     /\ seat = Off /\ offered = Off /\ hook = Off /\ query = Off /\ truth = Off
     /\ cache = Off /\ mounted = Off /\ call = Off /\ owed = Off /\ passed = Off
     /\ status = Off /\ moves = Off /\ shown = Off /\ modal = Off /\ err = Off
     /\ load = Off /\ notice = Off /\ told = Off /\ pressed = Off /\ stale = Off
  \/ /\ part = "leads" /\ Le!Init
     /\ binding = Off /\ job = Off /\ app = Off /\ doc = Off /\ held = Off /\ cand = Off
     /\ consent = Off /\ reviews = Off /\ request = Off /\ login = Off /\ account = Off
     /\ granted = Off /\ server = Off /\ past = Off /\ board = Off /\ move = Off
     /\ fetch = Off /\ failed = Off /\ mine = Off /\ course = Off /\ cohort = Off
     /\ student = Off /\ seat = Off /\ offered = Off /\ hook = Off /\ query = Off
     /\ truth = Off /\ cache = Off /\ mounted = Off /\ call = Off /\ owed = Off
     /\ passed = Off /\ status = Off /\ moves = Off /\ shown = Off /\ modal = Off
     /\ err = Off /\ load = Off /\ notice = Off /\ told = Off /\ pressed = Off
     /\ stale = Off
  \/ /\ part = "board" /\ Bo!Init
     /\ binding = Off /\ job = Off /\ app = Off /\ doc = Off /\ held = Off /\ cand = Off
     /\ consent = Off /\ reviews = Off /\ request = Off /\ login = Off /\ account = Off
     /\ granted = Off /\ lead = Off /\ trail = Off /\ client = Off /\ req = Off
     /\ course = Off /\ cohort = Off /\ student = Off /\ seat = Off /\ offered = Off
     /\ hook = Off /\ query = Off /\ truth = Off /\ cache = Off /\ mounted = Off
     /\ call = Off /\ owed = Off /\ passed = Off /\ status = Off /\ moves = Off
     /\ shown = Off /\ modal = Off /\ err = Off /\ load = Off /\ notice = Off
     /\ told = Off /\ pressed = Off /\ stale = Off
  \/ /\ part = "campus" /\ Ca!Init
     /\ binding = Off /\ job = Off /\ app = Off /\ doc = Off /\ held = Off /\ cand = Off
     /\ reviews = Off /\ request = Off /\ login = Off /\ account = Off /\ granted = Off
     /\ lead = Off /\ trail = Off /\ client = Off /\ server = Off /\ past = Off
     /\ board = Off /\ move = Off /\ fetch = Off /\ failed = Off /\ mine = Off
     /\ hook = Off /\ query = Off /\ truth = Off /\ cache = Off /\ mounted = Off
     /\ call = Off /\ owed = Off /\ passed = Off /\ status = Off /\ moves = Off
     /\ shown = Off /\ modal = Off /\ err = Off /\ load = Off /\ notice = Off
     /\ told = Off /\ pressed = Off /\ stale = Off
  \/ /\ part = "screens" /\ Sc!Init
     /\ binding = Off /\ job = Off /\ app = Off /\ doc = Off /\ held = Off /\ cand = Off
     /\ consent = Off /\ reviews = Off /\ request = Off /\ login = Off /\ account = Off
     /\ granted = Off /\ lead = Off /\ trail = Off /\ client = Off /\ req = Off
     /\ server = Off /\ past = Off /\ board = Off /\ move = Off /\ mine = Off
     /\ course = Off /\ cohort = Off /\ student = Off /\ seat = Off /\ offered = Off
     /\ status = Off /\ moves = Off /\ shown = Off /\ modal = Off /\ err = Off
     /\ load = Off /\ notice = Off /\ told = Off /\ pressed = Off /\ stale = Off
  \/ /\ part = "roster" /\ Ro!Init
     /\ binding = Off /\ job = Off /\ app = Off /\ doc = Off /\ held = Off /\ cand = Off
     /\ consent = Off /\ reviews = Off /\ request = Off /\ login = Off /\ account = Off
     /\ granted = Off /\ lead = Off /\ trail = Off /\ client = Off /\ req = Off
     /\ server = Off /\ past = Off /\ board = Off /\ move = Off /\ fetch = Off
     /\ failed = Off /\ mine = Off /\ course = Off /\ cohort = Off /\ student = Off
     /\ seat = Off /\ offered = Off /\ hook = Off /\ query = Off /\ truth = Off
     /\ cache = Off /\ mounted = Off /\ owed = Off /\ passed = Off

Next ==
  \/ part = "portal" /\ Po!Next /\ UNCHANGED RestOfPortal
  \/ part = "intake" /\ In!Next /\ UNCHANGED RestOfIntake
  \/ part = "registrations" /\ Re!Next /\ UNCHANGED RestOfRegistrations
  \/ part = "leads" /\ Le!Next /\ UNCHANGED RestOfLeads
  \/ part = "board" /\ Bo!Next /\ UNCHANGED RestOfBoard
  \/ part = "campus" /\ Ca!Next /\ UNCHANGED RestOfCampus
  \/ part = "screens" /\ Sc!Next /\ UNCHANGED RestOfScreens
  \/ part = "roster" /\ Ro!Next /\ UNCHANGED RestOfRoster

Spec == Init /\ [][Next]_vars

Symmetry == Permutations(Worker)

-----------------------------------------------------------------------------

(* client_portal.py:3-8, 383-414: a portal session is shown rows of its    *)
(* own client and, if it is a hiring manager's, of jobs once theirs; and   *)
(* without overlaps a job's pipeline has the job's owner.                  *)
PortalKept == part = "portal" => Po!PortalKept

(* staffing.py:148-176, register.py:86-160, dedup.py:69: who registered    *)
(* consented, what looks alike is flagged but for overlaps, and a phone    *)
(* number is a live row's.                                                 *)
IntakeKept == part = "intake" => In!IntakeKept

(* register.py:199-233, admin.py:226-290: a login of a client is granted   *)
(* by one approval, or by a colleague whose own was.                       *)
GrantsKept == part = "registrations" => Re!GrantsKept

(* crm.py:3-5, 79-99, 250-293: a lead is won by its whole path, converted  *)
(* only then, and a conversion stays.                                      *)
LeadsKept == part = "leads" => Le!LeadsKept

(* hooks.ts:439-475 and the onSuccess of every other mutation: a board     *)
(* that has come to rest shows what the server has and forgets no move of  *)
(* its browser, and so does a list of the writes that tell it.             *)
BoardKept == /\ (part = "board" => Bo!BoardKept)
             /\ (part = "screens" => Sc!ScreensKept)

(* academy.py:123-144, 201-216, 483-568, 1142-1219: what is public is what *)
(* was published, a seat was on offer when it was chosen, and a name has   *)
(* one row; and a page on an enrollment (admin/academy/enrollments/[id])   *)
(* offers the moves the server accepts, and makes each once.               *)
CampusKept == /\ (part = "campus" => Ca!CampusKept)
              /\ (part = "roster" => Ro!RosterKept)

(* client_portal.py:383-386: a reassignment that nothing overlaps leaves   *)
(* every row of the job's pipeline with one owner.                         *)
ReassignMends == [][part = "portal" => Po!MendingReassign]_vars
=============================================================================
