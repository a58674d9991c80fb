------------------------------- MODULE Campus -------------------------------
(***************************************************************************)
(* The academy's catalogue, its public pages, its students and their       *)
(* applications, up to the enrollment that Enrollment takes further        *)
(* (backend/app/routers/academy.py, academy_deps.py).                      *)
(*                                                                         *)
(* Handlers load rows, check them, then commit.  An UPDATE names only the  *)
(* columns whose assigned value differs from the loaded one; UNIQUE keys   *)
(* refuse what overlapping requests have both found free.                  *)
(***************************************************************************)
EXTENDS Naturals, FiniteSets

CONSTANTS
  Course,   \* ids of courses rows
  Slug,     \* their public names
  Cohort,   \* ids of cohorts rows
  Student,  \* ids of students rows
  Identity, \* what a student registers with: email, phone and college id
  Worker    \* threads serving requests

VARIABLES
  course,  \* Course -> the row
  cohort,  \* Cohort -> the row
  student, \* Student -> the row
  consent, \* students with a data_processing row in the ledger
  seat,    \* the enrollments: UNIQUE on cohort and student
  offered, \* courses that have been published (history)
  req      \* Worker -> the request it serves and what it loaded

vars == <<course, cohort, student, consent, seat, offered, req>>

NoRow == [row |-> FALSE]
Idle == [op |-> "idle"]

Seats == Cohort \X Student

Init == /\ course = [k \in Course |-> NoRow]
        /\ cohort = [h \in Cohort |-> NoRow]
        /\ student = [s \in Student |-> NoRow]
        /\ consent = {}
        /\ seat = [x \in Seats |-> NoRow]
        /\ offered = {}
        /\ req = [w \in Worker |-> Idle]

Exists(r) == r # NoRow

Begin(w, r) == /\ req[w] = Idle
               /\ req' = [req EXCEPT ![w] = r]
               /\ UNCHANGED <<course, cohort, student, consent, seat, offered>>

Finish(w) == req' = [req EXCEPT ![w] = Idle]

\* A refused insert or a dead worker: the transaction rolls back.
Fail(w) == /\ req[w] # Idle
           /\ Finish(w)
           /\ UNCHANGED <<course, cohort, student, consent, seat, offered>>

-----------------------------------------------------------------------------
(* Courses and cohorts, by staff.                                          *)

\* Fault: the slug of another course is only looked up.
SlugLookedUp(g) == TRUE

\* UNIQUE(tenant_id, slug)
SlugUnused(g) == \A k \in Course : Exists(course[k]) => course[k].slug # g

\* POST /courses
PostCourse(w, g) == /\ \A k \in Course : Exists(course[k]) => course[k].slug # g
                    /\ Begin(w, [op |-> "create", slug |-> g])

CommitCourse(w, k) ==
  /\ req[w].op = "create"
  /\ ~Exists(course[k])
  /\ SlugUnused(req[w].slug)
  /\ course' = [course EXCEPT ![k] = [row |-> TRUE, slug |-> req[w].slug,
                                      public |-> FALSE, status |-> "draft"]]
  /\ Finish(w)
  /\ UNCHANGED <<cohort, student, consent, seat, offered>>

\* POST /courses/{id}/publish
PostPublish(w, k, public) ==
  /\ Exists(course[k])
  /\ Begin(w, [op |-> "publish", of |-> k, public |-> public, seen |-> course[k]])

\* Fault: a course that is taken back stays active.
PublishedOnly(c, r) == [c EXCEPT !.public = r.public,
                                 !.status = IF r.public THEN "active" ELSE @]

\* Both columns change or neither: what was loaded agreed.
Published(c, r) == IF r.seen.public = r.public THEN c
                   ELSE [c EXCEPT !.public = r.public,
                                  !.status = IF r.public THEN "active" ELSE "draft"]

CommitPublish(w) ==
  LET r == req[w] IN
  /\ r.op = "publish"
  /\ course' = [course EXCEPT ![r.of] = Published(@, r)]
  /\ offered' = IF course'[r.of].public THEN offered \cup {r.of} ELSE offered
  /\ Finish(w)
  /\ UNCHANGED <<cohort, student, consent, seat>>

\* POST /courses/{id}/cohorts; no endpoint changes the status later.
CreateCohort(k, h, status) ==
  /\ Exists(course[k])
  /\ ~Exists(cohort[h])
  /\ cohort' = [cohort EXCEPT ![h] = [row |-> TRUE, of |-> k, status |-> status]]
  /\ UNCHANGED <<course, student, consent, seat, offered, req>>

-----------------------------------------------------------------------------
(* What anyone is shown.                                                   *)

\* public_courses and public_course_detail.
Public == {k \in Course : Exists(course[k]) /\ course[k].public /\ course[k].status = "active"}

Applyable == {"planned", "open"}

\* public_course_cohorts.
OpenCohorts(k) == {h \in Cohort : Exists(cohort[h]) /\ cohort[h].of = k
                                  /\ cohort[h].status \in Applyable}

-----------------------------------------------------------------------------
(* POST /register/student, with captcha, consent and a stored ID card.     *)

PostStudent(w, i) == /\ \A s \in Student : Exists(student[s]) => student[s].who # i
                     /\ Begin(w, [op |-> "register", who |-> i])

\* Fault: an identity is only looked up.
WhoLookedUp(i) == TRUE

\* UNIQUE on email, phone_bidx and student_id.
WhoUnused(i) == \A s \in Student : Exists(student[s]) => student[s].who # i

CommitStudent(w, s) ==
  /\ req[w].op = "register"
  /\ ~Exists(student[s])
  /\ WhoUnused(req[w].who)
  /\ student' = [student EXCEPT ![s] = [row |-> TRUE, who |-> req[w].who]]
  /\ consent' = consent \cup {s}
  /\ Finish(w)
  /\ UNCHANGED <<course, cohort, seat, offered>>

-----------------------------------------------------------------------------
(* POST /students/me/enrollments, by a student who has signed in.          *)

LiveIn(k, s) == {h \in Cohort : Exists(seat[<<h, s>>]) /\ cohort[h].of = k
                                /\ seat[<<h, s>>].status = "applied"}

\* Fault: a course in draft can be applied to.
EvenDrafts == {k \in Course : Exists(course[k])}

OpenCourses == Public

\* Fault: any open cohort will do.
AnyOpenCohort(k) == UNION {OpenCohorts(j) : j \in Course}

CohortsToPick(k) == OpenCohorts(k)

PostApply(w, s, k, h) ==
  /\ Exists(student[s])
  /\ k \in OpenCourses
  /\ h \in CohortsToPick(k)
  /\ LiveIn(k, s) = {}
  /\ Begin(w, [op |-> "apply", by |-> s, to |-> k, seat |-> <<h, s>>])

\* UNIQUE(cohort_id, student_id), of cancelled rows too.
SeatFree(x) == ~Exists(seat[x])

CommitApply(w) ==
  LET r == req[w] IN
  /\ r.op = "apply"
  /\ SeatFree(r.seat)
  /\ seat' = [seat EXCEPT ![r.seat] = [row |-> TRUE, to |-> r.to, status |-> "applied"]]
  /\ Finish(w)
  /\ UNCHANGED <<course, cohort, student, consent, offered>>

\* POST /enrollments/{id}/status, one of Enrollment's moves.
Cancel(x) == /\ Exists(seat[x])
             /\ seat[x].status = "applied"
             /\ seat' = [seat EXCEPT ![x].status = "cancelled"]
             /\ UNCHANGED <<course, cohort, student, consent, offered, req>>

-----------------------------------------------------------------------------

CohortStatuses == {"planned", "open", "running", "completed", "cancelled"}

Next == \/ \E w \in Worker :
             \/ \E g \in Slug : PostCourse(w, g)
             \/ \E k \in Course : CommitCourse(w, k) \/ \E b \in BOOLEAN : PostPublish(w, k, b)
             \/ CommitPublish(w)
             \/ \E i \in Identity : PostStudent(w, i)
             \/ \E s \in Student : CommitStudent(w, s)
             \/ \E s \in Student, k \in Course, h \in Cohort : PostApply(w, s, k, h)
             \/ CommitApply(w)
             \/ Fail(w)
        \/ \E k \in Course, h \in Cohort, status \in CohortStatuses : CreateCohort(k, h, status)
        \/ \E x \in Seats : Cancel(x)

Spec == Init /\ [][Next]_vars

-----------------------------------------------------------------------------

CampusTypeOK ==
  /\ course \in [Course -> {NoRow} \cup [row : {TRUE}, slug : Slug, public : BOOLEAN,
                                         status : {"draft", "active"}]]
  /\ cohort \in [Cohort -> {NoRow} \cup [row : {TRUE}, of : Course, status : CohortStatuses]]
  /\ student \in [Student -> {NoRow} \cup [row : {TRUE}, who : Identity]]
  /\ consent \subseteq Student
  /\ seat \in [Seats -> {NoRow} \cup [row : {TRUE}, to : Course,
                                      status : {"applied", "cancelled"}]]
  /\ offered \subseteq Course

(* academy.py:206-207, "both parts of the public browse condition": the two *)
(* columns agree however publishing and taking back overlap, so that no    *)
(* course is half public, and a draft is seen by nobody.                   *)
PublishAgrees ==
  \A k \in Course : Exists(course[k]) => (course[k].public <=> course[k].status = "active")

(* academy.py:1177-1178, "published course, cohort belongs to it": every   *)
(* enrollment, however late its commit, is in an open cohort of the course *)
(* it names, of a student with consent, and that course was once public.   *)
SeatsWereOffered ==
  \A x \in Seats : Exists(seat[x]) =>
    /\ seat[x].to \in offered
    /\ cohort[x[1]].of = seat[x].to
    /\ cohort[x[1]].status \in Applyable
    /\ x[2] \in consent

(* academy.py:130 and 512-515 look slugs and students up; overlapping  *)
(* requests are told apart by the keys: the public page of a slug, and the *)
(* sign-in of an address, find one row or none.                            *)
OneRowPerName ==
  /\ \A j, k \in Course : Exists(course[j]) /\ Exists(course[k])
                          /\ course[j].slug = course[k].slug => j = k
  /\ \A r, s \in Student : Exists(student[r]) /\ student[r] = student[s] => r = s

(* What is always true of courses, cohorts and the seats taken in them.    *)
CampusKept == CampusTypeOK /\ PublishAgrees /\ SeatsWereOffered /\ OneRowPerName

-----------------------------------------------------------------------------
(* What the documents expect and the code, or overlapping requests, defeat:*)
(* see the README, 'Where the code and its documents part'.                *)

(* academy.py:1182, "no applying to a draft": the course is taken back     *)
(* between the check and the commit.                                       *)
NoSeatInDraft == [][\A x \in Seats : ~Exists(seat[x]) /\ Exists(seat'[x]) =>
                      seat'[x].to \in Public]_vars

(* academy.py:1138, "dropped/cancelled are re-appliable": one who applies  *)
(* again to the cohort he cancelled passes every check but the UNIQUE key. *)
SeatFoundFree == \A w \in Worker : req[w].op = "apply" =>
                   (Exists(seat[req[w].seat]) => seat[req[w].seat].status = "applied")
=============================================================================
