------------------------------- MODULE Portal -------------------------------
(***************************************************************************)
(* Whose jobs and documents a client-portal session sees                   *)
(* (backend/app/routers/client_portal.py over TenantScopedRepo.base_query).*)
(*                                                                         *)
(* Every row of a job's pipeline carries its own copy of the client and of *)
(* the owning client user, taken from the row it was created under; only a *)
(* reassignment rewrites the copies.  Handlers load rows, then commit: an  *)
(* INSERT carries what was loaded, an UPDATE names the columns that differ *)
(* from the loaded ones, by primary key.                                   *)
(***************************************************************************)
EXTENDS FiniteSets

CONSTANTS
  Client,    \* client companies
  User,      \* login users who are, or may become, portal users
  Founders,  \* User -> the binding it starts with, or Unbound
  Job,       \* ids of jobs rows
  Candidate, \* an application's key is <job, candidate>: they are UNIQUE
  Doc,       \* ids of submissions, offers and interviews rows
  Worker     \* threads serving requests

VARIABLES
  binding, \* User -> its active client_users row
  job,     \* Job -> the jobs row
  app,     \* App -> the applications row
  doc,     \* Doc -> the row in its table
  held,    \* Job -> every owner the row has had (history)
  req      \* Worker -> the request it serves and the rows it loaded

vars == <<binding, job, app, doc, held, req>>

tables == <<binding, job, app, doc, held>>

App == Job \X Candidate

Kinds == {"submission", "offer", "interview"}

TeamRoles == {"client_admin", "client_manager"}

Null == "null"         \* owner_user_id or client_id of a job nobody set it for
NoRow == [row |-> FALSE]
Unbound == [role |-> "none"]
Idle == [op |-> "idle"]

Init == /\ binding = Founders
        /\ job = [j \in Job |-> NoRow]
        /\ app = [a \in App |-> NoRow]
        /\ doc = [d \in Doc |-> NoRow]
        /\ held = [j \in Job |-> {}]
        /\ req = [w \in Worker |-> Idle]

Exists(r) == r # NoRow

Active(u, c) == binding[u] # Unbound /\ binding[u].client = c

Begin(w, r) == /\ req[w] = Idle
               /\ req' = [req EXCEPT ![w] = r]
               /\ UNCHANGED tables

Finish(w) == req' = [req EXCEPT ![w] = Idle]

\* A dead worker or a refused insert: nothing is left behind.
Fail(w) == req[w] # Idle /\ Finish(w) /\ UNCHANGED tables

-----------------------------------------------------------------------------
(* What base_query lets a portal session see.                              *)

\* Fault: the owner scope is forgotten, or filters every role but managers.
ClientScope(u, r) == Active(u, r.client)

Visible(u, r) ==
  /\ Active(u, r.client)
  /\ binding[u].role = "client_manager" => r.owner = u

\* The endpoints' answers, as the rows behind what they list.
JobsView(u) == {j \in Job : Exists(job[j]) /\ Visible(u, job[j])}

PipelineView(u) == {a \in App : Exists(app[a]) /\ Visible(u, app[a])}

DocsView(u, kind) ==
  {d \in Doc : Exists(doc[d]) /\ doc[d].kind = kind /\ Visible(u, doc[d])}

InterviewsView(u) == DocsView(u, "interview")

OffersView(u) == DocsView(u, "offer")

SubmissionsView(u) == DocsView(u, "submission")

\* The jobs of which a session sees the row itself, an application or a
\* document: the overview counts the same rows the lists show.
JobsBehind(u) ==
  JobsView(u)
    \cup {a[1] : a \in PipelineView(u)}
    \cup {doc[d].app[1] : d \in SubmissionsView(u) \cup InterviewsView(u) \cup OffersView(u)}

-----------------------------------------------------------------------------
(* Jobs, applications and documents are created.                           *)

Insert(j, r) == /\ ~Exists(job[j])
                /\ job' = [job EXCEPT ![j] = r]
                /\ held' = [held EXCEPT ![j] = {r.owner}]
                /\ UNCHANGED <<binding, app, doc, req>>

\* POST /client/jobs, by any portal user: nothing is loaded.
PostJob(u, j) == /\ binding[u] # Unbound
                 /\ Insert(j, [row |-> TRUE, client |-> binding[u].client, owner |-> u])

\* POST /jobs, by staff.
CreateJob(c, j) == Insert(j, [row |-> TRUE, client |-> c, owner |-> Null])

PostApplication(w, a) == /\ Exists(job[a[1]])
                         /\ ~Exists(app[a])
                         /\ Begin(w, [op |-> "apply", app |-> a, seen |-> job[a[1]]])

CommitApplication(w) ==
  LET r == req[w] IN
  /\ r.op = "apply"
  /\ ~Exists(app[r.app])
  /\ app' = [app EXCEPT ![r.app] = r.seen]
  /\ Finish(w)
  /\ UNCHANGED <<binding, job, doc, held>>

\* POST /applications/{id}/submissions, offers or interviews.
PostDocument(w, a, kind) ==
  Exists(app[a]) /\ Begin(w, [op |-> "file", app |-> a, kind |-> kind, seen |-> app[a]])

\* Fault: the document is filed without the owner of its application.
Orphaned(r) == [row |-> TRUE, kind |-> r.kind, app |-> r.app,
                client |-> r.seen.client, owner |-> Null]

Filed(r) == [row |-> TRUE, kind |-> r.kind, app |-> r.app,
             client |-> r.seen.client, owner |-> r.seen.owner]

CommitDocument(w, d) == /\ req[w].op = "file"
                        /\ ~Exists(doc[d])
                        /\ doc' = [doc EXCEPT ![d] = Filed(req[w])]
                        /\ Finish(w)
                        /\ UNCHANGED <<binding, job, app, held>>

-----------------------------------------------------------------------------
(* POST /client/team and POST /client/jobs/{id}/reassign, by HR only.      *)

\* Fault: the role is stored under the name the screens give it.
Titled(h, role) == [role |-> "hr", client |-> binding[h].client]

Invited(h, role) == [role |-> role, client |-> binding[h].client]

\* The new login is bound to HR's own client; an email in use is refused.
AddTeammate(h, u, role) ==
  /\ binding[h] # Unbound
  /\ binding[h].role = "client_admin"
  /\ binding[u] = Unbound
  /\ binding' = [binding EXCEPT ![u] = Invited(h, role)]
  /\ UNCHANGED <<job, app, doc, held, req>>

\* Fault: any portal user may become the owner, whoever's it is.
AnyOwner(h, u) == binding[u] # Unbound

EligibleOwner(h, u) == Active(u, binding[h].client)

\* HR loads the job and, by the job, its applications and their documents.
PostReassign(w, h, j, u) ==
  /\ binding[h] # Unbound
  /\ binding[h].role = "client_admin"
  /\ Exists(job[j])
  /\ Visible(h, job[j])
  /\ EligibleOwner(h, u)
  /\ Begin(w, [op |-> "reassign", job |-> j, to |-> u,
               seen |-> [job |-> job, app |-> app, doc |-> doc],
               apps |-> {a \in PipelineView(h) : a[1] = j},
               docs |-> {d \in OffersView(h) \cup InterviewsView(h) \cup SubmissionsView(h) :
                           doc[d].app \in {a \in PipelineView(h) : a[1] = j}}])

\* Fault: one of the three document tables is left out of the cascade.
WithoutInterviews(r) == {d \in r.docs : doc[d].kind # "interview"}

Cascade(r) == r.docs

\* A row whose loaded owner is the new one is not written.
Owned(table, seen, ids, u) ==
  [x \in DOMAIN table |->
     IF x \in ids /\ seen[x].owner # u THEN [table[x] EXCEPT !.owner = u] ELSE table[x]]

CommitReassign(w) ==
  LET r == req[w] IN
  /\ r.op = "reassign"
  /\ job' = Owned(job, r.seen.job, {r.job}, r.to)
  /\ app' = Owned(app, r.seen.app, r.apps, r.to)
  /\ doc' = Owned(doc, r.seen.doc, Cascade(r), r.to)
  /\ held' = [held EXCEPT ![r.job] = @ \cup {job'[r.job].owner}]
  /\ Finish(w)
  /\ UNCHANGED binding

-----------------------------------------------------------------------------

Next == \/ \E u \in User, j \in Job : PostJob(u, j)
        \/ \E c \in Client \cup {Null}, j \in Job : CreateJob(c, j)
        \/ \E h, u \in User, role \in TeamRoles : AddTeammate(h, u, role)
        \/ \E w \in Worker :
             \/ \E a \in App : PostApplication(w, a)
             \/ CommitApplication(w)
             \/ \E a \in App, kind \in Kinds : PostDocument(w, a, kind)
             \/ \E d \in Doc : CommitDocument(w, d)
             \/ \E h, u \in User, j \in Job : PostReassign(w, h, j, u)
             \/ CommitReassign(w)
             \/ Fail(w)

Spec == Init /\ [][Next]_vars

-----------------------------------------------------------------------------

Binding == [role : TeamRoles, client : Client] \cup {Unbound}

Owners == User \cup {Null}

Owning == [row : {TRUE}, client : Client \cup {Null}, owner : Owners]

Document == [row : {TRUE}, kind : Kinds, app : App, client : Client \cup {Null}, owner : Owners]

PortalTypeOK == /\ binding \in [User -> Binding]
                /\ job \in [Job -> Owning \cup {NoRow}]
                /\ app \in [App -> Owning \cup {NoRow}]
                /\ doc \in [Doc -> Document \cup {NoRow}]
                /\ held \in [Job -> SUBSET Owners]

(* client_portal.py:3-8 and repositories.py:78-81: a session is shown      *)
(* nothing but its own client's jobs and their pipelines and, if it is a   *)
(* hiring manager's, nothing of a job that manager never owned, however    *)
(* reassignments overlap the creation of what it shows.                    *)
PortalBoundary ==
  \A u \in User : \A j \in JobsBehind(u) :
    /\ job[j].client = binding[u].client
    /\ binding[u].role = "client_manager" => u \in held[j]

(* client_portal.py:386-387, "New owner must be an active user of THIS     *)
(* client": so is the owner on every row, copied or cascaded.              *)
OwnersBound ==
  /\ \A j \in Job : Exists(job[j]) => job[j].owner = Null \/ Active(job[j].owner, job[j].client)
  /\ \A a \in App : Exists(app[a]) => app[a].owner = Null \/ Active(app[a].owner, app[a].client)
  /\ \A d \in Doc : Exists(doc[d]) => doc[d].owner = Null \/ Active(doc[d].owner, doc[d].client)

Agrees(j) == /\ \A a \in App : a[1] = j /\ Exists(app[a]) => app[a].owner = job[j].owner
             /\ \A d \in Doc : Exists(doc[d]) /\ doc[d].app[1] = j => doc[d].owner = job[j].owner

Undisturbed(w) == req[w].seen = [job |-> job, app |-> app, doc |-> doc]

MendingReassign ==
  \A w \in Worker, j \in Job :
     CommitReassign(w) /\ req[w].job = j /\ Undisturbed(w) => Agrees(j)'

(* client_portal.py:383-386, "Cascades owner_user_id onto the job's whole  *)
(* pipeline": a reassignment that nothing overlapped leaves every row of   *)
(* the job with one owner, whatever earlier overlaps had left behind.      *)
ReassignMends == [][MendingReassign]_vars

(* A job that has had one owner only, or none, has no row that says        *)
(* otherwise: without a reassignment there is nothing to mend.             *)
NeverMovedAgrees ==
  \A j \in Job : Exists(job[j]) /\ Cardinality(held[j]) = 1 => Agrees(j)

(* What is always true of jobs, what is under them, and who sees it.       *)
PortalKept == PortalTypeOK /\ PortalBoundary /\ OwnersBound /\ NeverMovedAgrees

-----------------------------------------------------------------------------
(* What the documents expect and overlapping requests defeat: see the      *)
(* README, 'Where the code and its documents part'.                        *)

(* client_portal.py:385-386, "so the new owner sees it and the old one no  *)
(* longer does".                                                           *)
OwnersAgree == \A j \in Job : Exists(job[j]) => Agrees(j)
=============================================================================
