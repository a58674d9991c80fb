--------------------------- MODULE Registrations ---------------------------
(***************************************************************************)
(* Companies ask for an account (backend/app/routers/register.py), an      *)
(* admin approves or rejects (admin.py), and HR users invite colleagues    *)
(* into the same table of logins (client_portal.py).                       *)
(*                                                                         *)
(* Handlers load rows, check them, then commit: users are UNIQUE on tenant *)
(* and email, and a second insert of an email fails with its transaction.  *)
(* The login, its client_users binding and its consent are one commit.     *)
(***************************************************************************)
EXTENDS Integers, FiniteSets

CONSTANTS
  Request, \* ids of client_registration_requests rows
  Email,   \* what people sign in with; several requests may name one
  Account, \* ids of clients rows
  Worker   \* threads serving requests

VARIABLES
  request, \* Request -> the row
  login,   \* Email -> the users row and its binding, and what granted it
  account, \* Account -> NoRow, or the request a clients row was created for
  granted, \* Request -> how many approvals have committed (history)
  req      \* Worker -> the request it serves and the row it loaded

vars == <<request, login, account, granted, req>>

NoRow == [row |-> FALSE]
Staff == "staff"       \* who created a client no request was for
Invitation == "invitation"
Idle == [op |-> "idle"]

\* Staff may have created clients before any company asks.
Init == /\ request = [r \in Request |-> NoRow]
        /\ login = [e \in Email |-> NoRow]
        /\ account \in [Account -> {NoRow, [row |-> TRUE, for |-> Staff]}]
        /\ granted = [r \in Request |-> 0]
        /\ req = [w \in Worker |-> Idle]

Exists(r) == r # NoRow

Begin(w, r) == /\ req[w] = Idle
               /\ req' = [req EXCEPT ![w] = r]
               /\ UNCHANGED <<request, login, account, granted>>

Finish(w) == req' = [req EXCEPT ![w] = Idle]

\* A dead worker or a refused insert: nothing is left behind.
Fail(w) == req[w] # Idle /\ Finish(w) /\ UNCHANGED <<request, login, account, granted>>
-----------------------------------------------------------------------------

\* POST /register/client, by anyone: the request grants nothing.
PostRegister(r, e) ==
  /\ ~Exists(request[r])
  /\ request' = [request EXCEPT ![r] = [row |-> TRUE, email |-> e, status |-> "pending"]]
  /\ UNCHANGED <<login, account, granted, req>>

\* Fault: an approval does not mind that the email was taken meanwhile.
UncheckedApproval(q) == q.op = "approve" \/ ~Exists(login[q.email])

\* Fault: an invitation takes over the login that it finds.
UncheckedInvite(q) == q.op = "invite" \/ ~Exists(login[q.email])

Unused(q) == ~Exists(login[q.email])

\* POST /admin/client-registrations/{id}/approve, into an existing client...
PostApprove(w, r, c) ==
  /\ Exists(request[r])
  /\ request[r].status = "pending"
  /\ Exists(account[c])
  /\ ~Exists(login[request[r].email])
  /\ Begin(w, [op |-> "approve", of |-> r, email |-> request[r].email, into |-> {c}])

\* ... or into one it creates.
PostApproveNew(w, r) ==
  /\ Exists(request[r])
  /\ request[r].status = "pending"
  /\ ~Exists(login[request[r].email])
  /\ Begin(w, [op |-> "approve", of |-> r, email |-> request[r].email, into |-> {}])

\* Fault: the role is stored under the name the screens give it.
Titled(c, r) == [row |-> TRUE, account |-> c, role |-> "hr", by |-> r]

Bound(c, r) == [row |-> TRUE, account |-> c, role |-> "client_admin", by |-> r]

CommitApprove(w, c) ==
  LET q == req[w] IN
  /\ q.op = "approve"
  /\ Unused(q)
  /\ IF q.into = {} THEN /\ ~Exists(account[c])
                         /\ account' = [account EXCEPT ![c] = [row |-> TRUE, for |-> q.of]]
     ELSE c \in q.into /\ UNCHANGED account
  /\ login' = [login EXCEPT ![q.email] = Bound(c, q.of)]
  /\ request' = [request EXCEPT ![q.of].status = "approved"]
  /\ granted' = [granted EXCEPT ![q.of] = @ + 1]
  /\ Finish(w)

\* POST /admin/client-registrations/{id}/reject.
PostReject(w, r) == /\ Exists(request[r])
                    /\ request[r].status = "pending"
                    /\ Begin(w, [op |-> "reject", of |-> r])

CommitReject(w) ==
  /\ req[w].op = "reject"
  /\ request' = [request EXCEPT ![req[w].of].status = "rejected"]
  /\ Finish(w)
  /\ UNCHANGED <<login, account, granted>>

-----------------------------------------------------------------------------
(* POST /client/team: HR invites a colleague.                              *)

PostTeammate(w, h, e, role) ==
  /\ Exists(login[h])
  /\ login[h].role = "client_admin"
  /\ ~Exists(login[e])
  /\ Begin(w, [op |-> "invite", by |-> h, email |-> e, role |-> role])

\* Fault: the login is bound to the client the request names.
BoundAnywhere(q, c) == TRUE

\* The client of HR's own binding, which never changes.
BoundToOwn(q, c) == c = login[q.by].account

CommitTeammate(w, c) ==
  LET q == req[w] IN
  /\ q.op = "invite"
  /\ Unused(q)
  /\ BoundToOwn(q, c)
  /\ login' = [login EXCEPT ![q.email] =
                 [row |-> TRUE, account |-> c, role |-> q.role, by |-> Invitation]]
  /\ Finish(w)
  /\ UNCHANGED <<request, account, granted>>

-----------------------------------------------------------------------------

Roles == {"client_admin", "client_manager"}

Next == \/ \E r \in Request, e \in Email : PostRegister(r, e)
        \/ \E w \in Worker :
             \/ \E r \in Request, c \in Account : PostApprove(w, r, c)
             \/ \E r \in Request : PostApproveNew(w, r)
             \/ \E c \in Account : CommitApprove(w, c)
             \/ \E r \in Request : PostReject(w, r)
             \/ CommitReject(w)
             \/ \E h, e \in Email, role \in Roles : PostTeammate(w, h, e, role)
             \/ \E c \in Account : CommitTeammate(w, c)
             \/ Fail(w)

Spec == Init /\ [][Next]_vars

-----------------------------------------------------------------------------

RegistrationsTypeOK ==
  /\ request \in [Request -> [row : {TRUE}, email : Email,
                             status : {"pending", "approved", "rejected"}] \cup {NoRow}]
  /\ login \in [Email -> [row : {TRUE}, account : Account, role : Roles,
                         by : Request \cup {Invitation}] \cup {NoRow}]
  /\ account \in [Account -> [row : {TRUE}, for : Request \cup {Staff}] \cup {NoRow}]

(* admin.py:210-212, "link the registrant to a client + activate their     *)
(* login": whatever overlaps, an approved request has the login that this  *)
(* approval made, and its company is a client.                             *)
ApprovedHasLogin ==
  \A r \in Request :
    Exists(request[r]) /\ request[r].status = "approved" =>
      /\ Exists(login[request[r].email])
      /\ login[request[r].email].by = r
      /\ Exists(account[login[request[r].email].account])

(* admin.py:235-237 looks the email up before it inserts the login: only   *)
(* the UNIQUE key keeps two approvals that loaded one pending request from *)
(* granting twice and from creating the company twice.                     *)
OneGrantPerRequest ==
  \A r \in Request :
    /\ granted[r] <= 1
    /\ Cardinality({c \in Account : Exists(account[c]) /\ account[c].for = r}) <= 1

(* admin.py:212, "Only this explicit approval grants a client a scoped     *)
(* session": every login of a client, invited by whatever chain of         *)
(* colleagues, goes back to a login of that client that an admin approved. *)
RootedInApproval ==
  \A e \in Email : Exists(login[e]) =>
    \E h \in Email : /\ Exists(login[h])
                     /\ login[h].account = login[e].account
                     /\ login[h].by \in Request
                     /\ granted[login[h].by] > 0

(* What is always true of registration requests and the logins they grant. *)
GrantsKept ==
  /\ RegistrationsTypeOK
  /\ ApprovedHasLogin
  /\ OneGrantPerRequest
  /\ RootedInApproval

-----------------------------------------------------------------------------
(* What the documents expect and overlapping requests defeat: see the      *)
(* README, 'Where the code and its documents part'.                        *)

(* models.py:354-355, a request "grants NOTHING"; a rejection that loaded  *)
(* it before an approval leaves a rejected request with a live login.      *)
RejectedGrantsNothing ==
  \A r \in Request :
    Exists(request[r]) /\ request[r].status = "rejected" => granted[r] = 0
=============================================================================
