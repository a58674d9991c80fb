---------------------------- MODULE PeopleProofs ----------------------------
(***************************************************************************)
(* Theorems about the parts of MCPeople, for any values of its constants   *)
(* but where an assumption says so.  The parts share no state, so each     *)
(* invariant speaks of one part while that part runs.                      *)
(*                                                                         *)
(* Registrations: no row is deleted, so an approval and an invitation can  *)
(* always be traced to what backed them when they were loaded.             *)
(* Leads: the moves that led to the stage a request loaded are in the      *)
(* audit log, which only grows; a client is created once by a request.     *)
(* Intake: each request in flight can let in one look-alike, and no other. *)
(* Campus: what was on offer when a seat was chosen was offered for good.  *)
(* Roster: no move leads back to a status a spent action accepts.          *)
(* Board: a copy with a version is the row at that version, and a copy the *)
(* server sends has every move that was settled.                           *)
(* Screens: a fetch on its way was asked after the last write told, or is  *)
(* followed by another, or was overtaken.                                  *)
(* Portal: copies of a row name its client and an owner the job has had.   *)
(***************************************************************************)
EXTENDS MCPeople, Integers, FiniteSetTheorems, TLAPS

-----------------------------------------------------------------------------
(* Registrations.                                                          *)

NamesApart == Request \cap {Re!Staff, Re!Invitation} = {}

RequestRow == [row : {TRUE}, email : Email, status : {"pending", "approved", "rejected"}]
LoginRow == [row : {TRUE}, account : Account, role : Re!Roles, by : Request \cup {Re!Invitation}]
AccountRow == [row : {TRUE}, for : Request \cup {Re!Staff}]

GrantTables == /\ Re!RegistrationsTypeOK
               /\ granted \in [Request -> {0, 1}]
               /\ req = [w \in Worker |-> req[w]]

\* Whoever granted and invited can still be found.
GrantsBacked ==
  /\ \A r \in Request : granted[r] # 0 =>
       Re!Exists(request[r]) /\ Re!Exists(login[request[r].email])
  /\ \A e \in Email : Re!Exists(login[e]) =>
       /\ Re!Exists(account[login[e].account])
       /\ login[e].by \in Request => granted[login[e].by] # 0

\* A company is created for a request by its approval, which is one.
CreatedByGrant ==
  /\ \A c \in Account :
       Re!Exists(account[c]) /\ account[c].for \in Request => granted[account[c].for] # 0
  /\ \A c, d \in Account :
       Re!Exists(account[c]) /\ Re!Exists(account[d]) /\ account[c].for = account[d].for =>
         c = d \/ account[c].for = Re!Staff

\* What a request loaded, that stays true.
GrantLoaded(w) ==
  LET q == req[w] IN
  /\ q.op = "approve" => /\ q.of \in Request
                         /\ Re!Exists(request[q.of])
                         /\ q.email = request[q.of].email
                         /\ \A c \in q.into : c \in Account /\ Re!Exists(account[c])
  /\ q.op = "reject" => q.of \in Request /\ Re!Exists(request[q.of])
  /\ q.op = "invite" => /\ q.by \in Email
                        /\ Re!Exists(login[q.by])
                        /\ q.email \in Email
                        /\ q.role \in Re!Roles

GrantsLoaded == \A w \in Worker : GrantLoaded(w)

GrantsInv == /\ GrantTables
             /\ GrantsBacked
             /\ CreatedByGrant
             /\ GrantsLoaded
             /\ Re!ApprovedHasLogin
             /\ Re!RootedInApproval

\* Rows of requests, logins and clients are never deleted, nor given away.
GrantsGrow ==
  /\ \A r \in Request : Re!Exists(request[r]) =>
       Re!Exists(request'[r]) /\ request'[r].email = request[r].email
  /\ \A e \in Email : Re!Exists(login[e]) => login'[e] = login[e]
  /\ \A c \in Account : Re!Exists(account[c]) => account'[c] = account[c]

LEMMA GrantsStart ==
  ASSUME NamesApart, Re!Init
  PROVE  GrantsInv
  <1>1. GrantTables
    <2>1. [row |-> TRUE, for |-> Re!Staff] \in AccountRow
      BY DEF AccountRow
    <2>2. account \in [Account -> AccountRow \cup {Re!NoRow}]
      BY <2>1 DEF Re!Init
    <2> QED
      BY <2>2 DEF Re!Init, GrantTables, Re!RegistrationsTypeOK, AccountRow
  <1>2. \A r \in Request : ~Re!Exists(request[r]) /\ granted[r] = 0
    BY DEF Re!Init, Re!Exists
  <1>3. \A e \in Email : ~Re!Exists(login[e])
    BY DEF Re!Init, Re!Exists
  <1>4. \A c \in Account : Re!Exists(account[c]) => account[c].for = Re!Staff
    BY DEF Re!Init, Re!Exists, Re!NoRow
  <1>5. Re!Staff \notin Request
    BY DEF NamesApart
  <1>6. GrantsLoaded
    BY DEF Re!Init, Re!Idle, GrantsLoaded, GrantLoaded
  <1>7. GrantsBacked
    BY <1>2, <1>3 DEF GrantsBacked
  <1>8. CreatedByGrant
    BY <1>4, <1>5 DEF CreatedByGrant
  <1> QED
    BY <1>1, <1>2, <1>3, <1>6, <1>7, <1>8 DEF GrantsInv, Re!ApprovedHasLogin, Re!RootedInApproval

\* What a request has loaded survives every step but its own.
LEMMA GrantStaysLoaded ==
  ASSUME GrantsInv, GrantsGrow, NEW w \in Worker, req'[w] = req[w]
  PROVE  GrantLoaded(w)'
  <1> PICK q : q = req[w]
    OBVIOUS
  <1>1. GrantLoaded(w) /\ q = req[w] /\ q = req'[w]
    BY DEF GrantsInv, GrantsLoaded
  <1> QED
    BY <1>1 DEF GrantLoaded, GrantsGrow, Re!Exists

\* A new request relies on what it has just read.
LEMMA GrantStarts ==
  ASSUME GrantsInv, NEW w \in Worker, NEW q, Re!Begin(w, q),
         UNCHANGED <<request, login, account, granted>> => GrantLoaded(w)'
  PROVE  GrantsInv'
  <1>1. /\ UNCHANGED <<request, login, account, granted>>
        /\ req' = [req EXCEPT ![w] = q]
    BY DEF Re!Begin
  <1>2. GrantTables'
    BY <1>1 DEF GrantsInv, GrantTables, Re!RegistrationsTypeOK
  <1>3. GrantsGrow
    BY <1>1 DEF GrantsGrow
  <1>4. \A v \in Worker : GrantLoaded(v)'
    <2> TAKE v \in Worker
    <2>1. CASE v = w
      BY <2>1, <1>1
    <2>2. CASE v # w
      <3>1. req'[v] = req[v]
        BY <2>2, <1>1 DEF GrantsInv, GrantTables
      <3> QED
        BY <3>1, <1>3, GrantStaysLoaded
    <2> QED
      BY <2>1, <2>2
  <1> QED
    BY <1>1, <1>2, <1>4 DEF GrantsInv, GrantsBacked, CreatedByGrant, GrantsLoaded,
       Re!ApprovedHasLogin, Re!RootedInApproval

\* A commit leaves the other requests' rows as they need them.
LEMMA GrantFinishes ==
  ASSUME GrantsInv, GrantsGrow, NEW w \in Worker, Re!Finish(w)
  PROVE  GrantsLoaded' /\ req' = [v \in Worker |-> req'[v]]
  <1>1. req' = [v \in Worker |-> IF v = w THEN Re!Idle ELSE req[v]]
    BY DEF Re!Finish, GrantsInv, GrantTables
  <1>2. \A v \in Worker : GrantLoaded(v)'
    <2> TAKE v \in Worker
    <2>1. CASE v = w
      BY <2>1, <1>1 DEF GrantLoaded, Re!Idle
    <2>2. CASE v # w
      BY <2>2, <1>1, GrantStaysLoaded
    <2> QED
      BY <2>1, <2>2
  <1> QED
    BY <1>1, <1>2 DEF GrantsLoaded

\* POST /register/client.
LEMMA Registering ==
  ASSUME GrantsInv, NEW r \in Request, NEW e \in Email, Re!PostRegister(r, e)
  PROVE  GrantsInv'
  <1> PICK row : row = [row |-> TRUE, email |-> e, status |-> "pending"]
    OBVIOUS
  <1>1. /\ request' = [request EXCEPT ![r] = row]
        /\ UNCHANGED <<login, account, granted, req>>
        /\ ~Re!Exists(request[r])
    BY DEF Re!PostRegister
  <1>2. row \in RequestRow /\ row.status = "pending" /\ Re!Exists(row)
    BY DEF RequestRow, Re!Exists, Re!NoRow
  <1>3. /\ request \in [Request -> RequestRow \cup {Re!NoRow}]
        /\ request' \in [Request -> RequestRow \cup {Re!NoRow}]
    BY <1>1, <1>2 DEF GrantsInv, GrantTables, Re!RegistrationsTypeOK, RequestRow
  <1>4. request'[r] = row /\ \A q \in Request \ {r} : request'[q] = request[q]
    BY <1>1, <1>3
  <1>5. GrantTables'
    BY <1>1, <1>3 DEF GrantsInv, GrantTables, Re!RegistrationsTypeOK, RequestRow
  <1>6. GrantsGrow
    BY <1>1, <1>4 DEF GrantsGrow
  <1>7. GrantsLoaded'
    BY <1>1, <1>6, GrantStaysLoaded DEF GrantsLoaded
  <1>8. GrantsBacked'
    BY <1>1, <1>4 DEF GrantsInv, GrantsBacked
  <1>9. Re!ApprovedHasLogin'
    BY <1>1, <1>2, <1>4 DEF GrantsInv, Re!ApprovedHasLogin
  <1> QED
    BY <1>1, <1>5, <1>7, <1>8, <1>9 DEF GrantsInv, CreatedByGrant, Re!RootedInApproval

LEMMA Rejecting ==
  ASSUME GrantsInv, NEW w \in Worker, Re!CommitReject(w)
  PROVE  GrantsInv'
  <1> PICK r : r = req[w].of
    OBVIOUS
  <1>1. /\ request' = [request EXCEPT ![r].status = "rejected"]
        /\ UNCHANGED <<login, account, granted>>
        /\ Re!Finish(w)
    BY DEF Re!CommitReject
  <1>2. r \in Request /\ Re!Exists(request[r])
    BY DEF GrantsInv, GrantsLoaded, GrantLoaded, Re!CommitReject
  <1>3. /\ request \in [Request -> RequestRow \cup {Re!NoRow}]
        /\ request[r] \in RequestRow
    BY <1>2 DEF GrantsInv, GrantTables, Re!RegistrationsTypeOK, RequestRow, Re!Exists
  <1> PICK row : row = [request[r] EXCEPT !.status = "rejected"]
    OBVIOUS
  <1>4. row \in RequestRow /\ row.status = "rejected" /\ row.email = request[r].email /\ Re!Exists(row)
    BY <1>3 DEF RequestRow, Re!Exists, Re!NoRow
  <1>5. request' = [request EXCEPT ![r] = row]
    BY <1>1
  <1>6. /\ request' \in [Request -> RequestRow \cup {Re!NoRow}]
        /\ request'[r] = row
        /\ \A q \in Request \ {r} : request'[q] = request[q]
    BY <1>3, <1>4, <1>5, <1>2
  <1>7. GrantsGrow
    BY <1>1, <1>4, <1>6 DEF GrantsGrow
  <1>8. GrantTables'
    BY <1>1, <1>6, <1>7, GrantFinishes DEF GrantsInv, GrantTables, Re!RegistrationsTypeOK,
       RequestRow
  <1>9. GrantsLoaded'
    BY <1>1, <1>7, GrantFinishes
  <1>10. GrantsBacked'
    BY <1>1, <1>7 DEF GrantsInv, GrantsBacked, GrantsGrow
  <1>11. Re!ApprovedHasLogin'
    BY <1>1, <1>4, <1>6 DEF GrantsInv, Re!ApprovedHasLogin
  <1> QED
    BY <1>1, <1>8, <1>9, <1>10, <1>11 DEF GrantsInv, CreatedByGrant, Re!RootedInApproval

LEMMA Inviting ==
  ASSUME NamesApart, GrantsInv, NEW w \in Worker, NEW c \in Account, Re!CommitTeammate(w, c)
  PROVE  GrantsInv'
  <1> PICK q : q = req[w]
    OBVIOUS
  <1> PICK row : row = [row |-> TRUE, account |-> c, role |-> q.role, by |-> Re!Invitation]
    OBVIOUS
  <1>1. /\ login' = [login EXCEPT ![q.email] = row]
        /\ UNCHANGED <<request, account, granted>>
        /\ Re!Finish(w)
        /\ ~Re!Exists(login[q.email])
        /\ c = login[q.by].account
    BY DEF Re!CommitTeammate, Re!Unused, Re!BoundToOwn
  <1>2. /\ q.by \in Email /\ Re!Exists(login[q.by])
        /\ q.email \in Email
        /\ q.role \in Re!Roles
    BY DEF GrantsInv, GrantsLoaded, GrantLoaded, Re!CommitTeammate
  <1>3. row \in LoginRow /\ row.by \notin Request /\ Re!Exists(row) /\ row.account = c
    BY <1>2 DEF LoginRow, Re!Exists, Re!NoRow, NamesApart
  <1>4. login \in [Email -> LoginRow \cup {Re!NoRow}]
    BY DEF GrantsInv, GrantTables, Re!RegistrationsTypeOK, LoginRow
  <1>5. /\ login' \in [Email -> LoginRow \cup {Re!NoRow}]
        /\ login'[q.email] = row
        /\ \A e \in Email \ {q.email} : login'[e] = login[e]
    BY <1>1, <1>2, <1>3, <1>4
  <1>6. GrantsGrow
    BY <1>1, <1>5 DEF GrantsGrow
  <1>7. GrantTables'
    BY <1>1, <1>5, <1>6, GrantFinishes DEF GrantsInv, GrantTables, Re!RegistrationsTypeOK,
       LoginRow
  <1>8. GrantsLoaded'
    BY <1>1, <1>6, GrantFinishes
  <1>9. GrantsBacked'
    <2>1. \A r \in Request : granted'[r] # 0 =>
            Re!Exists(request'[r]) /\ Re!Exists(login'[request'[r].email])
      BY <1>1, <1>3, <1>5 DEF GrantsInv, GrantsBacked
    <2>2. \A e \in Email : Re!Exists(login'[e]) =>
            /\ Re!Exists(account'[login'[e].account])
            /\ login'[e].by \in Request => granted'[login'[e].by] # 0
      BY <1>1, <1>2, <1>3, <1>5 DEF GrantsInv, GrantsBacked
    <2> QED
      BY <2>1, <2>2 DEF GrantsBacked
  <1>10. Re!ApprovedHasLogin'
    <2>1. \A r \in Request : Re!Exists(request[r]) => request[r].email \in Email
      BY DEF GrantsInv, GrantTables, Re!RegistrationsTypeOK, Re!Exists
    <2> QED
      BY <1>1, <1>5, <2>1 DEF GrantsInv, Re!ApprovedHasLogin, Re!Exists
  <1>11. Re!RootedInApproval'
    <2>1. \A e \in Email : Re!Exists(login[e]) =>
            \E h \in Email : /\ Re!Exists(login'[h])
                             /\ login'[h].account = login[e].account
                             /\ login'[h].by \in Request
                             /\ granted'[login'[h].by] > 0
      BY <1>1, <1>6 DEF GrantsInv, Re!RootedInApproval, GrantsGrow
    <2> QED
      BY <1>1, <1>2, <1>3, <1>5, <2>1 DEF Re!RootedInApproval
  <1> QED
    BY <1>1, <1>7, <1>8, <1>9, <1>10, <1>11 DEF GrantsInv, CreatedByGrant

LEMMA Approving ==
  ASSUME NamesApart, GrantsInv, NEW w \in Worker, NEW c \in Account, Re!CommitApprove(w, c)
  PROVE  GrantsInv'
  <1> PICK q : q = req[w]
    OBVIOUS
  <1> PICK r : r = q.of
    OBVIOUS
  <1> PICK row : row = Re!Bound(c, r)
    OBVIOUS
  <1>1. /\ login' = [login EXCEPT ![q.email] = row]
        /\ request' = [request EXCEPT ![r].status = "approved"]
        /\ granted' = [granted EXCEPT ![r] = @ + 1]
        /\ Re!Finish(w)
        /\ ~Re!Exists(login[q.email])
        /\ \/ /\ ~Re!Exists(account[c])
              /\ account' = [account EXCEPT ![c] = [row |-> TRUE, for |-> r]]
           \/ c \in q.into /\ account' = account
    BY DEF Re!CommitApprove, Re!Unused
  <1>2. /\ r \in Request /\ Re!Exists(request[r])
        /\ q.email = request[r].email
        /\ \A d \in q.into : d \in Account /\ Re!Exists(account[d])
    BY DEF GrantsInv, GrantsLoaded, GrantLoaded, Re!CommitApprove
  <1>3. granted[r] = 0
    BY <1>1, <1>2 DEF GrantsInv, GrantsBacked
  <1>4. /\ request \in [Request -> RequestRow \cup {Re!NoRow}]
        /\ request[r] \in RequestRow
        /\ q.email \in Email
    BY <1>2 DEF GrantsInv, GrantTables, Re!RegistrationsTypeOK, RequestRow, Re!Exists
  <1> PICK asked : asked = [request[r] EXCEPT !.status = "approved"]
    OBVIOUS
  <1>5. /\ asked \in RequestRow /\ asked.email = q.email
        /\ Re!Exists(asked)
    BY <1>2, <1>4 DEF RequestRow, Re!Exists, Re!NoRow
  <1>6. /\ request' \in [Request -> RequestRow \cup {Re!NoRow}]
        /\ request'[r] = asked
        /\ \A s \in Request \ {r} : request'[s] = request[s]
    BY <1>1, <1>2, <1>4, <1>5
  <1>7. /\ row \in LoginRow /\ Re!Exists(row)
        /\ row.account = c /\ row.by = r
    BY <1>2 DEF Re!Bound, LoginRow, Re!Exists, Re!NoRow, Re!Roles
  <1>8. /\ login' \in [Email -> LoginRow \cup {Re!NoRow}]
        /\ login'[q.email] = row
        /\ \A e \in Email \ {q.email} : login'[e] = login[e]
    BY <1>1, <1>4, <1>7 DEF GrantsInv, GrantTables, Re!RegistrationsTypeOK, LoginRow
  <1>9. /\ granted' \in [Request -> {0, 1}]
        /\ granted'[r] = 1
        /\ \A s \in Request \ {r} : granted'[s] = granted[s]
    BY <1>1, <1>2, <1>3 DEF GrantsInv, GrantTables
  <1>10. /\ account' \in [Account -> AccountRow \cup {Re!NoRow}]
         /\ Re!Exists(account'[c])
         /\ \A d \in Account \ {c} : account'[d] = account[d]
         /\ \/ account'[c] = account[c]
            \/ ~Re!Exists(account[c]) /\ account'[c].for = r
    <2>1. account \in [Account -> AccountRow \cup {Re!NoRow}]
      BY DEF GrantsInv, GrantTables, Re!RegistrationsTypeOK, AccountRow
    <2> PICK made : made = [row |-> TRUE, for |-> r]
      OBVIOUS
    <2>2. made \in AccountRow /\ Re!Exists(made) /\ made.for = r
      BY <1>2 DEF AccountRow, Re!Exists, Re!NoRow
    <2> QED
      BY <1>1, <1>2, <2>1, <2>2
  <1>11. GrantsGrow
    BY <1>1, <1>2, <1>5, <1>6, <1>8, <1>10 DEF GrantsGrow
  <1>12. GrantTables'
    BY <1>1, <1>6, <1>8, <1>9, <1>10, <1>11, GrantFinishes
       DEF GrantTables, Re!RegistrationsTypeOK, RequestRow, LoginRow, AccountRow
  <1>13. GrantsLoaded'
    BY <1>1, <1>11, GrantFinishes
  <1>14. GrantsBacked'
    <2>1. \A s \in Request : granted'[s] # 0 =>
            Re!Exists(request'[s]) /\ Re!Exists(login'[request'[s].email])
      <3> SUFFICES ASSUME NEW s \in Request, granted'[s] # 0
                   PROVE  Re!Exists(request'[s]) /\ Re!Exists(login'[request'[s].email])
        OBVIOUS
      <3>1. CASE s = r
        BY <3>1, <1>5, <1>6, <1>7, <1>8
      <3>2. CASE s # r
        <4>1. /\ request'[s] = request[s]
              /\ Re!Exists(request[s]) /\ Re!Exists(login[request[s].email])
          BY <3>2, <1>6, <1>9 DEF GrantsInv, GrantsBacked
        <4>2. request[s].email \in Email
          BY <4>1 DEF GrantsInv, GrantTables, Re!RegistrationsTypeOK, Re!Exists
        <4> QED
          BY <4>1, <4>2, <1>7, <1>8
      <3> QED
        BY <3>1, <3>2
    <2>2. \A e \in Email : Re!Exists(login'[e]) =>
            /\ Re!Exists(account'[login'[e].account])
            /\ login'[e].by \in Request => granted'[login'[e].by] # 0
      <3>1. \A e \in Email : Re!Exists(login[e]) => login[e].account \in Account
        BY DEF GrantsInv, GrantTables, Re!RegistrationsTypeOK, Re!Exists
      <3> QED
        BY <1>7, <1>8, <1>9, <1>10, <3>1 DEF GrantsInv, GrantsBacked
    <2> QED
      BY <2>1, <2>2 DEF GrantsBacked
  <1>15. CreatedByGrant'
    <2>1. \A d \in Account :
            Re!Exists(account'[d]) /\ account'[d].for \in Request => granted'[account'[d].for] # 0
      BY <1>9, <1>10 DEF GrantsInv, CreatedByGrant
    <2>2. \A d \in Account : Re!Exists(account[d]) => account[d].for # r
      BY <1>2, <1>3 DEF GrantsInv, CreatedByGrant
    <2>3. \A d, e \in Account :
            Re!Exists(account'[d]) /\ Re!Exists(account'[e]) /\ account'[d].for = account'[e].for =>
              d = e \/ account'[d].for = Re!Staff
      BY <1>10, <2>2 DEF GrantsInv, CreatedByGrant
    <2> QED
      BY <2>1, <2>3 DEF CreatedByGrant
  <1>16. Re!ApprovedHasLogin'
    <2> SUFFICES ASSUME NEW s \in Request, Re!Exists(request'[s]), request'[s].status = "approved"
                 PROVE  /\ Re!Exists(login'[request'[s].email])
                        /\ login'[request'[s].email].by = s
                        /\ Re!Exists(account'[login'[request'[s].email].account])
      BY DEF Re!ApprovedHasLogin
    <2>1. CASE s = r
      BY <2>1, <1>5, <1>6, <1>7, <1>8, <1>10
    <2>2. CASE s # r
      <3>1. /\ request'[s] = request[s]
            /\ request[s].email \in Email
        BY <2>2, <1>6 DEF GrantsInv, GrantTables, Re!RegistrationsTypeOK, Re!Exists
      <3>2. /\ Re!Exists(login[request[s].email])
            /\ login[request[s].email].by = s
            /\ Re!Exists(account[login[request[s].email].account])
        BY <3>1 DEF GrantsInv, Re!ApprovedHasLogin
      <3>3. login[request[s].email].account \in Account
        BY <3>1, <3>2 DEF GrantsInv, GrantTables, Re!RegistrationsTypeOK, Re!Exists
      <3> QED
        BY <3>1, <3>2, <3>3, <1>11 DEF GrantsGrow
    <2> QED
      BY <2>1, <2>2
  <1>17. Re!RootedInApproval'
    <2>1. ASSUME NEW e \in Email, Re!Exists(login[e])
          PROVE  \E h \in Email : /\ Re!Exists(login'[h])
                                  /\ login'[h].account = login[e].account
                                  /\ login'[h].by \in Request
                                  /\ granted'[login'[h].by] > 0
      <3>1. PICK h \in Email : /\ Re!Exists(login[h])
                               /\ login[h].account = login[e].account
                               /\ login[h].by \in Request
                               /\ granted[login[h].by] > 0
        BY <2>1 DEF GrantsInv, Re!RootedInApproval
      <3>2. login'[h] = login[h]
        BY <3>1, <1>11 DEF GrantsGrow
      <3>3. granted'[login[h].by] > 0
        BY <3>1, <1>9
      <3> QED
        BY <3>1, <3>2, <3>3
    <2>2. granted'[r] > 0
      BY <1>9
    <2> SUFFICES ASSUME NEW e \in Email, Re!Exists(login'[e])
                 PROVE  \E h \in Email : /\ Re!Exists(login'[h])
                                         /\ login'[h].account = login'[e].account
                                         /\ login'[h].by \in Request
                                         /\ granted'[login'[h].by] > 0
      BY DEF Re!RootedInApproval
    <2>3. CASE e = q.email
      BY <2>3, <2>2, <1>2, <1>4, <1>7, <1>8
    <2>4. CASE e # q.email
      BY <2>4, <2>1, <1>8
    <2> QED
      BY <2>3, <2>4
  <1> QED
    BY <1>12, <1>13, <1>14, <1>15, <1>16, <1>17 DEF GrantsInv

LEMMA GrantsStep ==
  ASSUME NamesApart, GrantsInv, [Re!Next]_(Re!vars)
  PROVE  GrantsInv'
  <1>1. ASSUME NEW r \in Request, NEW e \in Email, Re!PostRegister(r, e)
        PROVE  GrantsInv'
    BY <1>1, Registering
  <1>2. ASSUME NEW w \in Worker, NEW r \in Request, NEW c \in Account, Re!PostApprove(w, r, c)
        PROVE  GrantsInv'
    <2> PICK q : q = [op |-> "approve", of |-> r, email |-> request[r].email, into |-> {c}]
      OBVIOUS
    <2>1. Re!Begin(w, q) /\ Re!Exists(request[r]) /\ Re!Exists(account[c])
      BY <1>2 DEF Re!PostApprove
    <2>2. UNCHANGED <<request, login, account, granted>> => GrantLoaded(w)'
      BY <2>1 DEF Re!Begin, GrantLoaded, GrantsInv, GrantTables
    <2> QED
      BY <2>1, <2>2, GrantStarts
  <1>3. ASSUME NEW w \in Worker, NEW r \in Request, Re!PostApproveNew(w, r)
        PROVE  GrantsInv'
    <2> PICK q : q = [op |-> "approve", of |-> r, email |-> request[r].email, into |-> {}]
      OBVIOUS
    <2>1. Re!Begin(w, q) /\ Re!Exists(request[r])
      BY <1>3 DEF Re!PostApproveNew
    <2>2. UNCHANGED <<request, login, account, granted>> => GrantLoaded(w)'
      BY <2>1 DEF Re!Begin, GrantLoaded, GrantsInv, GrantTables
    <2> QED
      BY <2>1, <2>2, GrantStarts
  <1>4. ASSUME NEW w \in Worker, NEW c \in Account, Re!CommitApprove(w, c)
        PROVE  GrantsInv'
    BY <1>4, Approving
  <1>5. ASSUME NEW w \in Worker, NEW r \in Request, Re!PostReject(w, r)
        PROVE  GrantsInv'
    <2> PICK q : q = [op |-> "reject", of |-> r]
      OBVIOUS
    <2>1. Re!Begin(w, q) /\ Re!Exists(request[r])
      BY <1>5 DEF Re!PostReject
    <2>2. UNCHANGED <<request, login, account, granted>> => GrantLoaded(w)'
      BY <2>1 DEF Re!Begin, GrantLoaded, GrantsInv, GrantTables
    <2> QED
      BY <2>1, <2>2, GrantStarts
  <1>6. ASSUME NEW w \in Worker, Re!CommitReject(w)
        PROVE  GrantsInv'
    BY <1>6, Rejecting
  <1>7. ASSUME NEW w \in Worker, NEW h \in Email, NEW e \in Email, NEW role \in Re!Roles,
               Re!PostTeammate(w, h, e, role)
        PROVE  GrantsInv'
    <2> PICK q : q = [op |-> "invite", by |-> h, email |-> e, role |-> role]
      OBVIOUS
    <2>1. Re!Begin(w, q) /\ Re!Exists(login[h])
      BY <1>7 DEF Re!PostTeammate
    <2>2. UNCHANGED <<request, login, account, granted>> => GrantLoaded(w)'
      BY <2>1 DEF Re!Begin, GrantLoaded, GrantsInv, GrantTables
    <2> QED
      BY <2>1, <2>2, GrantStarts
  <1>8. ASSUME NEW w \in Worker, NEW c \in Account, Re!CommitTeammate(w, c)
        PROVE  GrantsInv'
    BY <1>8, Inviting
  <1>9. ASSUME NEW w \in Worker, Re!Fail(w)
        PROVE  GrantsInv'
    <2>1. Re!Finish(w) /\ UNCHANGED <<request, login, account, granted>>
      BY <1>9 DEF Re!Fail
    <2>2. GrantsGrow
      BY <2>1 DEF GrantsGrow
    <2> QED
      BY <2>1, <2>2, GrantFinishes DEF GrantsInv, GrantTables, Re!RegistrationsTypeOK,
         GrantsBacked, CreatedByGrant, Re!ApprovedHasLogin, Re!RootedInApproval
  <1>10. CASE UNCHANGED Re!vars
    BY <1>10 DEF Re!vars, GrantsInv, GrantTables, Re!RegistrationsTypeOK, GrantsBacked,
       CreatedByGrant, GrantsLoaded, GrantLoaded, Re!ApprovedHasLogin, Re!RootedInApproval
  <1> QED
    BY <1>1, <1>2, <1>3, <1>4, <1>5, <1>6, <1>7, <1>8, <1>9, <1>10 DEF Re!Next

\* An instance counts as the library does.
LEMMA SameCount ==
  ASSUME NEW S
  PROVE  Re!Cardinality(S) = Cardinality(S)
  BY DEF Re!Cardinality, Cardinality

\* The invariant bounds what OneGrantPerRequest counts.
LEMMA GrantsFollow ==
  ASSUME NamesApart, GrantsInv
  PROVE  Re!GrantsKept
  <1>1. ASSUME NEW r \in Request
        PROVE  Cardinality({c \in Account : Re!Exists(account[c]) /\ account[c].for = r}) <= 1
    <2> PICK made : made = {c \in Account : Re!Exists(account[c]) /\ account[c].for = r}
      OBVIOUS
    <2>1. \A c, d \in made : c = d
      BY DEF GrantsInv, CreatedByGrant, NamesApart
    <2>2. CASE made = {}
      BY <2>2, FS_EmptySet
    <2>3. ASSUME NEW c \in made
          PROVE  Cardinality(made) = 1
      <3>1. made = {c}
        BY <2>1
      <3> QED
        BY <3>1, FS_Singleton
    <2> QED
      BY <2>2, <2>3
  <1>2. \A r \in Request : granted[r] <= 1
    BY DEF GrantsInv, GrantTables
  <1>3. Re!OneGrantPerRequest
    <2> SUFFICES ASSUME NEW r \in Request
                 PROVE  Re!Cardinality({c \in Account : Re!Exists(account[c]) /\ account[c].for = r}) <= 1
      BY <1>2, Zenon DEF Re!OneGrantPerRequest
    <2> QED
      BY <1>1, SameCount
  <1> QED
    BY <1>3 DEF Re!GrantsKept, GrantsInv, GrantTables

(* register.py:199-233, admin.py:226-290, for any number of requests,      *)
(* emails and clients: every login of a client goes back to one approval,  *)
(* and no approval grants twice or creates its company twice.              *)
THEOREM GrantsHold ==
  ASSUME NamesApart
  PROVE  Spec => []GrantsKept
  <1> DEFINE Inv == part = "registrations" => GrantsInv
  <1>1. Init => Inv
    BY NamesApart, GrantsStart DEF Init
  <1>2. Inv /\ [Next]_vars => Inv'
    <2> SUFFICES ASSUME Inv, [Next]_vars, part' = "registrations"
                 PROVE  GrantsInv'
      OBVIOUS
    <2>1. part = "registrations" /\ [Re!Next]_(Re!vars)
      BY DEF Next, vars, Re!vars, RestOfPortal, RestOfIntake, RestOfRegistrations, RestOfLeads,
         RestOfBoard, RestOfCampus, RestOfScreens, RestOfRoster
    <2> QED
      BY <2>1, NamesApart, GrantsStep
  <1>3. Inv => GrantsKept
    BY NamesApart, GrantsFollow DEF GrantsKept
  <1> QED
    BY <1>1, <1>2, <1>3, PTL DEF Spec

-----------------------------------------------------------------------------
(* Leads.                                                                  *)

LeadRow == [stage : Le!LEAD_STAGES, reason : {Le!Null, "price", "timing"},
            converted : Account \cup {Le!Null}, contact : {"first", "second"}]

LeadTables == /\ Le!LeadsTypeOK
              /\ req = [w \in Worker |-> req[w]]

\* The moves that lead to stage s are in the audit log.
WayTo(s) ==
  /\ s \in {"qualified", "proposal", "negotiation", "won"} => <<"new", "qualified">> \in trail
  /\ s \in {"proposal", "negotiation", "won"} => <<"qualified", "proposal">> \in trail
  /\ s \in {"negotiation", "won"} => <<"proposal", "negotiation">> \in trail
  /\ s = "won" => <<"negotiation", "won">> \in trail

\* What a request loaded and wants, and what of it stays true.
LeadLoaded(w) ==
  LET r == req[w] IN
  /\ r.op \in {"patch", "move"} => /\ r.seen \in LeadRow
                                   /\ r.wanted \in LeadRow
                                   /\ r.wanted.converted = r.seen.converted
  /\ r.op = "patch" => r.wanted.stage = r.seen.stage /\ r.wanted.reason = r.seen.reason
  /\ r.op = "move" => /\ WayTo(r.seen.stage)
                      /\ r.wanted.stage # r.seen.stage
                      /\ \/ /\ r.wanted.stage \in Le!LEAD_TRANSITIONS[r.seen.stage]
                            /\ r.wanted.reason = r.seen.reason
                         \/ /\ r.wanted.stage = "lost"
                            /\ r.wanted.reason # Le!Null
                      /\ r.seen.reason # Le!Null => lead.reason # Le!Null
  /\ r.op = "convert" => Le!Earned /\ r.intake \in BOOLEAN

LeadsLoaded == \A w \in Worker : LeadLoaded(w)

Converting == {w \in Worker : req[w].op = "convert"}

\* Conversions that have committed or still may.
ConversionsBounded ==
  /\ IsFiniteSet(Le!Created)
  /\ Cardinality(Le!Created) + Cardinality(Converting) <= Cardinality(Worker)

LeadsInv == /\ LeadTables
            /\ WayTo(lead.stage)
            /\ Le!Created # {} => Le!Earned
            /\ LeadsLoaded
            /\ Le!LostHasReason
            /\ Le!ConversionStays
            /\ ConversionsBounded

NullIsNoAccount == Le!Null \notin Account

LEMMA LeadsStart ==
  ASSUME IsFiniteSet(Worker), Le!Init
  PROVE  LeadsInv
  <1>1. LeadTables
    <2>1. lead \in LeadRow
      BY DEF Le!Init, LeadRow, Le!LEAD_STAGES
    <2> QED
      BY <2>1 DEF Le!Init, LeadTables, Le!LeadsTypeOK, LeadRow
  <1>2. Le!Created = {}
    BY DEF Le!Init, Le!Created, Le!Exists
  <1>3. Converting = {}
    BY DEF Le!Init, Converting, Le!Idle
  <1>4. ConversionsBounded
    BY <1>2, <1>3, FS_EmptySet, FS_CardinalityType DEF ConversionsBounded
  <1>5. LeadsLoaded
    BY DEF Le!Init, Le!Idle, LeadsLoaded, LeadLoaded
  <1>6. lead.stage = "new" /\ lead.converted = Le!Null
    BY DEF Le!Init
  <1> QED
    BY <1>1, <1>2, <1>4, <1>5, <1>6 DEF LeadsInv, WayTo, Le!LostHasReason, Le!ConversionStays

LEMMA LeadTyped ==
  ASSUME LeadTables
  PROVE  lead \in LeadRow
  BY DEF LeadTables, Le!LeadsTypeOK, LeadRow

\* What an UPDATE leaves, column by column.
LEMMA LeadWritten ==
  ASSUME lead \in LeadRow, NEW r, r.seen \in LeadRow, r.wanted \in LeadRow,
         NEW row, row = Le!Written(r)
  PROVE  /\ row \in LeadRow
         /\ row.stage = IF r.wanted.stage = r.seen.stage THEN lead.stage ELSE r.wanted.stage
         /\ row.reason = IF r.wanted.reason = r.seen.reason THEN lead.reason ELSE r.wanted.reason
         /\ r.wanted.converted = r.seen.converted => row.converted = lead.converted
  <1> DEFINE Col(f) == IF r.wanted[f] = r.seen[f] THEN lead[f] ELSE r.wanted[f]
  <1>1. DOMAIN lead = {"stage", "reason", "converted", "contact"}
    BY DEF LeadRow
  <1>2. row = [f \in {"stage", "reason", "converted", "contact"} |-> Col(f)]
    BY <1>1 DEF Le!Written
  <1>3. /\ row.stage = Col("stage") /\ row.reason = Col("reason")
        /\ row.converted = Col("converted") /\ row.contact = Col("contact")
    BY <1>2
  <1>4. row = [stage |-> row.stage, reason |-> row.reason,
               converted |-> row.converted, contact |-> row.contact]
    BY <1>2
  <1>5. /\ row.stage \in Le!LEAD_STAGES /\ row.reason \in {Le!Null, "price", "timing"}
        /\ row.converted \in Account \cup {Le!Null} /\ row.contact \in {"first", "second"}
    BY <1>3 DEF LeadRow
  <1>6. row \in LeadRow
    BY <1>4, <1>5 DEF LeadRow
  <1> QED
    BY <1>3, <1>6

\* What every step does: the log grows, and a reason is never taken back.
LeadsGrow == /\ trail \subseteq trail'
             /\ lead.reason # Le!Null => lead'.reason # Le!Null

LEMMA LeadStaysLoaded ==
  ASSUME LeadsInv, LeadsGrow, NEW w \in Worker, req'[w] = req[w]
  PROVE  LeadLoaded(w)'
  <1> PICK r : r = req[w]
    OBVIOUS
  <1>1. LeadLoaded(w) /\ r = req[w] /\ r = req'[w]
    BY DEF LeadsInv, LeadsLoaded
  <1>2. \A s : WayTo(s) => WayTo(s)'
    BY DEF WayTo, LeadsGrow
  <1>3. Le!Earned => Le!Earned'
    BY DEF Le!Earned, LeadsGrow
  <1> QED
    BY <1>1, <1>2, <1>3 DEF LeadLoaded, LeadsGrow

LEMMA LeadStarts ==
  ASSUME LeadsInv, IsFiniteSet(Worker), NEW w \in Worker, NEW q, Le!Begin(w, q),
         q.op = "convert" => Le!Created = {},
         UNCHANGED <<lead, trail, client>> => LeadLoaded(w)'
  PROVE  LeadsInv'
  <1>1. /\ UNCHANGED <<lead, trail, client>>
        /\ req' = [v \in Worker |-> IF v = w THEN q ELSE req[v]]
        /\ req[w] = Le!Idle
    BY DEF Le!Begin, LeadsInv, LeadTables
  <1>2. LeadTables'
    BY <1>1 DEF LeadsInv, LeadTables, Le!LeadsTypeOK
  <1>3. LeadsLoaded'
    <2> SUFFICES ASSUME NEW v \in Worker
                 PROVE  LeadLoaded(v)'
      BY DEF LeadsLoaded
    <2>1. CASE v = w
      BY <2>1, <1>1
    <2>2. CASE v # w
      BY <2>2, <1>1, LeadStaysLoaded DEF LeadsGrow
    <2> QED
      BY <2>1, <2>2
  <1>4. Le!Created' = Le!Created
    BY <1>1 DEF Le!Created, Le!Exists
  <1>5. ConversionsBounded'
    <2>1. CASE q.op = "convert"
      <3>1. Converting' \in SUBSET Worker
        BY DEF Converting
      <3>2. /\ Cardinality(Converting') <= Cardinality(Worker)
            /\ IsFiniteSet(Converting')
        BY <3>1, FS_Subset
      <3>3. Cardinality(Le!Created') = 0 /\ IsFiniteSet(Le!Created')
        BY <2>1, <1>4, FS_EmptySet
      <3>4. Cardinality(Converting') \in Nat /\ Cardinality(Worker) \in Nat
        BY <3>2, FS_CardinalityType
      <3> QED
        BY <3>2, <3>3, <3>4 DEF ConversionsBounded
    <2>2. CASE q.op # "convert"
      <3>1. Converting' = Converting
        BY <2>2, <1>1 DEF Converting, Le!Idle
      <3> QED
        BY <3>1, <1>4 DEF LeadsInv, ConversionsBounded
    <2> QED
      BY <2>1, <2>2
  <1>6. Le!Earned' <=> Le!Earned
    BY <1>1 DEF Le!Earned
  <1> QED
    BY <1>1, <1>2, <1>3, <1>4, <1>5, <1>6
       DEF LeadsInv, WayTo, Le!LostHasReason, Le!ConversionStays, Le!Exists

LEMMA LeadFinishes ==
  ASSUME LeadsInv, LeadsGrow, NEW w \in Worker, Le!Finish(w)
  PROVE  /\ LeadsLoaded'
         /\ req' = [v \in Worker |-> IF v = w THEN Le!Idle ELSE req[v]]
         /\ req' = [v \in Worker |-> req'[v]]
         /\ Converting' = Converting \ {w}
  <1>1. req' = [v \in Worker |-> IF v = w THEN Le!Idle ELSE req[v]]
    BY DEF Le!Finish, LeadsInv, LeadTables
  <1>2. ASSUME NEW v \in Worker
        PROVE  LeadLoaded(v)'
    <2>1. CASE v = w
      BY <2>1, <1>1 DEF LeadLoaded, Le!Idle
    <2>2. CASE v # w
      BY <2>2, <1>1, LeadStaysLoaded
    <2> QED
      BY <2>1, <2>2
  <1>3. Converting' = Converting \ {w}
    BY <1>1 DEF Converting, Le!Idle
  <1> QED
    BY <1>1, <1>2, <1>3 DEF LeadsLoaded

\* A step that converts nothing leaves the bound.
LEMMA StaysBounded ==
  ASSUME LeadsInv, IsFiniteSet(Worker), client' = client, NEW w \in Worker,
         Converting' = Converting \ {w}
  PROVE  ConversionsBounded' /\ Le!Created' = Le!Created
  <1>1. Le!Created' = Le!Created
    BY DEF Le!Created, Le!Exists
  <1>2. Converting \in SUBSET Worker
    BY DEF Converting
  <1>3. IsFiniteSet(Converting)
    BY <1>2, FS_Subset
  <1>4. Cardinality(Converting') <= Cardinality(Converting)
    BY <1>3, FS_Subset
  <1>5. /\ Cardinality(Converting') \in Nat /\ Cardinality(Converting) \in Nat
        /\ Cardinality(Worker) \in Nat /\ Cardinality(Le!Created) \in Nat
    BY <1>3, FS_CardinalityType, FS_Subset DEF LeadsInv, ConversionsBounded
  <1> QED
    BY <1>1, <1>4, <1>5 DEF LeadsInv, ConversionsBounded

LEMMA Patching ==
  ASSUME LeadsInv, IsFiniteSet(Worker), NEW w \in Worker, Le!CommitPatch(w)
  PROVE  LeadsInv'
  <1> PICK r : r = req[w]
    OBVIOUS
  <1>1. /\ lead' = Le!Written(r)
        /\ Le!Finish(w)
        /\ UNCHANGED <<trail, client>>
    BY DEF Le!CommitPatch
  <1>2. /\ r.seen \in LeadRow /\ r.wanted \in LeadRow
        /\ r.wanted.converted = r.seen.converted
        /\ r.wanted.stage = r.seen.stage /\ r.wanted.reason = r.seen.reason
    BY DEF LeadsInv, LeadsLoaded, LeadLoaded, Le!CommitPatch
  <1>3. lead \in LeadRow
    BY LeadTyped DEF LeadsInv
  <1>4. /\ lead' \in LeadRow
        /\ lead'.stage = lead.stage /\ lead'.reason = lead.reason
        /\ lead'.converted = lead.converted
    BY <1>1, <1>2, <1>3, LeadWritten
  <1>5. LeadsGrow
    BY <1>1, <1>4 DEF LeadsGrow
  <1>6. LeadsLoaded' /\ LeadTables'
    BY <1>1, <1>4, <1>5, LeadFinishes DEF LeadsInv, LeadTables, Le!LeadsTypeOK, LeadRow
  <1>7. ConversionsBounded' /\ Le!Created' = Le!Created
    BY <1>1, <1>5, LeadFinishes, StaysBounded
  <1> QED
    BY <1>1, <1>4, <1>6, <1>7
       DEF LeadsInv, WayTo, Le!Earned, Le!LostHasReason, Le!ConversionStays, Le!Exists

LEMMA Moving ==
  ASSUME LeadsInv, IsFiniteSet(Worker), NEW w \in Worker, Le!CommitMove(w)
  PROVE  LeadsInv'
  <1> PICK r : r = req[w]
    OBVIOUS
  <1>1. /\ lead' = Le!Written(r)
        /\ trail' = trail \cup {<<r.seen.stage, r.wanted.stage>>}
        /\ Le!Finish(w)
        /\ client' = client
    BY DEF Le!CommitMove
  <1>2. /\ r.seen \in LeadRow /\ r.wanted \in LeadRow
        /\ r.wanted.converted = r.seen.converted
        /\ WayTo(r.seen.stage)
        /\ r.wanted.stage # r.seen.stage
        /\ \/ /\ r.wanted.stage \in Le!LEAD_TRANSITIONS[r.seen.stage]
              /\ r.wanted.reason = r.seen.reason
           \/ /\ r.wanted.stage = "lost"
              /\ r.wanted.reason # Le!Null
        /\ r.seen.reason # Le!Null => lead.reason # Le!Null
    BY DEF LeadsInv, LeadsLoaded, LeadLoaded, Le!CommitMove
  <1>3. lead \in LeadRow
    BY LeadTyped DEF LeadsInv
  <1>4. /\ lead' \in LeadRow
        /\ lead'.stage = r.wanted.stage
        /\ lead'.reason = IF r.wanted.reason = r.seen.reason THEN lead.reason ELSE r.wanted.reason
        /\ lead'.converted = lead.converted
    BY <1>1, <1>2, <1>3, LeadWritten
  <1>5. LeadsGrow
    BY <1>1, <1>2, <1>4 DEF LeadsGrow
  <1>6. LeadTables'
    <2>1. r.seen.stage \in Le!LEAD_STAGES /\ r.wanted.stage \in Le!LEAD_STAGES
      BY <1>2 DEF LeadRow
    <2> QED
      <3>1. trail' \subseteq Le!LEAD_STAGES \X Le!LEAD_STAGES
        BY <1>1, <2>1 DEF LeadsInv, LeadTables, Le!LeadsTypeOK
      <3>2. req' = [v \in Worker |-> req'[v]]
        BY <1>1, <1>5, LeadFinishes
      <3> QED
        BY <1>1, <1>4, <3>1, <3>2 DEF LeadsInv, LeadTables, Le!LeadsTypeOK, LeadRow
  <1>7. ConversionsBounded' /\ Le!Created' = Le!Created
    BY <1>1, <1>5, LeadFinishes, StaysBounded
  <1>8. WayTo(lead.stage)'
    <2>1. r.seen.stage \in Le!LEAD_STAGES
      BY <1>2 DEF LeadRow
    <2> QED
      BY <1>1, <1>2, <1>4, <2>1 DEF WayTo, Le!LEAD_TRANSITIONS, Le!LEAD_STAGES
  <1>9. Le!LostHasReason'
    <2>1. r.seen.stage \in Le!LEAD_STAGES
      BY <1>2 DEF LeadRow
    <2>2. \A s \in Le!LEAD_STAGES : "lost" \notin Le!LEAD_TRANSITIONS[s]
      BY DEF Le!LEAD_TRANSITIONS, Le!LEAD_STAGES
    <2> QED
      BY <1>2, <1>4, <2>1, <2>2 DEF Le!LostHasReason
  <1>10. Le!Created' # {} => Le!Earned'
    BY <1>1, <1>7 DEF LeadsInv, Le!Earned
  <1>11. Le!ConversionStays'
    BY <1>1, <1>4, <1>7 DEF LeadsInv, Le!ConversionStays, Le!Exists
  <1>12. LeadsLoaded'
    BY <1>1, <1>5, LeadFinishes
  <1> QED
    BY <1>6, <1>7, <1>8, <1>9, <1>10, <1>11, <1>12 DEF LeadsInv

LEMMA LeadConverting ==
  ASSUME NullIsNoAccount, LeadsInv, IsFiniteSet(Worker), NEW w \in Worker, Le!CommitConvert(w)
  PROVE  LeadsInv'
  <1> PICK c : c = CHOOSE d \in Account : ~Le!Exists(client[d])
    OBVIOUS
  <1> PICK row : row = [row |-> TRUE, intake |-> req[w].intake]
    OBVIOUS
  <1>1. /\ client' = [client EXCEPT ![c] = row]
        /\ lead' = [lead EXCEPT !.converted = c]
        /\ Le!Finish(w)
        /\ trail' = trail
        /\ req[w].op = "convert"
        /\ c \in Account /\ ~Le!Exists(client[c])
    BY DEF Le!CommitConvert
  <1>2. Le!Earned /\ req[w].intake \in BOOLEAN
    BY <1>1 DEF LeadsInv, LeadsLoaded, LeadLoaded
  <1>3. /\ lead \in LeadRow /\ lead' \in LeadRow
        /\ lead'.stage = lead.stage /\ lead'.reason = lead.reason
        /\ lead'.converted = c
    <2>1. lead \in LeadRow
      BY LeadTyped DEF LeadsInv
    <2> QED
      BY <1>1, <2>1 DEF LeadRow
  <1>4. /\ client' \in [Account -> [row : {TRUE}, intake : BOOLEAN] \cup {Le!NoRow}]
        /\ Le!Exists(client'[c])
        /\ \A d \in Account \ {c} : client'[d] = client[d]
    <2>1. row \in [row : {TRUE}, intake : BOOLEAN] /\ row # Le!NoRow
      BY <1>2 DEF Le!NoRow
    <2> QED
      BY <1>1, <2>1 DEF LeadsInv, LeadTables, Le!LeadsTypeOK, Le!Exists
  <1>5. LeadsGrow
    BY <1>1, <1>3 DEF LeadsGrow
  <1>6. LeadTables' /\ LeadsLoaded'
    BY <1>1, <1>3, <1>4, <1>5, LeadFinishes DEF LeadsInv, LeadTables, Le!LeadsTypeOK, LeadRow
  <1>7. Le!Created' = Le!Created \cup {c} /\ c \notin Le!Created
    BY <1>1, <1>4 DEF Le!Created
  <1>8. ConversionsBounded'
    <2>1. Converting' = Converting \ {w} /\ w \in Converting
      BY <1>1, <1>5, LeadFinishes DEF Converting
    <2>2. Converting \in SUBSET Worker
      BY DEF Converting
    <2>3. IsFiniteSet(Converting) /\ IsFiniteSet(Le!Created)
      BY <2>2, FS_Subset DEF LeadsInv, ConversionsBounded
    <2>4. Cardinality(Converting') = Cardinality(Converting) - 1
      BY <2>1, <2>3, FS_RemoveElement
    <2>5. Cardinality(Le!Created') = Cardinality(Le!Created) + 1 /\ IsFiniteSet(Le!Created')
      BY <1>7, <2>3, FS_AddElement
    <2>6. /\ Cardinality(Converting) \in Nat /\ Cardinality(Le!Created) \in Nat
          /\ Cardinality(Worker) \in Nat
      BY <2>3, FS_CardinalityType
    <2> QED
      BY <2>4, <2>5, <2>6 DEF LeadsInv, ConversionsBounded
  <1>9. Le!ConversionStays'
    BY <1>1, <1>3, <1>4, <1>7, NullIsNoAccount DEF Le!ConversionStays, NullIsNoAccount
  <1>10. Le!Earned'
    BY <1>1, <1>2 DEF Le!Earned
  <1> QED
    BY <1>1, <1>3, <1>6, <1>8, <1>9, <1>10 DEF LeadsInv, WayTo, Le!LostHasReason

LEMMA LeadsStep ==
  ASSUME NullIsNoAccount, LeadsInv, IsFiniteSet(Worker), [Le!Next]_(Le!vars)
  PROVE  LeadsInv'
  <1>0. lead \in LeadRow /\ req = [w \in Worker |-> req[w]]
    BY LeadTyped DEF LeadsInv, LeadTables
  <1>1. ASSUME NEW w \in Worker, NEW contact \in {"first", "second"}, Le!PatchLead(w, contact)
        PROVE  LeadsInv'
    <2> PICK q : q = [op |-> "patch", seen |-> lead, wanted |-> [lead EXCEPT !.contact = contact]]
      OBVIOUS
    <2>1. Le!Begin(w, q)
      BY <1>1 DEF Le!PatchLead
    <2>2. /\ q.op = "patch" /\ q.seen = lead
          /\ q.wanted \in LeadRow /\ q.wanted.stage = lead.stage
          /\ q.wanted.reason = lead.reason /\ q.wanted.converted = lead.converted
      BY <1>0 DEF LeadRow
    <2>3. req'[w] = q
      BY <2>1, <1>0 DEF Le!Begin
    <2>4. LeadLoaded(w)'
      BY <1>0, <2>2, <2>3 DEF LeadLoaded
    <2> QED
      BY <2>1, <2>2, <2>4, LeadStarts
  <1>2. ASSUME NEW w \in Worker, Le!CommitPatch(w)
        PROVE  LeadsInv'
    BY <1>2, Patching
  <1>3. ASSUME NEW w \in Worker, NEW to \in Le!LEAD_STAGES, Le!PostForward(w, to)
        PROVE  LeadsInv'
    <2> PICK q : q = [op |-> "move", seen |-> lead, wanted |-> [lead EXCEPT !.stage = to]]
      OBVIOUS
    <2>1. Le!Begin(w, q) /\ to \in Le!LEAD_TRANSITIONS[lead.stage]
      BY <1>3 DEF Le!PostForward, Le!Forward
    <2>2. /\ q.op = "move" /\ q.seen = lead
          /\ q.wanted \in LeadRow /\ q.wanted.stage = to
          /\ q.wanted.reason = lead.reason /\ q.wanted.converted = lead.converted
      BY <1>0, <1>3 DEF LeadRow
    <2>3. to # lead.stage
      BY <2>1, <1>0 DEF LeadRow, Le!LEAD_STAGES, Le!LEAD_TRANSITIONS
    <2>4. req'[w] = q /\ UNCHANGED <<lead, trail>>
      BY <2>1, <1>0 DEF Le!Begin
    <2>5. WayTo(lead.stage)
      BY DEF LeadsInv
    <2>6. LeadLoaded(w)'
      BY <1>0, <2>1, <2>2, <2>3, <2>4, <2>5 DEF LeadLoaded, WayTo
    <2> QED
      BY <2>1, <2>2, <2>6, LeadStarts
  <1>4. ASSUME NEW w \in Worker, NEW reason \in {"price", "timing"}, Le!PostLost(w, reason)
        PROVE  LeadsInv'
    <2> PICK q : q = [op |-> "move", seen |-> lead, wanted |-> Le!Lost(reason)]
      OBVIOUS
    <2>1. Le!Begin(w, q) /\ lead.stage # "lost"
      BY <1>4 DEF Le!PostLost, Le!TERMINAL
    <2>2. /\ q.op = "move" /\ q.seen = lead
          /\ q.wanted \in LeadRow /\ q.wanted.stage = "lost"
          /\ q.wanted.reason # Le!Null /\ q.wanted.converted = lead.converted
      BY <1>0 DEF LeadRow, Le!Lost, Le!LEAD_STAGES, Le!Null
    <2>3. req'[w] = q /\ UNCHANGED <<lead, trail>>
      BY <2>1, <1>0 DEF Le!Begin
    <2>4. WayTo(lead.stage)
      BY DEF LeadsInv
    <2>5. LeadLoaded(w)'
      BY <1>0, <2>1, <2>2, <2>3, <2>4 DEF LeadLoaded, WayTo
    <2> QED
      BY <2>1, <2>2, <2>5, LeadStarts
  <1>5. ASSUME NEW w \in Worker, Le!CommitMove(w)
        PROVE  LeadsInv'
    BY <1>5, Moving
  <1>6. ASSUME NEW w \in Worker, NEW intake \in BOOLEAN, Le!PostConvert(w, intake)
        PROVE  LeadsInv'
    <2> PICK q : q = [op |-> "convert", seen |-> lead, intake |-> intake]
      OBVIOUS
    <2>1. Le!Begin(w, q) /\ lead.stage = "won" /\ lead.converted = Le!Null
      BY <1>6 DEF Le!PostConvert, Le!Convertible
    <2>2. Le!Created = {}
      BY <2>1 DEF LeadsInv, Le!ConversionStays
    <2>3. Le!Earned
      BY <2>1 DEF LeadsInv, WayTo, Le!Earned
    <2>4. req'[w] = q /\ UNCHANGED <<lead, trail>>
      BY <2>1, <1>0 DEF Le!Begin
    <2>5. LeadLoaded(w)'
      BY <2>3, <2>4 DEF LeadLoaded, Le!Earned
    <2> QED
      BY <2>1, <2>2, <2>5, LeadStarts
  <1>7. ASSUME NEW w \in Worker, Le!CommitConvert(w)
        PROVE  LeadsInv'
    BY <1>7, LeadConverting
  <1>8. ASSUME NEW w \in Worker, Le!Fail(w)
        PROVE  LeadsInv'
    <2>1. Le!Finish(w) /\ UNCHANGED <<lead, trail, client>>
      BY <1>8 DEF Le!Fail
    <2>2. LeadsGrow
      BY <2>1 DEF LeadsGrow
    <2>3. ConversionsBounded' /\ Le!Created' = Le!Created
      BY <2>1, <2>2, LeadFinishes, StaysBounded
    <2>4. LeadTables' /\ LeadsLoaded'
      BY <2>1, <2>2, LeadFinishes DEF LeadsInv, LeadTables, Le!LeadsTypeOK
    <2> QED
      BY <2>1, <2>3, <2>4
         DEF LeadsInv, WayTo, Le!Earned, Le!LostHasReason, Le!ConversionStays, Le!Exists
  <1>9. CASE UNCHANGED Le!vars
    <2>1. UNCHANGED <<lead, trail, client, req>>
      BY <1>9 DEF Le!vars
    <2>2. Le!Created' = Le!Created /\ Converting' = Converting
      BY <2>1 DEF Le!Created, Le!Exists, Converting
    <2>3. LeadsLoaded'
      BY <2>1, LeadStaysLoaded DEF LeadsGrow, LeadsLoaded
    <2>4. ConversionsBounded'
      BY <2>2 DEF LeadsInv, ConversionsBounded
    <2> QED
      BY <2>1, <2>2, <2>3, <2>4 DEF LeadsInv, LeadTables, Le!LeadsTypeOK,
         WayTo, Le!Earned, Le!LostHasReason, Le!ConversionStays, Le!Exists
  <1> QED
    BY <1>1, <1>2, <1>3, <1>4, <1>5, <1>6, <1>7, <1>8, <1>9 DEF Le!Next

LEMMA LeadsFollow ==
  ASSUME LeadsInv, IsFiniteSet(Worker)
  PROVE  Le!LeadsKept
  <1>1. Cardinality(Le!Created) <= Cardinality(Worker)
    <2>1. Converting \in SUBSET Worker
      BY DEF Converting
    <2>2. IsFiniteSet(Converting)
      BY <2>1, FS_Subset
    <2>3. /\ Cardinality(Converting) \in Nat /\ Cardinality(Le!Created) \in Nat
          /\ Cardinality(Worker) \in Nat
      BY <2>2, FS_CardinalityType DEF LeadsInv, ConversionsBounded
    <2> QED
      BY <2>3 DEF LeadsInv, ConversionsBounded
  <1>2. \A S : Le!Cardinality(S) = Cardinality(S)
    BY DEF Le!Cardinality, Cardinality
  <1>3. Le!ClientsBounded
    BY <1>1, <1>2 DEF Le!ClientsBounded
  <1>4. lead.stage = "won" => Le!Earned
    BY DEF LeadsInv, WayTo, Le!Earned
  <1> QED
    BY <1>3, <1>4 DEF LeadsInv, LeadTables, Le!LeadsKept, Le!WonWasEarned

(* crm.py:3-5, 79-99, 250-293, for any clients and any number of requests: *)
(* a lead is won by its whole path, lost with a reason, converted only     *)
(* when won, and a conversion is never taken back; and each request in     *)
(* flight converts at most once.                                           *)
THEOREM LeadsHold ==
  ASSUME NullIsNoAccount, IsFiniteSet(Worker)
  PROVE  Spec => []LeadsKept
  <1> DEFINE Inv == part = "leads" => LeadsInv
  <1>1. Init => Inv
    BY LeadsStart DEF Init
  <1>2. Inv /\ [Next]_vars => Inv'
    <2> SUFFICES ASSUME Inv, [Next]_vars, part' = "leads"
                 PROVE  LeadsInv'
      OBVIOUS
    <2>1. part = "leads" /\ [Le!Next]_(Le!vars)
      BY DEF Next, vars, Le!vars, RestOfPortal, RestOfIntake, RestOfRegistrations, RestOfLeads,
         RestOfBoard, RestOfCampus, RestOfScreens, RestOfRoster
    <2> QED
      BY <2>1, LeadsStep
  <1>3. Inv => LeadsKept
    BY LeadsFollow DEF LeadsKept
  <1> QED
    BY <1>1, <1>2, <1>3, PTL DEF Spec

-----------------------------------------------------------------------------
(* Intake.                                                                 *)

IdsAreNumbers == Cand \subseteq Nat \ {0} /\ Skilled \subseteq BOOLEAN

ReviewRow == [status : {"pending", "merged", "dismissed"}, matched : Cand]

\* An intake whose scan found nothing, though what it takes in has a skill.
Escaping == {w \in Worker : req[w].op = "intake" /\ req[w].hit = In!NoHit /\ req[w].new.skilled}

\* Live look-alikes that no review names as incoming.
Unflagged == {c \in Cand : In!Live(c) /\ cand[c].skilled /\ reviews[c] = In!Unflagged}

IntakeLoaded(w) ==
  req[w].op = "intake" =>
    /\ req[w].new \in In!Rows
    /\ req[w].new.live
    /\ req[w].hit \in Cand \cup {In!NoHit}
    /\ req[w].hit \in Cand => In!Exists(req[w].hit)

\* What has escaped the queue and what still may.
EscapesBounded ==
  /\ IsFiniteSet(Unflagged)
  /\ Cardinality(Unflagged) + Cardinality(Escaping) <= Cardinality(Worker)

\* Nobody is reviewed against himself.
ReviewsTwo == \A c \in Cand : reviews[c] # In!Unflagged => reviews[c].matched # c

IntakeInv ==
  /\ In!IntakeTypeOK
  /\ req = [w \in Worker |-> req[w]]
  /\ \A w \in Worker : IntakeLoaded(w)
  /\ ReviewsTwo
  /\ In!ConsentOnRecord
  /\ In!NumberHeldByLive
  /\ EscapesBounded

\* Rows are never deleted.
CandidatesStay == \A c \in Cand : In!Exists(c) => In!Exists(c)'

LEMMA IntakeStart ==
  ASSUME IsFiniteSet(Worker), In!Init
  PROVE  IntakeInv
  <1>1. /\ In!IntakeTypeOK
        /\ req = [w \in Worker |-> req[w]]
    BY DEF In!Init, In!IntakeTypeOK
  <1>2. \A w \in Worker : IntakeLoaded(w)
    BY DEF In!Init, In!Idle, IntakeLoaded
  <1>3. Unflagged = {}
    BY DEF In!Init, Unflagged, In!Live, In!Exists
  <1>4. Escaping = {}
    BY DEF In!Init, In!Idle, Escaping
  <1>5. EscapesBounded
    BY <1>3, <1>4, FS_EmptySet, FS_CardinalityType DEF EscapesBounded
  <1>6. In!ConsentOnRecord /\ In!NumberHeldByLive /\ ReviewsTwo
    BY DEF In!Init, In!ConsentOnRecord, In!NumberHeldByLive, In!Exists, ReviewsTwo
  <1> QED
    BY <1>1, <1>2, <1>5, <1>6 DEF IntakeInv

LEMMA EscapingFinite ==
  ASSUME IsFiniteSet(Worker)
  PROVE  /\ IsFiniteSet(Escaping) /\ Cardinality(Escaping) \in Nat
         /\ Cardinality(Escaping) <= Cardinality(Worker) /\ Cardinality(Worker) \in Nat
  <1>1. Escaping \in SUBSET Worker
    BY DEF Escaping
  <1> QED
    BY <1>1, FS_Subset, FS_CardinalityType

\* A step that lets nobody escape keeps the bound.
LEMMA FewerEscape ==
  ASSUME IntakeInv, IsFiniteSet(Worker), Unflagged' \subseteq Unflagged, Escaping' \subseteq Escaping
  PROVE  EscapesBounded'
  <1>1. IsFiniteSet(Escaping) /\ IsFiniteSet(Unflagged)
    BY EscapingFinite DEF IntakeInv, EscapesBounded
  <1>2. /\ IsFiniteSet(Unflagged') /\ Cardinality(Unflagged') <= Cardinality(Unflagged)
        /\ IsFiniteSet(Escaping') /\ Cardinality(Escaping') <= Cardinality(Escaping)
    BY <1>1, FS_Subset
  <1>3. /\ Cardinality(Unflagged') \in Nat /\ Cardinality(Unflagged) \in Nat
        /\ Cardinality(Escaping') \in Nat /\ Cardinality(Escaping) \in Nat
        /\ Cardinality(Worker) \in Nat
    BY <1>1, <1>2, FS_CardinalityType
  <1> QED
    BY <1>2, <1>3 DEF IntakeInv, EscapesBounded

LEMMA TakingIn ==
  ASSUME IdsAreNumbers, IsFiniteSet(Worker), IntakeInv, NEW w \in Worker, NEW new \in In!Rows, new.live, In!Intake(w, new)
  PROVE  IntakeInv'
  <1>1. PICK hit \in In!Similar(new) \cup {In!NoHit} :
          /\ req' = [req EXCEPT ![w] = [op |-> "intake", new |-> new, hit |-> hit]]
          /\ hit = In!NoHit => In!Similar(new) = {}
    BY DEF In!Intake, In!Similar, IdsAreNumbers, In!NoHit
  <1> PICK q : q = [op |-> "intake", new |-> new, hit |-> hit]
    OBVIOUS
  <1>2. /\ UNCHANGED <<cand, consent, reviews, login>>
        /\ req[w] = In!Idle
        /\ req' = [v \in Worker |-> IF v = w THEN q ELSE req[v]]
    BY <1>1 DEF In!Intake, IntakeInv
  <1>3. hit \in Cand \cup {In!NoHit} /\ (hit \in Cand => In!Exists(hit))
    BY <1>1 DEF In!Similar, In!Live, IdsAreNumbers, In!NoHit
  <1>4. \A v \in Worker : IntakeLoaded(v)'
    BY <1>2, <1>3 DEF IntakeInv, IntakeLoaded, In!Exists
  <1>5. Unflagged' = Unflagged
    BY <1>2 DEF Unflagged, In!Live, In!Exists
  <1>6. EscapesBounded'
    <2>1. CASE hit = In!NoHit /\ new.skilled /\ In!Similar(new) = {}
      <3>1. Unflagged' = {}
        BY <1>5, <2>1 DEF Unflagged, In!Similar
      <3>2. Escaping' \in SUBSET Worker
        BY DEF Escaping
      <3>3. /\ Cardinality(Escaping') <= Cardinality(Worker)
            /\ Cardinality(Escaping') \in Nat /\ Cardinality(Worker) \in Nat
        BY <3>2, FS_Subset, FS_CardinalityType
      <3> QED
        BY <3>1, <3>3, FS_EmptySet DEF EscapesBounded
    <2>2. CASE ~(hit = In!NoHit /\ new.skilled)
      <3>1. Escaping' \subseteq Escaping
        BY <1>2, <2>2 DEF Escaping
      <3> QED
        BY <1>5, <3>1, FewerEscape
    <2> QED
      BY <1>1, <2>1, <2>2
  <1> QED
    BY <1>2, <1>4, <1>6 DEF IntakeInv, ReviewsTwo, In!IntakeTypeOK, In!ConsentOnRecord,
       In!NumberHeldByLive, In!Exists, In!Live

\* What is left of a request that ends.
LEMMA IntakeFinishes ==
  ASSUME IntakeInv, CandidatesStay, NEW w \in Worker, In!Finish(w)
  PROVE  /\ req' = [v \in Worker |-> req'[v]]
         /\ \A v \in Worker : IntakeLoaded(v)'
         /\ Escaping' = Escaping \ {w}
  <1>1. req' = [v \in Worker |-> IF v = w THEN In!Idle ELSE req[v]]
    BY DEF In!Finish, IntakeInv
  <1> QED
    BY <1>1 DEF IntakeInv, IntakeLoaded, CandidatesStay, Escaping, In!Idle

LEMMA CommittingIntake ==
  ASSUME IdsAreNumbers, IsFiniteSet(Worker), IntakeInv, NEW w \in Worker, NEW c \in Cand,
         In!CommitIntake(w, c)
  PROVE  IntakeInv'
  <1> PICK r : r = req[w]
    OBVIOUS
  <1> PICK flag : flag = In!Flagged(r)
    OBVIOUS
  <1>1. /\ cand' = [cand EXCEPT ![c] = r.new]
        /\ consent' = In!Consented(r, c)
        /\ reviews' = IF r.hit = In!NoHit THEN reviews ELSE [reviews EXCEPT ![c] = flag]
        /\ In!Finish(w)
        /\ login' = login
        /\ r.op = "intake"
        /\ \A d \in Cand : In!Exists(d) <=> d < c
    BY DEF In!CommitIntake
  <1>2. /\ r.new \in In!Rows /\ r.new.live
        /\ r.hit \in Cand \cup {In!NoHit}
        /\ r.hit \in Cand => r.hit < c
    BY <1>1 DEF IntakeInv, IntakeLoaded
  <1>3. c \in Nat /\ r.hit # c
    <2>1. c \in Nat /\ c # In!NoHit
      BY IdsAreNumbers DEF IdsAreNumbers, In!NoHit
    <2> QED
      BY <1>2, <2>1
  <1>4. /\ cand \in [Cand -> In!Rows \cup {In!NoRow}]
        /\ cand' \in [Cand -> In!Rows \cup {In!NoRow}]
        /\ cand'[c] = r.new
        /\ \A d \in Cand \ {c} : cand'[d] = cand[d]
    BY <1>1, <1>2 DEF IntakeInv, In!IntakeTypeOK
  <1>5. r.hit # In!NoHit => flag \in ReviewRow /\ flag # In!Unflagged /\ flag.matched # c
    BY <1>3, <1>2 DEF In!Flagged, ReviewRow, In!Unflagged
  <1>6. /\ reviews' \in [Cand -> {In!Unflagged} \cup ReviewRow]
        /\ \A d \in Cand \ {c} : reviews'[d] = reviews[d]
        /\ IF r.hit = In!NoHit THEN reviews'[c] = reviews[c] ELSE reviews'[c] = flag
    BY <1>1, <1>5 DEF IntakeInv, In!IntakeTypeOK, ReviewRow
  <1>7. consent \subseteq consent' /\ consent' \subseteq Cand
        /\ (r.new.source = "self" => c \in consent')
    BY <1>1 DEF In!Consented, IntakeInv, In!IntakeTypeOK
  <1>8. In!IntakeTypeOK'
    BY <1>1, <1>4, <1>6, <1>7 DEF IntakeInv, In!IntakeTypeOK, ReviewRow
  <1>9. In!ConsentOnRecord'
    BY <1>4, <1>7 DEF IntakeInv, In!ConsentOnRecord, In!Exists
  <1>10. In!NumberHeldByLive'
    BY <1>2, <1>4 DEF IntakeInv, In!NumberHeldByLive, In!Exists, In!Live
  <1>11. CandidatesStay
    <2>1. \A d \in In!Rows : d # In!NoRow
      BY DEF In!Rows, In!NoRow
    <2> QED
      BY <1>2, <1>4, <2>1 DEF CandidatesStay, In!Exists
  <1>12. EscapesBounded'
    <2>1. Escaping' = Escaping \ {w}
      BY <1>1, <1>11, IntakeFinishes
    <2>2. CASE w \in Escaping
      <3>1. Unflagged' \subseteq Unflagged \cup {c}
        BY <1>4, <1>5, <1>6 DEF Unflagged, In!Live, In!Exists
      <3>2. IsFiniteSet(Unflagged) /\ IsFiniteSet(Escaping)
        BY EscapingFinite DEF IntakeInv, EscapesBounded
      <3>3. /\ IsFiniteSet(Unflagged \cup {c})
            /\ Cardinality(Unflagged \cup {c}) \in {Cardinality(Unflagged), Cardinality(Unflagged) + 1}
        BY <3>2, FS_AddElement
      <3>4. IsFiniteSet(Unflagged') /\ Cardinality(Unflagged') <= Cardinality(Unflagged \cup {c})
        BY <3>1, <3>3, FS_Subset
      <3>5. Cardinality(Escaping') = Cardinality(Escaping) - 1
        BY <2>1, <2>2, <3>2, FS_RemoveElement
      <3>6. /\ Cardinality(Unflagged') \in Nat /\ Cardinality(Unflagged) \in Nat
            /\ Cardinality(Escaping) \in Nat /\ Cardinality(Worker) \in Nat
        BY <3>2, <3>4, FS_CardinalityType
      <3> QED
        BY <3>3, <3>4, <3>5, <3>6 DEF IntakeInv, EscapesBounded
    <2>3. CASE w \notin Escaping
      <3>1. ~(r.hit = In!NoHit /\ r.new.skilled)
        BY <2>3, <1>1 DEF Escaping
      <3>2. Unflagged' \subseteq Unflagged
        BY <3>1, <1>4, <1>5, <1>6 DEF Unflagged, In!Live, In!Exists
      <3> QED
        BY <2>1, <3>2, FewerEscape
    <2> QED
      BY <2>2, <2>3
  <1>13. /\ req' = [v \in Worker |-> req'[v]]
         /\ \A v \in Worker : IntakeLoaded(v)'
    BY <1>1, <1>11, IntakeFinishes
  <1>14. ReviewsTwo'
    BY <1>5, <1>6 DEF IntakeInv, ReviewsTwo
  <1> QED
    BY <1>8, <1>9, <1>10, <1>12, <1>13, <1>14 DEF IntakeInv

\* The steps that leave the requests alone.
LEMMA Untouched ==
  ASSUME IntakeInv, CandidatesStay, req' = req
  PROVE  /\ req' = [v \in Worker |-> req'[v]]
         /\ \A v \in Worker : IntakeLoaded(v)'
         /\ Escaping' = Escaping
  BY DEF IntakeInv, IntakeLoaded, CandidatesStay, Escaping

LEMMA Dismissing ==
  ASSUME IsFiniteSet(Worker), IntakeInv, NEW c \in Cand, In!Dismiss(c)
  PROVE  IntakeInv'
  <1> PICK flag : flag = [reviews[c] EXCEPT !.status = "dismissed"]
    OBVIOUS
  <1>1. /\ reviews' = [reviews EXCEPT ![c] = flag]
        /\ UNCHANGED <<cand, consent, login, req>>
        /\ reviews[c].status = "pending"
    BY DEF In!Dismiss
  <1>2. reviews \in [Cand -> {In!Unflagged} \cup ReviewRow]
    BY DEF IntakeInv, In!IntakeTypeOK, ReviewRow
  <1>3. reviews[c] \in ReviewRow
    BY <1>1, <1>2 DEF In!Unflagged
  <1>4. flag \in ReviewRow /\ flag # In!Unflagged /\ flag.matched = reviews[c].matched
    BY <1>3 DEF ReviewRow, In!Unflagged
  <1>5. /\ reviews' \in [Cand -> {In!Unflagged} \cup ReviewRow]
        /\ reviews'[c] = flag
        /\ \A d \in Cand \ {c} : reviews'[d] = reviews[d]
    BY <1>1, <1>2, <1>4
  <1>6. Unflagged' \subseteq Unflagged
    BY <1>1, <1>4, <1>5 DEF Unflagged, In!Live, In!Exists
  <1>7. ReviewsTwo'
    BY <1>1, <1>4, <1>5 DEF IntakeInv, ReviewsTwo, In!Unflagged
  <1>8. CandidatesStay
    BY <1>1 DEF CandidatesStay, In!Exists
  <1> QED
    BY <1>1, <1>5, <1>6, <1>7, <1>8, Untouched, FewerEscape
       DEF IntakeInv, In!IntakeTypeOK, ReviewRow, In!ConsentOnRecord, In!NumberHeldByLive,
          In!Exists, In!Live

LEMMA MergingPeople ==
  ASSUME IsFiniteSet(Worker), IntakeInv, NEW c \in Cand, In!Merge(c)
  PROVE  IntakeInv'
  <1> PICK s : s = reviews[c].matched
    OBVIOUS
  <1> PICK flag : flag = [reviews[c] EXCEPT !.status = "merged"]
    OBVIOUS
  <1>1. /\ cand' = [cand EXCEPT ![c] = In!Retired(@),
                               ![s].user = IF @ = In!Null THEN cand[c].user ELSE @]
        /\ reviews' = [reviews EXCEPT ![c] = flag]
        /\ UNCHANGED <<consent, login, req>>
        /\ reviews[c].status = "pending"
        /\ In!Live(c) /\ In!Live(s)
    BY DEF In!Merge
  <1>2. /\ cand \in [Cand -> In!Rows \cup {In!NoRow}]
        /\ reviews \in [Cand -> {In!Unflagged} \cup ReviewRow]
    BY DEF IntakeInv, In!IntakeTypeOK, ReviewRow
  <1>3. reviews[c] \in ReviewRow
    BY <1>1, <1>2 DEF In!Unflagged
  <1>4. flag \in ReviewRow /\ flag # In!Unflagged /\ flag.matched = s /\ s \in Cand /\ s # c
    BY <1>1, <1>3 DEF ReviewRow, In!Unflagged, IntakeInv, ReviewsTwo
  <1>5. /\ reviews' \in [Cand -> {In!Unflagged} \cup ReviewRow]
        /\ reviews'[c] = flag
        /\ \A d \in Cand \ {c} : reviews'[d] = reviews[d]
    BY <1>1, <1>2, <1>4
  <1>6. cand[c] \in In!Rows /\ cand[s] \in In!Rows
    BY <1>1, <1>2, <1>4 DEF In!Live, In!Exists
  <1> PICK loser : loser = In!Retired(cand[c])
    OBVIOUS
  <1>7. loser \in In!Rows /\ loser.live = FALSE /\ loser.phone = In!Null /\ loser.source = cand[c].source
    BY <1>6 DEF In!Retired, In!Rows
  <1> PICK mid : mid = [cand EXCEPT ![c] = loser]
    OBVIOUS
  <1>8. /\ mid \in [Cand -> In!Rows \cup {In!NoRow}] /\ mid[s] \in In!Rows
        /\ mid[c] = loser /\ \A d \in Cand \ {c} : mid[d] = cand[d]
    BY <1>2, <1>4, <1>6, <1>7
  <1> PICK user : user = IF mid[s].user = In!Null THEN cand[c].user ELSE mid[s].user
    OBVIOUS
  <1> PICK survivor : survivor = [mid[s] EXCEPT !.user = user]
    OBVIOUS
  <1>9. user \in Logins \cup {In!Null}
    BY <1>6, <1>8 DEF In!Rows
  <1>10. /\ survivor \in In!Rows
         /\ survivor.live = mid[s].live /\ survivor.phone = mid[s].phone
         /\ survivor.source = mid[s].source /\ survivor.skilled = mid[s].skilled
    BY <1>8, <1>9 DEF In!Rows
  <1>11. cand' = [mid EXCEPT ![s] = survivor]
    <2>1. cand' = [mid EXCEPT ![s].user = IF @ = In!Null THEN cand[c].user ELSE @]
      BY <1>1, <1>4, <1>8
    <2>2. cand' = [mid EXCEPT ![s] = [mid[s] EXCEPT !.user = user]]
      BY <2>1, <1>4, <1>8
    <2> QED
      BY <2>2
  <1>12. /\ cand' \in [Cand -> In!Rows \cup {In!NoRow}]
         /\ cand'[s] = survivor
         /\ \A d \in Cand \ {s} : cand'[d] = mid[d]
    BY <1>4, <1>8, <1>10, <1>11
  <1>13. \A r \in In!Rows : r # In!NoRow
    BY DEF In!Rows, In!NoRow
  <1>14. In!IntakeTypeOK'
    BY <1>1, <1>5, <1>12 DEF IntakeInv, In!IntakeTypeOK, ReviewRow
  <1>15. ASSUME NEW d \in Cand, In!Exists(d)'
         PROVE  /\ In!Exists(d)
                /\ cand'[d].source = cand[d].source
                /\ cand'[d].phone # In!Null => cand'[d].live /\ cand[d].phone # In!Null
    <2>1. mid[d] # In!NoRow => /\ cand[d] # In!NoRow
                               /\ mid[d].source = cand[d].source
                               /\ mid[d].phone # In!Null => mid[d] = cand[d]
      BY <1>6, <1>7, <1>8, <1>13
    <2>2. mid[d] # In!NoRow /\ cand'[d].source = mid[d].source
          /\ cand'[d].phone = mid[d].phone /\ cand'[d].live = mid[d].live
      BY <1>8, <1>10, <1>12, <1>13, <1>15 DEF In!Exists
    <2>3. cand[d] # In!NoRow /\ cand[d].phone # In!Null => cand[d].live
      BY DEF IntakeInv, In!NumberHeldByLive, In!Exists, In!Live
    <2> QED
      BY <2>1, <2>2, <2>3 DEF In!Exists
  <1>16. In!ConsentOnRecord'
    BY <1>1, <1>15 DEF IntakeInv, In!ConsentOnRecord
  <1>17. In!NumberHeldByLive'
    BY <1>15 DEF In!NumberHeldByLive, In!Live
  <1>18. Unflagged' \subseteq Unflagged
    <2> SUFFICES ASSUME NEW d \in Cand, In!Live(d)', cand'[d].skilled, reviews'[d] = In!Unflagged
                 PROVE  d \in Unflagged
      BY DEF Unflagged
    <2>1. d # c /\ reviews[d] = In!Unflagged
      BY <1>4, <1>5
    <2>2. mid[d] = cand[d] /\ mid[d] # In!NoRow
      BY <2>1, <1>8, <1>12, <1>13 DEF In!Live, In!Exists
    <2>3. cand[d].live /\ cand[d].skilled
      BY <2>2, <1>10, <1>12 DEF In!Live
    <2> QED
      BY <2>1, <2>2, <2>3 DEF Unflagged, In!Live, In!Exists
  <1>19. ReviewsTwo'
    BY <1>4, <1>5 DEF IntakeInv, ReviewsTwo
  <1>20. CandidatesStay
    BY <1>7, <1>8, <1>10, <1>12, <1>13 DEF CandidatesStay, In!Exists
  <1> QED
    BY <1>1, <1>14, <1>16, <1>17, <1>18, <1>19, <1>20, Untouched, FewerEscape DEF IntakeInv

LEMMA Erasing ==
  ASSUME IsFiniteSet(Worker), IntakeInv, NEW e \in Email, In!Erase(e)
  PROVE  IntakeInv'
  <1>1. /\ cand' = [c \in Cand |-> IF c \in In!Matched(e) THEN In!Scrubbed(cand[c]) ELSE cand[c]]
        /\ login' = login \ {e}
        /\ UNCHANGED <<consent, reviews, req>>
    BY DEF In!Erase
  <1>2. cand \in [Cand -> In!Rows \cup {In!NoRow}]
    BY DEF IntakeInv, In!IntakeTypeOK
  <1>3. ASSUME NEW row \in In!Rows
        PROVE  /\ In!Scrubbed(row) \in In!Rows /\ In!Scrubbed(row).live = FALSE
               /\ In!Scrubbed(row).phone = In!Null /\ In!Scrubbed(row).source = row.source
    BY DEF In!Scrubbed, In!Rows
  <1>4. ASSUME NEW c \in Cand
        PROVE  \/ cand'[c] = cand[c]
               \/ /\ cand[c] \in In!Rows /\ cand'[c] \in In!Rows
                  /\ cand'[c].live = FALSE /\ cand'[c].phone = In!Null
                  /\ cand'[c].source = cand[c].source
    BY <1>1, <1>2, <1>3 DEF In!Matched, In!Exists
  <1>5. \A r \in In!Rows : r # In!NoRow
    BY DEF In!Rows, In!NoRow
  <1>6. cand' \in [Cand -> In!Rows \cup {In!NoRow}]
    <2>1. \A c \in Cand : cand'[c] \in In!Rows \cup {In!NoRow}
      BY <1>2, <1>4
    <2>2. cand' = [c \in Cand |-> cand'[c]]
      BY <1>1
    <2> QED
      BY <2>1, <2>2
  <1>7. In!IntakeTypeOK'
    BY <1>1, <1>6 DEF IntakeInv, In!IntakeTypeOK
  <1>8. In!ConsentOnRecord' /\ In!NumberHeldByLive'
    BY <1>1, <1>4, <1>5 DEF IntakeInv, In!ConsentOnRecord, In!NumberHeldByLive, In!Exists, In!Live
  <1>9. Unflagged' \subseteq Unflagged
    BY <1>1, <1>4, <1>5 DEF Unflagged, In!Live, In!Exists
  <1>10. CandidatesStay
    BY <1>4, <1>5 DEF CandidatesStay, In!Exists
  <1> QED
    BY <1>1, <1>7, <1>8, <1>9, <1>10, Untouched, FewerEscape DEF IntakeInv, ReviewsTwo

LEMMA IntakeStep ==
  ASSUME IdsAreNumbers, IsFiniteSet(Worker), IntakeInv, [In!Next]_(In!vars)
  PROVE  IntakeInv'
  <1>1. ASSUME NEW e \in Email, NEW p \in Phone \cup {In!Null}, NEW k \in Skilled,
               NEW source \in {"staff", "self"}, NEW user \in Logins \cup {In!Null}
        PROVE  /\ In!Person(e, p, k, source, user) \in In!Rows
               /\ In!Person(e, p, k, source, user).live
    BY DEF In!Person, In!Rows, IdsAreNumbers
  <1>2. ASSUME NEW w \in Worker, NEW e \in Email, NEW p \in Phone \cup {In!Null}, NEW k \in Skilled,
               In!CreateCandidate(w, e, p, k)
        PROVE  IntakeInv'
    BY <1>1, <1>2, TakingIn DEF In!CreateCandidate
  <1>3. ASSUME NEW w \in Worker, NEW e \in Email, NEW p \in Phone, NEW k \in Skilled,
               In!RegisterCandidate(w, e, p, k)
        PROVE  IntakeInv'
    <2>1. In!Linked(e) \in Logins \cup {In!Null}
      BY DEF In!Linked, IntakeInv, In!IntakeTypeOK
    <2> QED
      BY <1>1, <1>3, <2>1, TakingIn DEF In!RegisterCandidate
  <1>4. ASSUME NEW w \in Worker, NEW c \in Cand, In!CommitIntake(w, c)
        PROVE  IntakeInv'
    BY <1>4, CommittingIntake
  <1>5. ASSUME NEW w \in Worker, In!Fail(w)
        PROVE  IntakeInv'
    <2>1. In!Finish(w) /\ UNCHANGED <<cand, consent, reviews, login>>
      BY <1>5 DEF In!Fail
    <2>2. CandidatesStay
      BY <2>1 DEF CandidatesStay, In!Exists
    <2>3. Unflagged' = Unflagged /\ Escaping' \subseteq Escaping
      BY <2>1, <2>2, IntakeFinishes DEF Unflagged, In!Live, In!Exists
    <2>4. EscapesBounded'
      BY <2>3, FewerEscape
    <2> QED
      BY <2>1, <2>2, <2>4, IntakeFinishes
         DEF IntakeInv, ReviewsTwo, In!IntakeTypeOK, In!ConsentOnRecord, In!NumberHeldByLive,
            In!Exists, In!Live
  <1>6. ASSUME NEW c \in Cand, In!Dismiss(c) \/ In!Merge(c)
        PROVE  IntakeInv'
    BY <1>6, Dismissing, MergingPeople
  <1>7. ASSUME NEW e \in Email, In!Erase(e)
        PROVE  IntakeInv'
    BY <1>7, Erasing
  <1>8. CASE UNCHANGED In!vars
    <2>1. UNCHANGED <<cand, consent, reviews, login, req>>
      BY <1>8 DEF In!vars
    <2>2. Unflagged' = Unflagged /\ CandidatesStay
      BY <2>1 DEF Unflagged, In!Live, In!Exists, CandidatesStay
    <2> QED
      BY <2>1, <2>2, Untouched, FewerEscape
         DEF IntakeInv, ReviewsTwo, In!IntakeTypeOK, In!ConsentOnRecord, In!NumberHeldByLive,
            In!Exists, In!Live
  <1> QED
    BY <1>2, <1>3, <1>4, <1>5, <1>6, <1>7, <1>8 DEF In!Next

LEMMA IntakeFollows ==
  ASSUME IsFiniteSet(Worker), IntakeInv
  PROVE  In!IntakeKept
  <1>1. Cardinality(Unflagged) <= Cardinality(Worker)
    <2>1. Cardinality(Unflagged) \in Nat
      BY FS_CardinalityType DEF IntakeInv, EscapesBounded
    <2> QED
      BY <2>1, EscapingFinite DEF IntakeInv, EscapesBounded
  <1>2. \A S : In!Cardinality(S) = Cardinality(S)
    BY DEF In!Cardinality, Cardinality
  <1>3. In!UnflaggedBounded
    BY <1>1, <1>2 DEF In!UnflaggedBounded, Unflagged
  <1> QED
    BY <1>3 DEF IntakeInv, In!IntakeKept

(* staffing.py:148-176, register.py:86-160, dedup.py:69, for any           *)
(* candidates, emails, phones and finitely many requests: whoever          *)
(* registered himself has his consent on record, no number is held by a    *)
(* row that was merged away, and a look-alike that no review names was let *)
(* in by a scan that overlapped another request.                           *)
THEOREM IntakeHolds ==
  ASSUME IdsAreNumbers, IsFiniteSet(Worker)
  PROVE  Spec => []IntakeKept
  <1> DEFINE Inv == part = "intake" => IntakeInv
  <1>1. Init => Inv
    BY IntakeStart DEF Init
  <1>2. Inv /\ [Next]_vars => Inv'
    <2> SUFFICES ASSUME Inv, [Next]_vars, part' = "intake"
                 PROVE  IntakeInv'
      OBVIOUS
    <2>1. part = "intake" /\ [In!Next]_(In!vars)
      BY DEF Next, vars, In!vars, RestOfPortal, RestOfIntake, RestOfRegistrations, RestOfLeads,
         RestOfBoard, RestOfCampus, RestOfScreens, RestOfRoster
    <2> QED
      BY <2>1, IntakeStep
  <1>3. Inv => IntakeKept
    BY IntakeFollows DEF IntakeKept
  <1> QED
    BY <1>1, <1>2, <1>3, PTL DEF Spec

-----------------------------------------------------------------------------
(* Campus.                                                                 *)

CourseRow == [row : {TRUE}, slug : Slug, public : BOOLEAN, status : {"draft", "active"}]
CohortRow == [row : {TRUE}, of : Course, status : Ca!CohortStatuses]
StudentRow == [row : {TRUE}, who : Identity]
SeatRow == [row : {TRUE}, to : Course, status : {"applied", "cancelled"}]

CampusTables == Ca!CampusTypeOK /\ req = [w \in Worker |-> req[w]]

\* What is public was published, and a student registered with consent.
HistoryKept ==
  /\ \A k \in Course : Ca!Exists(course[k]) /\ course[k].public => k \in offered
  /\ \A s \in Student : Ca!Exists(student[s]) => s \in consent

\* A seat in an open cohort of a course that was on offer.
Offerable(x, k) == /\ k \in offered
                   /\ Ca!Exists(cohort[x[1]])
                   /\ cohort[x[1]].of = k
                   /\ cohort[x[1]].status \in Ca!Applyable
                   /\ x[2] \in consent

CampusLoaded(w) ==
  LET r == req[w] IN
  /\ r.op = "create" => r.slug \in Slug
  /\ r.op = "publish" => /\ r.of \in Course /\ Ca!Exists(course[r.of])
                         /\ r.public \in BOOLEAN /\ r.seen.public \in BOOLEAN
  /\ r.op = "register" => r.who \in Identity
  /\ r.op = "apply" => r.seat \in Ca!Seats /\ r.to \in Course /\ Offerable(r.seat, r.to)

AllCampusLoaded == \A w \in Worker : CampusLoaded(w)

SeatsOfferable == \A x \in Ca!Seats : Ca!Exists(seat[x]) => Offerable(x, seat[x].to)

SlugsApart ==
  \A j, k \in Course : Ca!Exists(course[j]) /\ Ca!Exists(course[k])
                       /\ course[j].slug = course[k].slug => j = k

IdentitiesApart ==
  \A r, s \in Student : Ca!Exists(student[r]) /\ Ca!Exists(student[s])
                        /\ student[r].who = student[s].who => r = s

CampusInv == /\ CampusTables
             /\ HistoryKept
             /\ AllCampusLoaded
             /\ Ca!PublishAgrees
             /\ SeatsOfferable
             /\ SlugsApart
             /\ IdentitiesApart

\* What every step does: rows stay, and cohorts as they were made.
CampusGrows == /\ \A k \in Course : Ca!Exists(course[k]) => Ca!Exists(course'[k])
               /\ \A h \in Cohort : Ca!Exists(cohort[h]) => cohort'[h] = cohort[h]
               /\ offered \subseteq offered'
               /\ consent \subseteq consent'

LEMMA CampusStart ==
  ASSUME Ca!Init
  PROVE  CampusInv
  <1>1. CampusTables
    BY DEF Ca!Init, CampusTables, Ca!CampusTypeOK
  <1>2. /\ \A k \in Course : ~Ca!Exists(course[k])
        /\ \A s \in Student : ~Ca!Exists(student[s])
        /\ \A x \in Ca!Seats : ~Ca!Exists(seat[x])
    BY DEF Ca!Init, Ca!Exists
  <1>3. AllCampusLoaded
    BY DEF Ca!Init, Ca!Idle, AllCampusLoaded, CampusLoaded
  <1> QED
    BY <1>1, <1>2, <1>3
       DEF CampusInv, HistoryKept, Ca!PublishAgrees, SeatsOfferable, SlugsApart, IdentitiesApart

LEMMA SeatParts ==
  ASSUME NEW x \in Ca!Seats
  PROVE  x[1] \in Cohort /\ x[2] \in Student
  BY DEF Ca!Seats

LEMMA StaysOfferable ==
  ASSUME CampusGrows, NEW x \in Ca!Seats, NEW k, Offerable(x, k)
  PROVE  Offerable(x, k)'
  BY SeatParts DEF CampusGrows, Offerable, Ca!Exists

LEMMA CampusStaysLoaded ==
  ASSUME CampusInv, CampusGrows, NEW w \in Worker, req'[w] = req[w]
  PROVE  CampusLoaded(w)'
  <1> PICK r : r = req[w]
    OBVIOUS
  <1>1. CampusLoaded(w) /\ r = req[w] /\ r = req'[w]
    BY DEF CampusInv, AllCampusLoaded
  <1>2. r.op = "apply" => Offerable(r.seat, r.to)'
    BY <1>1, StaysOfferable DEF CampusLoaded
  <1> QED
    BY <1>1, <1>2 DEF CampusLoaded, CampusGrows, Ca!Exists

LEMMA CampusStarts ==
  ASSUME CampusInv, NEW w \in Worker, NEW q, Ca!Begin(w, q),
         UNCHANGED <<course, cohort, student, consent, seat, offered>> => CampusLoaded(w)'
  PROVE  CampusInv'
  <1>1. /\ UNCHANGED <<course, cohort, student, consent, seat, offered>>
        /\ req' = [v \in Worker |-> IF v = w THEN q ELSE req[v]]
    BY DEF Ca!Begin, CampusInv, CampusTables
  <1>2. CampusTables'
    BY <1>1 DEF CampusInv, CampusTables, Ca!CampusTypeOK
  <1>3. AllCampusLoaded'
    <2> SUFFICES ASSUME NEW v \in Worker
                 PROVE  CampusLoaded(v)'
      BY DEF AllCampusLoaded
    <2>1. CASE v = w
      BY <2>1, <1>1
    <2>2. CASE v # w
      BY <2>2, <1>1, CampusStaysLoaded DEF CampusGrows
    <2> QED
      BY <2>1, <2>2
  <1> QED
    BY <1>1, <1>2, <1>3
       DEF CampusInv, HistoryKept, Ca!PublishAgrees, SeatsOfferable, Offerable, SlugsApart,
          IdentitiesApart

LEMMA CampusFinishes ==
  ASSUME CampusInv, CampusGrows, NEW w \in Worker, Ca!Finish(w)
  PROVE  AllCampusLoaded' /\ req' = [v \in Worker |-> req'[v]]
  <1>1. req' = [v \in Worker |-> IF v = w THEN Ca!Idle ELSE req[v]]
    BY DEF Ca!Finish, CampusInv, CampusTables
  <1>2. ASSUME NEW v \in Worker
        PROVE  CampusLoaded(v)'
    <2>1. CASE v = w
      BY <2>1, <1>1 DEF CampusLoaded, Ca!Idle
    <2>2. CASE v # w
      BY <2>2, <1>1, CampusStaysLoaded
    <2> QED
      BY <2>1, <2>2
  <1> QED
    BY <1>1, <1>2 DEF AllCampusLoaded

LEMMA CreatingCourse ==
  ASSUME CampusInv, NEW w \in Worker, NEW k \in Course, Ca!CommitCourse(w, k)
  PROVE  CampusInv'
  <1> PICK g : g = req[w].slug
    OBVIOUS
  <1> PICK row : row = [row |-> TRUE, slug |-> g, public |-> FALSE, status |-> "draft"]
    OBVIOUS
  <1>1. /\ course' = [course EXCEPT ![k] = row]
        /\ Ca!Finish(w)
        /\ ~Ca!Exists(course[k])
        /\ \A j \in Course : Ca!Exists(course[j]) => course[j].slug # g
        /\ UNCHANGED <<cohort, student, consent, seat, offered>>
    BY DEF Ca!CommitCourse, Ca!SlugUnused
  <1>2. g \in Slug
    BY DEF CampusInv, AllCampusLoaded, CampusLoaded, Ca!CommitCourse
  <1>3. /\ row \in CourseRow /\ Ca!Exists(row) /\ row.slug = g
        /\ row.public = FALSE /\ row.status = "draft"
    BY <1>2 DEF CourseRow, Ca!Exists, Ca!NoRow
  <1>4. /\ course' \in [Course -> {Ca!NoRow} \cup CourseRow]
        /\ course'[k] = row
        /\ \A j \in Course \ {k} : course'[j] = course[j]
    BY <1>1, <1>3 DEF CampusInv, CampusTables, Ca!CampusTypeOK, CourseRow
  <1>5. CampusGrows
    BY <1>1, <1>4 DEF CampusGrows
  <1>6. CampusTables' /\ AllCampusLoaded'
    BY <1>1, <1>4, <1>5, CampusFinishes DEF CampusInv, CampusTables, Ca!CampusTypeOK, CourseRow
  <1>7. HistoryKept' /\ Ca!PublishAgrees'
    BY <1>1, <1>3, <1>4 DEF CampusInv, HistoryKept, Ca!PublishAgrees
  <1>8. SlugsApart'
    BY <1>1, <1>3, <1>4 DEF CampusInv, SlugsApart
  <1> QED
    BY <1>1, <1>6, <1>7, <1>8 DEF CampusInv, SeatsOfferable, Offerable, IdentitiesApart

LEMMA Publishing ==
  ASSUME CampusInv, NEW w \in Worker, Ca!CommitPublish(w)
  PROVE  CampusInv'
  <1> PICK r : r = req[w]
    OBVIOUS
  <1> PICK k : k = r.of
    OBVIOUS
  <1> PICK row : row = Ca!Published(course[k], r)
    OBVIOUS
  <1>1. /\ course' = [course EXCEPT ![k] = row]
        /\ offered' = IF course'[k].public THEN offered \cup {k} ELSE offered
        /\ Ca!Finish(w)
        /\ UNCHANGED <<cohort, student, consent, seat>>
    BY DEF Ca!CommitPublish
  <1>2. /\ k \in Course /\ Ca!Exists(course[k])
        /\ r.public \in BOOLEAN /\ r.seen.public \in BOOLEAN
    BY DEF CampusInv, AllCampusLoaded, CampusLoaded, Ca!CommitPublish
  <1>3. course \in [Course -> {Ca!NoRow} \cup CourseRow] /\ course[k] \in CourseRow
    BY <1>2 DEF CampusInv, CampusTables, Ca!CampusTypeOK, CourseRow, Ca!Exists
  <1>4. /\ row \in CourseRow /\ row.slug = course[k].slug
        /\ row.public <=> row.status = "active"
    <2>1. course[k].public <=> course[k].status = "active"
      BY <1>2 DEF CampusInv, Ca!PublishAgrees
    <2> QED
      BY <1>2, <1>3, <2>1 DEF Ca!Published, CourseRow
  <1>5. Ca!Exists(row)
    BY <1>4 DEF CourseRow, Ca!Exists, Ca!NoRow
  <1>6. /\ course' \in [Course -> {Ca!NoRow} \cup CourseRow]
        /\ course'[k] = row
        /\ \A j \in Course \ {k} : course'[j] = course[j]
    BY <1>1, <1>2, <1>3, <1>4
  <1>7. CampusGrows
    BY <1>1, <1>5, <1>6 DEF CampusGrows
  <1>8. CampusTables' /\ AllCampusLoaded'
    BY <1>1, <1>2, <1>6, <1>7, CampusFinishes DEF CampusInv, CampusTables, Ca!CampusTypeOK,
       CourseRow
  <1>9. HistoryKept'
    BY <1>1, <1>6 DEF CampusInv, HistoryKept
  <1>10. Ca!PublishAgrees'
    BY <1>4, <1>6 DEF CampusInv, Ca!PublishAgrees
  <1>11. SlugsApart'
    BY <1>2, <1>4, <1>6 DEF CampusInv, SlugsApart
  <1>12. SeatsOfferable'
    BY <1>1, <1>7, StaysOfferable DEF CampusInv, SeatsOfferable
  <1> QED
    BY <1>1, <1>8, <1>9, <1>10, <1>11, <1>12 DEF CampusInv, IdentitiesApart

LEMMA CreatingCohort ==
  ASSUME CampusInv, NEW k \in Course, NEW h \in Cohort, NEW st \in Ca!CohortStatuses,
         Ca!CreateCohort(k, h, st)
  PROVE  CampusInv'
  <1> PICK row : row = [row |-> TRUE, of |-> k, status |-> st]
    OBVIOUS
  <1>1. /\ cohort' = [cohort EXCEPT ![h] = row]
        /\ ~Ca!Exists(cohort[h])
        /\ UNCHANGED <<course, student, consent, seat, offered, req>>
    BY DEF Ca!CreateCohort
  <1>2. row \in CohortRow
    BY DEF CohortRow
  <1>3. /\ cohort' \in [Cohort -> {Ca!NoRow} \cup CohortRow]
        /\ \A j \in Cohort \ {h} : cohort'[j] = cohort[j]
    BY <1>1, <1>2 DEF CampusInv, CampusTables, Ca!CampusTypeOK, CohortRow
  <1>4. CampusGrows
    BY <1>1, <1>3 DEF CampusGrows
  <1>5. CampusTables'
    BY <1>1, <1>3 DEF CampusInv, CampusTables, Ca!CampusTypeOK, CohortRow
  <1>6. AllCampusLoaded'
    BY <1>1, <1>4, CampusStaysLoaded DEF AllCampusLoaded
  <1>7. SeatsOfferable'
    BY <1>1, <1>4, StaysOfferable DEF CampusInv, SeatsOfferable
  <1> QED
    BY <1>1, <1>5, <1>6, <1>7 DEF CampusInv, HistoryKept, Ca!PublishAgrees, SlugsApart,
       IdentitiesApart

LEMMA RegisteringStudent ==
  ASSUME CampusInv, NEW w \in Worker, NEW s \in Student, Ca!CommitStudent(w, s)
  PROVE  CampusInv'
  <1> PICK i : i = req[w].who
    OBVIOUS
  <1> PICK row : row = [row |-> TRUE, who |-> i]
    OBVIOUS
  <1>1. /\ student' = [student EXCEPT ![s] = row]
        /\ consent' = consent \cup {s}
        /\ Ca!Finish(w)
        /\ \A r \in Student : Ca!Exists(student[r]) => student[r].who # i
        /\ UNCHANGED <<course, cohort, seat, offered>>
    BY DEF Ca!CommitStudent, Ca!WhoUnused
  <1>2. i \in Identity
    BY DEF CampusInv, AllCampusLoaded, CampusLoaded, Ca!CommitStudent
  <1>3. row \in StudentRow /\ row.who = i
    BY <1>2 DEF StudentRow
  <1>4. /\ student' \in [Student -> {Ca!NoRow} \cup StudentRow]
        /\ student'[s] = row
        /\ \A r \in Student \ {s} : student'[r] = student[r]
    BY <1>1, <1>3 DEF CampusInv, CampusTables, Ca!CampusTypeOK, StudentRow
  <1>5. CampusGrows
    BY <1>1 DEF CampusGrows
  <1>6. CampusTables' /\ AllCampusLoaded'
    BY <1>1, <1>4, <1>5, CampusFinishes DEF CampusInv, CampusTables, Ca!CampusTypeOK, StudentRow
  <1>7. HistoryKept'
    BY <1>1, <1>4 DEF CampusInv, HistoryKept
  <1>8. IdentitiesApart'
    BY <1>1, <1>3, <1>4 DEF CampusInv, IdentitiesApart
  <1>9. SeatsOfferable'
    BY <1>1, <1>5, StaysOfferable DEF CampusInv, SeatsOfferable
  <1> QED
    BY <1>1, <1>6, <1>7, <1>8, <1>9 DEF CampusInv, Ca!PublishAgrees, SlugsApart

LEMMA Applying ==
  ASSUME CampusInv, NEW w \in Worker, Ca!CommitApply(w)
  PROVE  CampusInv'
  <1> PICK r : r = req[w]
    OBVIOUS
  <1> PICK row : row = [row |-> TRUE, to |-> r.to, status |-> "applied"]
    OBVIOUS
  <1>1. /\ seat' = [seat EXCEPT ![r.seat] = row]
        /\ Ca!Finish(w)
        /\ UNCHANGED <<course, cohort, student, consent, offered>>
    BY DEF Ca!CommitApply
  <1>2. r.seat \in Ca!Seats /\ r.to \in Course /\ Offerable(r.seat, r.to)
    BY DEF CampusInv, AllCampusLoaded, CampusLoaded, Ca!CommitApply
  <1>3. row \in SeatRow /\ row.to = r.to
    BY <1>2 DEF SeatRow
  <1>4. /\ seat' \in [Ca!Seats -> {Ca!NoRow} \cup SeatRow]
        /\ seat'[r.seat] = row
        /\ \A x \in Ca!Seats \ {r.seat} : seat'[x] = seat[x]
    BY <1>1, <1>2, <1>3 DEF CampusInv, CampusTables, Ca!CampusTypeOK, SeatRow
  <1>5. CampusGrows
    BY <1>1 DEF CampusGrows
  <1>6. CampusTables' /\ AllCampusLoaded'
    BY <1>1, <1>4, <1>5, CampusFinishes DEF CampusInv, CampusTables, Ca!CampusTypeOK, SeatRow
  <1>7. SeatsOfferable'
    <2> SUFFICES ASSUME NEW x \in Ca!Seats, Ca!Exists(seat'[x]),
                        NEW k, k = seat'[x].to
                 PROVE  Offerable(x, k)'
      BY DEF SeatsOfferable, Ca!Exists
    <2>1. CASE x = r.seat
      BY <2>1, <1>2, <1>3, <1>4, <1>5, StaysOfferable
    <2>2. CASE x # r.seat
      BY <2>2, <1>4, <1>5, StaysOfferable DEF CampusInv, SeatsOfferable
    <2> QED
      BY <2>1, <2>2
  <1> QED
    BY <1>1, <1>6, <1>7 DEF CampusInv, HistoryKept, Ca!PublishAgrees, SlugsApart, IdentitiesApart

LEMMA Cancelling ==
  ASSUME CampusInv, NEW x \in Ca!Seats, Ca!Cancel(x)
  PROVE  CampusInv'
  <1> PICK row : row = [seat[x] EXCEPT !.status = "cancelled"]
    OBVIOUS
  <1>1. /\ seat' = [seat EXCEPT ![x] = row]
        /\ Ca!Exists(seat[x])
        /\ UNCHANGED <<course, cohort, student, consent, offered, req>>
    BY DEF Ca!Cancel
  <1>2. seat \in [Ca!Seats -> {Ca!NoRow} \cup SeatRow] /\ seat[x] \in SeatRow
    BY <1>1 DEF CampusInv, CampusTables, Ca!CampusTypeOK, SeatRow, Ca!Exists
  <1>3. row \in SeatRow /\ row.to = seat[x].to
    BY <1>2 DEF SeatRow
  <1>4. /\ seat' \in [Ca!Seats -> {Ca!NoRow} \cup SeatRow]
        /\ seat'[x] = row
        /\ \A y \in Ca!Seats \ {x} : seat'[y] = seat[y]
    BY <1>1, <1>2, <1>3
  <1>5. CampusGrows
    BY <1>1 DEF CampusGrows
  <1>6. AllCampusLoaded'
    BY <1>1, <1>5, CampusStaysLoaded DEF AllCampusLoaded
  <1>7. CampusTables'
    BY <1>1, <1>4 DEF CampusInv, CampusTables, Ca!CampusTypeOK, SeatRow
  <1>8. SeatsOfferable'
    BY <1>1, <1>3, <1>4, <1>5, StaysOfferable DEF CampusInv, SeatsOfferable
  <1> QED
    BY <1>1, <1>6, <1>7, <1>8 DEF CampusInv, HistoryKept, Ca!PublishAgrees, SlugsApart,
       IdentitiesApart

LEMMA CampusStep ==
  ASSUME CampusInv, [Ca!Next]_(Ca!vars)
  PROVE  CampusInv'
  <1>0. req = [w \in Worker |-> req[w]]
    BY DEF CampusInv, CampusTables
  <1>1. ASSUME NEW w \in Worker, NEW g \in Slug, Ca!PostCourse(w, g)
        PROVE  CampusInv'
    <2> PICK q : q = [op |-> "create", slug |-> g]
      OBVIOUS
    <2>1. Ca!Begin(w, q) /\ req'[w] = q
      BY <1>0, <1>1 DEF Ca!PostCourse, Ca!Begin
    <2>2. CampusLoaded(w)'
      BY <2>1 DEF CampusLoaded
    <2> QED
      BY <2>1, <2>2, CampusStarts
  <1>2. ASSUME NEW w \in Worker, NEW k \in Course, Ca!CommitCourse(w, k)
        PROVE  CampusInv'
    BY <1>2, CreatingCourse
  <1>3. ASSUME NEW w \in Worker, NEW k \in Course, NEW b \in BOOLEAN, Ca!PostPublish(w, k, b)
        PROVE  CampusInv'
    <2> PICK q : q = [op |-> "publish", of |-> k, public |-> b, seen |-> course[k]]
      OBVIOUS
    <2>1. Ca!Begin(w, q) /\ req'[w] = q /\ Ca!Exists(course[k]) /\ course' = course
      BY <1>0, <1>3 DEF Ca!PostPublish, Ca!Begin
    <2>2. course[k].public \in BOOLEAN
      BY <2>1 DEF CampusInv, CampusTables, Ca!CampusTypeOK, Ca!Exists
    <2>3. CampusLoaded(w)'
      BY <2>1, <2>2 DEF CampusLoaded
    <2> QED
      BY <2>1, <2>3, CampusStarts
  <1>4. ASSUME NEW w \in Worker, Ca!CommitPublish(w)
        PROVE  CampusInv'
    BY <1>4, Publishing
  <1>5. ASSUME NEW w \in Worker, NEW i \in Identity, Ca!PostStudent(w, i)
        PROVE  CampusInv'
    <2> PICK q : q = [op |-> "register", who |-> i]
      OBVIOUS
    <2>1. Ca!Begin(w, q) /\ req'[w] = q
      BY <1>0, <1>5 DEF Ca!PostStudent, Ca!Begin
    <2>2. CampusLoaded(w)'
      BY <2>1 DEF CampusLoaded
    <2> QED
      BY <2>1, <2>2, CampusStarts
  <1>6. ASSUME NEW w \in Worker, NEW s \in Student, Ca!CommitStudent(w, s)
        PROVE  CampusInv'
    BY <1>6, RegisteringStudent
  <1>7. ASSUME NEW w \in Worker, NEW s \in Student, NEW k \in Course, NEW h \in Cohort,
               Ca!PostApply(w, s, k, h)
        PROVE  CampusInv'
    <2> PICK x : x = <<h, s>>
      OBVIOUS
    <2> PICK q : q = [op |-> "apply", by |-> s, to |-> k, seat |-> x]
      OBVIOUS
    <2>1. /\ Ca!Begin(w, q) /\ req'[w] = q
          /\ Ca!Exists(student[s]) /\ k \in Ca!OpenCourses /\ h \in Ca!CohortsToPick(k)
      BY <1>0, <1>7 DEF Ca!PostApply, Ca!Begin
    <2>2. x \in Ca!Seats /\ x[1] = h /\ x[2] = s
      BY DEF Ca!Seats
    <2>3. Offerable(x, k)
      BY <2>1, <2>2 DEF Offerable, Ca!OpenCourses, Ca!Public, Ca!CohortsToPick, Ca!OpenCohorts,
         CampusInv, HistoryKept
    <2>4. UNCHANGED <<cohort, consent, offered>>
      BY <2>1 DEF Ca!Begin
    <2>5. Offerable(x, k)'
      BY <2>3, <2>4 DEF Offerable
    <2>6. CampusLoaded(w)'
      BY <2>1, <2>2, <2>5 DEF CampusLoaded
    <2> QED
      BY <2>1, <2>6, CampusStarts
  <1>8. ASSUME NEW w \in Worker, Ca!CommitApply(w)
        PROVE  CampusInv'
    BY <1>8, Applying
  <1>9. ASSUME NEW w \in Worker, Ca!Fail(w)
        PROVE  CampusInv'
    <2>1. Ca!Finish(w) /\ UNCHANGED <<course, cohort, student, consent, seat, offered>>
      BY <1>9 DEF Ca!Fail
    <2>2. AllCampusLoaded' /\ req' = [v \in Worker |-> req'[v]]
      BY <2>1, CampusFinishes DEF CampusGrows
    <2> QED
      BY <2>1, <2>2 DEF CampusInv, CampusTables, Ca!CampusTypeOK,
         HistoryKept, Ca!PublishAgrees, SeatsOfferable, Offerable, SlugsApart, IdentitiesApart
  <1>10. ASSUME NEW k \in Course, NEW h \in Cohort, NEW st \in Ca!CohortStatuses,
                Ca!CreateCohort(k, h, st)
         PROVE  CampusInv'
    BY <1>10, CreatingCohort
  <1>11. ASSUME NEW x \in Ca!Seats, Ca!Cancel(x)
         PROVE  CampusInv'
    BY <1>11, Cancelling
  <1>12. CASE UNCHANGED Ca!vars
    <2>1. UNCHANGED <<course, cohort, student, consent, seat, offered, req>>
      BY <1>12 DEF Ca!vars
    <2>2. AllCampusLoaded'
      BY <2>1, CampusStaysLoaded DEF CampusGrows, AllCampusLoaded
    <2> QED
      BY <2>1, <2>2 DEF CampusInv, CampusTables, Ca!CampusTypeOK,
         HistoryKept, Ca!PublishAgrees, SeatsOfferable, Offerable, SlugsApart, IdentitiesApart
  <1> QED
    BY <1>1, <1>2, <1>3, <1>4, <1>5, <1>6, <1>7, <1>8, <1>9, <1>10, <1>11, <1>12 DEF Ca!Next

LEMMA CampusFollows ==
  ASSUME CampusInv
  PROVE  Ca!CampusKept
  <1>1. Ca!SeatsWereOffered
    BY DEF CampusInv, SeatsOfferable, Offerable, Ca!SeatsWereOffered
  <1>2. Ca!OneRowPerName
    BY DEF CampusInv, SlugsApart, IdentitiesApart, Ca!OneRowPerName
  <1> QED
    BY <1>1, <1>2 DEF CampusInv, CampusTables, Ca!CampusKept

-----------------------------------------------------------------------------
(* Roster.                                                                 *)

RosterStatuses == {"applied", "tested", "offered", "active", "cancelled", "completed", "dropped"}

RosterActions == {Ro!Waive, "cancelled", "completed", "dropped"}

\* No move of the machine leads back to where an action that was made can be repeated.
Spent(action) == CASE action = Ro!Waive -> {"active", "completed", "dropped"}
                   [] action \in {"cancelled", "completed", "dropped"} -> {action}

CallTyped == \/ call = Ro!Quiet
             \/ call.at = "asked"
             \/ /\ call.at = "answered"
                /\ call.code \in {"OK", "STATUS_INVALID", "ILLEGAL_TRANSITION"}
                /\ call.moves \in 0 .. moves

LoadTyped == \/ load = Ro!Quiet
             \/ load.at = "asked"
             \/ load.at = "served" /\ load.moves \in told .. moves

RosterInv ==
  /\ status \in RosterStatuses
  /\ moves \in 0 .. MaxMoves /\ told \in 0 .. moves
  /\ pressed \in {0, 1}
  /\ modal \in RosterActions \cup {Ro!None}
  /\ err \in {"none", "refused", "lost"}
  /\ CallTyped /\ LoadTyped
  /\ shown = Ro!Nothing \/ (shown.held /\ shown.moves \in told .. moves)
  \* What the page holds, or is about to, is the row unless that has moved.
  /\ shown.held /\ ~stale => shown.status = status
  /\ load.at = "served" /\ ~stale => load.status = status
  \* It confirms a move only over a row, and fetches none meanwhile.
  /\ shown.held => load = Ro!Quiet
  /\ modal # Ro!None => shown.held
  /\ call # Ro!Quiet => modal # Ro!None
  /\ shown.held \/ load # Ro!Quiet \/ notice
  /\ modal # Ro!None /\ pressed = 1 => status \in Spent(modal)

LEMMA RosterStart ==
  ASSUME MaxMoves \in Nat, Ro!Init
  PROVE  RosterInv
  <1>1. /\ status \in RosterStatuses /\ moves = 0 /\ told = 0 /\ pressed = 0
        /\ modal = Ro!None /\ call = Ro!Quiet /\ err = "none"
        /\ shown = Ro!Nothing /\ shown.held = FALSE
        /\ load.at = "asked" /\ load # Ro!Quiet
    BY DEF Ro!Init, RosterStatuses, Ro!Nothing, Ro!Quiet
  <1> QED
    BY <1>1 DEF RosterInv, CallTyped, LoadTyped

\* What is spent stays spent, whoever moves the enrollment.
LEMMA SpentStays ==
  ASSUME NEW action \in RosterActions, NEW s \in Spent(action), NEW to,
         \/ <<s, to>> \in Ro!Manual
         \/ <<s, to>> \in {<<"applied", "offered">>, <<"tested", "offered">>, <<"offered", "active">>}
  PROVE  to \in Spent(action)
  BY DEF Spent, RosterActions, Ro!Manual, Ro!Waive

LEMMA SpentIsRefused ==
  ASSUME NEW action \in RosterActions, NEW s \in Spent(action)
  PROVE  ~Ro!Accepts(s, action)
  BY DEF Spent, RosterActions, Ro!Accepts, Ro!Manual, Ro!Waive

LEMMA AcceptedIsSpent ==
  ASSUME NEW action \in RosterActions, NEW s \in RosterStatuses, Ro!Accepts(s, action)
  PROVE  Ro!After(s, action) \in Spent(action) \cap RosterStatuses
  BY DEF Spent, RosterActions, RosterStatuses, Ro!Accepts, Ro!After, Ro!Manual, Ro!Waive

LEMMA RosterElsewhere ==
  ASSUME MaxMoves \in Nat, RosterInv, NEW to \in {"offered", "active", "cancelled", "completed", "dropped"},
         Ro!Elsewhere(to)
  PROVE  RosterInv'
  <1>1. /\ status' = to /\ moves' = moves + 1 /\ stale' = TRUE /\ moves < MaxMoves
        /\ UNCHANGED <<shown, modal, call, err, load, notice, told, pressed>>
        /\ \/ <<status, to>> \in Ro!Manual
           \/ <<status, to>> \in {<<"applied", "offered">>, <<"tested", "offered">>, <<"offered", "active">>}
    BY DEF Ro!Elsewhere, Ro!Moved
  <1>2. modal # Ro!None /\ pressed = 1 => status' \in Spent(modal)
    BY <1>1, SpentStays DEF RosterInv
  <1> QED
    BY <1>1, <1>2 DEF RosterInv, CallTyped, LoadTyped, RosterStatuses

LEMMA RosterServes ==
  ASSUME MaxMoves \in Nat, RosterInv, Ro!ServeCall
  PROVE  RosterInv'
  <1>1. modal # Ro!None /\ shown.held /\ modal \in RosterActions /\ load = Ro!Quiet
    BY DEF Ro!ServeCall, RosterInv, Ro!Quiet
  <1>2. CASE Ro!Accepts(status, modal)
    <2>1. /\ status' = Ro!After(status, modal) /\ moves' = moves + 1 /\ stale' = TRUE /\ moves < MaxMoves
          /\ pressed' = pressed + 1
          /\ call' = [at |-> "answered", code |-> "OK", moves |-> moves']
          /\ UNCHANGED <<shown, modal, err, load, notice, told>>
      BY <1>2 DEF Ro!ServeCall, Ro!Moved
    <2>2. status' \in Spent(modal) \cap RosterStatuses
      BY <1>1, <1>2, <2>1, AcceptedIsSpent DEF RosterInv
    <2>3. pressed = 0
      BY <1>1, <1>2, SpentIsRefused DEF RosterInv
    <2> QED
      <3>1. call'.at = "answered" /\ call'.code = "OK" /\ call'.moves = moves' /\ call' # Ro!Quiet
        BY <2>1 DEF Ro!Quiet
      <3> QED
        BY <1>1, <2>1, <2>2, <2>3, <3>1 DEF RosterInv, CallTyped, LoadTyped
  <1>3. CASE ~Ro!Accepts(status, modal)
    <2>1. /\ call' = [at |-> "answered", code |-> Ro!Refusal(modal), moves |-> moves]
          /\ UNCHANGED <<status, moves, pressed, stale, shown, modal, err, load, notice, told>>
      BY <1>3 DEF Ro!ServeCall
    <2>2. Ro!Refusal(modal) \in {"STATUS_INVALID", "ILLEGAL_TRANSITION"}
      BY DEF Ro!Refusal
    <2> QED
      <3>1. call'.at = "answered" /\ call'.code = Ro!Refusal(modal) /\ call'.moves = moves
        BY <2>1
      <3> QED
        BY <1>1, <2>1, <2>2, <3>1 DEF RosterInv, CallTyped, LoadTyped
  <1> QED
    BY <1>2, <1>3

LEMMA RosterStep ==
  ASSUME MaxMoves \in Nat, RosterInv, [Ro!Next]_(Ro!vars)
  PROVE  RosterInv'
  <1>1. ASSUME NEW to \in {"offered", "active", "cancelled", "completed", "dropped"}, Ro!Elsewhere(to)
        PROVE  RosterInv'
    BY <1>1, RosterElsewhere
  <1>2. CASE Ro!ServeLoad
    BY <1>2 DEF Ro!ServeLoad, RosterInv, CallTyped, LoadTyped, Ro!Quiet
  <1>3. CASE Ro!OnLoaded
    BY <1>3 DEF Ro!OnLoaded, RosterInv, CallTyped, LoadTyped, Ro!Quiet
  <1>4. CASE Ro!FailLoad
    BY <1>4 DEF Ro!FailLoad, RosterInv, CallTyped, LoadTyped, Ro!Quiet
  <1>5. ASSUME NEW action \in {Ro!Waive, "cancelled", "completed", "dropped"}, Ro!Choose(action)
        PROVE  RosterInv'
    <2>1. /\ shown.held /\ modal = Ro!None /\ modal' = action /\ pressed' = 0 /\ err' = "none"
          /\ UNCHANGED <<status, moves, shown, call, load, notice, told, stale>>
      BY <1>5 DEF Ro!Choose
    <2> QED
      BY <1>5, <2>1 DEF RosterInv, CallTyped, LoadTyped, RosterActions
  <1>6. CASE Ro!Cancel
    BY <1>6 DEF Ro!Cancel, RosterInv, CallTyped, LoadTyped
  <1>7. CASE Ro!Submit
    BY <1>7 DEF Ro!Submit, RosterInv, CallTyped, LoadTyped, Ro!Quiet
  <1>8. CASE Ro!ServeCall
    BY <1>8, RosterServes
  <1>9. CASE Ro!OnSuccess
    <2>1. /\ call.at = "answered" /\ call' = Ro!Quiet /\ told' = call.moves
          /\ modal' = Ro!None
          /\ shown' = Ro!Nothing /\ shown'.held = FALSE
          /\ load'.at = "asked" /\ load' # Ro!Quiet
          /\ UNCHANGED <<status, moves, err, notice, pressed, stale>>
      BY <1>9 DEF Ro!OnSuccess, Ro!Reload, Ro!Nothing, Ro!Quiet
    <2>2. told' \in 0 .. moves
      BY <2>1 DEF RosterInv, CallTyped, Ro!Quiet
    <2> QED
      BY <2>1, <2>2 DEF RosterInv, CallTyped, LoadTyped
  <1>10. CASE Ro!OnRefused
    <2>1. /\ call' = Ro!Quiet /\ err' = "refused"
          /\ UNCHANGED <<status, moves, notice, told, pressed, stale>>
      BY <1>10 DEF Ro!OnRefused
    <2>2. CASE UNCHANGED <<modal, shown, load>>
      BY <2>1, <2>2 DEF RosterInv, CallTyped, LoadTyped
    <2>3. CASE Ro!Reload
      <3>1. /\ modal' = Ro!None
            /\ shown' = Ro!Nothing /\ shown'.held = FALSE
            /\ load'.at = "asked" /\ load' # Ro!Quiet
        BY <2>3 DEF Ro!Reload, Ro!Nothing, Ro!Quiet
      <3> QED
        BY <2>1, <3>1 DEF RosterInv, CallTyped, LoadTyped
    <2> QED
      BY <1>10, <2>2, <2>3 DEF Ro!OnRefused
  <1>11. CASE Ro!OnLost
    BY <1>11 DEF Ro!OnLost, RosterInv, CallTyped, LoadTyped, Ro!Quiet
  <1>12. CASE UNCHANGED Ro!vars
    BY <1>12 DEF Ro!vars, RosterInv, CallTyped, LoadTyped
  <1> QED
    BY <1>1, <1>2, <1>3, <1>4, <1>5, <1>6, <1>7, <1>8, <1>9, <1>10, <1>11, <1>12 DEF Ro!Next

LEMMA RosterFollows ==
  ASSUME MaxMoves \in Nat, RosterInv
  PROVE  Ro!RosterKept
  <1>1. Ro!RosterTypeOK
    BY DEF RosterInv, CallTyped, LoadTyped, Ro!RosterTypeOK, Ro!Quiet
  <1>2. Ro!MirrorsMachine
    BY DEF RosterInv, RosterStatuses, Ro!MirrorsMachine, Ro!ActionsFor, Ro!Accepts, Ro!Manual,
       Ro!Waive
  <1>3. Ro!MovesOnceAndShowsIt
    BY DEF RosterInv, Ro!MovesOnceAndShowsIt, Ro!Nothing
  <1> QED
    BY <1>1, <1>2, <1>3 DEF Ro!RosterKept

(* academy.py:123-144, 201-216, 483-568, 1142-1219 and the page on one     *)
(* enrollment, for any courses, cohorts, students and requests: what is    *)
(* public was published, a seat was on offer when it was chosen, a slug    *)
(* and an identity have one row; and the page offers what the server       *)
(* accepts, makes a move once, and shows the move it was told of.          *)
THEOREM CampusHolds ==
  ASSUME MaxMoves \in Nat
  PROVE  Spec => []CampusKept
  <1> DEFINE Inv == (part = "campus" => CampusInv) /\ (part = "roster" => RosterInv)
  <1>1. Init => Inv
    <2>1. Init /\ part = "campus" => Ca!Init
      BY DEF Init
    <2>2. Init /\ part = "roster" => Ro!Init
      BY DEF Init
    <2> QED
      BY <2>1, <2>2, CampusStart, RosterStart
  <1>2. Inv /\ [Next]_vars => Inv'
    <2> SUFFICES ASSUME Inv, [Next]_vars
                 PROVE  Inv'
      OBVIOUS
    <2>1. ASSUME part' = "campus"
          PROVE  part = "campus" /\ [Ca!Next]_(Ca!vars)
      BY <2>1 DEF Next, vars, Ca!vars, RestOfPortal, RestOfIntake, RestOfRegistrations,
         RestOfLeads, RestOfBoard, RestOfCampus, RestOfScreens, RestOfRoster
    <2>2. ASSUME part' = "roster"
          PROVE  part = "roster" /\ [Ro!Next]_(Ro!vars)
      BY <2>2 DEF Next, vars, Ro!vars, RestOfPortal, RestOfIntake, RestOfRegistrations,
         RestOfLeads, RestOfBoard, RestOfCampus, RestOfScreens, RestOfRoster
    <2> QED
      BY <2>1, <2>2, CampusStep, RosterStep
  <1>3. Inv => CampusKept
    BY CampusFollows, RosterFollows DEF CampusKept
  <1> QED
    BY <1>1, <1>2, <1>3, PTL DEF Spec

-----------------------------------------------------------------------------
(* Board.                                                                  *)

BoardBounds == First \in Column /\ MaxVersion \in Nat \ {0}

\* A copy of the board, of rows that are or were.
Behind(rows) == /\ rows \in [Card -> Bo!Rows]
                /\ \A c \in Card : rows[c].version <= server[c].version

\* Each card where the server had it at its version, no move of ours forgotten.
TrueCopy(rows) == \A c \in Card : /\ rows[c].stage = past[c][rows[c].version]
                                  /\ rows[c].version >= mine[c]

MoveRow == [at : {"sent", "moved", "refused"}, card : Card, to : Column,
            version : 1 .. MaxVersion, prev : [Card -> Bo!Rows]]

MoveTyped(m) ==
  move[m] # Bo!Idle =>
    /\ move[m] \in MoveRow
    /\ Behind(move[m].prev)
    /\ move[m].version <= server[move[m].card].version
    /\ move[m].at = "moved" => move[m].version < server[move[m].card].version

FetchTyped == \/ fetch = Bo!Quiet
              \/ fetch.at = "asked"
              \/ fetch.at = "served" /\ Behind(fetch.rows) /\ TrueCopy(fetch.rows)

BoardInv ==
  /\ server \in [Card -> Bo!Rows]
  /\ past \in [Card -> [1 .. MaxVersion -> Column \cup {Bo!Null}]]
  /\ mine \in [Card -> 1 .. MaxVersion]
  /\ move = [m \in Move |-> move[m]]
  /\ \A m \in Move : MoveTyped(m)
  /\ Behind(board)
  /\ FetchTyped
  /\ TrueCopy(server)
  /\ fetch = Bo!Quiet /\ ~failed /\ (\A m \in Move : move[m] = Bo!Idle) => TrueCopy(board)

LEMMA BoardStart ==
  ASSUME BoardBounds, Bo!Init
  PROVE  BoardInv
  <1>1. /\ server = [c \in Card |-> [stage |-> First, version |-> 1]]
        /\ past = [c \in Card |-> [v \in 1 .. MaxVersion |-> IF v = 1 THEN server[c].stage ELSE Bo!Null]]
        /\ board = server
        /\ move = [m \in Move |-> Bo!Idle]
        /\ fetch = Bo!Quiet
        /\ mine = [c \in Card |-> 1]
    BY DEF Bo!Init
  <1>2. 1 \in 1 .. MaxVersion
    BY DEF BoardBounds
  <1>3. server \in [Card -> Bo!Rows]
    BY <1>1, <1>2 DEF BoardBounds, Bo!Rows
  <1>4. past \in [Card -> [1 .. MaxVersion -> Column \cup {Bo!Null}]]
    <2>1. \A c \in Card : server[c].stage \in Column
      BY <1>1 DEF BoardBounds
    <2> QED
      BY <1>1, <2>1
  <1>5. Behind(board) /\ TrueCopy(board) /\ TrueCopy(server)
    BY <1>1, <1>2, <1>3 DEF Behind, TrueCopy, Bo!Rows
  <1>6. \A m \in Move : MoveTyped(m)
    BY <1>1 DEF MoveTyped
  <1>7. mine \in [Card -> 1 .. MaxVersion]
    BY <1>1, <1>2
  <1> QED
    BY <1>1, <1>3, <1>4, <1>5, <1>6, <1>7 DEF BoardInv, FetchTyped

\* What the server does to one card leaves every copy behind, and true.
BoardMoves ==
  /\ \A c \in Card : server[c].version <= server'[c].version
  /\ \A c \in Card : \A v \in 1 .. MaxVersion : v <= server[c].version => past'[c][v] = past[c][v]
  /\ server' \in [Card -> Bo!Rows]

LEMMA StillBehind ==
  ASSUME server \in [Card -> Bo!Rows], BoardMoves, NEW rows, Behind(rows)
  PROVE  Behind(rows)'
  <1>1. \A c \in Card : /\ rows[c].version \in Int /\ server[c].version \in Int
                        /\ server'[c].version \in Int
    BY DEF Behind, BoardMoves, Bo!Rows
  <1> QED
    BY <1>1 DEF Behind, BoardMoves

LEMMA StillTrue ==
  ASSUME BoardMoves, mine' = mine, NEW rows, Behind(rows), TrueCopy(rows)
  PROVE  TrueCopy(rows)'
  <1>1. \A c \in Card : rows[c].version \in 1 .. MaxVersion
    BY DEF Behind, Bo!Rows
  <1> QED
    BY <1>1 DEF Behind, TrueCopy, BoardMoves

LEMMA Advancing ==
  ASSUME BoardBounds, BoardInv, NEW c \in Card, NEW to \in Column, Bo!Advance(c, to), mine' = mine
  PROVE  /\ BoardMoves
         /\ TrueCopy(server)'
         /\ past' \in [Card -> [1 .. MaxVersion -> Column \cup {Bo!Null}]]
         /\ server'[c].version = server[c].version + 1
  <1> PICK v : v = server[c].version + 1
    OBVIOUS
  <1> PICK row : row = [stage |-> to, version |-> v]
    OBVIOUS
  <1> PICK line : line = [past[c] EXCEPT ![v] = to]
    OBVIOUS
  <1>1. /\ server[c].version < MaxVersion
        /\ server' = [server EXCEPT ![c] = row]
        /\ past' = [past EXCEPT ![c] = line]
    BY DEF Bo!Advance
  <1>2. server \in [Card -> Bo!Rows] /\ server[c].version \in 1 .. MaxVersion
    BY DEF BoardInv, Bo!Rows
  <1>3. v \in 1 .. MaxVersion /\ v = server[c].version + 1
    BY <1>1, <1>2, BoardBounds DEF BoardBounds
  <1>4. row \in Bo!Rows /\ row.stage = to /\ row.version = v
    BY <1>3 DEF Bo!Rows
  <1>5. /\ server' \in [Card -> Bo!Rows] /\ server'[c] = row
        /\ \A d \in Card \ {c} : server'[d] = server[d]
    BY <1>1, <1>2, <1>4
  <1>6. /\ past \in [Card -> [1 .. MaxVersion -> Column \cup {Bo!Null}]]
        /\ past[c] \in [1 .. MaxVersion -> Column \cup {Bo!Null}]
    BY DEF BoardInv
  <1>7. /\ line \in [1 .. MaxVersion -> Column \cup {Bo!Null}]
        /\ line[v] = to
        /\ \A u \in 1 .. MaxVersion : u # v => line[u] = past[c][u]
    BY <1>3, <1>6
  <1>8. /\ past' \in [Card -> [1 .. MaxVersion -> Column \cup {Bo!Null}]]
        /\ past'[c] = line
        /\ \A d \in Card \ {c} : past'[d] = past[d]
    BY <1>1, <1>6, <1>7
  <1>9. \A d \in Card : server[d].version \in Int
    BY <1>2 DEF Bo!Rows
  <1>10. BoardMoves
    <2>1. \A d \in Card : server[d].version <= server'[d].version
      BY <1>3, <1>4, <1>5, <1>9
    <2>2. ASSUME NEW d \in Card, NEW u \in 1 .. MaxVersion, u <= server[d].version
          PROVE  past'[d][u] = past[d][u]
      <3>1. u \in Int
        OBVIOUS
      <3>2. CASE d = c
        <4>1. u # v
          BY <3>1, <3>2, <2>2, <1>2, <1>3
        <4>2. line[u] = past[c][u]
          BY <4>1, <1>7
        <4> QED
          BY <4>2, <3>2, <1>8
      <3>3. CASE d # c
        BY <3>3, <1>8
      <3> QED
        BY <3>2, <3>3
    <2> QED
      BY <2>1, <2>2, <1>5 DEF BoardMoves
  <1>11. TrueCopy(server)'
    <2>1. server'[c].stage = past'[c][server'[c].version]
      BY <1>3, <1>4, <1>5, <1>7, <1>8
    <2>2. mine[c] \in 1 .. MaxVersion /\ mine[c] <= server[c].version
      BY DEF BoardInv, TrueCopy, Bo!Rows
    <2>3. server'[c].version >= mine'[c]
      BY <2>2, <1>2, <1>3, <1>4, <1>5
    <2>4. \A d \in Card \ {c} : /\ server'[d].stage = past'[d][server'[d].version]
                                /\ server'[d].version >= mine'[d]
      BY <1>5, <1>8 DEF BoardInv, TrueCopy
    <2> QED
      BY <2>1, <2>3, <2>4 DEF TrueCopy
  <1> QED
    BY <1>3, <1>4, <1>5, <1>8, <1>10, <1>11

\* The copies after a step in which only the server, or nothing, moves.
LEMMA CopiesStay ==
  ASSUME BoardInv, BoardMoves, UNCHANGED <<board, fetch, mine>>
  PROVE  /\ Behind(board)' /\ FetchTyped'
         /\ TrueCopy(board) => TrueCopy(board)'
  <1>0. server \in [Card -> Bo!Rows]
    BY DEF BoardInv
  <1>1. Behind(board)'
    BY <1>0, StillBehind DEF BoardInv, Behind
  <1>2. TrueCopy(board) => TrueCopy(board)'
    BY StillTrue DEF BoardInv, TrueCopy
  <1>3. FetchTyped'
    <2> PICK rows : rows = fetch.rows
      OBVIOUS
    <2>1. Behind(rows) /\ TrueCopy(rows) => Behind(rows)' /\ TrueCopy(rows)'
      BY <1>0, StillBehind, StillTrue
    <2> QED
      BY <2>1 DEF BoardInv, FetchTyped
  <1> QED
    BY <1>1, <1>2, <1>3

LEMMA MoveStays ==
  ASSUME BoardInv, BoardMoves, NEW m \in Move, move'[m] = move[m]
  PROVE  MoveTyped(m)'
  <1> PICK r : r = move[m]
    OBVIOUS
  <1>1. CASE r = Bo!Idle
    BY <1>1 DEF MoveTyped
  <1>2. CASE r # Bo!Idle
    <2>1. /\ r \in MoveRow /\ Behind(r.prev)
          /\ r.version <= server[r.card].version
          /\ r.at = "moved" => r.version < server[r.card].version
      BY <1>2 DEF BoardInv, MoveTyped
    <2>2. Behind(r.prev)'
      BY <2>1, StillBehind DEF BoardInv
    <2>3. /\ r.card \in Card /\ r.version \in Int
          /\ server[r.card].version \in Int /\ server'[r.card].version \in Int
          /\ server[r.card].version <= server'[r.card].version
      BY <2>1 DEF MoveRow, BoardInv, BoardMoves, Bo!Rows
    <2> QED
      BY <2>1, <2>2, <2>3 DEF MoveTyped
  <1> QED
    BY <1>1, <1>2

\* The moves that are not m are where they were.
LEMMA OthersStay ==
  ASSUME BoardInv, BoardMoves, NEW m \in Move, NEW r, move' = [move EXCEPT ![m] = r],
         r # Bo!Idle => /\ r \in MoveRow
                        /\ Behind(r.prev)'
                        /\ r.version <= server'[r.card].version
                        /\ r.at = "moved" => r.version < server'[r.card].version
  PROVE  /\ move' = [n \in Move |-> move'[n]]
         /\ \A n \in Move : MoveTyped(n)'
  <1>1. move = [n \in Move |-> move[n]]
    BY DEF BoardInv
  <1>2. /\ move' = [n \in Move |-> move'[n]]
        /\ move'[m] = r
        /\ \A n \in Move \ {m} : move'[n] = move[n]
    BY <1>1
  <1>3. MoveTyped(m)'
    <2>1. CASE r = Bo!Idle
      BY <2>1, <1>2 DEF MoveTyped
    <2>2. CASE r # Bo!Idle
      BY <2>2, <1>2 DEF MoveTyped
    <2> QED
      BY <2>1, <2>2
  <1>4. \A n \in Move \ {m} : MoveTyped(n)'
    BY <1>2, MoveStays
  <1> QED
    BY <1>2, <1>3, <1>4

\* POST /applications/{id}/transition of the board's own move.
LEMMA BoardServes ==
  ASSUME BoardBounds, BoardInv, NEW m \in Move, Bo!ServeMove(m)
  PROVE  BoardInv'
  <1> PICK r : r = move[m]
    OBVIOUS
  <1> PICK s : s = [r EXCEPT !.at = "moved"]
    OBVIOUS
  <1>1. /\ r.at = "sent" /\ server[r.card].version = r.version
        /\ Bo!Advance(r.card, r.to)
        /\ move' = [move EXCEPT ![m] = s]
        /\ UNCHANGED <<board, fetch, mine>>
    BY DEF Bo!ServeMove, Bo!Answered, Bo!Current
  <1>2. r # Bo!Idle
    BY <1>1 DEF Bo!Idle
  <1>3. r \in MoveRow /\ Behind(r.prev)
    BY <1>2 DEF BoardInv, MoveTyped
  <1>4. r.card \in Card /\ r.to \in Column /\ r.version \in 1 .. MaxVersion
    BY <1>3 DEF MoveRow
  <1>5. /\ BoardMoves /\ TrueCopy(server)'
        /\ past' \in [Card -> [1 .. MaxVersion -> Column \cup {Bo!Null}]]
        /\ server'[r.card].version = server[r.card].version + 1
    BY <1>1, <1>4, Advancing
  <1>6. /\ s \in MoveRow /\ s.prev = r.prev /\ s.version = r.version /\ s.card = r.card
        /\ s.at = "moved"
    BY <1>3 DEF MoveRow
  <1>7. Behind(s.prev)'
    BY <1>3, <1>5, <1>6, StillBehind DEF BoardInv
  <1>8. s.version < server'[s.card].version /\ s.version <= server'[s.card].version
    BY <1>1, <1>4, <1>5, <1>6
  <1>9. /\ move' = [n \in Move |-> move'[n]]
        /\ \A n \in Move : MoveTyped(n)'
    BY <1>1, <1>5, <1>6, <1>7, <1>8, OthersStay
  <1>10. Behind(board)' /\ FetchTyped'
    BY <1>1, <1>5, CopiesStay
  <1>11. move'[m] # Bo!Idle
    <2>1. move'[m] = s
      BY <1>1 DEF BoardInv
    <2> QED
      BY <2>1, <1>6 DEF Bo!Idle
  <1>12. server' \in [Card -> Bo!Rows] /\ mine' \in [Card -> 1 .. MaxVersion]
    BY <1>1, <1>5 DEF BoardMoves, BoardInv
  <1> QED
    BY <1>5, <1>9, <1>10, <1>11, <1>12 DEF BoardInv

\* A colleague's move.
LEMMA BoardElsewhere ==
  ASSUME BoardBounds, BoardInv, NEW c \in Card, NEW to \in Column, Bo!Elsewhere(c, to)
  PROVE  BoardInv'
  <1>1. Bo!Advance(c, to) /\ UNCHANGED <<board, move, fetch, failed, mine>>
    BY DEF Bo!Elsewhere
  <1>2. /\ BoardMoves /\ TrueCopy(server)'
        /\ past' \in [Card -> [1 .. MaxVersion -> Column \cup {Bo!Null}]]
    BY <1>1, Advancing
  <1>3. /\ Behind(board)' /\ FetchTyped'
        /\ TrueCopy(board) => TrueCopy(board)'
    BY <1>1, <1>2, CopiesStay
  <1>4. \A n \in Move : MoveTyped(n)'
    BY <1>1, <1>2, MoveStays
  <1>5. /\ server' \in [Card -> Bo!Rows] /\ mine' \in [Card -> 1 .. MaxVersion]
        /\ move' = [n \in Move |-> move'[n]]
    BY <1>1, <1>2 DEF BoardMoves, BoardInv
  <1> QED
    BY <1>1, <1>2, <1>3, <1>4, <1>5 DEF BoardInv

\* A step that leaves the server's rows alone.
LEMMA ServerStays ==
  ASSUME BoardInv, UNCHANGED <<server, past>>
  PROVE  /\ BoardMoves
         /\ past' \in [Card -> [1 .. MaxVersion -> Column \cup {Bo!Null}]]
         /\ \A rows : Behind(rows) => Behind(rows)'
         /\ mine' = mine => TrueCopy(server)'
  <1>1. \A c \in Card : server[c].version \in Int
    BY DEF BoardInv, Bo!Rows
  <1> QED
    BY <1>1 DEF BoardInv, BoardMoves, Behind, TrueCopy

\* The answer to a move, refused or lost.
LEMMA BoardRefuses ==
  ASSUME BoardInv, NEW m \in Move, Bo!RefuseMove(m)
  PROVE  BoardInv'
  <1> PICK r : r = move[m]
    OBVIOUS
  <1> PICK s : s = [r EXCEPT !.at = "refused"]
    OBVIOUS
  <1>1. /\ r.at \in {"sent", "moved"}
        /\ move' = [move EXCEPT ![m] = s]
        /\ UNCHANGED <<server, past, board, fetch, failed, mine>>
    BY DEF Bo!RefuseMove, Bo!Answered
  <1>2. r # Bo!Idle
    BY <1>1 DEF Bo!Idle
  <1>3. r \in MoveRow /\ Behind(r.prev) /\ r.version <= server[r.card].version
    BY <1>2 DEF BoardInv, MoveTyped
  <1>4. /\ BoardMoves /\ TrueCopy(server)'
        /\ past' \in [Card -> [1 .. MaxVersion -> Column \cup {Bo!Null}]]
        /\ Behind(r.prev)'
    BY <1>1, <1>3, ServerStays
  <1>5. /\ s \in MoveRow /\ s.prev = r.prev /\ s.version = r.version /\ s.card = r.card
        /\ s.at = "refused"
    BY <1>3 DEF MoveRow
  <1>6. /\ move' = [n \in Move |-> move'[n]]
        /\ \A n \in Move : MoveTyped(n)'
    <2>1. s.version <= server'[s.card].version
      BY <1>1, <1>3, <1>5
    <2> QED
      BY <1>1, <1>4, <1>5, <2>1, OthersStay
  <1>7. Behind(board)' /\ FetchTyped'
    BY <1>1, <1>4, CopiesStay
  <1>8. move'[m] # Bo!Idle
    <2>1. move'[m] = s
      BY <1>1 DEF BoardInv
    <2> QED
      BY <2>1, <1>5 DEF Bo!Idle
  <1>9. server' \in [Card -> Bo!Rows] /\ mine' \in [Card -> 1 .. MaxVersion]
    BY <1>1 DEF BoardInv
  <1> QED
    BY <1>4, <1>6, <1>7, <1>8, <1>9 DEF BoardInv

\* onMutate: the board that was shown is kept, and the card moved on it.
LEMMA BoardDrags ==
  ASSUME BoardInv, NEW c \in Card, NEW to \in Column, Bo!Drag(c, to)
  PROVE  BoardInv'
  <1> PICK m : m = CHOOSE n \in Move : move[n] = Bo!Idle
    OBVIOUS
  <1> PICK r : r = [at |-> "sent", card |-> c, to |-> to,
                    version |-> board[c].version, prev |-> board]
    OBVIOUS
  <1> PICK row : row = [board[c] EXCEPT !.stage = to]
    OBVIOUS
  <1>1. /\ \E n \in Move : move[n] = Bo!Idle
        /\ move' = [move EXCEPT ![m] = r]
        /\ board' = [board EXCEPT ![c] = row]
        /\ fetch' = Bo!Quiet
        /\ UNCHANGED <<server, past, failed, mine>>
    BY DEF Bo!Drag, Bo!Moved
  <1>2. m \in Move
    BY <1>1
  <1>3. /\ board \in [Card -> Bo!Rows]
        /\ \A d \in Card : board[d].version <= server[d].version
    BY DEF BoardInv, Behind
  <1>4. board[c] \in Bo!Rows /\ board[c].version \in 1 .. MaxVersion
    BY <1>3 DEF Bo!Rows
  <1>5. row \in Bo!Rows /\ row.version = board[c].version
    BY <1>4 DEF Bo!Rows
  <1>6. /\ r \in MoveRow /\ r.at = "sent" /\ r.prev = board /\ r.version = board[c].version
        /\ r.card = c
    BY <1>3, <1>4 DEF MoveRow
  <1>7. /\ BoardMoves /\ TrueCopy(server)'
        /\ past' \in [Card -> [1 .. MaxVersion -> Column \cup {Bo!Null}]]
        /\ \A rows : Behind(rows) => Behind(rows)'
    BY <1>1, ServerStays
  <1>8. Behind(r.prev)'
    BY <1>6, <1>7 DEF BoardInv
  <1>9. /\ move' = [n \in Move |-> move'[n]]
        /\ \A n \in Move : MoveTyped(n)'
    <2>1. r.version <= server'[r.card].version
      BY <1>1, <1>3, <1>6
    <2> QED
      BY <1>1, <1>2, <1>6, <1>7, <1>8, <2>1, OthersStay
  <1>10. Behind(board)'
    <2>1. board' \in [Card -> Bo!Rows]
      BY <1>1, <1>3, <1>5
    <2>2. \A d \in Card : board'[d].version = board[d].version
      BY <1>1, <1>3, <1>5
    <2> QED
      BY <2>1, <2>2, <1>1, <1>3 DEF Behind
  <1>11. move'[m] # Bo!Idle
    <2>1. move'[m] = r
      BY <1>1, <1>2 DEF BoardInv
    <2> QED
      BY <2>1, <1>6 DEF Bo!Idle
  <1>12. server' \in [Card -> Bo!Rows] /\ mine' \in [Card -> 1 .. MaxVersion] /\ FetchTyped'
    BY <1>1 DEF BoardInv, FetchTyped
  <1> QED
    BY <1>2, <1>7, <1>9, <1>10, <1>11, <1>12 DEF BoardInv

\* onSuccess and onSettled: the version the move made is remembered.
LEMMA BoardSettles ==
  ASSUME BoardBounds, BoardInv, NEW m \in Move, Bo!SettleMoved(m)
  PROVE  BoardInv'
  <1> PICK r : r = move[m]
    OBVIOUS
  <1> PICK top : top = IF mine[r.card] > r.version THEN mine[r.card] ELSE r.version + 1
    OBVIOUS
  <1>1. /\ r.at = "moved"
        /\ mine' = [mine EXCEPT ![r.card] = top]
        /\ fetch' = [at |-> "asked"]
        /\ move' = [move EXCEPT ![m] = Bo!Idle]
        /\ UNCHANGED <<server, past, board, failed>>
    BY DEF Bo!SettleMoved, Bo!Refetched
  <1>2. r # Bo!Idle
    BY <1>1 DEF Bo!Idle
  <1>3. /\ r \in MoveRow
        /\ r.version < server[r.card].version
    BY <1>1, <1>2 DEF BoardInv, MoveTyped
  <1>4. r.card \in Card /\ r.version \in 1 .. MaxVersion
    BY <1>3 DEF MoveRow
  <1>5. /\ BoardMoves
        /\ past' \in [Card -> [1 .. MaxVersion -> Column \cup {Bo!Null}]]
        /\ \A rows : Behind(rows) => Behind(rows)'
    BY <1>1, ServerStays
  <1>6. /\ server[r.card].version \in 1 .. MaxVersion
        /\ mine[r.card] \in 1 .. MaxVersion /\ mine[r.card] <= server[r.card].version
    BY <1>4 DEF BoardInv, TrueCopy, Bo!Rows
  <1>7. top \in 1 .. MaxVersion /\ top <= server[r.card].version
    BY <1>3, <1>4, <1>6, BoardBounds DEF BoardBounds
  <1>8. /\ mine' \in [Card -> 1 .. MaxVersion] /\ mine'[r.card] = top
        /\ \A d \in Card \ {r.card} : mine'[d] = mine[d]
    BY <1>1, <1>4, <1>7 DEF BoardInv
  <1>9. TrueCopy(server)'
    <2>1. server[r.card].version >= mine'[r.card]
      BY <1>6, <1>7, <1>8
    <2>2. \A d \in Card : /\ server[d].stage = past[d][server[d].version]
                          /\ d # r.card => server[d].version >= mine'[d]
      BY <1>8 DEF BoardInv, TrueCopy
    <2> QED
      BY <2>1, <2>2, <1>1 DEF TrueCopy
  <1>10. /\ move' = [n \in Move |-> move'[n]]
         /\ \A n \in Move : MoveTyped(n)'
    BY <1>1, <1>5, OthersStay
  <1>11. FetchTyped' /\ fetch' # Bo!Quiet
    BY <1>1 DEF FetchTyped, Bo!Quiet
  <1>12. Behind(board)' /\ server' \in [Card -> Bo!Rows]
    BY <1>1, <1>5 DEF BoardInv
  <1> QED
    BY <1>5, <1>8, <1>9, <1>10, <1>11, <1>12 DEF BoardInv

\* onError and onSettled: the snapshot is put back.
LEMMA BoardPutsBack ==
  ASSUME BoardInv, NEW m \in Move, Bo!SettleRefused(m)
  PROVE  BoardInv'
  <1> PICK r : r = move[m]
    OBVIOUS
  <1>1. /\ r.at = "refused"
        /\ board' = r.prev
        /\ fetch' = [at |-> "asked"]
        /\ move' = [move EXCEPT ![m] = Bo!Idle]
        /\ UNCHANGED <<server, past, failed, mine>>
    BY DEF Bo!SettleRefused, Bo!Refetched
  <1>2. r # Bo!Idle
    BY <1>1 DEF Bo!Idle
  <1>3. Behind(r.prev)
    BY <1>2 DEF BoardInv, MoveTyped
  <1>4. /\ BoardMoves /\ TrueCopy(server)'
        /\ past' \in [Card -> [1 .. MaxVersion -> Column \cup {Bo!Null}]]
    BY <1>1, ServerStays
  <1>5. Behind(board)'
    BY <1>1, <1>3 DEF Behind
  <1>6. /\ move' = [n \in Move |-> move'[n]]
        /\ \A n \in Move : MoveTyped(n)'
    BY <1>1, <1>4, OthersStay
  <1>7. FetchTyped' /\ fetch' # Bo!Quiet
    BY <1>1 DEF FetchTyped, Bo!Quiet
  <1>8. server' \in [Card -> Bo!Rows] /\ mine' \in [Card -> 1 .. MaxVersion]
    BY <1>1 DEF BoardInv
  <1> QED
    BY <1>4, <1>5, <1>6, <1>7, <1>8 DEF BoardInv

\* The fetches of the board.
LEMMA BoardFetches ==
  ASSUME BoardInv, Bo!ServeFetch \/ Bo!OnFetched \/ Bo!FailFetch \/ Bo!Reopen
  PROVE  BoardInv'
  <1>1. UNCHANGED <<server, past, move, mine>>
    BY DEF Bo!ServeFetch, Bo!OnFetched, Bo!FailFetch, Bo!Reopen
  <1>2. /\ BoardMoves /\ TrueCopy(server)'
        /\ past' \in [Card -> [1 .. MaxVersion -> Column \cup {Bo!Null}]]
    BY <1>1, ServerStays
  <1>3. /\ \A n \in Move : MoveTyped(n)'
        /\ move' = [n \in Move |-> move'[n]]
        /\ server' \in [Card -> Bo!Rows] /\ mine' \in [Card -> 1 .. MaxVersion]
    BY <1>1, <1>2, MoveStays DEF BoardInv
  <1>4. /\ server \in [Card -> Bo!Rows]
        /\ \A c \in Card : server[c].version \in Int
    BY DEF BoardInv, Bo!Rows
  <1>5. CASE Bo!ServeFetch
    <2>1. fetch' = [at |-> "served", rows |-> server] /\ UNCHANGED board
      BY <1>5 DEF Bo!ServeFetch
    <2>2. Behind(server) /\ TrueCopy(server)
      BY <1>4 DEF Behind, BoardInv
    <2>3. FetchTyped' /\ fetch' # Bo!Quiet /\ Behind(board)'
      BY <2>1, <2>2, <1>1 DEF FetchTyped, Bo!Quiet, Behind, TrueCopy, BoardInv
    <2> QED
      BY <1>2, <1>3, <2>3 DEF BoardInv
  <1>6. CASE Bo!OnFetched
    <2>1. fetch.at = "served" /\ board' = fetch.rows /\ fetch' = Bo!Quiet
      BY <1>6 DEF Bo!OnFetched
    <2>2. Behind(fetch.rows) /\ TrueCopy(fetch.rows)
      BY <2>1 DEF BoardInv, FetchTyped, Bo!Quiet
    <2>3. FetchTyped' /\ Behind(board)' /\ TrueCopy(board)'
      BY <2>1, <2>2, <1>1 DEF FetchTyped, Behind, TrueCopy
    <2> QED
      BY <1>2, <1>3, <2>3 DEF BoardInv
  <1>7. CASE Bo!FailFetch
    <2>1. fetch' = Bo!Quiet /\ failed' = TRUE /\ UNCHANGED board
      BY <1>7 DEF Bo!FailFetch
    <2>2. FetchTyped' /\ Behind(board)'
      BY <2>1, <1>1 DEF FetchTyped, Behind, BoardInv
    <2> QED
      BY <1>2, <1>3, <2>1, <2>2 DEF BoardInv
  <1>8. CASE Bo!Reopen
    <2>1. fetch' = [at |-> "asked"] /\ UNCHANGED board
      BY <1>8 DEF Bo!Reopen
    <2>2. FetchTyped' /\ Behind(board)' /\ fetch' # Bo!Quiet
      BY <2>1, <1>1 DEF FetchTyped, Behind, BoardInv, Bo!Quiet
    <2> QED
      BY <1>2, <1>3, <2>1, <2>2 DEF BoardInv
  <1> QED
    BY <1>5, <1>6, <1>7, <1>8

LEMMA BoardStep ==
  ASSUME BoardBounds, BoardInv, [Bo!Next]_(Bo!vars)
  PROVE  BoardInv'
  <1>1. ASSUME NEW m \in Move, Bo!Progress(m)
        PROVE  BoardInv'
    BY <1>1, BoardServes, BoardRefuses, BoardSettles, BoardPutsBack DEF Bo!Progress
  <1>2. ASSUME NEW c \in Card, NEW to \in Column, Bo!Drag(c, to) \/ Bo!Elsewhere(c, to)
        PROVE  BoardInv'
    BY <1>2, BoardDrags, BoardElsewhere
  <1>3. CASE UNCHANGED Bo!vars
    BY <1>3 DEF Bo!vars, BoardInv, MoveTyped, FetchTyped, Behind, TrueCopy
  <1> QED
    BY <1>1, <1>2, <1>3, BoardFetches DEF Bo!Next

LEMMA BoardFollows ==
  ASSUME BoardInv
  PROVE  Bo!BoardKept
  <1>1. Bo!SettledBoardIsTrue
    BY DEF BoardInv, TrueCopy, Bo!SettledBoardIsTrue
  <1>2. board \in [Card -> Bo!Rows]
    BY DEF BoardInv, Behind
  <1>3. fetch.at \in {"none", "asked", "served"}
    BY DEF BoardInv, FetchTyped, Bo!Quiet
  <1>4. move \in [Move -> {Bo!Idle} \cup MoveRow]
    <2>1. \A m \in Move : move[m] \in {Bo!Idle} \cup MoveRow
      BY DEF BoardInv, MoveTyped
    <2> QED
      BY <2>1 DEF BoardInv
  <1> QED
    BY <1>1, <1>2, <1>3, <1>4 DEF BoardInv, Bo!BoardKept, Bo!BoardTypeOK, MoveRow

-----------------------------------------------------------------------------
(* Screens: which lists each mutation tells.                               *)

\* The fields of a list and of a mutation.
LEMMA OfScreen == \A key, shows : /\ Sc!Screen(key, shows).key = key
                                  /\ Sc!Screen(key, shows).shows = shows
  BY DEF Sc!Screen

LEMMA OfHook == \A name, changes, keys :
                  /\ Sc!Hook(name, changes, keys).name = name
                  /\ Sc!Hook(name, changes, keys).changes = changes
                  /\ Sc!Hook(name, changes, keys).told = keys
  BY DEF Sc!Hook

\* A key starts with itself, and a longer one with its beginning.
LEMMA KeyOfOne == \A a : Sc!IsPrefix(<<a>>, <<a>>)
  BY DEF Sc!IsPrefix

LEMMA KeyOfTwo == \A a, b : Sc!IsPrefix(<<a, b>>, <<a, b>>)
  BY DEF Sc!IsPrefix

LEMMA KeyOfThree == \A a, b, c : Sc!IsPrefix(<<a, b, c>>, <<a, b, c>>)
  BY DEF Sc!IsPrefix

LEMMA OneBegins == \A a, b : Sc!IsPrefix(<<a>>, <<a, b>>)
  BY DEF Sc!IsPrefix

LEMMA TwoBegin == \A a, b, c : Sc!IsPrefix(<<a, b>>, <<a, b, c>>)
  BY DEF Sc!IsPrefix

\* Where the rows that a mutation changes are shown.
LEMMA ClientLists ==
  ASSUME NEW q \in Sc!ClientScreens
  PROVE  /\ "audit" \in q.shows => FALSE
         /\ "jobs" \in q.shows => q.key \in {<<"client", "overview">>, <<"client", "jobs">>}
         /\ "offers" \in q.shows => q.key = <<"client", "offers">>
         /\ "owners" \in q.shows => q.key \in {<<"client", "jobs">>, <<"client", "pipeline">>}
         /\ "submissions" \in q.shows => q.key = <<"client", "submissions">>
         /\ "team" \in q.shows => q.key = <<"client", "team">>
  <1>1. ASSUME "audit" \in q.shows
        PROVE  FALSE
    <2>1. ASSUME NEW k, NEW s, q = Sc!Screen(k, s), "audit" \notin s
          PROVE  FALSE
      BY <1>1, <2>1, OfScreen
    <2> QED
      BY <2>1, OfScreen DEF Sc!ClientScreens
  <1>2. ASSUME "jobs" \in q.shows
        PROVE  q.key \in {<<"client", "overview">>, <<"client", "jobs">>}
    <2>1. ASSUME NEW k, NEW s, q = Sc!Screen(k, s), "jobs" \notin s
          PROVE  FALSE
      BY <1>2, <2>1, OfScreen
    <2> QED
      BY <2>1, OfScreen DEF Sc!ClientScreens
  <1>3. ASSUME "offers" \in q.shows
        PROVE  q.key = <<"client", "offers">>
    <2>1. ASSUME NEW k, NEW s, q = Sc!Screen(k, s), "offers" \notin s
          PROVE  FALSE
      BY <1>3, <2>1, OfScreen
    <2> QED
      BY <2>1, OfScreen DEF Sc!ClientScreens
  <1>4. ASSUME "owners" \in q.shows
        PROVE  q.key \in {<<"client", "jobs">>, <<"client", "pipeline">>}
    <2>1. ASSUME NEW k, NEW s, q = Sc!Screen(k, s), "owners" \notin s
          PROVE  FALSE
      BY <1>4, <2>1, OfScreen
    <2> QED
      BY <2>1, OfScreen DEF Sc!ClientScreens
  <1>5. ASSUME "submissions" \in q.shows
        PROVE  q.key = <<"client", "submissions">>
    <2>1. ASSUME NEW k, NEW s, q = Sc!Screen(k, s), "submissions" \notin s
          PROVE  FALSE
      BY <1>5, <2>1, OfScreen
    <2> QED
      BY <2>1, OfScreen DEF Sc!ClientScreens
  <1>6. ASSUME "team" \in q.shows
        PROVE  q.key = <<"client", "team">>
    <2>1. ASSUME NEW k, NEW s, q = Sc!Screen(k, s), "team" \notin s
          PROVE  FALSE
      BY <1>6, <2>1, OfScreen
    <2> QED
      BY <2>1, OfScreen DEF Sc!ClientScreens
  <1> QED
    BY <1>1, <1>2, <1>3, <1>4, <1>5, <1>6

\* Where the rows that a mutation changes are shown.
LEMMA CandidateLists ==
  ASSUME NEW q \in Sc!CandidateScreens
  PROVE  /\ "audit" \in q.shows => FALSE
         /\ "candidate" \in q.shows => q.key \in {<<"candidate", "overview">>, <<"me", "applications">>}
         /\ "consents" \in q.shows => q.key = <<"privacy", "consent">>
         /\ "requests" \in q.shows => q.key = <<"privacy", "requests">>
  <1>1. ASSUME "audit" \in q.shows
        PROVE  FALSE
    <2>1. ASSUME NEW k, NEW s, q = Sc!Screen(k, s), "audit" \notin s
          PROVE  FALSE
      BY <1>1, <2>1, OfScreen
    <2> QED
      BY <2>1, OfScreen DEF Sc!CandidateScreens
  <1>2. ASSUME "candidate" \in q.shows
        PROVE  q.key \in {<<"candidate", "overview">>, <<"me", "applications">>}
    <2>1. ASSUME NEW k, NEW s, q = Sc!Screen(k, s), "candidate" \notin s
          PROVE  FALSE
      BY <1>2, <2>1, OfScreen
    <2> QED
      BY <2>1, OfScreen DEF Sc!CandidateScreens
  <1>3. ASSUME "consents" \in q.shows
        PROVE  q.key = <<"privacy", "consent">>
    <2>1. ASSUME NEW k, NEW s, q = Sc!Screen(k, s), "consents" \notin s
          PROVE  FALSE
      BY <1>3, <2>1, OfScreen
    <2> QED
      BY <2>1, OfScreen DEF Sc!CandidateScreens
  <1>4. ASSUME "requests" \in q.shows
        PROVE  q.key = <<"privacy", "requests">>
    <2>1. ASSUME NEW k, NEW s, q = Sc!Screen(k, s), "requests" \notin s
          PROVE  FALSE
      BY <1>4, <2>1, OfScreen
    <2> QED
      BY <2>1, OfScreen DEF Sc!CandidateScreens
  <1> QED
    BY <1>1, <1>2, <1>3, <1>4

\* Where the rows that a mutation changes are shown.
LEMMA StaffLists ==
  ASSUME NEW q \in Sc!StaffScreens
  PROVE  /\ "activities" \in q.shows => q.key = <<"lead-activities", "lead">>
         /\ "applications" \in q.shows => q.key \in {<<"employer", "overview">>, <<"employee", "overview">>, <<"pipeline", "job">>}
         /\ "audit" \in q.shows => q.key = <<"admin", "audit", 0>>
         /\ "clients" \in q.shows => q.key \in {<<"admin", "clients", 0>>, <<"staff-clients">>}
         /\ "commissions" \in q.shows => q.key \in {<<"vendor-commissions", "vendor">>, <<"vendor-scorecard", "vendor">>}
         /\ "contracts" \in q.shows => q.key = <<"vendor-contracts", "vendor">>
         /\ "interviews" \in q.shows => q.key = <<"interviews">>
         /\ "invoices" \in q.shows => q.key = <<"invoices">>
         /\ "jobs" \in q.shows => q.key \in {<<"admin", "jobs", 0>>, <<"employer", "overview">>, <<"jobs">>}
         /\ "leads" \in q.shows => q.key = <<"leads">>
         /\ "offers" \in q.shows => q.key = <<"offers">>
         /\ "rates" \in q.shows => q.key = <<"vendor-rates", "vendor">>
         /\ "registrations" \in q.shows => q.key = <<"admin", "client-registrations", "pending">>
         /\ "submissions" \in q.shows => q.key = <<"submissions">>
         /\ "tests" \in q.shows => q.key = <<"tests", "all">>
         /\ "timeline" \in q.shows => q.key = <<"candidate-timeline", "candidate">>
         /\ "vendor submissions" \in q.shows => q.key = <<"vendor-submissions">>
         /\ "vendors" \in q.shows => q.key = <<"vendors">>
  <1>1. ASSUME "activities" \in q.shows
        PROVE  q.key = <<"lead-activities", "lead">>
    <2>1. ASSUME NEW k, NEW s, q = Sc!Screen(k, s), "activities" \notin s
          PROVE  FALSE
      BY <1>1, <2>1, OfScreen
    <2> QED
      BY <2>1, OfScreen DEF Sc!StaffScreens, Sc!AdminScreens, Sc!WorkflowScreens,
         Sc!PipelineScreens, Sc!DeskScreens
  <1>2. ASSUME "applications" \in q.shows
        PROVE  q.key \in {<<"employer", "overview">>, <<"employee", "overview">>, <<"pipeline", "job">>}
    <2>1. ASSUME NEW k, NEW s, q = Sc!Screen(k, s), "applications" \notin s
          PROVE  FALSE
      BY <1>2, <2>1, OfScreen
    <2> QED
      BY <2>1, OfScreen DEF Sc!StaffScreens, Sc!AdminScreens, Sc!WorkflowScreens,
         Sc!PipelineScreens, Sc!DeskScreens
  <1>3. ASSUME "audit" \in q.shows
        PROVE  q.key = <<"admin", "audit", 0>>
    <2>1. ASSUME NEW k, NEW s, q = Sc!Screen(k, s), "audit" \notin s
          PROVE  FALSE
      BY <1>3, <2>1, OfScreen
    <2> QED
      BY <2>1, OfScreen DEF Sc!StaffScreens, Sc!AdminScreens, Sc!WorkflowScreens,
         Sc!PipelineScreens, Sc!DeskScreens
  <1>4. ASSUME "clients" \in q.shows
        PROVE  q.key \in {<<"admin", "clients", 0>>, <<"staff-clients">>}
    <2>1. ASSUME NEW k, NEW s, q = Sc!Screen(k, s), "clients" \notin s
          PROVE  FALSE
      BY <1>4, <2>1, OfScreen
    <2> QED
      BY <2>1, OfScreen DEF Sc!StaffScreens, Sc!AdminScreens, Sc!WorkflowScreens,
         Sc!PipelineScreens, Sc!DeskScreens
  <1>5. ASSUME "commissions" \in q.shows
        PROVE  q.key \in {<<"vendor-commissions", "vendor">>, <<"vendor-scorecard", "vendor">>}
    <2>1. ASSUME NEW k, NEW s, q = Sc!Screen(k, s), "commissions" \notin s
          PROVE  FALSE
      BY <1>5, <2>1, OfScreen
    <2> QED
      BY <2>1, OfScreen DEF Sc!StaffScreens, Sc!AdminScreens, Sc!WorkflowScreens,
         Sc!PipelineScreens, Sc!DeskScreens
  <1>6. ASSUME "contracts" \in q.shows
        PROVE  q.key = <<"vendor-contracts", "vendor">>
    <2>1. ASSUME NEW k, NEW s, q = Sc!Screen(k, s), "contracts" \notin s
          PROVE  FALSE
      BY <1>6, <2>1, OfScreen
    <2> QED
      BY <2>1, OfScreen DEF Sc!StaffScreens, Sc!AdminScreens, Sc!WorkflowScreens,
         Sc!PipelineScreens, Sc!DeskScreens
  <1>7. ASSUME "interviews" \in q.shows
        PROVE  q.key = <<"interviews">>
    <2>1. ASSUME NEW k, NEW s, q = Sc!Screen(k, s), "interviews" \notin s
          PROVE  FALSE
      BY <1>7, <2>1, OfScreen
    <2> QED
      BY <2>1, OfScreen DEF Sc!StaffScreens, Sc!AdminScreens, Sc!WorkflowScreens,
         Sc!PipelineScreens, Sc!DeskScreens
  <1>8. ASSUME "invoices" \in q.shows
        PROVE  q.key = <<"invoices">>
    <2>1. ASSUME NEW k, NEW s, q = Sc!Screen(k, s), "invoices" \notin s
          PROVE  FALSE
      BY <1>8, <2>1, OfScreen
    <2> QED
      BY <2>1, OfScreen DEF Sc!StaffScreens, Sc!AdminScreens, Sc!WorkflowScreens,
         Sc!PipelineScreens, Sc!DeskScreens
  <1>9. ASSUME "jobs" \in q.shows
        PROVE  q.key \in {<<"admin", "jobs", 0>>, <<"employer", "overview">>, <<"jobs">>}
    <2>1. ASSUME NEW k, NEW s, q = Sc!Screen(k, s), "jobs" \notin s
          PROVE  FALSE
      BY <1>9, <2>1, OfScreen
    <2>2. CASE q \in Sc!AdminScreens
      BY <2>1, <2>2, OfScreen DEF Sc!AdminScreens
    <2>3. CASE q \in Sc!PipelineScreens
      BY <2>1, <2>3, OfScreen DEF Sc!PipelineScreens
    <2>4. CASE q \in Sc!WorkflowScreens \cup Sc!DeskScreens
      BY <2>1, <2>4, OfScreen DEF Sc!WorkflowScreens, Sc!DeskScreens
    <2> QED
      BY <2>2, <2>3, <2>4 DEF Sc!StaffScreens
  <1>10. ASSUME "leads" \in q.shows
        PROVE  q.key = <<"leads">>
    <2>1. ASSUME NEW k, NEW s, q = Sc!Screen(k, s), "leads" \notin s
          PROVE  FALSE
      BY <1>10, <2>1, OfScreen
    <2> QED
      BY <2>1, OfScreen DEF Sc!StaffScreens, Sc!AdminScreens, Sc!WorkflowScreens,
         Sc!PipelineScreens, Sc!DeskScreens
  <1>11. ASSUME "offers" \in q.shows
        PROVE  q.key = <<"offers">>
    <2>1. ASSUME NEW k, NEW s, q = Sc!Screen(k, s), "offers" \notin s
          PROVE  FALSE
      BY <1>11, <2>1, OfScreen
    <2> QED
      BY <2>1, OfScreen DEF Sc!StaffScreens, Sc!AdminScreens, Sc!WorkflowScreens,
         Sc!PipelineScreens, Sc!DeskScreens
  <1>12. ASSUME "rates" \in q.shows
        PROVE  q.key = <<"vendor-rates", "vendor">>
    <2>1. ASSUME NEW k, NEW s, q = Sc!Screen(k, s), "rates" \notin s
          PROVE  FALSE
      BY <1>12, <2>1, OfScreen
    <2> QED
      BY <2>1, OfScreen DEF Sc!StaffScreens, Sc!AdminScreens, Sc!WorkflowScreens,
         Sc!PipelineScreens, Sc!DeskScreens
  <1>13. ASSUME "registrations" \in q.shows
        PROVE  q.key = <<"admin", "client-registrations", "pending">>
    <2>1. ASSUME NEW k, NEW s, q = Sc!Screen(k, s), "registrations" \notin s
          PROVE  FALSE
      BY <1>13, <2>1, OfScreen
    <2> QED
      BY <2>1, OfScreen DEF Sc!StaffScreens, Sc!AdminScreens, Sc!WorkflowScreens,
         Sc!PipelineScreens, Sc!DeskScreens
  <1>14. ASSUME "submissions" \in q.shows
        PROVE  q.key = <<"submissions">>
    <2>1. ASSUME NEW k, NEW s, q = Sc!Screen(k, s), "submissions" \notin s
          PROVE  FALSE
      BY <1>14, <2>1, OfScreen
    <2> QED
      BY <2>1, OfScreen DEF Sc!StaffScreens, Sc!AdminScreens, Sc!WorkflowScreens,
         Sc!PipelineScreens, Sc!DeskScreens
  <1>15. ASSUME "tests" \in q.shows
        PROVE  q.key = <<"tests", "all">>
    <2>1. ASSUME NEW k, NEW s, q = Sc!Screen(k, s), "tests" \notin s
          PROVE  FALSE
      BY <1>15, <2>1, OfScreen
    <2> QED
      BY <2>1, OfScreen DEF Sc!StaffScreens, Sc!AdminScreens, Sc!WorkflowScreens,
         Sc!PipelineScreens, Sc!DeskScreens
  <1>16. ASSUME "timeline" \in q.shows
        PROVE  q.key = <<"candidate-timeline", "candidate">>
    <2>1. ASSUME NEW k, NEW s, q = Sc!Screen(k, s), "timeline" \notin s
          PROVE  FALSE
      BY <1>16, <2>1, OfScreen
    <2> QED
      BY <2>1, OfScreen DEF Sc!StaffScreens, Sc!AdminScreens, Sc!WorkflowScreens,
         Sc!PipelineScreens, Sc!DeskScreens
  <1>17. ASSUME "vendor submissions" \in q.shows
        PROVE  q.key = <<"vendor-submissions">>
    <2>1. ASSUME NEW k, NEW s, q = Sc!Screen(k, s), "vendor submissions" \notin s
          PROVE  FALSE
      BY <1>17, <2>1, OfScreen
    <2> QED
      BY <2>1, OfScreen DEF Sc!StaffScreens, Sc!AdminScreens, Sc!WorkflowScreens,
         Sc!PipelineScreens, Sc!DeskScreens
  <1>18. ASSUME "vendors" \in q.shows
        PROVE  q.key = <<"vendors">>
    <2>1. ASSUME NEW k, NEW s, q = Sc!Screen(k, s), "vendors" \notin s
          PROVE  FALSE
      BY <1>18, <2>1, OfScreen
    <2> QED
      BY <2>1, OfScreen DEF Sc!StaffScreens, Sc!AdminScreens, Sc!WorkflowScreens,
         Sc!PipelineScreens, Sc!DeskScreens
  <1> QED
    BY <1>1, <1>2, <1>3, <1>4, <1>5, <1>6, <1>7, <1>8, <1>9, <1>10, <1>11, <1>12, <1>13, <1>14,
       <1>15, <1>16, <1>17, <1>18

\* What a mutation changes, or the audit log, is told to the list or listed in Untold.
Tells(h, q) == (h.changes \cup {"audit"}) \cap q.shows # {} =>
                 Sc!Told(h, q) \/ <<h.name, q.key>> \in Sc!Untold

LEMMA ClientOwn ==
  ASSUME NEW q \in Sc!ClientScreens
  PROVE  Sc!IsPrefix(q.key, q.key)
  <1>1. ASSUME NEW a, NEW b, NEW s,
               q = Sc!Screen(<<a, b>>, s)
        PROVE  Sc!IsPrefix(q.key, q.key)
    BY <1>1, OfScreen, KeyOfTwo
  <1> QED
    BY <1>1 DEF Sc!ClientScreens

LEMMA ClientTells ==
  ASSUME NEW h \in Sc!ClientHooks, NEW q \in Sc!ClientScreens
  PROVE  Tells(h, q)
  <1>0. q.key \in h.told => Sc!Told(h, q)
    BY ClientOwn DEF Sc!Told
  <1>1. ASSUME h = Sc!Hook("ClientSubmissionFeedback", {"submissions"},
                            {<<"client", "submissions">>})
        PROVE  Tells(h, q)
    <2>1. /\ h.name = "ClientSubmissionFeedback" /\ h.changes = {"submissions"}
          /\ h.told = {<<"client", "submissions">>}
      BY <1>1, OfHook
    <2> QED
      BY <2>1, <1>0, ClientLists DEF Tells, Sc!Untold
  <1>2. ASSUME h = Sc!Hook("ClientPostJob", {"jobs"},
                            {<<"client", "jobs">>, <<"client", "overview">>})
        PROVE  Tells(h, q)
    <2>1. /\ h.name = "ClientPostJob" /\ h.changes = {"jobs"}
          /\ h.told = {<<"client", "jobs">>, <<"client", "overview">>}
      BY <1>2, OfHook
    <2> QED
      BY <2>1, <1>0, ClientLists DEF Tells, Sc!Untold
  <1>3. ASSUME h = Sc!Hook("ClientReleaseOffer", {"offers"}, {<<"client", "offers">>})
        PROVE  Tells(h, q)
    <2>1. /\ h.name = "ClientReleaseOffer" /\ h.changes = {"offers"}
          /\ h.told = {<<"client", "offers">>}
      BY <1>3, OfHook
    <2> QED
      BY <2>1, <1>0, ClientLists DEF Tells, Sc!Untold
  <1>4. ASSUME h = Sc!Hook("ClientSetJoiningDate", {"offers"}, {<<"client", "offers">>})
        PROVE  Tells(h, q)
    <2>1. /\ h.name = "ClientSetJoiningDate" /\ h.changes = {"offers"}
          /\ h.told = {<<"client", "offers">>}
      BY <1>4, OfHook
    <2> QED
      BY <2>1, <1>0, ClientLists DEF Tells, Sc!Untold
  <1>5. ASSUME h = Sc!Hook("ClientAddTeammate", {"team"}, {<<"client", "team">>})
        PROVE  Tells(h, q)
    <2>1. /\ h.name = "ClientAddTeammate" /\ h.changes = {"team"}
          /\ h.told = {<<"client", "team">>}
      BY <1>5, OfHook
    <2> QED
      BY <2>1, <1>0, ClientLists DEF Tells, Sc!Untold
  <1>6. ASSUME h = Sc!Hook("ClientReassignJob", {"owners"},
                            {<<"client", "jobs">>, <<"client", "pipeline">>})
        PROVE  Tells(h, q)
    <2>1. /\ h.name = "ClientReassignJob" /\ h.changes = {"owners"}
          /\ h.told = {<<"client", "jobs">>, <<"client", "pipeline">>}
      BY <1>6, OfHook
    <2> QED
      BY <2>1, <1>0, ClientLists DEF Tells, Sc!Untold
  <1> QED
    BY <1>1, <1>2, <1>3, <1>4, <1>5, <1>6 DEF Sc!ClientHooks

LEMMA CandidateOwn ==
  ASSUME NEW q \in Sc!CandidateScreens
  PROVE  Sc!IsPrefix(q.key, q.key)
  <1>1. ASSUME NEW a, NEW b, NEW s,
               q = Sc!Screen(<<a, b>>, s)
        PROVE  Sc!IsPrefix(q.key, q.key)
    BY <1>1, OfScreen, KeyOfTwo
  <1> QED
    BY <1>1 DEF Sc!CandidateScreens

LEMMA CandidateTells ==
  ASSUME NEW h \in Sc!CandidateHooks, NEW q \in Sc!CandidateScreens
  PROVE  Tells(h, q)
  <1>0. q.key \in h.told => Sc!Told(h, q)
    BY CandidateOwn DEF Sc!Told
  <1>1. ASSUME h = Sc!Hook("SetConsent", {"consents"}, {<<"privacy", "consent">>})
        PROVE  Tells(h, q)
    <2>1. /\ h.name = "SetConsent" /\ h.changes = {"consents"}
          /\ h.told = {<<"privacy", "consent">>}
      BY <1>1, OfHook
    <2> QED
      BY <2>1, <1>0, CandidateLists DEF Tells, Sc!Untold
  <1>2. ASSUME h = Sc!Hook("ExportData", {"requests"}, {<<"privacy", "requests">>})
        PROVE  Tells(h, q)
    <2>1. /\ h.name = "ExportData" /\ h.changes = {"requests"}
          /\ h.told = {<<"privacy", "requests">>}
      BY <1>2, OfHook
    <2> QED
      BY <2>1, <1>0, CandidateLists DEF Tells, Sc!Untold
  <1>3. ASSUME h = Sc!Hook("RequestErasure", {"requests", "candidate"},
                            {<<"privacy", "requests">>})
        PROVE  Tells(h, q)
    <2>1. /\ h.name = "RequestErasure" /\ h.changes = {"requests", "candidate"}
          /\ h.told = {<<"privacy", "requests">>}
      BY <1>3, OfHook
    <2> QED
      BY <2>1, <1>0, CandidateLists DEF Tells, Sc!Untold
  <1> QED
    BY <1>1, <1>2, <1>3 DEF Sc!CandidateHooks

LEMMA StaffOwn ==
  ASSUME NEW q \in Sc!StaffScreens
  PROVE  Sc!IsPrefix(q.key, q.key)
  <1>1. ASSUME NEW a, NEW b, NEW c, NEW s,
               q = Sc!Screen(<<a>>, s) \/ q = Sc!Screen(<<a, b>>, s) \/ q = Sc!Screen(<<a, b, c>>, s)
        PROVE  Sc!IsPrefix(q.key, q.key)
    BY <1>1, OfScreen, KeyOfOne, KeyOfTwo, KeyOfThree
  <1> QED
    BY <1>1 DEF Sc!StaffScreens, Sc!AdminScreens, Sc!WorkflowScreens, Sc!PipelineScreens,
       Sc!DeskScreens

LEMMA StaffTells ==
  ASSUME NEW h \in Sc!StaffHooks, NEW q \in Sc!StaffScreens
  PROVE  Tells(h, q)
  <1>0. q.key \in h.told => Sc!Told(h, q)
    BY StaffOwn DEF Sc!Told
  <1>1. ASSUME h = Sc!Hook("ApproveClient", {"registrations", "clients"},
                            {<<"admin", "client-registrations">>})
        PROVE  Tells(h, q)
    <2>1. /\ h.name = "ApproveClient" /\ h.changes = {"registrations", "clients"}
          /\ h.told = {<<"admin", "client-registrations">>}
      BY <1>1, OfHook
    <2>2. q.key = <<"admin", "client-registrations", "pending">> => Sc!Told(h, q)
      BY <2>1, TwoBegin DEF Sc!Told
    <2>3. "registrations" \in q.shows => Sc!Told(h, q) \/ <<h.name, q.key>> \in Sc!Untold
      BY <2>1, <2>2, StaffLists DEF Sc!Untold
    <2>4. "audit" \in q.shows \/ "clients" \in q.shows => <<h.name, q.key>> \in Sc!Untold
      BY <2>1, StaffLists DEF Sc!Untold
    <2> QED
      BY <2>1, <2>3, <2>4 DEF Tells
  <1>2. ASSUME h = Sc!Hook("RejectClient", {"registrations"},
                            {<<"admin", "client-registrations">>})
        PROVE  Tells(h, q)
    <2>1. /\ h.name = "RejectClient" /\ h.changes = {"registrations"}
          /\ h.told = {<<"admin", "client-registrations">>}
      BY <1>2, OfHook
    <2>2. q.key = <<"admin", "client-registrations", "pending">> => Sc!Told(h, q)
      BY <2>1, TwoBegin DEF Sc!Told
    <2>3. "registrations" \in q.shows => Sc!Told(h, q) \/ <<h.name, q.key>> \in Sc!Untold
      BY <2>1, <2>2, StaffLists DEF Sc!Untold
    <2>4. "audit" \in q.shows => <<h.name, q.key>> \in Sc!Untold
      BY <2>1, StaffLists DEF Sc!Untold
    <2> QED
      BY <2>1, <2>3, <2>4 DEF Tells
  <1>3. ASSUME h = Sc!Hook("CreateSubmission", {"submissions", "timeline"}, {<<"submissions">>})
        PROVE  Tells(h, q)
    <2>1. /\ h.name = "CreateSubmission" /\ h.changes = {"submissions", "timeline"}
          /\ h.told = {<<"submissions">>}
      BY <1>3, OfHook
    <2> QED
      BY <2>1, <1>0, StaffLists DEF Tells, Sc!Untold
  <1>4. ASSUME h = Sc!Hook("UpdateSubmission", {"submissions"}, {<<"submissions">>})
        PROVE  Tells(h, q)
    <2>1. /\ h.name = "UpdateSubmission" /\ h.changes = {"submissions"}
          /\ h.told = {<<"submissions">>}
      BY <1>4, OfHook
    <2> QED
      BY <2>1, <1>0, StaffLists DEF Tells, Sc!Untold
  <1>5. ASSUME h = Sc!Hook("CreateOffer", {"offers", "timeline"}, {<<"offers">>})
        PROVE  Tells(h, q)
    <2>1. /\ h.name = "CreateOffer" /\ h.changes = {"offers", "timeline"}
          /\ h.told = {<<"offers">>}
      BY <1>5, OfHook
    <2> QED
      BY <2>1, <1>0, StaffLists DEF Tells, Sc!Untold
  <1>6. ASSUME h = Sc!Hook("UpdateOffer", {"offers"}, {<<"offers">>})
        PROVE  Tells(h, q)
    <2>1. /\ h.name = "UpdateOffer" /\ h.changes = {"offers"}
          /\ h.told = {<<"offers">>}
      BY <1>6, OfHook
    <2> QED
      BY <2>1, <1>0, StaffLists DEF Tells, Sc!Untold
  <1>7. ASSUME h = Sc!Hook("CreateInterview", {"interviews", "timeline"}, {<<"interviews">>})
        PROVE  Tells(h, q)
    <2>1. /\ h.name = "CreateInterview" /\ h.changes = {"interviews", "timeline"}
          /\ h.told = {<<"interviews">>}
      BY <1>7, OfHook
    <2> QED
      BY <2>1, <1>0, StaffLists DEF Tells, Sc!Untold
  <1>8. ASSUME h = Sc!Hook("UpdateInterview", {"interviews", "timeline"}, {<<"interviews">>})
        PROVE  Tells(h, q)
    <2>1. /\ h.name = "UpdateInterview" /\ h.changes = {"interviews", "timeline"}
          /\ h.told = {<<"interviews">>}
      BY <1>8, OfHook
    <2> QED
      BY <2>1, <1>0, StaffLists DEF Tells, Sc!Untold
  <1>9. ASSUME h = Sc!Hook("CreateInvoice", {"invoices"}, {<<"invoices">>})
        PROVE  Tells(h, q)
    <2>1. /\ h.name = "CreateInvoice" /\ h.changes = {"invoices"}
          /\ h.told = {<<"invoices">>}
      BY <1>9, OfHook
    <2> QED
      BY <2>1, <1>0, StaffLists DEF Tells, Sc!Untold
  <1>10. ASSUME h = Sc!Hook("UpdateInvoice", {"invoices"}, {<<"invoices">>})
        PROVE  Tells(h, q)
    <2>1. /\ h.name = "UpdateInvoice" /\ h.changes = {"invoices"}
          /\ h.told = {<<"invoices">>}
      BY <1>10, OfHook
    <2> QED
      BY <2>1, <1>0, StaffLists DEF Tells, Sc!Untold
  <1>11. ASSUME h = Sc!Hook("CreateVendor", {"vendors"}, {<<"vendors">>})
        PROVE  Tells(h, q)
    <2>1. /\ h.name = "CreateVendor" /\ h.changes = {"vendors"}
          /\ h.told = {<<"vendors">>}
      BY <1>11, OfHook
    <2> QED
      BY <2>1, <1>0, StaffLists DEF Tells, Sc!Untold
  <1>12. ASSUME h = Sc!Hook("UpdateVendor", {"vendors"}, {<<"vendors">>})
        PROVE  Tells(h, q)
    <2>1. /\ h.name = "UpdateVendor" /\ h.changes = {"vendors"}
          /\ h.told = {<<"vendors">>}
      BY <1>12, OfHook
    <2> QED
      BY <2>1, <1>0, StaffLists DEF Tells, Sc!Untold
  <1>13. ASSUME h = Sc!Hook("UpdateVendorSubmission", {"vendor submissions"},
                            {<<"vendor-submissions">>})
        PROVE  Tells(h, q)
    <2>1. /\ h.name = "UpdateVendorSubmission" /\ h.changes = {"vendor submissions"}
          /\ h.told = {<<"vendor-submissions">>}
      BY <1>13 DEF Sc!Hook
    <2> QED
      BY <2>1, <1>0, StaffLists DEF Tells, Sc!Untold
  <1>14. ASSUME h = Sc!Hook("CreateJob", {"jobs"}, {<<"jobs">>, <<"employer", "overview">>})
        PROVE  Tells(h, q)
    <2>1. /\ h.name = "CreateJob" /\ h.changes = {"jobs"}
          /\ h.told = {<<"jobs">>, <<"employer", "overview">>}
      BY <1>14, OfHook
    <2>2. "jobs" \in q.shows => q.key \in h.told \/ <<h.name, q.key>> \in Sc!Untold
      BY <2>1, StaffLists DEF Sc!Untold
    <2>3. "audit" \in q.shows => <<h.name, q.key>> \in Sc!Untold
      BY <2>1, StaffLists DEF Sc!Untold
    <2>4. (h.changes \cup {"audit"}) \cap q.shows # {} =>
            "jobs" \in q.shows \/ "audit" \in q.shows
      BY <2>1
    <2> QED
      BY <1>0, <2>2, <2>3, <2>4 DEF Tells
  <1>15. ASSUME h = Sc!Hook("TransitionStage", {"applications", "timeline"},
                            {<<"pipeline", "job">>, <<"employer", "overview">>})
        PROVE  Tells(h, q)
    <2>1. /\ h.name = "TransitionStage" /\ h.changes = {"applications", "timeline"}
          /\ h.told = {<<"pipeline", "job">>, <<"employer", "overview">>}
      BY <1>15, OfHook
    <2>2. "applications" \in q.shows => q.key \in h.told \/ <<h.name, q.key>> \in Sc!Untold
      BY <2>1, StaffLists DEF Sc!Untold
    <2>3. "audit" \in q.shows \/ "timeline" \in q.shows => <<h.name, q.key>> \in Sc!Untold
      BY <2>1, StaffLists DEF Sc!Untold
    <2>4. (h.changes \cup {"audit"}) \cap q.shows # {} =>
            "applications" \in q.shows \/ "timeline" \in q.shows \/ "audit" \in q.shows
      BY <2>1
    <2> QED
      BY <1>0, <2>2, <2>3, <2>4 DEF Tells
  <1>16. ASSUME h = Sc!Hook("IssueTest", {"tests"}, {<<"tests">>})
        PROVE  Tells(h, q)
    <2>1. /\ h.name = "IssueTest" /\ h.changes = {"tests"}
          /\ h.told = {<<"tests">>}
      BY <1>16, OfHook
    <2>2. q.key = <<"tests", "all">> => Sc!Told(h, q)
      BY <2>1, OneBegins DEF Sc!Told
    <2>3. "tests" \in q.shows => Sc!Told(h, q) \/ <<h.name, q.key>> \in Sc!Untold
      BY <2>1, <2>2, StaffLists DEF Sc!Untold
    <2>4. "audit" \in q.shows => <<h.name, q.key>> \in Sc!Untold
      BY <2>1, StaffLists DEF Sc!Untold
    <2> QED
      BY <2>1, <2>3, <2>4 DEF Tells
  <1>17. ASSUME h = Sc!Hook("WaiveTest", {"tests", "applications", "timeline"}, {<<"tests">>})
        PROVE  Tells(h, q)
    <2>1. /\ h.name = "WaiveTest" /\ h.changes = {"tests", "applications", "timeline"}
          /\ h.told = {<<"tests">>}
      BY <1>17, OfHook
    <2>2. "tests" \in q.shows => Sc!Told(h, q)
      <3>1. q.key = <<"tests", "all">> => Sc!Told(h, q)
        BY <2>1, OneBegins DEF Sc!Told
      <3> QED
        BY <3>1, StaffLists
    <2>3. "applications" \in q.shows => q.key \in h.told \/ <<h.name, q.key>> \in Sc!Untold
      BY <2>1, StaffLists DEF Sc!Untold
    <2>4. "audit" \in q.shows \/ "timeline" \in q.shows => <<h.name, q.key>> \in Sc!Untold
      BY <2>1, StaffLists DEF Sc!Untold
    <2>5. (h.changes \cup {"audit"}) \cap q.shows # {} =>
            "tests" \in q.shows \/ "applications" \in q.shows \/ "timeline" \in q.shows \/ "audit" \in q.shows
      BY <2>1
    <2> QED
      BY <1>0, <2>2, <2>3, <2>4, <2>5 DEF Tells
  <1>18. ASSUME h = Sc!Hook("CreateLead", {"leads"}, {<<"leads">>})
        PROVE  Tells(h, q)
    <2>1. /\ h.name = "CreateLead" /\ h.changes = {"leads"}
          /\ h.told = {<<"leads">>}
      BY <1>18, OfHook
    <2> QED
      BY <2>1, <1>0, StaffLists DEF Tells, Sc!Untold
  <1>19. ASSUME h = Sc!Hook("LeadTransition", {"leads", "activities"}, {<<"leads">>})
        PROVE  Tells(h, q)
    <2>1. /\ h.name = "LeadTransition" /\ h.changes = {"leads", "activities"}
          /\ h.told = {<<"leads">>}
      BY <1>19, OfHook
    <2> QED
      BY <2>1, <1>0, StaffLists DEF Tells, Sc!Untold
  <1>20. ASSUME h = Sc!Hook("LogActivity", {"activities"}, {<<"lead-activities", "lead">>})
        PROVE  Tells(h, q)
    <2>1. /\ h.name = "LogActivity" /\ h.changes = {"activities"}
          /\ h.told = {<<"lead-activities", "lead">>}
      BY <1>20, OfHook
    <2> QED
      BY <2>1, <1>0, StaffLists DEF Tells, Sc!Untold
  <1>21. ASSUME h = Sc!Hook("ConvertLead", {"leads", "activities", "clients", "jobs"},
                            {<<"leads">>})
        PROVE  Tells(h, q)
    <2>1. /\ h.name = "ConvertLead" /\ h.changes = {"leads", "activities", "clients", "jobs"}
          /\ h.told = {<<"leads">>}
      BY <1>21, OfHook
    <2>2. "leads" \in q.shows => q.key \in h.told \/ <<h.name, q.key>> \in Sc!Untold
      BY <2>1, StaffLists DEF Sc!Untold
    <2>3. "activities" \in q.shows => q.key \in h.told \/ <<h.name, q.key>> \in Sc!Untold
      BY <2>1, StaffLists DEF Sc!Untold
    <2>4. "clients" \in q.shows => q.key \in h.told \/ <<h.name, q.key>> \in Sc!Untold
      BY <2>1, StaffLists DEF Sc!Untold
    <2>5. "jobs" \in q.shows => q.key \in h.told \/ <<h.name, q.key>> \in Sc!Untold
      BY <2>1, StaffLists DEF Sc!Untold
    <2>6. "audit" \in q.shows => <<h.name, q.key>> \in Sc!Untold
      BY <2>1, StaffLists DEF Sc!Untold
    <2>7. (h.changes \cup {"audit"}) \cap q.shows # {} =>
            "leads" \in q.shows \/ "activities" \in q.shows \/ "clients" \in q.shows \/ "jobs" \in q.shows \/ "audit" \in q.shows
      BY <2>1
    <2> QED
      BY <1>0, <2>2, <2>3, <2>4, <2>5, <2>6, <2>7 DEF Tells
  <1>22. ASSUME h = Sc!Hook("CreateVendorContract", {"contracts"},
                            {<<"vendor-contracts", "vendor">>})
        PROVE  Tells(h, q)
    <2>1. /\ h.name = "CreateVendorContract" /\ h.changes = {"contracts"}
          /\ h.told = {<<"vendor-contracts", "vendor">>}
      BY <1>22, OfHook
    <2> QED
      BY <2>1, <1>0, StaffLists DEF Tells, Sc!Untold
  <1>23. ASSUME h = Sc!Hook("SetVendorClientRate", {"rates"}, {<<"vendor-rates", "vendor">>})
        PROVE  Tells(h, q)
    <2>1. /\ h.name = "SetVendorClientRate" /\ h.changes = {"rates"}
          /\ h.told = {<<"vendor-rates", "vendor">>}
      BY <1>23, OfHook
    <2> QED
      BY <2>1, <1>0, StaffLists DEF Tells, Sc!Untold
  <1>24. ASSUME h = Sc!Hook("VoidCommission", {"commissions"}, {<<"vendor-commissions">>})
        PROVE  Tells(h, q)
    <2>1. /\ h.name = "VoidCommission" /\ h.changes = {"commissions"}
          /\ h.told = {<<"vendor-commissions">>}
      BY <1>24, OfHook
    <2>2. q.key = <<"vendor-commissions", "vendor">> => Sc!Told(h, q)
      BY <2>1, OneBegins DEF Sc!Told
    <2>3. "commissions" \in q.shows => Sc!Told(h, q) \/ <<h.name, q.key>> \in Sc!Untold
      BY <2>1, <2>2, StaffLists DEF Sc!Untold
    <2>4. "audit" \in q.shows => <<h.name, q.key>> \in Sc!Untold
      BY <2>1, StaffLists DEF Sc!Untold
    <2> QED
      BY <2>1, <2>3, <2>4 DEF Tells
  <1>25. ASSUME h = Sc!Hook("MarkCommissionPaid", {"commissions"}, {<<"vendor-commissions">>})
        PROVE  Tells(h, q)
    <2>1. /\ h.name = "MarkCommissionPaid" /\ h.changes = {"commissions"}
          /\ h.told = {<<"vendor-commissions">>}
      BY <1>25, OfHook
    <2>2. q.key = <<"vendor-commissions", "vendor">> => Sc!Told(h, q)
      BY <2>1, OneBegins DEF Sc!Told
    <2>3. "commissions" \in q.shows => Sc!Told(h, q) \/ <<h.name, q.key>> \in Sc!Untold
      BY <2>1, <2>2, StaffLists DEF Sc!Untold
    <2>4. "audit" \in q.shows => <<h.name, q.key>> \in Sc!Untold
      BY <2>1, StaffLists DEF Sc!Untold
    <2> QED
      BY <2>1, <2>3, <2>4 DEF Tells
  <1> QED
    BY <1>1, <1>2, <1>3, <1>4, <1>5, <1>6, <1>7, <1>8, <1>9, <1>10, <1>11, <1>12, <1>13, <1>14,
       <1>15, <1>16, <1>17, <1>18, <1>19, <1>20, <1>21, <1>22, <1>23, <1>24, <1>25 DEF Sc!StaffHooks, Sc!AdminHooks, Sc!WorkflowHooks, Sc!PipelineHooks, Sc!DeskHooks

\* The followed mutation and list are of one kind of session.
LEMMA HooksDoTell ==
  ASSUME Sc!Init
  PROVE  <<hook.name, query.key>> \notin Sc!Untold => Sc!Told(hook, query)
  <1>1. PICK s \in Sc!Sessions : hook \in s[1] /\ query \in s[2]
    BY DEF Sc!Init
  <1>2. Tells(hook, query)
    <2>1. CASE s = <<Sc!ClientHooks, Sc!ClientScreens>>
      BY <1>1, <2>1, ClientTells
    <2>2. CASE s = <<Sc!CandidateHooks, Sc!CandidateScreens>>
      BY <1>1, <2>2, CandidateTells
    <2>3. CASE s = <<Sc!StaffHooks, Sc!StaffScreens>>
      BY <1>1, <2>3, StaffTells
    <2> QED
      BY <2>1, <2>2, <2>3 DEF Sc!Sessions
  <1> QED
    BY <1>2 DEF Tells, Sc!Init

\* A list of the write that is followed is told of it, or is one of Untold.
HooksTell == <<hook.name, query.key>> \notin Sc!Untold => Sc!Told(hook, query)

CacheRow == [held : BOOLEAN, seen : 0 .. truth, invalid : BOOLEAN, old : BOOLEAN]
Wires == {"none", "asked", "served"}

\* What the writes that were told of leave behind.
Owing ==
  /\ (mounted /\ fetch = Sc!Quiet /\ ~failed => cache.held /\ ~cache.invalid)
  /\ (Sc!Told(hook, query) /\ cache.held /\ ~cache.invalid /\ fetch = Sc!Quiet
        /\ ~passed /\ ~failed) => cache.seen >= owed
  /\ (Sc!Told(hook, query) /\ fetch.at = "served" /\ ~passed) => fetch.seen >= owed

ScreensInv ==
  /\ truth \in 0 .. MaxWrites /\ owed \in 0 .. truth
  /\ cache \in CacheRow
  /\ fetch.at \in Wires /\ call.at \in Wires
  /\ (fetch.at = "served" => fetch.seen \in 0 .. truth)
  /\ (call.at = "served" => call.seen \in 0 .. truth)
  /\ (fetch.at = "none" => fetch = Sc!Quiet)
  /\ HooksTell
  /\ Owing

LEMMA ScreensFollow ==
  ASSUME ScreensInv
  PROVE  Sc!ScreensKept
  <1>1. Sc!ScreensTypeOK
    BY DEF ScreensInv, Sc!ScreensTypeOK, CacheRow, Wires
  <1>2. Sc!OwnWritesShown
    BY DEF ScreensInv, Sc!OwnWritesShown, HooksTell, Owing
  <1> QED
    BY <1>1, <1>2 DEF Sc!ScreensKept

\* invalidateQueries.
LEMMA Refetching ==
  ASSUME ScreensInv, Sc!Refetch, UNCHANGED <<hook, query, truth, mounted, failed>>,
         owed' \in 0 .. truth
  PROVE  Owing' /\ cache' \in CacheRow /\ fetch'.at \in Wires
         /\ (fetch'.at = "served" => fetch'.seen \in 0 .. truth)
         /\ (fetch'.at = "none" => fetch' = Sc!Quiet)
  <1> PICK marked \in BOOLEAN : marked = (cache.invalid \/ cache.held)
    OBVIOUS
  <1> PICK row : row = [cache EXCEPT !.invalid = marked]
    OBVIOUS
  <1>1. /\ cache' = row
        /\ \/ /\ mounted /\ (cache.held \/ fetch = Sc!Quiet)
              /\ fetch' = Sc!Asked /\ passed' = FALSE
           \/ /\ ~(mounted /\ (cache.held \/ fetch = Sc!Quiet))
              /\ fetch' = fetch /\ passed' = (passed \/ fetch # Sc!Quiet)
    BY DEF Sc!Refetch
  <1>2. /\ row \in CacheRow
        /\ row.invalid = marked /\ row.held = cache.held /\ row.seen = cache.seen
    BY DEF ScreensInv, CacheRow
  <1>3. CASE /\ mounted /\ (cache.held \/ fetch = Sc!Quiet)
             /\ fetch' = Sc!Asked /\ passed' = FALSE
    <2>1. fetch'.at = "asked" /\ fetch' # Sc!Quiet
      BY <1>3 DEF Sc!Asked, Sc!Quiet
    <2> QED
      BY <1>1, <1>2, <2>1 DEF Owing, Wires
  <1>4. CASE /\ ~(mounted /\ (cache.held \/ fetch = Sc!Quiet))
             /\ fetch' = fetch /\ passed' = (passed \/ fetch # Sc!Quiet)
    <2>1. fetch.at = "served" => fetch # Sc!Quiet
      BY DEF Sc!Quiet
    <2>2. mounted /\ fetch = Sc!Quiet => FALSE
      BY <1>4
    <2>3. ~passed' => fetch = Sc!Quiet
      BY <1>4
    <2>4. cache'.held => cache'.invalid
      BY <1>1, <1>2
    <2> QED
      BY <1>1, <1>2, <1>4, <2>1, <2>2, <2>3, <2>4 DEF ScreensInv, Owing
  <1> QED
    BY <1>1, <1>3, <1>4

LEMMA ScreensStart ==
  ASSUME MaxWrites \in Nat, Sc!Init, HooksTell
  PROVE  ScreensInv
  <1>1. /\ truth = 0 /\ owed = 0 /\ cache = Sc!Empty /\ mounted = FALSE
        /\ fetch = Sc!Quiet /\ call = Sc!Quiet
    BY DEF Sc!Init
  <1> QED
    BY <1>1 DEF ScreensInv, Owing, CacheRow, Wires, Sc!Empty, Sc!Quiet

LEMMA ScreensStep ==
  ASSUME MaxWrites \in Nat, ScreensInv, [Sc!Next]_(Sc!vars)
  PROVE  ScreensInv'
  <1>0. UNCHANGED <<hook, query>> => HooksTell'
    BY DEF ScreensInv, HooksTell, Sc!Told
  <1>1. /\ truth \in Nat /\ owed \in 0 .. truth
    BY DEF ScreensInv
  <1>2. CASE Sc!Mount
    <2>1. /\ ~mounted /\ mounted' = TRUE
          /\ fetch' = IF fetch = Sc!Quiet /\ (~cache.held \/ cache.invalid \/ cache.old)
                      THEN Sc!Asked ELSE fetch
          /\ passed' = (passed /\ fetch' = fetch)
          /\ UNCHANGED <<hook, query, truth, cache, call, owed, failed>>
      BY <1>2 DEF Sc!Mount
    <2>2. CASE fetch = Sc!Quiet /\ (~cache.held \/ cache.invalid \/ cache.old)
      <3>1. fetch' = Sc!Asked /\ fetch'.at = "asked" /\ fetch' # Sc!Quiet
        BY <2>1, <2>2 DEF Sc!Asked, Sc!Quiet
      <3> QED
        BY <2>1, <3>1, <1>0 DEF ScreensInv, Owing, CacheRow, Wires, Sc!Told
    <2>3. CASE ~(fetch = Sc!Quiet /\ (~cache.held \/ cache.invalid \/ cache.old))
      BY <2>1, <2>3, <1>0 DEF ScreensInv, Owing, CacheRow, Sc!Told
    <2> QED
      BY <2>2, <2>3
  <1>3. CASE Sc!Unmount
    BY <1>3, <1>0 DEF Sc!Unmount, ScreensInv, Owing, CacheRow, Sc!Told
  <1>4. CASE Sc!Age
    <2> PICK row : row = [cache EXCEPT !.old = TRUE]
      OBVIOUS
    <2>1. row \in CacheRow /\ row.held = cache.held /\ row.invalid = cache.invalid
          /\ row.seen = cache.seen
      BY DEF ScreensInv, CacheRow
    <2>2. cache' = row /\ UNCHANGED <<hook, query, truth, mounted, fetch, call, owed, failed, passed>>
      BY <1>4 DEF Sc!Age
    <2> QED
      BY <2>1, <2>2, <1>0 DEF ScreensInv, Owing, CacheRow, Sc!Told
  <1>5. CASE Sc!Collect
    <2>1. cache' = Sc!Empty /\ ~mounted
          /\ UNCHANGED <<hook, query, truth, mounted, fetch, call, owed, failed, passed>>
      BY <1>5 DEF Sc!Collect
    <2>2. cache' \in CacheRow /\ ~cache'.held
      BY <2>1, <1>1 DEF CacheRow, Sc!Empty
    <2> QED
      BY <2>1, <2>2, <1>0 DEF ScreensInv, Owing, CacheRow, Sc!Told
  <1>6. CASE Sc!ServeFetch
    <2>1. fetch' = [at |-> "served", seen |-> truth]
          /\ UNCHANGED <<hook, query, truth, cache, mounted, call, owed, failed, passed>>
      BY <1>6 DEF Sc!ServeFetch
    <2>2. fetch'.at = "served" /\ fetch'.seen = truth /\ fetch' # Sc!Quiet
      BY <2>1 DEF Sc!Quiet
    <2> QED
      BY <2>1, <2>2, <1>0, <1>1 DEF ScreensInv, Owing, CacheRow, Wires, Sc!Told
  <1>7. CASE Sc!OnFetched
    <2>1. fetch.at = "served" /\ fetch' = Sc!Quiet /\ failed' = FALSE
          /\ cache' = [held |-> TRUE, seen |-> fetch.seen, invalid |-> FALSE, old |-> FALSE]
          /\ UNCHANGED <<hook, query, truth, mounted, call, owed, passed>>
      BY <1>7 DEF Sc!OnFetched
    <2>2. cache' \in CacheRow /\ cache'.held /\ ~cache'.invalid /\ cache'.seen = fetch.seen
      BY <2>1 DEF CacheRow, ScreensInv
    <2>3. fetch'.at = "none"
      BY <2>1 DEF Sc!Quiet
    <2> QED
      BY <2>1, <2>2, <2>3, <1>0 DEF ScreensInv, Owing, CacheRow, Wires, Sc!Told
  <1>8. CASE Sc!FailFetch
    <2>1. fetch' = Sc!Quiet /\ failed' = TRUE
          /\ UNCHANGED <<hook, query, truth, cache, mounted, call, owed, passed>>
      BY <1>8 DEF Sc!FailFetch
    <2>2. fetch'.at = "none"
      BY <2>1 DEF Sc!Quiet
    <2> QED
      BY <2>1, <2>2, <1>0 DEF ScreensInv, Owing, CacheRow, Wires, Sc!Told
  <1>9. ASSUME Sc!Written, UNCHANGED <<hook, query, cache, mounted, fetch, owed, failed, passed>>,
               call'.at \in Wires, call'.at = "served" => call'.seen \in 0 .. truth'
        PROVE  ScreensInv'
    <2>1. truth' \in 0 .. MaxWrites /\ 0 .. truth \subseteq 0 .. truth'
      BY <1>1, <1>9 DEF Sc!Written, ScreensInv
    <2>2. cache' \in CacheRow'
      BY <2>1, <1>9 DEF ScreensInv, CacheRow
    <2>3. Owing'
      BY <1>9 DEF ScreensInv, Owing, Sc!Told
    <2> QED
      BY <2>1, <2>2, <2>3, <1>0, <1>9 DEF ScreensInv
  <1>10. CASE Sc!Elsewhere
    <2>1. Sc!Written /\ UNCHANGED <<hook, query, cache, mounted, fetch, call, owed, failed, passed>>
      BY <1>10 DEF Sc!Elsewhere
    <2>2. 0 .. truth \subseteq 0 .. truth'
      BY <1>1, <2>1 DEF Sc!Written
    <2>3. call'.at \in Wires /\ (call'.at = "served" => call'.seen \in 0 .. truth')
      BY <2>1, <2>2 DEF ScreensInv
    <2> QED
      BY <2>1, <2>3, <1>9
  <1>11. CASE Sc!Mutate
    <2>1. call' = Sc!Asked
          /\ UNCHANGED <<hook, query, truth, cache, mounted, fetch, owed, failed, passed>>
      BY <1>11 DEF Sc!Mutate
    <2>2. call'.at = "asked"
      BY <2>1 DEF Sc!Asked
    <2> QED
      BY <2>1, <2>2, <1>0 DEF ScreensInv, Owing, CacheRow, Wires, Sc!Told
  <1>12. CASE Sc!ServeCall
    <2>1. Sc!Written /\ UNCHANGED <<hook, query, cache, mounted, fetch, owed, failed, passed>>
          /\ call' = [at |-> "served", seen |-> truth']
      BY <1>12 DEF Sc!ServeCall
    <2>2. call'.at = "served" /\ call'.seen = truth'
      BY <2>1
    <2>3. truth' \in 0 .. truth'
      BY <1>1, <2>1 DEF Sc!Written
    <2> QED
      BY <2>1, <2>2, <2>3, <1>9 DEF Wires
  <1>13. ASSUME Sc!Refetch, UNCHANGED <<hook, query, truth, mounted, failed>>,
                owed' \in 0 .. truth, call' = Sc!Quiet
         PROVE  ScreensInv'
    <2>1. call'.at = "none"
      BY <1>13 DEF Sc!Quiet
    <2>2. Owing' /\ cache' \in CacheRow /\ fetch'.at \in Wires
          /\ (fetch'.at = "served" => fetch'.seen \in 0 .. truth)
          /\ (fetch'.at = "none" => fetch' = Sc!Quiet)
      BY <1>13, Refetching
    <2>3. cache' \in CacheRow'
      BY <2>2, <1>13 DEF CacheRow
    <2> QED
      BY <2>1, <2>2, <2>3, <1>0, <1>13 DEF ScreensInv, Wires
  <1>14. ASSUME UNCHANGED <<hook, query, truth, mounted, failed, cache, fetch, passed>>,
                owed' \in 0 .. truth, call' = Sc!Quiet, Sc!Told(hook, query) => owed' = owed
         PROVE  ScreensInv'
    <2>1. call'.at = "none"
      BY <1>14 DEF Sc!Quiet
    <2>2. Owing'
      BY <1>14 DEF ScreensInv, Owing, Sc!Told
    <2>3. cache' \in CacheRow'
      BY <1>14 DEF ScreensInv, CacheRow
    <2> QED
      BY <2>1, <2>2, <2>3, <1>0, <1>14 DEF ScreensInv, Wires
  <1>15. CASE Sc!OnSuccess
    <2>1. call.at = "served" /\ owed' = call.seen /\ call' = Sc!Quiet
          /\ UNCHANGED <<hook, query, truth, mounted, failed>>
      BY <1>15 DEF Sc!OnSuccess
    <2>2. owed' \in 0 .. truth
      BY <2>1 DEF ScreensInv
    <2>3. CASE Sc!Told(hook, query)
      BY <2>1, <2>2, <2>3, <1>13, <1>15 DEF Sc!OnSuccess
    <2>4. CASE ~Sc!Told(hook, query)
      BY <2>1, <2>2, <2>4, <1>14, <1>15 DEF Sc!OnSuccess
    <2> QED
      BY <2>3, <2>4
  <1>16. CASE Sc!OnError
    <2>1. call' = Sc!Quiet /\ UNCHANGED <<hook, query, truth, mounted, owed, failed>>
          /\ (Sc!Refetch \/ UNCHANGED <<cache, fetch, passed>>)
      BY <1>16 DEF Sc!OnError
    <2> QED
      BY <2>1, <1>1, <1>13, <1>14
  <1>17. CASE UNCHANGED Sc!vars
    BY <1>17, <1>0 DEF Sc!vars, ScreensInv, Owing, CacheRow, Sc!Told
  <1> QED
    BY <1>2, <1>3, <1>4, <1>5, <1>6, <1>7, <1>8, <1>10, <1>11, <1>12, <1>15, <1>16, <1>17
       DEF Sc!Next

LEMMA ScreensBegin ==
  ASSUME MaxWrites \in Nat, Sc!Init
  PROVE  ScreensInv
  BY ScreensStart, HooksDoTell DEF HooksTell

(* hooks.ts:439-475 and every other mutation's onSuccess, for any cards,   *)
(* stages, moves and bounds: a board at rest shows each card where the     *)
(* server had it and forgets no move of its browser, however moves         *)
(* overlap, fail and are reverted to each other's snapshots; and a list at *)
(* rest shows every write its browser was told of.                         *)
THEOREM BoardHolds ==
  ASSUME BoardBounds, MaxWrites \in Nat
  PROVE  Spec => []BoardKept
  <1> DEFINE Inv == (part = "board" => BoardInv) /\ (part = "screens" => ScreensInv)
  <1>1. Init => Inv
    <2>1. Init /\ part = "board" => Bo!Init
      BY DEF Init
    <2>2. Init /\ part = "screens" => Sc!Init
      BY DEF Init
    <2> QED
      BY <2>1, <2>2, BoardStart, ScreensBegin
  <1>2. Inv /\ [Next]_vars => Inv'
    <2> SUFFICES ASSUME Inv, [Next]_vars
                 PROVE  Inv'
      OBVIOUS
    <2>1. ASSUME part' = "board"
          PROVE  part = "board" /\ [Bo!Next]_(Bo!vars)
      BY <2>1 DEF Next, vars, Bo!vars, RestOfPortal, RestOfIntake, RestOfRegistrations,
         RestOfLeads, RestOfBoard, RestOfCampus, RestOfScreens, RestOfRoster
    <2>2. ASSUME part' = "screens"
          PROVE  part = "screens" /\ [Sc!Next]_(Sc!vars)
      BY <2>2 DEF Next, vars, Sc!vars, RestOfPortal, RestOfIntake, RestOfRegistrations,
         RestOfLeads, RestOfBoard, RestOfCampus, RestOfScreens, RestOfRoster
    <2> QED
      BY <2>1, <2>2, BoardStep, ScreensStep
  <1>3. Inv => BoardKept
    BY BoardFollows, ScreensFollow DEF BoardKept
  <1> QED
    BY <1>1, <1>2, <1>3, PTL DEF Spec


-----------------------------------------------------------------------------
(* Portal.  PortalBoundary is about rows, but rows are written from copies *)
(* a request loaded earlier: every copy, stored or pending, names the      *)
(* client of its job, which never changes, and an owner the job has had,   *)
(* and the set of those owners only grows.                                 *)

FoundersKnown == FoundersOf \in [User -> Po!Binding]

\* The database, as a value: what a request knows is a relation to it.
Db == [binding |-> binding, job |-> job, app |-> app, doc |-> doc, held |-> held]

\* A row, or a copy of one, that belongs under job j.
Copies(r, j, db) == /\ Po!Exists(db.job[j])
                    /\ r.client = db.job[j].client
                    /\ r.owner \in db.held[j]

RowsCopied ==
  /\ \A j \in Job : Po!Exists(job[j]) => Copies(job[j], j, Db)
  /\ \A a \in Po!App : Po!Exists(app[a]) => Copies(app[a], a[1], Db)
  /\ \A d \in Doc : Po!Exists(doc[d]) =>
       Po!Exists(app[doc[d].app]) /\ Copies(doc[d], doc[d].app[1], Db)

\* What a request r loaded.
AppliesFrom(r, db) == r.app \in Po!App /\ r.seen \in Po!Owning /\ Copies(r.seen, r.app[1], db)

Filing(r, db) == /\ r.app \in Po!App
                 /\ r.kind \in Po!Kinds
                 /\ Po!Exists(db.app[r.app])
                 /\ r.seen \in Po!Owning
                 /\ Copies(r.seen, r.app[1], db)

\* Active, in a given database.
Eligible(u, c, db) == u \in User /\ db.binding[u] # Po!Unbound /\ db.binding[u].client = c

AppsUnder(table, j) == {a \in Po!App : Po!Exists(table[a]) /\ a[1] = j}

DocsUnder(table, j) == {d \in Doc : Po!Exists(table[d]) /\ table[d].app[1] = j}

Reassigning(r, db) ==
  /\ r.job \in Job
  /\ Po!Exists(db.job[r.job])
  /\ Eligible(r.to, db.job[r.job].client, db)
  /\ r.seen.job[r.job].owner \in db.held[r.job]
  /\ r.apps = AppsUnder(r.seen.app, r.job)
  /\ r.docs = DocsUnder(r.seen.doc, r.job)
  /\ r.apps \subseteq AppsUnder(db.app, r.job)
  /\ r.docs \subseteq DocsUnder(db.doc, r.job)

Known(r, db) == /\ r.op = "apply" => AppliesFrom(r, db)
                /\ r.op = "file" => Filing(r, db)
                /\ r.op = "reassign" => Reassigning(r, db)

PortalLoaded == /\ req = [w \in Worker |-> req[w]]
                /\ \A w \in Worker : Known(req[w], Db)

\* Whoever has ever owned a job is an active user of its client.
HeldBound ==
  \A j \in Job :
    /\ IsFiniteSet(held[j])
    /\ Po!Exists(job[j]) => \A u \in held[j] : u = Po!Null \/ Eligible(u, job[j].client, Db)

PortalIInv == Po!PortalTypeOK /\ RowsCopied /\ PortalLoaded /\ HeldBound

-----------------------------------------------------------------------------
(* What no step undoes, and what therefore stays true of requests.         *)

Persists(old, new) ==
  /\ \A j \in Job : Po!Exists(old.job[j]) => /\ Po!Exists(new.job[j])
                                             /\ new.job[j].client = old.job[j].client
                                             /\ old.held[j] \subseteq new.held[j]
  /\ \A a \in Po!App : Po!Exists(old.app[a]) => Po!Exists(new.app[a])
  /\ \A d \in Doc : Po!Exists(old.doc[d]) =>
       Po!Exists(new.doc[d]) /\ new.doc[d].app = old.doc[d].app
  /\ \A u \in User : old.binding[u] # Po!Unbound => new.binding[u] = old.binding[u]

LEMMA CopiesPersist ==
  ASSUME NEW old, NEW new, Persists(old, new), NEW r, NEW j \in Job, Copies(r, j, old)
  PROVE  Copies(r, j, new)
  BY DEF Persists, Copies

LEMMA KnownPersists ==
  ASSUME NEW old, NEW new, Persists(old, new), NEW r, Known(r, old)
  PROVE  Known(r, new)
  <1>1. ASSUME r.op = "apply" PROVE AppliesFrom(r, new)
    <2>1. AppliesFrom(r, old) /\ r.app[1] \in Job
      BY <1>1 DEF Known, AppliesFrom, Po!App
    <2> QED
      BY <2>1, CopiesPersist DEF AppliesFrom
  <1>2. ASSUME r.op = "file" PROVE Filing(r, new)
    <2>1. Filing(r, old) /\ r.app[1] \in Job
      BY <1>2 DEF Known, Filing, Po!App
    <2>2. Po!Exists(new.app[r.app])
      BY <2>1 DEF Filing, Persists
    <2> QED
      BY <2>1, <2>2, CopiesPersist DEF Filing
  <1>3. ASSUME r.op = "reassign" PROVE Reassigning(r, new)
    <2>1. Reassigning(r, old)
      BY <1>3 DEF Known
    <2>2. /\ Po!Exists(new.job[r.job])
          /\ new.job[r.job].client = old.job[r.job].client
          /\ r.seen.job[r.job].owner \in new.held[r.job]
      BY <2>1 DEF Reassigning, Persists
    <2>3. Eligible(r.to, new.job[r.job].client, new)
      BY <2>1, <2>2 DEF Reassigning, Eligible, Persists
    <2>4. AppsUnder(old.app, r.job) \subseteq AppsUnder(new.app, r.job)
      BY DEF Persists, AppsUnder
    <2>5. DocsUnder(old.doc, r.job) \subseteq DocsUnder(new.doc, r.job)
      BY DEF Persists, DocsUnder
    <2> QED
      BY <2>1, <2>2, <2>3, <2>4, <2>5 DEF Reassigning
  <1> QED
    BY <1>1, <1>2, <1>3 DEF Known

\* A step that answers requests, and begins none, keeps them known.
LEMMA PortalLoadedPersists ==
  ASSUME Persists(Db, Db'), PortalLoaded, NEW w \in Worker, UNCHANGED req \/ Po!Finish(w)
  PROVE  PortalLoaded'
  <1>1. req' = [v \in Worker |-> req'[v]]
    <2>1. CASE UNCHANGED req
      BY <2>1 DEF PortalLoaded
    <2>2. CASE Po!Finish(w)
      BY <2>2 DEF PortalLoaded, Po!Finish
    <2> QED
      BY <2>1, <2>2
  <1>2. ASSUME NEW v \in Worker PROVE Known(req'[v], Db')
    <2>1. req'[v] = req[v] \/ req'[v] = Po!Idle
      BY DEF PortalLoaded, Po!Finish
    <2>2. Known(req[v], Db')
      BY KnownPersists DEF PortalLoaded
    <2>3. Known(Po!Idle, Db')
      BY DEF Known, Po!Idle
    <2> QED
      BY <2>1, <2>2, <2>3
  <1> QED
    BY <1>1, <1>2 DEF PortalLoaded

-----------------------------------------------------------------------------
(* Every step keeps the invariant.                                         *)

LEMMA PortalIInvInit == FoundersKnown /\ Po!Init => PortalIInv
  <1> SUFFICES ASSUME FoundersKnown, Po!Init PROVE PortalIInv
    OBVIOUS
  <1>1. Po!PortalTypeOK
    BY DEF Po!Init, FoundersKnown, Po!PortalTypeOK, Po!Owners
  <1>2. RowsCopied
    BY DEF Po!Init, RowsCopied, Po!Exists
  <1>3. PortalLoaded
    BY DEF Po!Init, PortalLoaded, Known, Po!Idle
  <1>4. HeldBound
    BY FS_EmptySet DEF Po!Init, HeldBound, Po!Exists
  <1> QED
    BY <1>1, <1>2, <1>3, <1>4 DEF PortalIInv

\* A request that begins has loaded what is stored.
LEMMA PortalBeginStep ==
  ASSUME PortalIInv, NEW w \in Worker, NEW r, Po!Begin(w, r), Known(r, Db)
  PROVE  PortalIInv'
  <1>1. UNCHANGED <<binding, job, app, doc, held>> /\ Db' = Db
    BY DEF Po!Begin, Po!tables, Db
  <1>2. req' = [v \in Worker |-> req'[v]] /\ req'[w] = r
        /\ \A v \in Worker \ {w} : req'[v] = req[v]
    BY DEF Po!Begin, PortalIInv, PortalLoaded
  <1>3. PortalLoaded'
    BY <1>1, <1>2 DEF PortalIInv, PortalLoaded
  <1>4. Po!PortalTypeOK' /\ RowsCopied' /\ HeldBound'
    BY <1>1 DEF PortalIInv, Po!PortalTypeOK, RowsCopied, HeldBound
  <1> QED
    BY <1>3, <1>4 DEF PortalIInv

LEMMA OwningExists == \A r \in Po!Owning \cup Po!Document : Po!Exists(r)
  <1> SUFFICES ASSUME NEW r \in Po!Owning \cup Po!Document PROVE r # Po!NoRow
    BY DEF Po!Exists
  <1>1. r.row = TRUE
    BY DEF Po!Owning, Po!Document
  <1>2. Po!NoRow.row = FALSE
    BY DEF Po!NoRow
  <1> QED
    BY <1>1, <1>2

\* The rows a step does not touch are still copies under their jobs.
LEMMA RowsPersist ==
  ASSUME PortalIInv, Persists(Db, Db')
  PROVE  /\ \A j \in Job : Po!Exists(job[j]) /\ job'[j] = job[j] => Copies(job'[j], j, Db')
         /\ \A a \in Po!App : Po!Exists(app[a]) /\ app'[a] = app[a] => Copies(app'[a], a[1], Db')
         /\ \A d \in Doc : Po!Exists(doc[d]) /\ doc'[d] = doc[d] =>
              Po!Exists(app'[doc'[d].app]) /\ Copies(doc'[d], doc'[d].app[1], Db')
  <1>1. ASSUME NEW j \in Job, Po!Exists(job[j]), job'[j] = job[j]
        PROVE  Copies(job'[j], j, Db')
    BY <1>1, CopiesPersist DEF PortalIInv, RowsCopied
  <1>2. ASSUME NEW a \in Po!App, Po!Exists(app[a]), app'[a] = app[a]
        PROVE  Copies(app'[a], a[1], Db')
    <2>1. a[1] \in Job
      BY DEF Po!App
    <2> QED
      BY <1>2, <2>1, CopiesPersist DEF PortalIInv, RowsCopied
  <1>3. ASSUME NEW d \in Doc, Po!Exists(doc[d]), doc'[d] = doc[d]
        PROVE  Po!Exists(app'[doc'[d].app]) /\ Copies(doc'[d], doc'[d].app[1], Db')
    <2>1. doc[d].app \in Po!App
      BY <1>3 DEF PortalIInv, Po!PortalTypeOK, Po!Document, Po!Exists
    <2>2. doc[d].app[1] \in Job
      BY <2>1 DEF Po!App
    <2>3. Po!Exists(app'[doc[d].app])
      BY <1>3, <2>1 DEF PortalIInv, RowsCopied, Persists, Db
    <2>4. Copies(doc[d], doc[d].app[1], Db)
      BY <1>3 DEF PortalIInv, RowsCopied
    <2> QED
      BY <1>3, <2>2, <2>3, <2>4, CopiesPersist
  <1> QED
    BY <1>1, <1>2, <1>3

\* Owners stay eligible.
LEMMA EligiblePersists ==
  ASSUME Persists(Db, Db'), NEW u, NEW c, Eligible(u, c, Db)
  PROVE  Eligible(u, c, Db')
  BY DEF Persists, Eligible

LEMMA InsertStep ==
  ASSUME PortalIInv, NEW j \in Job, NEW r \in Po!Owning, Po!Insert(j, r),
         r.owner = Po!Null \/ Eligible(r.owner, r.client, Db)
  PROVE  PortalIInv'
  <1>1. /\ ~Po!Exists(job[j]) /\ Po!Exists(r)
        /\ job'[j] = r /\ \A i \in Job \ {j} : job'[i] = job[i]
        /\ held'[j] = {r.owner} /\ \A i \in Job \ {j} : held'[i] = held[i]
        /\ UNCHANGED <<binding, app, doc, req>>
    BY DEF Po!Insert, PortalIInv, Po!PortalTypeOK, Po!Exists, Po!Owning, Po!NoRow
  <1>2. Po!PortalTypeOK'
    <2>1. r.owner \in Po!Owners
      BY DEF Po!Owning
    <2> QED
      BY <1>1, <2>1 DEF PortalIInv, Po!PortalTypeOK, Po!Insert
  <1>3. Persists(Db, Db')
    BY <1>1 DEF Persists, Db
  <1>4. Copies(job'[j], j, Db')
    BY <1>1 DEF Copies, Db
  <1>5. RowsCopied'
    BY <1>1, <1>3, <1>4, RowsPersist DEF RowsCopied
  <1>6. \A w \in Worker : Known(req[w], Db')
    BY <1>3, KnownPersists DEF PortalIInv, PortalLoaded
  <1>7. PortalLoaded'
    BY <1>1, <1>6 DEF PortalIInv, PortalLoaded
  <1>8. HeldBound'
    <2>1. IsFiniteSet({r.owner})
      BY FS_Singleton
    <2>2. r.owner = Po!Null \/ Eligible(r.owner, r.client, Db')
      BY <1>3, EligiblePersists
    <2>3. ASSUME NEW i \in Job \ {j}
          PROVE  /\ IsFiniteSet(held'[i])
                 /\ Po!Exists(job'[i]) =>
                      \A u \in held'[i] : u = Po!Null \/ Eligible(u, job'[i].client, Db')
      BY <1>1, <1>3, EligiblePersists DEF PortalIInv, HeldBound
    <2>4. /\ IsFiniteSet(held'[j])
          /\ \A u \in held'[j] : u = Po!Null \/ Eligible(u, job'[j].client, Db')
      BY <1>1, <2>1, <2>2
    <2> QED
      BY <2>3, <2>4 DEF HeldBound
  <1> QED
    BY <1>2, <1>5, <1>7, <1>8 DEF PortalIInv

LEMMA PortalTeamStep ==
  ASSUME PortalIInv, NEW h \in User, NEW u \in User, NEW role \in Po!TeamRoles,
         Po!AddTeammate(h, u, role)
  PROVE  PortalIInv'
  <1>1. /\ binding[u] = Po!Unbound
        /\ UNCHANGED <<job, app, doc, held, req>>
        /\ binding'[u] = Po!Invited(h, role) /\ \A v \in User \ {u} : binding'[v] = binding[v]
    BY DEF Po!AddTeammate, PortalIInv, Po!PortalTypeOK
  <1>2. Po!Invited(h, role) \in Po!Binding
    BY DEF Po!AddTeammate, Po!Invited, Po!Binding, PortalIInv, Po!PortalTypeOK
  <1>3. Po!PortalTypeOK'
    BY <1>1, <1>2 DEF PortalIInv, Po!PortalTypeOK, Po!AddTeammate
  <1>4. Persists(Db, Db')
    BY <1>1 DEF Persists, Db
  <1>5. RowsCopied'
    BY <1>1, <1>4, RowsPersist DEF RowsCopied
  <1>6. PortalLoaded'
    BY <1>1, <1>4, PortalLoadedPersists, KnownPersists DEF PortalIInv, PortalLoaded
  <1>7. HeldBound'
    BY <1>1, <1>4, EligiblePersists DEF PortalIInv, HeldBound
  <1> QED
    BY <1>3, <1>5, <1>6, <1>7 DEF PortalIInv

LEMMA ApplicationStep ==
  ASSUME PortalIInv, NEW w \in Worker, Po!CommitApplication(w)
  PROVE  PortalIInv'
  <1> DEFINE r == req[w]
  <1>1. AppliesFrom(r, Db)
    BY DEF Po!CommitApplication, PortalIInv, PortalLoaded, Known
  <1>2. /\ r.app \in Po!App /\ ~Po!Exists(app[r.app]) /\ Po!Exists(r.seen)
        /\ app'[r.app] = r.seen /\ \A a \in Po!App \ {r.app} : app'[a] = app[a]
        /\ UNCHANGED <<binding, job, doc, held>>
        /\ Po!Finish(w)
    <2>1. r.app \in Po!App /\ r.seen \in Po!Owning
      BY <1>1 DEF AppliesFrom
    <2>2. Po!Exists(r.seen)
      BY <2>1, OwningExists
    <2>3. /\ ~Po!Exists(app[r.app])
          /\ app' = [app EXCEPT ![r.app] = r.seen]
          /\ UNCHANGED <<binding, job, doc, held>>
          /\ Po!Finish(w)
      BY DEF Po!CommitApplication
    <2> QED
      BY <2>1, <2>2, <2>3 DEF PortalIInv, Po!PortalTypeOK
  <1>3. Po!PortalTypeOK'
    BY <1>1, <1>2 DEF PortalIInv, Po!PortalTypeOK, Po!CommitApplication, AppliesFrom
  <1>4. Persists(Db, Db')
    BY <1>2 DEF Persists, Db
  <1>5. Copies(app'[r.app], r.app[1], Db')
    BY <1>1, <1>2 DEF AppliesFrom, Copies, Db
  <1>6. RowsCopied'
    BY <1>2, <1>4, <1>5, RowsPersist DEF RowsCopied
  <1>7. PortalLoaded'
    BY <1>2, <1>4, PortalLoadedPersists DEF PortalIInv
  <1>8. HeldBound'
    BY <1>2, <1>4, EligiblePersists DEF PortalIInv, HeldBound
  <1> QED
    BY <1>3, <1>6, <1>7, <1>8 DEF PortalIInv

LEMMA DocumentStep ==
  ASSUME PortalIInv, NEW w \in Worker, NEW d \in Doc, Po!CommitDocument(w, d)
  PROVE  PortalIInv'
  <1> DEFINE r == req[w]
  <1>1. Filing(r, Db)
    BY DEF Po!CommitDocument, PortalIInv, PortalLoaded, Known
  <1>2. Po!Filed(r) \in Po!Document /\ Po!Filed(r).app = r.app
        /\ Po!Filed(r).client = r.seen.client /\ Po!Filed(r).owner = r.seen.owner
    BY <1>1 DEF Filing, Po!Filed, Po!Document, Po!Owning
  <1>3. /\ ~Po!Exists(doc[d]) /\ Po!Exists(Po!Filed(r))
        /\ doc'[d] = Po!Filed(r) /\ \A e \in Doc \ {d} : doc'[e] = doc[e]
        /\ UNCHANGED <<binding, job, app, held>>
        /\ Po!Finish(w)
    BY <1>2 DEF Po!CommitDocument, PortalIInv, Po!PortalTypeOK, Po!Exists, Po!Document, Po!NoRow
  <1>4. Po!PortalTypeOK'
    BY <1>2, <1>3 DEF PortalIInv, Po!PortalTypeOK, Po!CommitDocument
  <1>5. Persists(Db, Db')
    BY <1>3 DEF Persists, Db
  <1>6. Po!Exists(app'[doc'[d].app]) /\ Copies(doc'[d], doc'[d].app[1], Db')
    BY <1>1, <1>2, <1>3 DEF Filing, Copies, Db
  <1>7. RowsCopied'
    BY <1>3, <1>5, <1>6, RowsPersist DEF RowsCopied
  <1>8. PortalLoaded'
    BY <1>3, <1>5, PortalLoadedPersists DEF PortalIInv
  <1>9. HeldBound'
    BY <1>3, <1>5, EligiblePersists DEF PortalIInv, HeldBound
  <1> QED
    BY <1>4, <1>7, <1>8, <1>9 DEF PortalIInv

\* What a reassignment writes: owners only, on rows it found.
LEMMA ReassignEffect ==
  ASSUME PortalIInv, NEW w \in Worker, Po!CommitReassign(w)
  PROVE  LET r == req[w] IN
         /\ Reassigning(r, Db)
         /\ job' \in [Job -> Po!Owning \cup {Po!NoRow}]
         /\ app' \in [Po!App -> Po!Owning \cup {Po!NoRow}]
         /\ doc' \in [Doc -> Po!Document \cup {Po!NoRow}]
         /\ held'[r.job] = held[r.job] \cup {job'[r.job].owner}
         /\ held' \in [Job -> SUBSET Po!Owners]
         /\ \A j \in Job \ {r.job} : held'[j] = held[j] /\ job'[j] = job[j]
         /\ \A j \in Job : Po!Exists(job[j]) => /\ Po!Exists(job'[j])
                                                /\ job'[j].client = job[j].client
         /\ \A a \in Po!App : app'[a] = app[a]
              \/ /\ a \in r.apps
                 /\ Po!Exists(app[a])
                 /\ Po!Exists(app'[a])
                 /\ app'[a].client = app[a].client
                 /\ app'[a].owner = r.to
         /\ \A d \in Doc : doc'[d] = doc[d]
              \/ /\ d \in r.docs
                 /\ Po!Exists(doc[d])
                 /\ Po!Exists(doc'[d])
                 /\ doc'[d].client = doc[d].client
                 /\ doc'[d].app = doc[d].app
                 /\ doc'[d].owner = r.to
         /\ job'[r.job].owner \in {job[r.job].owner, r.to}
         /\ r.to \in held'[r.job]
  <1> DEFINE r == req[w]
  <1>1. Reassigning(r, Db)
    BY DEF Po!CommitReassign, PortalIInv, PortalLoaded, Known
  <1>2. r.job \in Job /\ r.to \in User /\ r.to \in Po!Owners /\ Po!Exists(job[r.job])
        /\ r.apps \subseteq AppsUnder(app, r.job)
        /\ r.docs \subseteq DocsUnder(doc, r.job)
        /\ r.seen.job[r.job].owner \in held[r.job]
    BY <1>1 DEF Reassigning, Eligible, Po!Owners, Db
  <1>3. /\ job' = [j \in Job |-> IF j = r.job /\ r.seen.job[j].owner # r.to
                                 THEN [job[j] EXCEPT !.owner = r.to] ELSE job[j]]
        /\ app' = [a \in Po!App |-> IF a \in r.apps /\ r.seen.app[a].owner # r.to
                                 THEN [app[a] EXCEPT !.owner = r.to] ELSE app[a]]
        /\ doc' = [d \in Doc |-> IF d \in r.docs /\ r.seen.doc[d].owner # r.to
                                 THEN [doc[d] EXCEPT !.owner = r.to] ELSE doc[d]]
        /\ held' = [held EXCEPT ![r.job] = @ \cup {job'[r.job].owner}]
    BY DEF Po!CommitReassign, Po!Owned, Po!Cascade, PortalIInv, Po!PortalTypeOK
  <1>4. \A s \in Po!Owning : /\ [s EXCEPT !.owner = r.to] \in Po!Owning
                             /\ [s EXCEPT !.owner = r.to].client = s.client
                             /\ [s EXCEPT !.owner = r.to].owner = r.to
                             /\ Po!Exists([s EXCEPT !.owner = r.to])
    BY <1>2 DEF Po!Owning, Po!Exists, Po!NoRow
  <1>5. \A s \in Po!Document : /\ [s EXCEPT !.owner = r.to] \in Po!Document
                               /\ [s EXCEPT !.owner = r.to].client = s.client
                               /\ [s EXCEPT !.owner = r.to].app = s.app
                               /\ [s EXCEPT !.owner = r.to].owner = r.to
                               /\ Po!Exists([s EXCEPT !.owner = r.to])
    BY <1>2 DEF Po!Document, Po!Exists, Po!NoRow
  <1>6. /\ \A j \in Job : Po!Exists(job[j]) => job[j] \in Po!Owning
        /\ \A a \in Po!App : Po!Exists(app[a]) => app[a] \in Po!Owning
        /\ \A d \in Doc : Po!Exists(doc[d]) => doc[d] \in Po!Document
        /\ held \in [Job -> SUBSET Po!Owners]
    BY DEF PortalIInv, Po!PortalTypeOK, Po!Exists
  <1>7. /\ job' \in [Job -> Po!Owning \cup {Po!NoRow}]
        /\ \A j \in Job : Po!Exists(job[j]) => Po!Exists(job'[j]) /\ job'[j].client = job[j].client
        /\ job'[r.job].owner \in {job[r.job].owner, r.to}
        /\ r.seen.job[r.job].owner # r.to => job'[r.job].owner = r.to
    BY <1>2, <1>3, <1>4, <1>6 DEF PortalIInv, Po!PortalTypeOK
  <1>8. ASSUME NEW a \in Po!App
        PROVE  /\ app'[a] \in Po!Owning \cup {Po!NoRow}
               /\ \/ app'[a] = app[a]
                  \/ /\ a \in r.apps
                     /\ Po!Exists(app[a])
                     /\ Po!Exists(app'[a])
                     /\ app'[a].client = app[a].client
                     /\ app'[a].owner = r.to
    <2>1. a \in r.apps => Po!Exists(app[a])
      BY <1>2 DEF AppsUnder
    <2> QED
      BY <1>3, <1>4, <1>6, <2>1 DEF PortalIInv, Po!PortalTypeOK
  <1>9. ASSUME NEW d \in Doc
        PROVE  /\ doc'[d] \in Po!Document \cup {Po!NoRow}
               /\ \/ doc'[d] = doc[d]
                  \/ /\ d \in r.docs
                     /\ Po!Exists(doc[d])
                     /\ Po!Exists(doc'[d])
                     /\ doc'[d].client = doc[d].client
                     /\ doc'[d].app = doc[d].app
                     /\ doc'[d].owner = r.to
    <2>1. d \in r.docs => Po!Exists(doc[d])
      BY <1>2 DEF DocsUnder
    <2> QED
      BY <1>3, <1>5, <1>6, <2>1 DEF PortalIInv, Po!PortalTypeOK
  <1>10. /\ app' \in [Po!App -> Po!Owning \cup {Po!NoRow}]
         /\ doc' \in [Doc -> Po!Document \cup {Po!NoRow}]
    BY <1>3, <1>8, <1>9
  <1>11. job'[r.job].owner \in Po!Owners
    BY <1>2, <1>6, <1>7 DEF Po!Owning
  <1>12. /\ held'[r.job] = held[r.job] \cup {job'[r.job].owner}
         /\ held' \in [Job -> SUBSET Po!Owners]
         /\ \A j \in Job \ {r.job} : held'[j] = held[j] /\ job'[j] = job[j]
    BY <1>2, <1>3, <1>6, <1>11
  <1>13. r.to \in held'[r.job]
    BY <1>2, <1>7, <1>12
  <1> QED
    BY <1>1, <1>7, <1>8, <1>9, <1>10, <1>12, <1>13

LEMMA ReassignStep ==
  ASSUME PortalIInv, NEW w \in Worker, Po!CommitReassign(w)
  PROVE  PortalIInv'
  <1> DEFINE r == req[w]
  <1>1. /\ Reassigning(r, Db)
        /\ job' \in [Job -> Po!Owning \cup {Po!NoRow}]
        /\ app' \in [Po!App -> Po!Owning \cup {Po!NoRow}]
        /\ doc' \in [Doc -> Po!Document \cup {Po!NoRow}]
        /\ held' \in [Job -> SUBSET Po!Owners]
        /\ r.to \in held'[r.job]
        /\ held'[r.job] = held[r.job] \cup {job'[r.job].owner}
        /\ job'[r.job].owner \in {job[r.job].owner, r.to}
    BY ReassignEffect
  <1>2. /\ \A j \in Job \ {r.job} : held'[j] = held[j] /\ job'[j] = job[j]
        /\ \A j \in Job : Po!Exists(job[j]) => Po!Exists(job'[j]) /\ job'[j].client = job[j].client
    BY ReassignEffect
  <1>3. \A a \in Po!App : app'[a] = app[a] \/ /\ a \in r.apps
                                              /\ Po!Exists(app[a])
                                              /\ Po!Exists(app'[a])
                                              /\ app'[a].client = app[a].client
                                              /\ app'[a].owner = r.to
    BY ReassignEffect
  <1>4. \A d \in Doc : doc'[d] = doc[d] \/ /\ d \in r.docs
                                           /\ Po!Exists(doc[d])
                                           /\ Po!Exists(doc'[d])
                                           /\ doc'[d].client = doc[d].client
                                           /\ doc'[d].app = doc[d].app
                                           /\ doc'[d].owner = r.to
    BY ReassignEffect
  <1>5. UNCHANGED binding /\ Po!Finish(w)
    BY DEF Po!CommitReassign
  <1>6. /\ r.job \in Job
        /\ Po!Exists(job[r.job])
        /\ Eligible(r.to, job[r.job].client, Db)
        /\ r.apps \subseteq AppsUnder(app, r.job)
        /\ r.docs \subseteq DocsUnder(doc, r.job)
    BY <1>1 DEF Reassigning, Db
  <1>7. Po!PortalTypeOK'
    BY <1>1, <1>5 DEF PortalIInv, Po!PortalTypeOK
  <1>8. Persists(Db, Db')
    <2>1. \A j \in Job : held[j] \subseteq held'[j]
      BY <1>1, <1>2
    <2> QED
      BY <1>2, <1>3, <1>4, <1>5, <2>1 DEF Persists, Db
  <1>9. RowsCopied'
    <2>1. ASSUME NEW j \in Job, Po!Exists(job'[j]) PROVE Copies(job'[j], j, Db')
      <3>1. CASE j # r.job
        BY <1>2, <1>8, <2>1, <3>1, RowsPersist
      <3>2. CASE j = r.job
        BY <1>1, <2>1, <3>2 DEF Copies, Db
      <3> QED
        BY <3>1, <3>2
    <2>2. ASSUME NEW a \in Po!App, Po!Exists(app'[a]) PROVE Copies(app'[a], a[1], Db')
      <3>1. CASE app'[a] = app[a]
        BY <1>8, <2>2, <3>1, RowsPersist
      <3>2. CASE app'[a] # app[a]
        <4>1. /\ Po!Exists(app[a])
              /\ a[1] = r.job
              /\ app'[a].client = app[a].client
              /\ app'[a].owner = r.to
          BY <1>3, <1>6, <3>2 DEF AppsUnder
        <4>2. app[a].client = job[r.job].client
          BY <4>1 DEF PortalIInv, RowsCopied, Copies, Db
        <4> QED
          BY <1>1, <1>2, <1>6, <4>1, <4>2 DEF Copies, Db
      <3> QED
        BY <3>1, <3>2
    <2>3. ASSUME NEW d \in Doc, Po!Exists(doc'[d])
          PROVE  Po!Exists(app'[doc'[d].app]) /\ Copies(doc'[d], doc'[d].app[1], Db')
      <3>1. CASE doc'[d] = doc[d]
        BY <1>8, <2>3, <3>1, RowsPersist
      <3>2. CASE doc'[d] # doc[d]
        <4>1. /\ Po!Exists(doc[d])
              /\ doc[d].app[1] = r.job
              /\ doc'[d].app = doc[d].app
              /\ doc'[d].client = doc[d].client
              /\ doc'[d].owner = r.to
          BY <1>4, <1>6, <3>2 DEF DocsUnder
        <4>2. doc[d].client = job[r.job].client /\ Po!Exists(app[doc[d].app])
          BY <4>1 DEF PortalIInv, RowsCopied, Copies, Db
        <4>3. doc[d].app \in Po!App
          BY <4>1 DEF PortalIInv, Po!PortalTypeOK, Po!Document, Po!Exists
        <4>4. Po!Exists(app'[doc[d].app])
          BY <1>3, <4>2, <4>3
        <4> QED
          BY <1>1, <1>2, <1>6, <4>1, <4>2, <4>4 DEF Copies, Db
      <3> QED
        BY <3>1, <3>2
    <2> QED
      BY <2>1, <2>2, <2>3 DEF RowsCopied
  <1>10. PortalLoaded'
    BY <1>5, <1>8, PortalLoadedPersists DEF PortalIInv
  <1>11. HeldBound'
    <2>1. ASSUME NEW j \in Job PROVE IsFiniteSet(held'[j])
      <3>1. IsFiniteSet(held[j])
        BY DEF PortalIInv, HeldBound
      <3>2. j = r.job => IsFiniteSet(held[r.job] \cup {job'[r.job].owner})
        BY <3>1, FS_AddElement
      <3> QED
        BY <1>1, <1>2, <3>1, <3>2
    <2>2. ASSUME NEW j \in Job, Po!Exists(job'[j]), NEW u \in held'[j], u # Po!Null
          PROVE  Eligible(u, job'[j].client, Db')
      <3>1. CASE j # r.job
        BY <1>2, <1>8, <2>2, <3>1, EligiblePersists DEF PortalIInv, HeldBound
      <3>2. CASE j = r.job
        <4>1. job[r.job].owner \in held[r.job]
          BY <1>6 DEF PortalIInv, RowsCopied, Copies, Db
        <4>2. u \in held[r.job] \/ u = r.to
          BY <1>1, <2>2, <3>2, <4>1
        <4>3. Eligible(u, job[r.job].client, Db)
          BY <1>6, <2>2, <4>2 DEF PortalIInv, HeldBound
        <4> QED
          BY <1>2, <1>6, <1>8, <3>2, <4>3, EligiblePersists
      <3> QED
        BY <3>1, <3>2
    <2> QED
      BY <2>1, <2>2 DEF HeldBound
  <1> QED
    BY <1>7, <1>9, <1>10, <1>11 DEF PortalIInv

LEMMA PortalPostStep ==
  ASSUME PortalIInv, NEW w \in Worker,
         \/ \E a \in Po!App : Po!PostApplication(w, a)
         \/ \E a \in Po!App, kind \in Po!Kinds : Po!PostDocument(w, a, kind)
         \/ \E h, u \in User, j \in Job : Po!PostReassign(w, h, j, u)
  PROVE  PortalIInv'
  <1>1. ASSUME NEW a \in Po!App, Po!PostApplication(w, a)
        PROVE  PortalIInv'
    <2> DEFINE r == [op |-> "apply", app |-> a, seen |-> job[a[1]]]
    <2>1. Po!Begin(w, r)
      BY <1>1 DEF Po!PostApplication
    <2>2. a[1] \in Job
      BY DEF Po!App
    <2>3. job[a[1]] \in Po!Owning /\ Copies(job[a[1]], a[1], Db)
      BY <1>1, <2>2 DEF Po!PostApplication, PortalIInv, Po!PortalTypeOK, RowsCopied, Po!Exists
    <2>4. Known(r, Db)
      BY <2>3 DEF Known, AppliesFrom
    <2> HIDE DEF r
    <2> QED
      BY <2>1, <2>4, PortalBeginStep
  <1>2. ASSUME NEW a \in Po!App, NEW kind \in Po!Kinds, Po!PostDocument(w, a, kind)
        PROVE  PortalIInv'
    <2> DEFINE r == [op |-> "file", app |-> a, kind |-> kind, seen |-> app[a]]
    <2>1. Po!Exists(app[a]) /\ Po!Begin(w, r)
      BY <1>2 DEF Po!PostDocument
    <2>2. app[a] \in Po!Owning /\ Copies(app[a], a[1], Db) /\ Po!Exists(Db.app[a])
      BY <2>1 DEF PortalIInv, Po!PortalTypeOK, RowsCopied, Po!Exists, Db
    <2>3. Known(r, Db)
      BY <2>2 DEF Known, Filing
    <2> HIDE DEF r
    <2> QED
      BY <2>1, <2>3, PortalBeginStep
  <1>3. ASSUME NEW h \in User, NEW u \in User, NEW j \in Job, Po!PostReassign(w, h, j, u)
        PROVE  PortalIInv'
    <2> DEFINE apps == {a \in Po!PipelineView(h) : a[1] = j}
               docs == {d \in Po!OffersView(h) \cup Po!InterviewsView(h) \cup Po!SubmissionsView(h) :
                          doc[d].app \in apps}
               r == [op |-> "reassign", job |-> j, to |-> u,
                     seen |-> [job |-> job, app |-> app, doc |-> doc],
                     apps |-> apps, docs |-> docs]
    <2>1. /\ Po!Exists(job[j])
          /\ Po!Visible(h, job[j])
          /\ binding[h] # Po!Unbound
          /\ binding[h].role = "client_admin"
          /\ Po!EligibleOwner(h, u)
          /\ Po!Begin(w, r)
      BY <1>3 DEF Po!PostReassign
    <2>2. binding[h].client = job[j].client
      BY <2>1 DEF Po!Visible, Po!Active
    <2>3. Eligible(u, job[j].client, Db)
      BY <2>1, <2>2 DEF Po!EligibleOwner, Po!Active, Eligible, Db
    <2>4. \A x : x.client = job[j].client => Po!Visible(h, x)
      BY <2>1, <2>2 DEF Po!Visible, Po!Active
    <2>5. apps = AppsUnder(app, j)
      <3>1. \A a \in Po!App : Po!Exists(app[a]) /\ a[1] = j => app[a].client = job[j].client
        BY DEF PortalIInv, RowsCopied, Copies, Db
      <3> QED
        BY <2>4, <3>1 DEF Po!PipelineView, AppsUnder
    <2>6. docs = DocsUnder(doc, j)
      <3>1. ASSUME NEW d \in Doc, Po!Exists(doc[d])
            PROVE  /\ doc[d].app \in Po!App
                   /\ doc[d].kind \in Po!Kinds
                   /\ Po!Exists(app[doc[d].app])
                   /\ doc[d].app[1] = j => doc[d].client = job[j].client
        <4>1. doc[d].app \in Po!App /\ doc[d].kind \in Po!Kinds
          BY <3>1 DEF PortalIInv, Po!PortalTypeOK, Po!Document, Po!Exists
        <4>2. Po!Exists(app[doc[d].app]) /\ Copies(doc[d], doc[d].app[1], Db)
          BY <3>1 DEF PortalIInv, RowsCopied
        <4> QED
          BY <4>1, <4>2 DEF Copies, Db
      <3>2. \A d \in Doc : doc[d].kind \in Po!Kinds /\ Po!Exists(doc[d]) /\ Po!Visible(h, doc[d]) <=>
              d \in Po!OffersView(h) \cup Po!InterviewsView(h) \cup Po!SubmissionsView(h)
        BY DEF Po!OffersView, Po!InterviewsView, Po!SubmissionsView, Po!DocsView, Po!Kinds
      <3>3. docs \subseteq Doc
        BY DEF Po!OffersView, Po!InterviewsView, Po!SubmissionsView, Po!DocsView
      <3> HIDE DEF docs
      <3>4. ASSUME NEW d \in Doc
            PROVE  d \in docs <=> Po!Exists(doc[d]) /\ doc[d].app[1] = j
        BY <2>4, <2>5, <3>1, <3>2 DEF docs, AppsUnder
      <3> QED
        BY <3>3, <3>4 DEF DocsUnder
    <2>7. job[j].owner \in held[j]
      BY <2>1 DEF PortalIInv, RowsCopied, Copies, Db
    <2> HIDE DEF apps, docs
    <2>8. Reassigning(r, Db)
      BY <2>1, <2>3, <2>5, <2>6, <2>7 DEF Reassigning, Db
    <2>9. Known(r, Db)
      BY <2>8 DEF Known
    <2> HIDE DEF r
    <2> QED
      BY <2>1, <2>9, PortalBeginStep
  <1> QED
    BY <1>1, <1>2, <1>3

LEMMA PortalJobStep ==
  ASSUME PortalIInv, NEW j \in Job,
         \/ \E u \in User : Po!PostJob(u, j)
         \/ \E c \in Client \cup {Po!Null} : Po!CreateJob(c, j)
  PROVE  PortalIInv'
  <1>1. ASSUME NEW u \in User, Po!PostJob(u, j)
        PROVE  PortalIInv'
    <2> DEFINE r == [row |-> TRUE, client |-> binding[u].client, owner |-> u]
    <2>1. Po!Insert(j, r) /\ binding[u] # Po!Unbound
      BY <1>1 DEF Po!PostJob
    <2>2. binding[u].client \in Client
      BY <2>1 DEF PortalIInv, Po!PortalTypeOK, Po!Binding
    <2>3. r \in Po!Owning /\ Eligible(r.owner, r.client, Db)
      BY <2>1, <2>2 DEF Po!Owning, Po!Owners, Eligible, Db
    <2> HIDE DEF r
    <2> QED
      BY <2>1, <2>3, InsertStep
  <1>2. ASSUME NEW c \in Client \cup {Po!Null}, Po!CreateJob(c, j)
        PROVE  PortalIInv'
    <2> DEFINE r == [row |-> TRUE, client |-> c, owner |-> Po!Null]
    <2>1. Po!Insert(j, r)
      BY <1>2 DEF Po!CreateJob
    <2>2. r \in Po!Owning /\ r.owner = Po!Null
      BY DEF Po!Owning, Po!Owners
    <2> HIDE DEF r
    <2> QED
      BY <2>1, <2>2, InsertStep
  <1> QED
    BY <1>1, <1>2

LEMMA PortalIInvStep == PortalIInv /\ [Po!Next]_(Po!vars) => PortalIInv'
  <1> SUFFICES ASSUME PortalIInv, [Po!Next]_(Po!vars) PROVE PortalIInv'
    OBVIOUS
  <1>1. CASE UNCHANGED Po!vars
    BY <1>1 DEF Po!vars, PortalIInv, Po!PortalTypeOK, RowsCopied, PortalLoaded, HeldBound, Db
  <1>2. ASSUME NEW w \in Worker, Po!Fail(w)
        PROVE  PortalIInv'
    <2>1. UNCHANGED <<binding, job, app, doc, held>> /\ Po!Finish(w)
      BY <1>2 DEF Po!Fail, Po!tables
    <2>2. Persists(Db, Db')
      BY <2>1 DEF Persists, Db
    <2>3. PortalLoaded'
      BY <2>1, <2>2, PortalLoadedPersists DEF PortalIInv
    <2> QED
      BY <2>1, <2>3 DEF PortalIInv, Po!PortalTypeOK, RowsCopied, HeldBound, Db
  <1> QED
    BY <1>1, <1>2, PortalJobStep, PortalTeamStep, PortalPostStep, ApplicationStep, DocumentStep,
       ReassignStep DEF Po!Next

\* While the portal runs, every step is one of Portal's.
LEMMA PortalRuns ==
  /\ Init /\ part = "portal" => Po!Init
  /\ [Next]_vars => part' = part
  /\ [Next]_vars /\ part = "portal" => [Po!Next]_(Po!vars)
  <1>1. Init /\ part = "portal" => Po!Init
    BY DEF Init
  <1>2. [Next]_vars => part' = part
    BY DEF Next, vars, RestOfPortal, RestOfIntake, RestOfRegistrations, RestOfLeads,
       RestOfBoard, RestOfCampus, RestOfScreens, RestOfRoster
  <1>3. [Next]_vars /\ part = "portal" => [Po!Next]_(Po!vars)
    BY DEF Next, vars, Po!vars
  <1> QED
    BY <1>1, <1>2, <1>3

LEMMA PortalInvariance ==
  FoundersKnown => (Spec => [](part = "portal" => PortalIInv))
  <1> SUFFICES ASSUME FoundersKnown PROVE Spec => [](part = "portal" => PortalIInv)
    OBVIOUS
  <1> DEFINE Inv == part = "portal" => PortalIInv
  <1>1. Init => Inv
    BY PortalRuns, PortalIInvInit, FoundersKnown
  <1>2. Inv /\ [Next]_vars => Inv'
    BY PortalRuns, PortalIInvStep
  <1> QED
    BY <1>1, <1>2, PTL DEF Spec

-----------------------------------------------------------------------------
(* What follows from the invariant.                                        *)

LEMMA BoundaryFollows == PortalIInv => Po!PortalBoundary
  <1> SUFFICES ASSUME PortalIInv, NEW u \in User, NEW j \in Po!JobsBehind(u)
               PROVE  /\ job[j].client = binding[u].client
                      /\ binding[u].role = "client_manager" => u \in held[j]
    BY DEF Po!PortalBoundary
  <1>1. ASSUME NEW r, NEW i, i = j, Copies(r, i, Db), Po!Visible(u, r)
        PROVE  /\ job[j].client = binding[u].client
               /\ binding[u].role = "client_manager" => u \in held[j]
    BY <1>1 DEF Copies, Po!Visible, Po!Active, Db
  <1>2. CASE j \in Po!JobsView(u)
    <2>1. Copies(job[j], j, Db) /\ Po!Visible(u, job[j])
      BY <1>2 DEF Po!JobsView, PortalIInv, RowsCopied
    <2> QED
      BY <1>1, <2>1
  <1>3. ASSUME NEW a \in Po!PipelineView(u), a[1] = j
        PROVE  /\ job[j].client = binding[u].client
               /\ binding[u].role = "client_manager" => u \in held[j]
    <2>1. Copies(app[a], a[1], Db) /\ Po!Visible(u, app[a])
      BY <1>3 DEF Po!PipelineView, PortalIInv, RowsCopied
    <2> QED
      BY <1>1, <1>3, <2>1
  <1>4. ASSUME NEW d \in Po!SubmissionsView(u) \cup Po!InterviewsView(u) \cup Po!OffersView(u),
               doc[d].app[1] = j
        PROVE  /\ job[j].client = binding[u].client
               /\ binding[u].role = "client_manager" => u \in held[j]
    <2>1. Copies(doc[d], doc[d].app[1], Db) /\ Po!Visible(u, doc[d])
      BY <1>4 DEF Po!SubmissionsView, Po!InterviewsView, Po!OffersView, Po!DocsView, PortalIInv,
         RowsCopied
    <2> QED
      BY <1>1, <1>4, <2>1
  <1> QED
    BY <1>2, <1>3, <1>4 DEF Po!JobsBehind

LEMMA OwnersFollow == PortalIInv => Po!OwnersBound
  <1> SUFFICES ASSUME PortalIInv PROVE Po!OwnersBound
    OBVIOUS
  <1>1. \A r : \A j \in Job : Copies(r, j, Db) => r.owner = Po!Null \/ Po!Active(r.owner, r.client)
    BY DEF Copies, PortalIInv, HeldBound, Eligible, Po!Active, Db
  <1>2. \A a \in Po!App : a[1] \in Job
    BY DEF Po!App
  <1>3. \A d \in Doc : Po!Exists(doc[d]) => doc[d].app[1] \in Job
    BY <1>2 DEF PortalIInv, Po!PortalTypeOK, Po!Document, Po!Exists
  <1> QED
    BY <1>1, <1>2, <1>3 DEF PortalIInv, RowsCopied, Po!OwnersBound

LEMMA AgreementFollows == PortalIInv => Po!NeverMovedAgrees
  <1> SUFFICES ASSUME PortalIInv, NEW j \in Job, Po!Exists(job[j]), Po!Cardinality(held[j]) = 1
               PROVE  Po!Agrees(j)
    BY DEF Po!NeverMovedAgrees
  <1>1. IsFiniteSet(held[j])
    BY DEF PortalIInv, HeldBound
  <1>2. PICK u : held[j] = {u}
    <2>1. Cardinality(held[j]) = 1
      BY DEF Po!Cardinality, Cardinality
    <2> QED
      BY <1>1, <2>1, FS_Singleton
  <1>3. \A r : Copies(r, j, Db) => r.owner = u
    BY <1>2 DEF Copies, Db
  <1> QED
    BY <1>3 DEF Po!Agrees, PortalIInv, RowsCopied

\* A reassignment nothing overlapped leaves every row of its job with one owner.
LEMMA MendingFollows ==
  ASSUME PortalIInv
  PROVE  Po!MendingReassign
  <1> SUFFICES ASSUME NEW w \in Worker, NEW j \in Job, Po!CommitReassign(w),
                      req[w].job = j, Po!Undisturbed(w)
               PROVE  Po!Agrees(j)'
    BY DEF Po!MendingReassign
  <1> DEFINE r == req[w]
  <1>1. /\ Reassigning(r, Db)
        /\ \A a \in Po!App : app'[a] = app[a] \/ app'[a].owner = r.to
        /\ \A d \in Doc : doc'[d] = doc[d] \/ /\ doc'[d].app = doc[d].app
                                              /\ doc'[d].owner = r.to
    BY ReassignEffect
  <1>2. /\ r.seen.job = job /\ r.seen.app = app /\ r.seen.doc = doc
        /\ r.apps = AppsUnder(app, j) /\ r.docs = DocsUnder(doc, j)
    BY <1>1 DEF Po!Undisturbed, Reassigning
  <1>3. /\ \A i \in Job : job'[i] = IF i = j /\ job[i].owner # r.to
                                    THEN [job[i] EXCEPT !.owner = r.to] ELSE job[i]
        /\ \A a \in Po!App : app'[a] = IF a \in r.apps /\ app[a].owner # r.to
                                    THEN [app[a] EXCEPT !.owner = r.to] ELSE app[a]
        /\ \A d \in Doc : doc'[d] = IF d \in r.docs /\ doc[d].owner # r.to
                                    THEN [doc[d] EXCEPT !.owner = r.to] ELSE doc[d]
    BY <1>2 DEF Po!CommitReassign, Po!Owned, Po!Cascade, PortalIInv, Po!PortalTypeOK
  <1>4. Po!Exists(job[j])
    BY <1>1 DEF Reassigning, Db
  <1>5. /\ job[j] \in Po!Owning
        /\ \A a \in Po!App : Po!Exists(app[a]) => app[a] \in Po!Owning
        /\ \A d \in Doc : Po!Exists(doc[d]) => doc[d] \in Po!Document
    BY <1>4 DEF PortalIInv, Po!PortalTypeOK, Po!Exists
  <1>6. \A s \in Po!Owning \cup Po!Document : [s EXCEPT !.owner = r.to].owner = r.to
    <2>1. \A s \in Po!Owning : [s EXCEPT !.owner = r.to].owner = r.to
      BY DEF Po!Owning
    <2>2. \A s \in Po!Document : [s EXCEPT !.owner = r.to].owner = r.to
      BY DEF Po!Document
    <2> QED
      BY <2>1, <2>2
  <1> HIDE DEF r
  <1>7. job'[j].owner = r.to
    <2>1. CASE job[j].owner = r.to
      BY <1>3, <2>1
    <2>2. CASE job[j].owner # r.to
      <3>1. job'[j] = [job[j] EXCEPT !.owner = r.to]
        BY <1>3, <2>2
      <3> QED
        BY <1>5, <1>6, <3>1
    <2> QED
      BY <2>1, <2>2
  <1>8. ASSUME NEW a \in Po!App, a[1] = j, Po!Exists(app'[a])
        PROVE  app'[a].owner = r.to
    <2>1. CASE a \in r.apps
      <3>1. app[a] \in Po!Owning
        BY <1>2, <1>5, <2>1 DEF AppsUnder
      <3>2. app[a].owner # r.to => app'[a] = [app[a] EXCEPT !.owner = r.to]
        BY <1>3, <2>1
      <3>3. app[a].owner = r.to => app'[a] = app[a]
        BY <1>3
      <3> QED
        BY <1>6, <3>1, <3>2, <3>3
    <2>2. CASE a \notin r.apps
      BY <1>2, <1>3, <1>8, <2>2 DEF AppsUnder
    <2> QED
      BY <2>1, <2>2
  <1>9. ASSUME NEW d \in Doc, Po!Exists(doc'[d]), doc'[d].app[1] = j
        PROVE  doc'[d].owner = r.to
    <2>1. CASE d \in r.docs
      <3>1. doc[d] \in Po!Document
        BY <1>2, <1>5, <2>1 DEF DocsUnder
      <3>2. doc[d].owner # r.to => doc'[d] = [doc[d] EXCEPT !.owner = r.to]
        BY <1>3, <2>1
      <3>3. doc[d].owner = r.to => doc'[d] = doc[d]
        BY <1>3
      <3> QED
        BY <1>6, <3>1, <3>2, <3>3
    <2>2. CASE d \notin r.docs
      BY <1>2, <1>3, <1>9, <2>2 DEF DocsUnder
    <2> QED
      BY <2>1, <2>2
  <1> QED
    BY <1>7, <1>8, <1>9 DEF Po!Agrees

(* client_portal.py:3-8, 383-414, for any clients, users, jobs, candidates *)
(* and requests: a portal session is shown rows of its own client and, if  *)
(* it is a hiring manager's, of jobs once theirs, whatever overlaps.       *)
THEOREM PortalHolds ==
  ASSUME FoundersKnown
  PROVE  Spec => []PortalKept
  <1>1. (part = "portal" => PortalIInv) => PortalKept
    BY BoundaryFollows, OwnersFollow, AgreementFollows DEF PortalIInv, PortalKept, Po!PortalKept
  <1> QED
    BY <1>1, PortalInvariance, FoundersKnown, PTL

(* client_portal.py:383-386: whatever earlier overlaps left behind, a      *)
(* reassignment that nothing overlaps gives the job's pipeline one owner.  *)
THEOREM ReassignmentsMend ==
  ASSUME FoundersKnown
  PROVE  Spec => ReassignMends
  <1>1. (part = "portal" => PortalIInv) /\ [Next]_vars =>
           [part = "portal" => Po!MendingReassign]_vars
    BY MendingFollows
  <1> QED
    BY <1>1, PortalInvariance, FoundersKnown, PTL DEF Spec, ReassignMends
=============================================================================
