------------------------------ MODULE Session ------------------------------
(***************************************************************************)
(* One browser's session: the cookies the server sets (routers/auth.py,    *)
(* security.py, deps.py), and the calls the pages make, each of which      *)
(* refreshes the session and retries once when it is refused               *)
(* (frontend/lib/api/client.ts).                                           *)
(*                                                                         *)
(* Tokens are not stored on the server: whoever holds one is signed in     *)
(* until it expires, and its cookie expires with it.  The server reads and *)
(* answers at one time, the browser stores what was answered at another.   *)
(***************************************************************************)
CONSTANTS
  User, \* accounts people sign in with in this browser
  Call  \* calls the pages may have in flight

VARIABLES
  account, \* User -> the status of the users row
  access,  \* whose access token the browser holds, or Null
  refresh, \* whose refresh token the browser holds, or Null
  call,    \* Call -> where the call is
  out      \* nothing but a logout has been answered since it was sent (history)

vars == <<account, access, refresh, call, out>>

Null == "null"
Idle == [at |-> "idle"]

Init == /\ account = [u \in User |-> "active"]
        /\ access = Null
        /\ refresh = Null
        /\ call = [c \in Call |-> Idle]
        /\ out = TRUE

Cookies == <<access, refresh>>

Moves(c, state) == call' = [call EXCEPT ![c] = state]

-----------------------------------------------------------------------------
(* POST /auth/login and /auth/logout.                                      *)

\* The password is right; an erased account has none.
SendLogin(c, u) == /\ call[c] = Idle
                   /\ Moves(c, [at |-> "login", user |-> u])
                   /\ out' = FALSE
                   /\ UNCHANGED <<account, Cookies>>

ServeLogin(c) ==
  /\ call[c].at = "login"
  /\ Moves(c, IF account[call[c].user] = "active" THEN [at |-> "granted", user |-> call[c].user]
              ELSE Idle)
  /\ UNCHANGED <<account, Cookies, out>>

StoreLogin(c) == /\ call[c].at = "granted"
                 /\ access' = call[c].user
                 /\ refresh' = call[c].user
                 /\ Moves(c, Idle)
                 /\ UNCHANGED <<account, out>>

SendLogout(c) == /\ call[c] = Idle
                 /\ Moves(c, [at |-> "logout"])
                 /\ UNCHANGED <<account, Cookies, out>>

\* Fault: the refresh token is left in the browser.
AccessOnly == <<Null, refresh>>

\* Fault: a cookie is emptied, not deleted.
Emptied == <<"", "">>

Cleared == <<Null, Null>>

\* The server keeps nothing: it answers with both cookies deleted.
StoreLogout(c) == /\ call[c].at = "logout"
                  /\ access' = Cleared[1]
                  /\ refresh' = Cleared[2]
                  /\ Moves(c, Idle)
                  /\ out' = \A d \in Call \ {c} : call[d] = Idle
                  /\ UNCHANGED account
-----------------------------------------------------------------------------
(* A call of a page, with the access token the browser holds.              *)

SendCall(c) == /\ call[c] = Idle
               /\ Moves(c, [at |-> "sent", user |-> access, retry |-> FALSE])
               /\ UNCHANGED <<account, Cookies, out>>

\* get_current_context: the token alone decides.  The endpoint runs.
Serve(c) == /\ call[c].at = "sent"
            /\ call[c].user # Null
            /\ Moves(c, Idle)
            /\ UNCHANGED <<account, Cookies, out>>

\* Fault: every refusal refreshes and retries.
Stubborn(c) == TRUE

Retriable(c) == ~call[c].retry

\* No token, or one that expired on the way: 401, once.
Refuse(c) == /\ call[c].at = "sent"
             /\ Moves(c, IF Retriable(c) THEN [at |-> "refused"] ELSE Idle)
             /\ UNCHANGED <<account, Cookies, out>>

SendRefresh(c) == /\ call[c].at = "refused"
                  /\ Moves(c, [at |-> "refresh", user |-> refresh])
                  /\ UNCHANGED <<account, Cookies, out>>

\* Fault: the token alone decides here too.
AnyHolder(u) == u # Null

Renewable(u) == u # Null /\ account[u] = "active"

\* POST /auth/refresh; a token that expired on the way or a lost answer is
\* the same as a refusal.
ServeRefresh(c) ==
  /\ call[c].at = "refresh"
  /\ \/ Renewable(call[c].user) /\ Moves(c, [at |-> "renewed", user |-> call[c].user])
     \/ Moves(c, [at |-> "retry"])
  /\ UNCHANGED <<account, Cookies, out>>

StoreRefresh(c) == /\ call[c].at = "renewed"
                   /\ access' = call[c].user
                   /\ Moves(c, [at |-> "retry"])
                   /\ UNCHANGED <<account, refresh, out>>

SendRetry(c) == /\ call[c].at = "retry"
                /\ Moves(c, [at |-> "sent", user |-> access, retry |-> TRUE])
                /\ UNCHANGED <<account, Cookies, out>>

-----------------------------------------------------------------------------
(* Time passes: 15 minutes for the access token, 7 days for the other.     *)

ExpireAccess == access # Null /\ access' = Null /\ UNCHANGED <<account, refresh, call, out>>

ExpireRefresh == refresh # Null /\ refresh' = Null /\ UNCHANGED <<account, access, call, out>>

\* erasure._anonymize, from this browser or any other.
Erase(u) == /\ account[u] = "active"
            /\ account' = [account EXCEPT ![u] = "erased"]
            /\ UNCHANGED <<Cookies, call, out>>

-----------------------------------------------------------------------------

\* What moves a call once it has been made.
Progress(c) == \/ ServeLogin(c) \/ StoreLogin(c) \/ StoreLogout(c)
               \/ Serve(c) \/ Refuse(c) \/ SendRefresh(c)
               \/ ServeRefresh(c) \/ StoreRefresh(c) \/ SendRetry(c)

Next == \/ \E c \in Call : \/ \E u \in User : SendLogin(c, u)
                          \/ SendLogout(c)
                          \/ SendCall(c)
                          \/ Progress(c)
        \/ ExpireAccess
        \/ ExpireRefresh
        \/ \E u \in User : Erase(u)

(* Servers and browsers answer, or a connection times out, which is a      *)
(* refusal here; and tokens expire.  Nobody has to make a call.            *)
Fairness == /\ \A c \in Call : WF_vars(Progress(c))
            /\ WF_vars(ExpireAccess)

Spec == Init /\ [][Next]_vars /\ Fairness

-----------------------------------------------------------------------------

Held == User \cup {Null}

SessionTypeOK ==
  /\ account \in [User -> {"active", "erased"}]
  /\ access \in Held
  /\ refresh \in Held
  /\ call \in [Call -> {Idle}
       \cup [at : {"login", "granted", "renewed"}, user : User]
       \cup [at : {"refresh"}, user : Held]
       \cup [at : {"logout", "refused", "retry"}]
       \cup [at : {"sent"}, user : Held, retry : BOOLEAN]]
  /\ out \in BOOLEAN

(* auth.py:118 reads the account, deps.py does not: whatever was in flight *)
(* when an account was erased, the browser ends up without a token of it,  *)
(* for good, however often the pages call.                                 *)
ErasedIsSignedOut ==
  \A u \in User : account[u] = "erased" ~> [](access # u)

(* auth.py:127-130, "so it actually clears": after a logout that met no    *)
(* other call of the browser, no page's call brings a session back.        *)
QuietLogoutHolds == out => access = Null /\ refresh = Null

(* client.ts:16, "silent refresh then retry once": a call that is refused, *)
(* whatever other calls do to the cookies meanwhile, comes to an end.      *)
EveryCallEnds == \A c \in Call : call[c] # Idle ~> call[c] = Idle

(* What is always true of a browser's tokens and calls.                    *)
SessionKept == SessionTypeOK /\ QuietLogoutHolds

-----------------------------------------------------------------------------
(* What the documents expect and overlapping requests defeat: see the      *)
(* README, 'Where the code and its documents part'.                        *)

(* The two tokens of a browser are one account's: a refresh answered after *)
(* somebody else has signed in leaves two.                                 *)
OneAccount == access = Null \/ refresh = Null \/ access = refresh
=============================================================================
