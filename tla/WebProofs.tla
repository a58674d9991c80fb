----------------------------- MODULE WebProofs -----------------------------
(***************************************************************************)
(* Theorems about the parts of MCWeb, for any users, calls, tenants and    *)
(* bounds but where an assumption says so.  The parts share no state, so   *)
(* the invariant is a conjunction of one for each.                         *)
(*                                                                         *)
(* Session: after a quiet logout no call in flight carries a token.        *)
(* TakePage: while no connection broke, the one submission there is, is    *)
(* the one awaited, on the paper, so no grade but its own is stored.       *)
(* PayPage: while no payment was cut, one call at a time pays or checks,   *)
(* and it holds the guard; a receipt is only asked of what is enrolled,    *)
(* and what is enrolled is never offered again.                            *)
(* Reports: what is cached or found is the tenant's and was true, and what *)
(* a refresh found is no older than its question.                          *)
(***************************************************************************)
EXTENDS MCWeb, Integers, FiniteSetTheorems, TLAPS

\* None is what a page awaits when it awaits no submission.
NamesApart == Ta!None \notin Hand

BoundsAreNumbers == /\ TimeLimit \in Nat
                    /\ MaxAnswers \in Nat
                    /\ MaxCharges \in Nat
                    /\ MaxFacts \in Nat

-----------------------------------------------------------------------------
(* Session.                                                                *)

SessionCalls == {Se!Idle}
  \cup [at : {"login", "granted", "renewed"}, user : User]
  \cup [at : {"refresh"}, user : Se!Held]
  \cup [at : {"logout", "refused", "retry"}]
  \cup [at : {"sent"}, user : Se!Held, retry : BOOLEAN]

\* Calls that bring no token back.
Tokenless == {Se!Idle}
  \cup [at : {"refresh"}, user : {Se!Null}]
  \cup [at : {"logout", "refused", "retry"}]
  \cup [at : {"sent"}, user : {Se!Null}, retry : BOOLEAN]

SessionInv ==
  /\ Se!SessionTypeOK
  /\ out => /\ access = Se!Null
            /\ refresh = Se!Null
            /\ \A c \in Hand : scall[c] \in Tokenless

LEMMA SessionInit == Se!Init => SessionInv
  <1> SUFFICES ASSUME Se!Init PROVE SessionInv
    OBVIOUS
  <1>1. Se!Idle \in SessionCalls /\ Se!Idle \in Tokenless
    BY DEF SessionCalls, Tokenless
  <1>2. Se!Null \in Se!Held
    BY DEF Se!Held
  <1> QED
    BY <1>1, <1>2 DEF Se!Init, SessionInv, Se!SessionTypeOK, SessionCalls

\* What the kinds of calls carry.
LEMMA SessionCallKinds ==
  ASSUME NEW x \in SessionCalls
  PROVE  /\ x.at \in {"login", "granted", "renewed"} => x.user \in User
         /\ x.at = "refresh" => x.user \in Se!Held
         /\ x.at = "sent" => x.user \in Se!Held /\ x.retry \in BOOLEAN
         /\ x \in Tokenless <=> /\ x.at \notin {"login", "granted", "renewed"}
                                /\ x.at \in {"refresh", "sent"} => x.user = Se!Null
  <1>1. CASE x = Se!Idle
    BY <1>1 DEF Se!Idle, Tokenless
  <1>2. CASE x \in [at : {"login", "granted", "renewed"}, user : User]
    BY <1>2 DEF Se!Idle, Tokenless
  <1>3. CASE x \in [at : {"refresh"}, user : Se!Held]
    <2>1. x.at = "refresh" /\ x.user \in Se!Held /\ x = [at |-> "refresh", user |-> x.user]
      BY <1>3
    <2>2. x \in [at : {"refresh"}, user : {Se!Null}] <=> x.user = Se!Null
      BY <2>1
    <2> QED
      BY <2>1, <2>2 DEF Tokenless, Se!Idle
  <1>4. CASE x \in [at : {"logout", "refused", "retry"}]
    BY <1>4 DEF Tokenless
  <1>5. CASE x \in [at : {"sent"}, user : Se!Held, retry : BOOLEAN]
    <2>1. /\ x.at = "sent" /\ x.user \in Se!Held /\ x.retry \in BOOLEAN
          /\ x = [at |-> "sent", user |-> x.user, retry |-> x.retry]
      BY <1>5
    <2>2. x \in [at : {"sent"}, user : {Se!Null}, retry : BOOLEAN] <=> x.user = Se!Null
      BY <2>1
    <2> QED
      BY <2>1, <2>2 DEF Tokenless, Se!Idle
  <1> QED
    BY <1>1, <1>2, <1>3, <1>4, <1>5 DEF SessionCalls

\* A step that moves one call, to one that carries no token if it could not
\* bring one back before, and leaves the cookies as they are or takes some away.
LEMMA SessionMoves ==
  ASSUME SessionInv, NEW c \in Hand, NEW x \in SessionCalls, Se!Moves(c, x),
         UNCHANGED <<account, access, refresh>>,
         out' \in BOOLEAN,
         out' => out /\ x \in Tokenless
  PROVE  SessionInv'
  <1>1. /\ scall' \in [Hand -> SessionCalls]
        /\ scall'[c] = x
        /\ \A d \in Hand \ {c} : scall'[d] = scall[d]
    BY DEF Se!Moves, SessionInv, Se!SessionTypeOK, SessionCalls
  <1>2. Se!SessionTypeOK'
    BY <1>1 DEF SessionInv, Se!SessionTypeOK, SessionCalls
  <1>3. out' => access' = Se!Null /\ refresh' = Se!Null /\ \A d \in Hand : scall'[d] \in Tokenless
    BY <1>1 DEF SessionInv
  <1> QED
    BY <1>2, <1>3 DEF SessionInv

LEMMA SessionCallStep ==
  ASSUME SessionInv, NEW c \in Hand,
         \/ \E u \in User : Se!SendLogin(c, u)
         \/ Se!SendLogout(c) \/ Se!SendCall(c) \/ Se!ServeLogin(c)
         \/ Se!Serve(c) \/ Se!Refuse(c) \/ Se!SendRefresh(c)
         \/ Se!ServeRefresh(c) \/ Se!SendRetry(c)
  PROVE  SessionInv'
  <1>1. /\ scall[c] \in SessionCalls
        /\ access \in Se!Held /\ refresh \in Se!Held /\ out \in BOOLEAN
        /\ out => access = Se!Null /\ refresh = Se!Null /\ scall[c] \in Tokenless
    BY DEF SessionInv, Se!SessionTypeOK, SessionCalls
  <1>2. /\ Se!Idle \in SessionCalls \cap Tokenless
        /\ \A at \in {"logout", "refused", "retry"} : [at |-> at] \in SessionCalls \cap Tokenless
        /\ \A u \in User : \A at \in {"login", "granted", "renewed"} :
             [at |-> at, user |-> u] \in SessionCalls
        /\ \A u \in Se!Held :
             /\ [at |-> "refresh", user |-> u] \in SessionCalls
             /\ u = Se!Null => [at |-> "refresh", user |-> u] \in Tokenless
        /\ \A u \in Se!Held, retry \in BOOLEAN :
             /\ [at |-> "sent", user |-> u, retry |-> retry] \in SessionCalls
             /\ u = Se!Null => [at |-> "sent", user |-> u, retry |-> retry] \in Tokenless
    BY DEF SessionCalls, Tokenless
  <1>3. ASSUME NEW u \in User, Se!SendLogin(c, u) PROVE SessionInv'
    BY <1>2, <1>3, SessionMoves DEF Se!SendLogin, Se!Cookies
  <1>4. ASSUME Se!SendLogout(c) PROVE SessionInv'
    BY <1>1, <1>2, <1>4, SessionMoves DEF Se!SendLogout, Se!Cookies
  <1>5. ASSUME Se!SendCall(c) PROVE SessionInv'
    BY <1>1, <1>2, <1>5, SessionMoves DEF Se!SendCall, Se!Cookies
  <1>6. ASSUME Se!ServeLogin(c) PROVE SessionInv'
    <2>1. ~out /\ scall[c].user \in User
      BY <1>1, <1>6, SessionCallKinds DEF Se!ServeLogin
    <2> QED
      BY <1>1, <1>2, <1>6, <2>1, SessionMoves DEF Se!ServeLogin, Se!Cookies
  <1>7. ASSUME Se!Serve(c) PROVE SessionInv'
    BY <1>1, <1>2, <1>7, SessionMoves DEF Se!Serve, Se!Cookies
  <1>8. ASSUME Se!Refuse(c) PROVE SessionInv'
    BY <1>1, <1>2, <1>8, SessionMoves DEF Se!Refuse, Se!Cookies
  <1>9. ASSUME Se!SendRefresh(c) PROVE SessionInv'
    BY <1>1, <1>2, <1>9, SessionMoves DEF Se!SendRefresh, Se!Cookies
  <1>10. ASSUME Se!ServeRefresh(c) PROVE SessionInv'
    <2>1. scall[c].user \in Se!Held /\ (out => scall[c].user = Se!Null)
      BY <1>1, <1>10, SessionCallKinds DEF Se!ServeRefresh
    <2>2. Se!Renewable(scall[c].user) => ~out /\ scall[c].user \in User
      BY <2>1 DEF Se!Renewable, Se!Held
    <2> QED
      BY <1>1, <1>2, <1>10, <2>2, SessionMoves DEF Se!ServeRefresh, Se!Cookies
  <1>11. ASSUME Se!SendRetry(c) PROVE SessionInv'
    BY <1>1, <1>2, <1>11, SessionMoves DEF Se!SendRetry, Se!Cookies
  <1> QED
    BY <1>3, <1>4, <1>5, <1>6, <1>7, <1>8, <1>9, <1>10, <1>11

LEMMA SessionCookieStep ==
  ASSUME SessionInv, NEW c \in Hand, Se!StoreLogin(c) \/ Se!StoreLogout(c) \/ Se!StoreRefresh(c)
  PROVE  SessionInv'
  <1>1. /\ scall \in [Hand -> SessionCalls]
        /\ scall[c] \in SessionCalls
        /\ access \in Se!Held /\ refresh \in Se!Held /\ out \in BOOLEAN
        /\ account \in [User -> {"active", "erased"}]
        /\ out => scall[c] \in Tokenless
    BY DEF SessionInv, Se!SessionTypeOK, SessionCalls
  <1>2. /\ Se!Idle \in SessionCalls /\ Se!Idle \in Tokenless
        /\ [at |-> "retry"] \in SessionCalls
        /\ \A u \in User : u \in Se!Held
        /\ Se!Null \in Se!Held
    BY DEF SessionCalls, Tokenless, Se!Held
  <1>3. ASSUME Se!StoreLogin(c) PROVE SessionInv'
    <2>1. ~out /\ scall[c].user \in User
      BY <1>1, <1>3, SessionCallKinds DEF Se!StoreLogin
    <2>2. scall' \in [Hand -> SessionCalls]
      BY <1>1, <1>2, <1>3 DEF Se!StoreLogin, Se!Moves
    <2> QED
      BY <1>1, <1>2, <1>3, <2>1, <2>2
         DEF Se!StoreLogin, SessionInv, Se!SessionTypeOK, SessionCalls
  <1>4. ASSUME Se!StoreLogout(c) PROVE SessionInv'
    <2>1. /\ scall' \in [Hand -> SessionCalls]
          /\ scall'[c] = Se!Idle
          /\ \A d \in Hand \ {c} : scall'[d] = scall[d]
      BY <1>1, <1>2, <1>4 DEF Se!StoreLogout, Se!Moves
    <2>2. /\ access' = Se!Null /\ refresh' = Se!Null /\ account' = account
          /\ out' \in BOOLEAN
          /\ out' => \A d \in Hand : scall'[d] = Se!Idle
      BY <1>4, <2>1 DEF Se!StoreLogout, Se!Cleared
    <2> QED
      BY <1>1, <1>2, <2>1, <2>2 DEF SessionInv, Se!SessionTypeOK, SessionCalls
  <1>5. ASSUME Se!StoreRefresh(c) PROVE SessionInv'
    <2>1. ~out /\ scall[c].user \in User
      BY <1>1, <1>5, SessionCallKinds DEF Se!StoreRefresh
    <2>2. scall' \in [Hand -> SessionCalls]
      BY <1>1, <1>2, <1>5 DEF Se!StoreRefresh, Se!Moves
    <2> QED
      BY <1>1, <1>2, <1>5, <2>1, <2>2
         DEF Se!StoreRefresh, SessionInv, Se!SessionTypeOK, SessionCalls
  <1> QED
    BY <1>3, <1>4, <1>5

LEMMA SessionStep == SessionInv /\ [Se!Next]_(Se!vars) => SessionInv'
  <1> SUFFICES ASSUME SessionInv, [Se!Next]_(Se!vars) PROVE SessionInv'
    OBVIOUS
  <1>1. ASSUME UNCHANGED Se!vars PROVE SessionInv'
    BY <1>1 DEF Se!vars, SessionInv, Se!SessionTypeOK
  <1>2. ASSUME Se!ExpireAccess \/ Se!ExpireRefresh PROVE SessionInv'
    BY <1>2 DEF Se!ExpireAccess, Se!ExpireRefresh, SessionInv, Se!SessionTypeOK, Se!Held
  <1>3. ASSUME NEW u \in User, Se!Erase(u) PROVE SessionInv'
    BY <1>3 DEF Se!Erase, Se!Cookies, SessionInv, Se!SessionTypeOK
  <1> QED
    BY <1>1, <1>2, <1>3, SessionCallStep, SessionCookieStep DEF Se!Next, Se!Progress

-----------------------------------------------------------------------------
(* TakePage.                                                               *)

TakePageInv ==
  /\ Ta!TakePageTypeOK
  /\ test.status = "submitted" => test.grade \in Ta!Grades
  /\ page.await # Ta!None => page.submitted /\ page.kind = "paper"
  /\ ~lost => /\ \A p \in Hand : post[p] # Ta!Unused => page.await = p
              /\ \A p \in Hand : post[p].at = "answered" => post[p].result = test.grade
              /\ page.kind = "result" => page.shown = test.grade

Posts == {Ta!Unused} \cup [at : {"sent", "grading"}, answers : Ta!Grades]
           \cup [at : {"answered"}, result : Ta!Grades] \cup [at : {"gone", "failed"}]

Pages == [kind : {"loading", "invalid", "gone", "paper", "result"}, used : Ta!Grades,
          answers : Ta!Grades, left : {Ta!Null} \cup 0 .. TimeLimit, due : BOOLEAN,
          submitted : BOOLEAN, await : Hand \cup {Ta!None}, shown : Ta!Grades \cup {Ta!Null}]

LEMMA PostKinds ==
  ASSUME NEW x \in Posts
  PROVE  /\ x.at \in {"sent", "grading"} => x.answers \in Ta!Grades
         /\ x.at = "answered" => x.result \in Ta!Grades
         /\ x # Ta!Unused <=> x.at # "unused"
  BY DEF Posts, Ta!Unused

LEMMA PostsMade ==
  /\ Ta!Unused \in Posts
  /\ \A at \in {"gone", "failed"} : [at |-> at] \in Posts
  /\ \A n \in Ta!Grades : /\ [at |-> "sent", answers |-> n] \in Posts
                          /\ [at |-> "grading", answers |-> n] \in Posts
                          /\ [at |-> "answered", result |-> n] \in Posts
  BY DEF Posts

\* The first page load, and each later one.
LEMMA LoadingPage ==
  ASSUME BoundsAreNumbers, NEW n \in Ta!Grades
  PROVE  /\ Ta!Loading(n) \in Pages
         /\ Ta!Loading(n).await = Ta!None /\ Ta!Loading(n).kind = "loading"
  BY DEF BoundsAreNumbers, Ta!Loading, Pages, Ta!Grades, Ta!Null

LEMMA TakePageInit == BoundsAreNumbers /\ Ta!Init => TakePageInv
  <1> SUFFICES ASSUME BoundsAreNumbers, Ta!Init PROVE TakePageInv
    OBVIOUS
  <1>1. 0 \in Ta!Grades
    BY DEF BoundsAreNumbers, Ta!Grades
  <1>2. page \in Pages /\ page.await = Ta!None /\ page.kind = "loading"
    BY <1>1, LoadingPage DEF Ta!Init
  <1>3. /\ post \in [Hand -> Posts]
        /\ \A p \in Hand : post[p] = Ta!Unused /\ post[p].at # "answered"
    BY PostsMade DEF Ta!Init, Ta!Unused
  <1>4. Ta!TakePageTypeOK
    BY <1>2, <1>3 DEF Ta!TakePageTypeOK, Pages, Posts, Ta!Init
  <1> QED
    BY <1>2, <1>3, <1>4 DEF TakePageInv, Ta!Init

\* What the page does without the server, and the server without a submission.
LEMMA PageStep ==
  ASSUME BoundsAreNumbers, TakePageInv,
         \/ Ta!Load \/ Ta!LoadFails \/ Ta!Reload \/ Ta!Answer \/ Ta!Tick
         \/ Ta!AutoIgnored \/ Ta!Expire
  PROVE  TakePageInv'
  <1>1. /\ page \in Pages /\ post \in [Hand -> Posts]
        /\ TimeLimit \in Nat /\ MaxAnswers \in Nat
    BY DEF BoundsAreNumbers, TakePageInv, Ta!TakePageTypeOK, Pages, Posts
  <1>2. ASSUME Ta!Load PROVE TakePageInv'
    <2>1. /\ page' \in Pages /\ page'.await = page.await /\ page'.kind # "result"
          /\ page.await = Ta!None
      <3>1. page.kind = "loading" /\ page.await = Ta!None
        BY <1>2 DEF Ta!Load, TakePageInv
      <3>2. \/ page' = [page EXCEPT !.kind = "gone"]
            \/ page' = [page EXCEPT !.kind = "paper", !.left = TimeLimit]
        BY <1>2 DEF Ta!Load
      <3>3. TimeLimit \in 0 .. TimeLimit
        BY <1>1
      <3>4. /\ [page EXCEPT !.kind = "gone"] \in Pages
            /\ [page EXCEPT !.kind = "paper", !.left = TimeLimit] \in Pages
        BY <1>1, <3>3 DEF Pages
      <3> QED
        BY <1>1, <3>1, <3>2, <3>4 DEF Pages
    <2>2. test'.grade = test.grade /\ (test'.status = "submitted" => test.status = "submitted")
          /\ test' \in [status : {"issued", "started", "submitted"}, live : BOOLEAN,
                        grade : Ta!Grades \cup {Ta!Null}]
      BY <1>2 DEF Ta!Load, TakePageInv, Ta!TakePageTypeOK
    <2> QED
      BY <1>2, <2>1, <2>2 DEF Ta!Load, TakePageInv, Ta!TakePageTypeOK, Pages
  <1>3. ASSUME Ta!LoadFails PROVE TakePageInv'
    <2>1. /\ page' \in Pages /\ page'.await = page.await /\ page'.kind # "result"
          /\ page.await = Ta!None
      BY <1>1, <1>3 DEF Ta!LoadFails, TakePageInv, Pages
    <2> QED
      BY <1>3, <2>1 DEF Ta!LoadFails, TakePageInv, Ta!TakePageTypeOK, Pages
  <1>4. ASSUME Ta!Reload PROVE TakePageInv'
    <2>1. page' \in Pages /\ page'.await = Ta!None /\ page'.kind = "loading"
      BY <1>1, <1>4, LoadingPage DEF Ta!Reload, Pages
    <2>2. lost' \/ (~lost /\ page.await = Ta!None)
      BY <1>4 DEF Ta!Reload
    <2> QED
      BY <1>4, <2>1, <2>2 DEF Ta!Reload, TakePageInv, Ta!TakePageTypeOK, Pages
  <1>5. ASSUME Ta!Answer PROVE TakePageInv'
    <2>1. /\ page.used + 1 \in Ta!Grades
          /\ Ta!Rings(page.left) \in BOOLEAN
      BY <1>1, <1>5 DEF Ta!Answer, Pages, Ta!Grades, Ta!Rings
    <2>2. /\ page' \in Pages /\ page'.await = page.await
          /\ page'.kind = page.kind /\ page'.submitted = page.submitted
          /\ page'.shown = page.shown
      BY <1>1, <1>5, <2>1 DEF Ta!Answer, Pages
    <2> QED
      BY <1>5, <2>2 DEF Ta!Answer, TakePageInv, Ta!TakePageTypeOK, Pages
  <1>6. ASSUME Ta!Tick PROVE TakePageInv'
    <2>1. /\ page.left - 1 \in 0 .. TimeLimit
          /\ Ta!Rings(page.left - 1) \in BOOLEAN
      BY <1>1, <1>6 DEF Ta!Tick, Pages, Ta!Null, Ta!Rings
    <2>2. /\ page' \in Pages /\ page'.await = page.await
          /\ page'.kind = page.kind /\ page'.submitted = page.submitted
          /\ page'.shown = page.shown
      BY <1>1, <1>6, <2>1 DEF Ta!Tick, Pages
    <2> QED
      BY <1>6, <2>2 DEF Ta!Tick, TakePageInv, Ta!TakePageTypeOK, Pages
  <1>7. ASSUME Ta!AutoIgnored PROVE TakePageInv'
    <2>1. /\ page' \in Pages /\ page'.await = page.await
          /\ page'.kind = page.kind /\ page'.submitted = page.submitted
          /\ page'.shown = page.shown
      BY <1>1, <1>7 DEF Ta!AutoIgnored, Pages
    <2> QED
      BY <1>7, <2>1 DEF Ta!AutoIgnored, TakePageInv, Ta!TakePageTypeOK, Pages
  <1>8. ASSUME Ta!Expire PROVE TakePageInv'
    BY <1>8 DEF Ta!Expire, TakePageInv, Ta!TakePageTypeOK
  <1> QED
    BY <1>2, <1>3, <1>4, <1>5, <1>6, <1>7, <1>8

\* The page submits only when nothing is awaited.
LEMMA SendStep ==
  ASSUME NamesApart, TakePageInv, NEW p \in Hand, Ta!Press(p) \/ Ta!AutoSubmit(p)
  PROVE  TakePageInv'
  <1>1. /\ page \in Pages /\ post \in [Hand -> Posts]
        /\ ~page.submitted /\ page.kind = "paper" /\ Ta!Send(p)
    BY DEF TakePageInv, Ta!TakePageTypeOK, Pages, Posts, Ta!Press, Ta!AutoSubmit, Ta!NotSubmitted
  <1>2. page.await = Ta!None /\ (~lost => \A q \in Hand : post[q] = Ta!Unused)
    BY <1>1 DEF TakePageInv, NamesApart
  <1>3. /\ page' \in Pages /\ page'.submitted /\ page'.await = p /\ page'.kind = "paper"
    BY <1>1 DEF Ta!Send, Pages
  <1>4. /\ post' \in [Hand -> Posts]
        /\ post'[p].at = "sent"
        /\ \A q \in Hand \ {p} : post'[q] = post[q]
    <2>1. [at |-> "sent", answers |-> page.answers] \in Posts
      BY <1>1, PostsMade DEF Pages
    <2>2. post' = [post EXCEPT ![p] = [at |-> "sent", answers |-> page.answers]]
      BY <1>1 DEF Ta!Send
    <2> QED
      BY <1>1, <2>1, <2>2
  <1>5. Ta!TakePageTypeOK'
    BY <1>1, <1>3, <1>4 DEF Ta!Send, TakePageInv, Ta!TakePageTypeOK, Pages, Posts
  <1>6. UNCHANGED <<test, lost>> /\ Ta!Unused.at = "unused"
    BY <1>1 DEF Ta!Send, Ta!Unused
  <1> QED
    BY <1>2, <1>3, <1>4, <1>5, <1>6 DEF TakePageInv

\* The server answers, or does not: the submission it grades is the one awaited.
LEMMA ServerStep ==
  ASSUME NamesApart, TakePageInv, NEW p \in Hand, Ta!LoadTest(p) \/ Ta!Grade(p) \/ Ta!Refuse(p)
  PROVE  TakePageInv'
  <1>1. /\ page \in Pages /\ post \in [Hand -> Posts] /\ post[p] \in Posts
        /\ Ta!Unused.at = "unused"
    BY DEF TakePageInv, Ta!TakePageTypeOK, Pages, Posts, Ta!Unused
  <1>2. ASSUME NEW x \in Posts, post' = [post EXCEPT ![p] = x], post[p] # Ta!Unused,
               UNCHANGED <<page, test, lost>>, x.at = "answered" => x.result = test.grade
        PROVE  TakePageInv'
    <2>1. /\ post' \in [Hand -> Posts] /\ post'[p] = x
          /\ \A q \in Hand \ {p} : post'[q] = post[q]
      BY <1>1, <1>2
    <2>2. Ta!TakePageTypeOK'
      BY <1>2, <2>1 DEF TakePageInv, Ta!TakePageTypeOK, Posts
    <2> QED
      BY <1>2, <2>1, <2>2 DEF TakePageInv
  <1>3. ASSUME Ta!LoadTest(p) PROVE TakePageInv'
    <2>1. /\ post[p] # Ta!Unused /\ post[p].answers \in Ta!Grades
          /\ UNCHANGED <<page, test, lost>>
      BY <1>1, <1>3, PostKinds DEF Ta!LoadTest
    <2>2. CASE Ta!Seen = "submitted"
      <3>1. test.grade \in Ta!Grades
        BY <2>2 DEF Ta!Seen, TakePageInv
      <3>2. post' = [post EXCEPT ![p] = [at |-> "answered", result |-> test.grade]]
        BY <1>3, <2>2 DEF Ta!LoadTest
      <3> QED
        BY <1>2, <2>1, <3>1, <3>2, PostsMade
    <2>3. CASE Ta!Seen = "expired"
      <3>1. post' = [post EXCEPT ![p] = [at |-> "gone"]]
        BY <1>3, <2>3 DEF Ta!LoadTest
      <3> QED
        BY <1>2, <2>1, <3>1, PostsMade
    <2>4. CASE Ta!Seen = "open"
      <3>1. post' = [post EXCEPT ![p] = [at |-> "grading", answers |-> post[p].answers]]
        BY <1>1, <1>3, <2>4 DEF Ta!LoadTest
      <3> QED
        BY <1>2, <2>1, <3>1, PostsMade
    <2> QED
      BY <2>2, <2>3, <2>4 DEF Ta!Seen
  <1>4. ASSUME Ta!Grade(p) PROVE TakePageInv'
    <2>1. post[p] # Ta!Unused /\ post[p].answers \in Ta!Grades /\ UNCHANGED <<page, lost>>
      BY <1>1, <1>4, PostKinds DEF Ta!Grade
    <2> PICK n \in Ta!Grades : n = post[p].answers
      BY <2>1
    <2>2. /\ test'.status = "submitted" /\ test'.grade = n
          /\ test' \in [status : {"issued", "started", "submitted"}, live : BOOLEAN,
                        grade : Ta!Grades \cup {Ta!Null}]
      BY <1>4 DEF Ta!Grade, TakePageInv, Ta!TakePageTypeOK
    <2>3. /\ post' \in [Hand -> Posts] /\ post'[p] = [at |-> "answered", result |-> n]
          /\ \A q \in Hand \ {p} : post'[q] = post[q]
      BY <1>1, <1>4, PostsMade DEF Ta!Grade
    <2>4. ~lost => /\ page.await = p
                   /\ page.kind # "result"
                   /\ \A q \in Hand \ {p} : post[q] = Ta!Unused
      BY <2>1 DEF TakePageInv, NamesApart
    <2>5. Ta!TakePageTypeOK'
      BY <2>1, <2>2, <2>3 DEF TakePageInv, Ta!TakePageTypeOK, Posts
    <2> QED
      BY <1>1, <2>1, <2>2, <2>3, <2>4, <2>5 DEF TakePageInv
  <1>5. ASSUME Ta!Refuse(p) PROVE TakePageInv'
    <2>1. post[p] # Ta!Unused
      BY <1>1, <1>5 DEF Ta!Refuse
    <2>2. post' = [post EXCEPT ![p] = [at |-> "failed"]] /\ UNCHANGED <<page, test, lost>>
      BY <1>5 DEF Ta!Refuse
    <2> QED
      BY <1>2, <2>1, <2>2, PostsMade
  <1> QED
    BY <1>3, <1>4, <1>5

\* The page learns the outcome, or never does.
LEMMA OutcomeStep ==
  ASSUME NamesApart, TakePageInv, NEW p \in Hand, Ta!Receive(p) \/ Ta!Lose(p) \/ Ta!Discard(p)
  PROVE  TakePageInv'
  <1>1. /\ page \in Pages /\ post \in [Hand -> Posts] /\ post[p] \in Posts
        /\ Ta!Unused.at = "unused" /\ Ta!Unused \in Posts
    BY PostsMade DEF TakePageInv, Ta!TakePageTypeOK, Pages, Posts, Ta!Unused
  <1>2. ASSUME Ta!Receive(p) PROVE TakePageInv'
    <2>1. /\ post' \in [Hand -> Posts] /\ post'[p] = Ta!Unused
          /\ \A q \in Hand \ {p} : post'[q] = post[q]
          /\ UNCHANGED <<test, lost>>
          /\ page.await = p
      BY <1>1, <1>2 DEF Ta!Receive
    <2>2. /\ page' \in Pages /\ page'.await = Ta!None
          /\ page'.kind = "result" => post[p].at = "answered" /\ page'.shown = post[p].result
      <3>1. CASE post[p].at = "answered"
        <4>1. post[p].result \in Ta!Grades
          BY <1>1, <3>1, PostKinds
        <4>2. page' = [page EXCEPT !.kind = "result", !.shown = post[p].result, !.await = Ta!None]
          BY <1>2, <3>1 DEF Ta!Receive, Ta!Outcome
        <4> QED
          BY <1>1, <3>1, <4>1, <4>2 DEF Pages
      <3>2. CASE post[p].at = "gone"
        <4>1. page' = [page EXCEPT !.kind = "gone", !.await = Ta!None]
          BY <1>2, <3>2 DEF Ta!Receive, Ta!Outcome
        <4> QED
          BY <1>1, <4>1 DEF Pages
      <3>3. CASE post[p].at = "failed"
        <4>1. page' = [page EXCEPT !.submitted = FALSE, !.await = Ta!None]
          BY <1>2, <3>3 DEF Ta!Receive, Ta!Outcome
        <4>2. page.kind = "paper"
          BY <2>1 DEF TakePageInv, NamesApart
        <4> QED
          BY <1>1, <4>1, <4>2 DEF Pages
      <3> QED
        BY <1>2, <3>1, <3>2, <3>3 DEF Ta!Receive
    <2>3. ~lost => \A q \in Hand : post'[q] = Ta!Unused
      BY <2>1 DEF TakePageInv
    <2>4. Ta!TakePageTypeOK'
      BY <2>1, <2>2 DEF TakePageInv, Ta!TakePageTypeOK, Pages, Posts
    <2>5. page'.kind = "result" /\ ~lost => page'.shown = test.grade
      BY <2>2 DEF TakePageInv
    <2> QED
      BY <1>1, <2>1, <2>2, <2>3, <2>4, <2>5 DEF TakePageInv
  <1>3. ASSUME Ta!Lose(p) PROVE TakePageInv'
    <2>1. page' \in Pages /\ page'.await = Ta!None
      BY <1>1, <1>3 DEF Ta!Lose, Pages
    <2> QED
      BY <1>3, <2>1 DEF Ta!Lose, TakePageInv, Ta!TakePageTypeOK, Pages
  <1>4. ASSUME Ta!Discard(p) PROVE TakePageInv'
    <2>1. /\ post' \in [Hand -> Posts] /\ post'[p] = Ta!Unused
          /\ \A q \in Hand \ {p} : post'[q] = post[q]
          /\ UNCHANGED <<page, test, lost>>
      BY <1>1, <1>4 DEF Ta!Discard
    <2>2. Ta!TakePageTypeOK'
      BY <2>1 DEF TakePageInv, Ta!TakePageTypeOK, Posts
    <2> QED
      BY <1>1, <2>1, <2>2 DEF TakePageInv
  <1> QED
    BY <1>2, <1>3, <1>4

LEMMA TakePageStep ==
  BoundsAreNumbers /\ NamesApart /\ TakePageInv /\ [Ta!Next]_(Ta!vars) => TakePageInv'
  <1> SUFFICES ASSUME BoundsAreNumbers, NamesApart, TakePageInv, [Ta!Next]_(Ta!vars)
               PROVE  TakePageInv'
    OBVIOUS
  <1>1. ASSUME UNCHANGED Ta!vars PROVE TakePageInv'
    BY <1>1 DEF Ta!vars, TakePageInv, Ta!TakePageTypeOK
  <1> QED
    BY <1>1, PageStep, SendStep, ServerStep, OutcomeStep DEF Ta!Next, Ta!Progress

LEMMA TakePageFollows == TakePageInv => Ta!TakePageKept
  <1> SUFFICES ASSUME TakePageInv PROVE Ta!TakePageKept
    OBVIOUS
  <1>1. Ta!ShownIsStored
    BY DEF TakePageInv, Ta!ShownIsStored
  <1>2. ASSUME ~lost PROVE Ta!Cardinality(Ta!AtServer) <= 1
    <2>1. Ta!Unused.at = "unused"
      BY DEF Ta!Unused
    <2>2. Ta!AtServer \subseteq {page.await}
      BY <1>2, <2>1 DEF Ta!AtServer, TakePageInv
    <2>3. Ta!AtServer = {} \/ Ta!AtServer = {page.await}
      BY <2>2
    <2>4. Cardinality(Ta!AtServer) <= 1
      <3>1. CASE Ta!AtServer = {}
        <4>1. Cardinality({}) = 0
          BY FS_EmptySet
        <4> QED
          BY <3>1, <4>1
      <3>2. CASE Ta!AtServer = {page.await}
        <4>1. Cardinality({page.await}) = 1
          BY FS_Singleton
        <4> QED
          BY <3>2, <4>1
      <3> QED
        BY <2>3, <3>1, <3>2
    <2> QED
      BY <2>4 DEF Ta!Cardinality, Cardinality
  <1> QED
    BY <1>1, <1>2 DEF TakePageInv, Ta!TakePageKept, Ta!OneSubmission

-----------------------------------------------------------------------------
(* PayPage.                                                                *)

\* Calls that pay, or see whether it was paid.
Deciding == {c \in Hand : call[c].kind \in {"pay", "check", "confirm"}}

Receipts == {c \in Hand : call[c].kind = "receipt"}

PayPageInv ==
  /\ Pa!PayPageTypeOK
  \* What the server says.
  /\ server.status \in {"active", "completed"} \/ "active" \in been => server.paid # "pending"
  /\ charges > 0 => server.paid # "pending"
  \* What is answered of it.
  /\ phase = "done" => server.paid # "pending"
  /\ \A c \in Hand : /\ call[c].at \in {"enrolled", "paid"} => server.paid # "pending"
                     /\ call[c].kind = "receipt" => server.paid # "pending"
                     /\ call[c].at = "loaded" => call[c].kind \in {"pay", "receipt"}
  \* What one visit pays.
  /\ ~cut => /\ charges <= 1
             /\ \A c \in Deciding : call[c].live /\ pressed
             /\ \A c, d \in Deciding : c = d
             /\ \A c \in Hand : call[c].at = "loaded" => charges = 0
             /\ \A c \in Receipts : /\ phase = "done" /\ call[c].live
                                   /\ \A d \in Hand \ {c} : ~call[d].live

Calls == [kind : {"idle", "fetch", "pay", "check", "confirm", "receipt"},
          at : {"none", "sent", "loaded", "paid", "invalid", "enrolled", "offered",
                "notdue", "failed", "unauthenticated"},
          live : BOOLEAN]

Phases == {"loading", "offered", "paying", "confirming", "done", "notdue", "conflict",
           "unconfirmed", "login"}

LEMMA PayPageInit == BoundsAreNumbers /\ Pa!Init => PayPageInv
  <1> SUFFICES ASSUME BoundsAreNumbers, Pa!Init PROVE PayPageInv
    OBVIOUS
  <1>1. \A c \in Hand : /\ call[c] \in Calls
                        /\ call[c].kind = "idle" /\ call[c].at = "none"
    BY DEF Pa!Init, Pa!Idle, Calls
  <1>2. call \in [Hand -> Calls] /\ charges = 0 /\ 0 \in 0 .. MaxCharges
    BY <1>1 DEF Pa!Init, BoundsAreNumbers
  <1>3. server \in [status : Pa!Statuses, paid : {"pending", "paid", "waived"}]
    BY DEF Pa!Init, Pa!Statuses
  <1>4. Pa!PayPageTypeOK
    BY <1>2, <1>3 DEF Pa!PayPageTypeOK, Calls, Pa!Init
  <1> QED
    BY <1>1, <1>2, <1>4 DEF PayPageInv, Deciding, Receipts, Pa!Init

LEMMA PayPageShape ==
  ASSUME PayPageInv
  PROVE  /\ call \in [Hand -> Calls]
         /\ phase \in Phases
         /\ pressed \in BOOLEAN /\ cut \in BOOLEAN
         /\ charges \in 0 .. MaxCharges
         /\ server \in [status : Pa!Statuses, paid : {"pending", "paid", "waived"}]
         /\ been \subseteq {"applied", "offered", "active"}
  BY DEF PayPageInv, Pa!PayPageTypeOK, Calls, Phases

\* What may be answered to a call, or end it.
LEMMA AnswerStep ==
  ASSUME PayPageInv, NEW c \in Hand, NEW x \in Calls, call' = [call EXCEPT ![c] = x],
         UNCHANGED <<server, been, charges>>,
         phase' \in Phases, pressed' \in BOOLEAN, cut' \in BOOLEAN, cut => cut',
         phase' = "done" => server.paid # "pending",
         x.at \in {"enrolled", "paid"} => server.paid # "pending",
         x.kind = "receipt" => server.paid # "pending",
         x.at = "loaded" => x.kind \in {"pay", "receipt"} /\ charges = 0,
         \* The guard is released by the call that holds it, and no other decides.
         ~cut' => /\ x.kind \in {"pay", "check", "confirm"} =>
                       x.live /\ pressed' /\ Deciding \subseteq {c}
                  /\ \/ pressed => pressed'
                     \/ Deciding \subseteq {c} /\ x.kind = "idle"
                  /\ x.kind = "receipt" =>
                       phase' = "done" /\ x.live /\ \A d \in Hand \ {c} : ~call[d].live
                  /\ \A d \in Receipts \ {c} : phase' = "done" /\ ~x.live
  PROVE  PayPageInv'
  <1>1. /\ call' \in [Hand -> Calls] /\ call'[c] = x
        /\ \A d \in Hand \ {c} : call'[d] = call[d]
    BY PayPageShape
  <1>2. Pa!PayPageTypeOK'
    BY <1>1, PayPageShape DEF Pa!PayPageTypeOK, Calls, Phases
  <1>3. ASSUME NEW d \in Hand
        PROVE  /\ call'[d].at \in {"enrolled", "paid"} => server.paid # "pending"
               /\ call'[d].kind = "receipt" => server.paid # "pending"
               /\ call'[d].at = "loaded" => call'[d].kind \in {"pay", "receipt"}
    BY <1>1 DEF PayPageInv
  <1>4. ASSUME ~cut'
        PROVE  /\ charges <= 1
               /\ \A d \in Deciding' : call'[d].live /\ pressed'
               /\ \A d, e \in Deciding' : d = e
               /\ \A d \in Hand : call'[d].at = "loaded" => charges = 0
               /\ \A d \in Receipts' : /\ phase' = "done" /\ call'[d].live
                                      /\ \A e \in Hand \ {d} : ~call'[e].live
    <2>1. /\ charges <= 1
          /\ \A d \in Deciding : call[d].live /\ pressed
          /\ \A d, e \in Deciding : d = e
          /\ \A d \in Hand : call[d].at = "loaded" => charges = 0
      BY <1>4, PayPageShape DEF PayPageInv
    <2>2. Deciding' = {d \in Hand : call'[d].kind \in {"pay", "check", "confirm"}}
      BY DEF Deciding
    <2>3. \A d \in Deciding' : d = c \/ d \in Deciding
      BY <1>1, <2>2 DEF Deciding
    <2>4. c \in Deciding' <=> x.kind \in {"pay", "check", "confirm"}
      BY <1>1, <2>2
    <2>5. \A d \in Deciding' : call'[d].live /\ pressed'
      BY <1>1, <1>4, <2>1, <2>2, <2>3, <2>4
    <2>6. \A d, e \in Deciding' : d = e
      BY <1>4, <2>1, <2>3, <2>4
    <2>7. \A d \in Hand : call'[d].at = "loaded" => charges = 0
      BY <1>1, <2>1
    <2>8. ASSUME NEW d \in Receipts'
          PROVE  /\ phase' = "done" /\ call'[d].live
                 /\ \A e \in Hand \ {d} : ~call'[e].live
      <3>1. d \in Hand /\ call'[d].kind = "receipt"
        BY DEF Receipts
      <3>2. CASE d = c
        BY <1>1, <1>4, <3>1, <3>2
      <3>3. CASE d # c
        <4>1. d \in Receipts \ {c}
          BY <1>1, <3>1, <3>3 DEF Receipts
        <4>2. call[d].live /\ \A e \in Hand \ {d} : ~call[e].live
          BY <1>4, <4>1, PayPageShape DEF PayPageInv
        <4>3. phase' = "done" /\ ~x.live
          BY <1>4, <4>1
        <4> QED
          BY <1>1, <3>1, <3>3, <4>2, <4>3
      <3> QED
        BY <3>2, <3>3
    <2> QED
      BY <2>1, <2>5, <2>6, <2>7, <2>8
  <1> QED
    BY <1>2, <1>3, <1>4 DEF PayPageInv

\* What the server answers.
LEMMA PayServerStep ==
  ASSUME PayPageInv, NEW c \in Hand, Pa!ServeFetch(c) \/ Pa!LoadPay(c) \/ Pa!Fails(c)
  PROVE  PayPageInv'
  <1>1. /\ call[c] \in Calls /\ phase \in Phases /\ pressed \in BOOLEAN /\ cut \in BOOLEAN
        /\ charges \in Nat
        /\ server \in [status : Pa!Statuses, paid : {"pending", "paid", "waived"}]
    BY PayPageShape
  <1>2. ASSUME NEW answer \in {"enrolled", "offered", "notdue", "paid", "loaded", "invalid",
                               "failed", "unauthenticated"},
               Pa!Answered(c, answer), Pa!ServerOnly, UNCHANGED <<server, been, charges>>,
               answer \in {"enrolled", "paid"} => server.paid # "pending",
               answer = "loaded" => call[c].kind \in {"pay", "receipt"} /\ charges = 0
        PROVE  PayPageInv'
    <2> PICK x : x = [call[c] EXCEPT !.at = answer]
      OBVIOUS
    <2>1. x \in Calls /\ x.at = answer /\ x.kind = call[c].kind /\ x.live = call[c].live
      BY <1>1 DEF Calls
    <2>2. call' = [call EXCEPT ![c] = x] /\ UNCHANGED <<phase, pressed, cut>>
      BY <1>2 DEF Pa!Answered, Pa!ServerOnly
    <2>3. ~cut /\ x.kind \in {"pay", "check", "confirm"} =>
            x.live /\ pressed /\ Deciding \subseteq {c}
      BY <2>1 DEF Deciding, PayPageInv
    <2>4. /\ phase = "done" => server.paid # "pending"
          /\ call[c].kind = "receipt" => server.paid # "pending"
      BY DEF PayPageInv
    <2>5. ~cut /\ x.kind = "receipt" =>
            phase = "done" /\ x.live /\ \A d \in Hand \ {c} : ~call[d].live
      BY <2>1 DEF Receipts, PayPageInv
    <2>6. ~cut => \A d \in Receipts \ {c} : phase = "done" /\ ~x.live
      BY <2>1 DEF PayPageInv
    <2> QED
      BY <1>1, <1>2, <2>1, <2>2, <2>3, <2>4, <2>5, <2>6, AnswerStep
  <1>3. ASSUME Pa!ServeFetch(c) PROVE PayPageInv'
    <2>1. Pa!IsEnrolled(server) => server.paid # "pending"
      BY DEF Pa!IsEnrolled, PayPageInv
    <2> PICK answer : answer = IF Pa!IsEnrolled(server) THEN "enrolled"
                               ELSE IF server.status = "offered" THEN "offered" ELSE "notdue"
      OBVIOUS
    <2>2. Pa!Answered(c, answer) /\ Pa!ServerOnly /\ UNCHANGED <<server, been, charges>>
      BY <1>3 DEF Pa!ServeFetch
    <2>3. /\ answer \in {"enrolled", "offered", "notdue"}
          /\ answer = "enrolled" => server.paid # "pending"
      BY <2>1
    <2> QED
      BY <1>2, <2>2, <2>3
  <1>4. ASSUME Pa!LoadPay(c) PROVE PayPageInv'
    <2> PICK answer : answer = IF charges > 0 THEN "paid"
                               ELSE IF server.status = "offered" THEN "loaded" ELSE "invalid"
      OBVIOUS
    <2>1. Pa!Answered(c, answer) /\ Pa!ServerOnly /\ UNCHANGED <<server, been, charges>>
      BY <1>4 DEF Pa!LoadPay
    <2>2. answer = "paid" => server.paid # "pending"
      BY <1>1 DEF PayPageInv
    <2>3. answer = "loaded" => charges = 0
      BY <1>1 DEF PayPageInv
    <2>4. call[c].kind \in {"pay", "receipt"}
      BY <1>4 DEF Pa!LoadPay, Pa!Paying
    <2>5. answer \in {"paid", "loaded", "invalid"}
      OBVIOUS
    <2> QED
      BY <1>2, <2>1, <2>2, <2>3, <2>4, <2>5
  <1>5. ASSUME Pa!Fails(c) PROVE PayPageInv'
    BY <1>2, <1>5 DEF Pa!Fails
  <1> QED
    BY <1>3, <1>4, <1>5

\* A payment is committed, or staff move the enrollment.
LEMMA PaidStep ==
  ASSUME BoundsAreNumbers, PayPageInv, NEW c \in Hand, Pa!CommitPay(c)
  PROVE  PayPageInv'
  <1>1. /\ call \in [Hand -> Calls] /\ call[c] \in Calls /\ phase \in Phases /\ pressed \in BOOLEAN
        /\ cut \in BOOLEAN /\ charges \in 0 .. MaxCharges
        /\ been \subseteq {"applied", "offered", "active"}
    BY PayPageShape
  <1>2. /\ charges < MaxCharges /\ charges' = charges + 1
        /\ server' = [status |-> "active", paid |-> "paid"] /\ been' = been \cup {"active"}
        /\ UNCHANGED <<phase, pressed, cut>>
        /\ call[c].kind \in {"pay", "receipt"} /\ call[c].at = "loaded"
        /\ ~cut => charges = 0
    BY DEF Pa!CommitPay, Pa!ServerOnly, PayPageInv
  <1>3. /\ call' \in [Hand -> Calls]
        /\ call'[c].kind = call[c].kind /\ call'[c].at = "paid" /\ call'[c].live = call[c].live
        /\ \A d \in Hand \ {c} : call'[d] = call[d]
    BY <1>1, <1>2 DEF Pa!CommitPay, Pa!Answered, Calls
  <1>4. Pa!PayPageTypeOK'
    <2>1. charges' \in 0 .. MaxCharges
      BY <1>1, <1>2 DEF BoundsAreNumbers
    <2> QED
      BY <1>1, <1>2, <1>3, <2>1 DEF Pa!PayPageTypeOK, Calls, Phases, Pa!Statuses
  <1>5. server'.paid # "pending" /\ charges' > 0
    BY <1>1, <1>2
  <1>6. ASSUME NEW d \in Hand PROVE call'[d].at = "loaded" => call'[d].kind \in {"pay", "receipt"} /\ d # c
    BY <1>3 DEF PayPageInv
  <1>7. ASSUME ~cut
        PROVE  /\ charges' <= 1
               /\ \A d \in Deciding' : call'[d].live /\ pressed'
               /\ \A d, e \in Deciding' : d = e
               /\ \A d \in Hand : call'[d].at = "loaded" => charges' = 0
               /\ \A d \in Receipts' : /\ phase' = "done" /\ call'[d].live
                                      /\ \A e \in Hand \ {d} : ~call'[e].live
    <2>1. \A d \in Hand : call'[d].kind = call[d].kind /\ call'[d].live = call[d].live
      BY <1>3
    <2>2. Deciding' = Deciding /\ Receipts' = Receipts
      BY <2>1 DEF Deciding, Receipts
    <2>3. /\ \A d \in Deciding : call[d].live /\ pressed
          /\ \A d, e \in Deciding : d = e
          /\ \A d \in Receipts : /\ phase = "done" /\ call[d].live
                                /\ \A e \in Hand \ {d} : ~call[e].live
      BY <1>7, <1>2 DEF PayPageInv
    <2>4. \A d \in Hand : call'[d].at # "loaded"
      <3>1. ASSUME NEW d \in Hand, call'[d].at = "loaded" PROVE FALSE
        <4>1. call[d].kind \in {"pay", "receipt"} /\ d # c
          BY <1>6, <2>1, <3>1
        <4>2. c \in Deciding \cup Receipts /\ d \in Deciding \cup Receipts
          BY <1>2, <4>1 DEF Deciding, Receipts
        <4>3. call[c].live /\ call[d].live
          BY <2>3, <4>2
        <4>4. c \notin Receipts /\ d \notin Receipts
          BY <2>3, <4>1, <4>3
        <4> QED
          BY <2>3, <4>1, <4>2, <4>4
      <3> QED
        BY <3>1
    <2>5. charges' <= 1
      BY <1>2, <1>7
    <2>6. Deciding \subseteq Hand /\ Receipts \subseteq Hand
      BY DEF Deciding, Receipts
    <2> QED
      BY <1>2, <2>1, <2>2, <2>3, <2>4, <2>5, <2>6
  <1> QED
    BY <1>2, <1>4, <1>5, <1>6, <1>7 DEF PayPageInv

LEMMA StaffStep ==
  ASSUME PayPageInv, NEW status \in Pa!Statuses, NEW paid \in {"pending", "paid", "waived"},
         Pa!Staff(status, paid)
  PROVE  PayPageInv'
  <1>1. server \in [status : Pa!Statuses, paid : {"pending", "paid", "waived"}]
    BY PayPageShape
  <1>2. /\ server'.status = status /\ server'.paid = paid
        /\ been' = been \cup ({status} \cap {"applied", "offered", "active"})
        /\ server' \in [status : Pa!Statuses, paid : {"pending", "paid", "waived"}]
        /\ UNCHANGED <<charges, phase, pressed, call, cut>>
    BY DEF Pa!Staff
  <1>3. server.paid # "pending" => paid # "pending"
    BY <1>1 DEF Pa!Staff
  <1>4. status \in {"active", "completed"} \/ "active" \in been' => paid # "pending"
    <2>1. CASE status = "active"
      BY <2>1 DEF Pa!Staff
    <2>2. CASE status # "active"
      <3>1. status = "completed" => "active" \in been
        BY DEF Pa!Staff
      <3>2. "active" \in been' => "active" \in been
        BY <1>2, <2>2
      <3> QED
        BY <1>3, <2>2, <3>1, <3>2 DEF PayPageInv
    <2> QED
      BY <2>1, <2>2
  <1>5. Pa!PayPageTypeOK'
    BY <1>2 DEF PayPageInv, Pa!PayPageTypeOK
  <1>6. Deciding' = Deciding /\ Receipts' = Receipts
    BY <1>2 DEF Deciding, Receipts
  <1> QED
    BY <1>2, <1>3, <1>4, <1>5, <1>6 DEF PayPageInv

\* The page opens a call, or one of its calls ends.
LEMMA PageCallStep ==
  ASSUME PayPageInv, NEW c \in Hand,
         \/ Pa!Load(c) \/ Pa!OnLoaded(c) \/ Pa!Press(c) \/ Pa!OnPaid(c) \/ Pa!OnRefused(c)
         \/ Pa!OnInvalid(c) \/ Pa!OnReconciled(c) \/ Pa!PressReceipt(c) \/ Pa!OnReceipt(c)
         \/ Pa!Forget(c)
  PROVE  PayPageInv'
  <1>1. /\ call[c] \in Calls /\ phase \in Phases /\ pressed \in BOOLEAN /\ cut \in BOOLEAN
    BY PayPageShape
  <1>2. /\ Pa!Idle \in Calls /\ Pa!Idle.kind = "idle" /\ Pa!Idle.at = "none" /\ ~Pa!Idle.live
        /\ \A kind \in {"fetch", "pay", "check", "receipt"} :
             /\ Pa!Sent(kind) \in Calls /\ Pa!Sent(kind).kind = kind
             /\ Pa!Sent(kind).at = "sent" /\ Pa!Sent(kind).live
    BY DEF Pa!Idle, Pa!Sent, Calls
  <1>3. /\ phase = "done" => server.paid # "pending"
        /\ call[c].at \in {"enrolled", "paid"} => server.paid # "pending"
        /\ ~cut /\ call[c].kind \in {"pay", "check", "confirm"} => Deciding \subseteq {c} /\ pressed
        /\ ~cut /\ ~pressed => Deciding = {}
        /\ ~cut /\ call[c].live => Receipts \subseteq {c}
        /\ ~cut /\ phase # "done" => Receipts = {}
    BY DEF PayPageInv, Deciding, Receipts
  <1>4. ASSUME Pa!Load(c) PROVE PayPageInv'
    BY <1>1, <1>2, <1>3, <1>4, AnswerStep DEF Pa!Load, Pa!PageOnly
  <1>5. ASSUME Pa!OnLoaded(c) PROVE PayPageInv'
    <2>1. /\ call' = [call EXCEPT ![c] = Pa!Idle] /\ call[c].live
          /\ UNCHANGED <<pressed, cut, server, been, charges>>
      BY <1>5 DEF Pa!OnLoaded, Pa!Awaits, Pa!Ends, Pa!PageOnly
    <2>2. phase' \in Phases /\ (phase' = "done" => call[c].at = "enrolled")
      BY <1>5 DEF Pa!OnLoaded, Pa!Awaits, Phases
    <2> QED
      BY <1>1, <1>2, <1>3, <2>1, <2>2, AnswerStep
  <1>6. ASSUME Pa!Press(c) PROVE PayPageInv'
    <2>1. /\ call' = [call EXCEPT ![c] = Pa!Sent("pay")] /\ ~pressed /\ pressed'
          /\ phase # "done" /\ phase' = "paying" /\ pressed' \in BOOLEAN /\ UNCHANGED <<cut, server, been, charges>>
      BY <1>6 DEF Pa!Press, Pa!PageOnly, Pa!Free
    <2>2. phase' \in Phases
      BY <2>1 DEF Phases
    <2> QED
      BY <1>1, <1>2, <1>3, <2>1, <2>2, AnswerStep
  <1>7. ASSUME Pa!OnPaid(c) PROVE PayPageInv'
    <2>1. /\ call' = [call EXCEPT ![c] = Pa!Idle] /\ pressed' = FALSE /\ phase' = "done"
          /\ UNCHANGED <<cut, server, been, charges>>
          /\ call[c].live /\ call[c].kind = "pay" /\ call[c].at = "paid"
      BY <1>7 DEF Pa!OnPaid, Pa!Awaits, Pa!Ends, Pa!PageOnly
    <2>2. phase' \in Phases
      BY <2>1 DEF Phases
    <2> QED
      BY <1>1, <1>2, <1>3, <2>1, <2>2, AnswerStep
  <1>8. ASSUME Pa!OnRefused(c) PROVE PayPageInv'
    <2>1. /\ call' = [call EXCEPT ![c] = Pa!Idle] /\ pressed' = FALSE
          /\ UNCHANGED <<cut, server, been, charges>>
          /\ call[c].live /\ call[c].kind = "pay"
      BY <1>8 DEF Pa!OnRefused, Pa!Awaits, Pa!Ends, Pa!PageOnly
    <2>2. phase' \in Phases /\ phase' # "done"
      BY <1>8 DEF Pa!OnRefused, Phases
    <2> QED
      BY <1>1, <1>2, <1>3, <2>1, <2>2, AnswerStep
  <1>9. ASSUME Pa!OnInvalid(c) PROVE PayPageInv'
    <2>1. /\ call' = [call EXCEPT ![c] = Pa!Sent("check")]
          /\ UNCHANGED <<phase, pressed, cut, server, been, charges>>
          /\ call[c].live /\ call[c].kind = "pay"
      BY <1>9 DEF Pa!OnInvalid, Pa!Awaits, Pa!PageOnly
    <2> QED
      BY <1>1, <1>2, <1>3, <2>1, AnswerStep
  <1>10. ASSUME Pa!OnReconciled(c) PROVE PayPageInv'
    <2>1. /\ call' = [call EXCEPT ![c] = Pa!Idle] /\ pressed' = FALSE
          /\ UNCHANGED <<cut, server, been, charges>>
          /\ call[c].live /\ call[c].kind \in {"check", "confirm"}
      BY <1>10 DEF Pa!OnReconciled, Pa!Ends, Pa!PageOnly
    <2>2. phase' \in Phases /\ (phase' = "done" => call[c].at = "enrolled")
      BY <1>10 DEF Pa!OnReconciled, Pa!Confirms, Phases
    <2> QED
      BY <1>1, <1>2, <1>3, <2>1, <2>2, AnswerStep
  <1>11. ASSUME Pa!PressReceipt(c) PROVE PayPageInv'
    <2>1. /\ call' = [call EXCEPT ![c] = Pa!Sent("receipt")] /\ phase = "done"
          /\ \A d \in Hand : ~call[d].live
          /\ UNCHANGED <<phase, pressed, cut, server, been, charges>>
      BY <1>11 DEF Pa!PressReceipt, Pa!PageOnly
    <2>2. ~cut => Receipts = {}
      BY <2>1 DEF PayPageInv, Receipts
    <2> QED
      BY <1>1, <1>2, <1>3, <2>1, <2>2, AnswerStep
  <1>12. ASSUME Pa!OnReceipt(c) PROVE PayPageInv'
    <2>1. /\ call' = [call EXCEPT ![c] = Pa!Idle] /\ call[c].live
          /\ UNCHANGED <<phase, pressed, cut, server, been, charges>>
      BY <1>12 DEF Pa!OnReceipt, Pa!Ends, Pa!PageOnly
    <2> QED
      BY <1>1, <1>2, <1>3, <2>1, AnswerStep
  <1>13. ASSUME Pa!Forget(c) PROVE PayPageInv'
    <2>1. /\ call' = [call EXCEPT ![c] = Pa!Idle]
          /\ UNCHANGED <<phase, pressed, cut, server, been, charges>>
      BY <1>13 DEF Pa!Forget, Pa!Ends, Pa!PageOnly
    <2> QED
      BY <1>1, <1>2, <1>3, <2>1, AnswerStep
  <1> QED
    BY <1>4, <1>5, <1>6, <1>7, <1>8, <1>9, <1>10, <1>11, <1>12, <1>13

\* The page stops waiting for a payment: from then on, the visit is cut.
LEMMA CutStep ==
  ASSUME PayPageInv,
         \/ \E c, d \in Hand : Pa!Break(c, d)
         \/ \E c \in Hand : Pa!GiveUp(c)
         \/ Pa!Reload
  PROVE  PayPageInv'
  <1>1. /\ call \in [Hand -> Calls] /\ phase \in Phases /\ pressed \in BOOLEAN /\ cut \in BOOLEAN
        /\ UNCHANGED <<server, been, charges>>
    BY PayPageShape DEF Pa!Break, Pa!GiveUp, Pa!Reload, Pa!PageOnly
  <1>2. ASSUME call' \in [Hand -> Calls], phase' \in Phases, phase' # "done",
               pressed' \in BOOLEAN, cut' \in BOOLEAN, cut' \/ Deciding' \cup Receipts' = {}, cut => cut',
               \A c \in Hand :
                 \/ call'[c].at \in {"none", "sent"} /\ call'[c].kind # "receipt"
                 \/ call'[c].at = call[c].at /\ call'[c].kind = call[c].kind
        PROVE  PayPageInv'
    <2>1. Pa!PayPageTypeOK'
      BY <1>1, <1>2 DEF PayPageInv, Pa!PayPageTypeOK, Calls, Phases
    <2> QED
      BY <1>1, <1>2, <2>1 DEF PayPageInv
  <1>3. ASSUME NEW c \in Hand, NEW d \in Hand, Pa!Break(c, d) PROVE PayPageInv'
    <2>1. /\ call' \in [Hand -> Calls]
          /\ \A e \in Hand :
               \/ call'[e].at \in {"none", "sent"} /\ call'[e].kind # "receipt"
               \/ call'[e].at = call[e].at /\ call'[e].kind = call[e].kind
      BY <1>1, <1>3 DEF Pa!Break, Pa!Sent, Calls
    <2>2. /\ cut' = TRUE /\ phase' = "confirming" /\ UNCHANGED pressed
      BY <1>3 DEF Pa!Break
    <2> QED
      BY <1>1, <1>2, <2>1, <2>2 DEF Phases
  <1>4. ASSUME NEW c \in Hand, Pa!GiveUp(c) PROVE PayPageInv'
    <2>1. /\ call' \in [Hand -> Calls]
          /\ \A e \in Hand : call'[e].at = call[e].at /\ call'[e].kind = call[e].kind
      BY <1>1, <1>4 DEF Pa!GiveUp, Calls
    <2>2. cut' = TRUE /\ phase' = "conflict" /\ pressed' = FALSE
      BY <1>4 DEF Pa!GiveUp
    <2> QED
      BY <1>1, <1>2, <2>1, <2>2 DEF Phases
  <1>5. ASSUME Pa!Reload PROVE PayPageInv'
    <2>1. /\ phase' = "loading" /\ pressed' = FALSE
          /\ cut' = (cut \/ \E c \in Hand : call[c].live /\ Pa!Paying(c))
          /\ call' = [c \in Hand |-> IF Pa!Paying(c) THEN [call[c] EXCEPT !.live = FALSE]
                                     ELSE Pa!Idle]
      BY <1>5 DEF Pa!Reload
    <2>2. ASSUME NEW e \in Hand
          PROVE  /\ call'[e] \in Calls
                 /\ Pa!Paying(e) => call'[e].at = call[e].at /\ call'[e].kind = call[e].kind
                 /\ ~Pa!Paying(e) => call'[e].at = "none" /\ call'[e].kind = "idle"
      BY <1>1, <2>1 DEF Pa!Idle, Calls
    <2>3. call' \in [Hand -> Calls]
      BY <2>1, <2>2
    <2>4. ASSUME ~cut' PROVE Deciding' \cup Receipts' = {}
      <3>1. ~cut /\ \A e \in Hand : call[e].live => ~Pa!Paying(e)
        BY <2>1, <2>4
      <3>2. \A e \in Hand : Pa!Paying(e) => call[e].live
        BY <3>1 DEF Pa!Paying, PayPageInv, Deciding, Receipts
      <3>3. \A e \in Hand : call'[e].kind = "idle"
        BY <2>2, <3>1, <3>2
      <3> QED
        BY <3>3 DEF Deciding, Receipts
    <2>5. cut' \in BOOLEAN /\ (cut => cut')
      BY <1>1, <2>1
    <2> QED
      BY <1>2, <2>1, <2>2, <2>3, <2>4, <2>5 DEF Phases
  <1> QED
    BY <1>3, <1>4, <1>5

LEMMA PayPageStep ==
  BoundsAreNumbers /\ PayPageInv /\ [Pa!Next]_(Pa!vars) => PayPageInv'
  <1> SUFFICES ASSUME BoundsAreNumbers, PayPageInv, [Pa!Next]_(Pa!vars) PROVE PayPageInv'
    OBVIOUS
  <1>1. ASSUME UNCHANGED Pa!vars PROVE PayPageInv'
    BY <1>1 DEF Pa!vars, PayPageInv, Pa!PayPageTypeOK, Deciding, Receipts
  <1> QED
    BY <1>1, PayServerStep, PaidStep, StaffStep, PageCallStep, CutStep DEF Pa!Next, Pa!Progress

-----------------------------------------------------------------------------
(* Reports.                                                                *)

\* Figures that once were true of a tenant.
FiguresTrue(f, t) == f = [of |-> t, n |-> f.n] /\ f.n \in 0 .. facts[t]

ReadTrue(r) ==
  /\ r.op \in {"compute", "store", "audit", "reply"}
  /\ r.of \in Tenant
  /\ r.asked \in Int
  /\ r.refresh => r.asked <= facts[r.of]
  /\ r.op # "compute" => /\ FiguresTrue(r.found, r.of)
                         /\ r.refresh => r.found.n >= r.asked
  /\ r.op = "reply" => r.audited

ReportsInv ==
  /\ facts \in [Tenant -> 0 .. MaxFacts]
  /\ cache = [t \in Tenant |-> cache[t]]
  /\ \A t \in Tenant : cache[t] = Re!None \/ FiguresTrue(cache[t], t)
  /\ req = [w \in Hand |-> req[w]]
  /\ \A w \in Hand : req[w] = Re!Idle \/ ReadTrue(req[w])
  /\ last.own /\ last.fresh /\ last.audited

\* What was true of a tenant stays true: facts are only added.
LEMMA FiguresStay ==
  ASSUME NEW f, NEW t \in Tenant, facts \in [Tenant -> 0 .. MaxFacts],
         facts' \in [Tenant -> 0 .. MaxFacts], facts[t] <= facts'[t], FiguresTrue(f, t)
  PROVE  FiguresTrue(f, t)'
  BY DEF FiguresTrue

LEMMA ReadStays ==
  ASSUME NEW r, facts \in [Tenant -> 0 .. MaxFacts], facts' \in [Tenant -> 0 .. MaxFacts],
         \A t \in Tenant : facts[t] <= facts'[t], ReadTrue(r)
  PROVE  ReadTrue(r)'
  <1>1. r.of \in Tenant /\ facts[r.of] <= facts'[r.of] /\ facts[r.of] \in Int /\ facts'[r.of] \in Int
    BY DEF ReadTrue
  <1>2. r.op # "compute" => FiguresTrue(r.found, r.of)'
    BY <1>1, FiguresStay DEF ReadTrue
  <1> QED
    BY <1>1, <1>2 DEF ReadTrue

\* What is found, read or not, is no missing entry, and a read is no idle worker.
LEMMA TrueOfSomething ==
  ASSUME facts \in [Tenant -> 0 .. MaxFacts]
  PROVE  /\ \A t \in Tenant : ~FiguresTrue(Re!None, t)
         /\ ~ReadTrue(Re!Idle)
         /\ \A t \in Tenant : FiguresTrue(Re!Figures(t), t) /\ Re!Figures(t).n = facts[t]
  <1>1. Re!None.n = -1 /\ Re!Idle.op = "idle"
    BY DEF Re!None, Re!Idle
  <1>2. \A t \in Tenant : ~FiguresTrue(Re!None, t)
    BY <1>1 DEF FiguresTrue
  <1>3. ~ReadTrue(Re!Idle)
    BY <1>1 DEF ReadTrue
  <1>4. ASSUME NEW t \in Tenant PROVE FiguresTrue(Re!Figures(t), t) /\ Re!Figures(t).n = facts[t]
    <2>1. facts[t] \in 0 .. MaxFacts /\ facts[t] \in 0 .. facts[t]
      OBVIOUS
    <2> QED
      BY <2>1 DEF FiguresTrue, Re!Figures
  <1> QED
    BY <1>2, <1>3, <1>4

LEMMA ReportsInit == BoundsAreNumbers /\ Re!Init => ReportsInv
  <1> SUFFICES ASSUME BoundsAreNumbers, Re!Init PROVE ReportsInv
    OBVIOUS
  <1>1. facts \in [Tenant -> 0 .. MaxFacts]
    BY DEF Re!Init, BoundsAreNumbers
  <1> QED
    BY <1>1 DEF Re!Init, ReportsInv

LEMMA FactStep ==
  ASSUME BoundsAreNumbers, ReportsInv, NEW t \in Tenant, Re!CommitFact(t)
  PROVE  ReportsInv'
  <1>1. /\ facts \in [Tenant -> 0 .. MaxFacts] /\ facts' \in [Tenant -> 0 .. MaxFacts]
        /\ \A u \in Tenant : facts[u] <= facts'[u]
        /\ UNCHANGED <<cache, last, req>>
    BY DEF ReportsInv, Re!CommitFact, BoundsAreNumbers
  <1>2. \A u \in Tenant : cache[u] = Re!None \/ FiguresTrue(cache[u], u)'
    BY <1>1, FiguresStay DEF ReportsInv
  <1>3. \A w \in Hand : req[w] = Re!Idle \/ ReadTrue(req[w])'
    BY <1>1, ReadStays DEF ReportsInv
  <1>4. (\A u \in Tenant : cache[u] = Re!None \/ FiguresTrue(cache[u], u))'
    BY <1>1, <1>2 DEF FiguresTrue
  <1>5. (\A w \in Hand : req[w] = Re!Idle \/ ReadTrue(req[w]))'
    BY <1>1, <1>3 DEF ReadTrue, FiguresTrue
  <1> QED
    BY <1>1, <1>4, <1>5 DEF ReportsInv

\* A request goes on, or ends, and stores or drops an entry or none.
LEMMA RequestStep ==
  ASSUME ReportsInv, NEW w \in Hand, NEW r, r = Re!Idle \/ ReadTrue(r),
         req' = [req EXCEPT ![w] = r], UNCHANGED facts,
         last'.own /\ last'.fresh /\ last'.audited,
         \/ UNCHANGED cache
         \/ \E t \in Tenant : \E f : /\ cache' = [cache EXCEPT ![t] = f]
                                     /\ f = Re!None \/ FiguresTrue(f, t)
  PROVE  ReportsInv'
  <1>1. /\ cache' = [t \in Tenant |-> cache'[t]]
        /\ \A t \in Tenant : cache'[t] = Re!None \/ FiguresTrue(cache'[t], t)
    <2>1. CASE UNCHANGED cache
      BY <2>1 DEF ReportsInv
    <2>2. ASSUME NEW t \in Tenant, NEW f, cache' = [cache EXCEPT ![t] = f],
                 f = Re!None \/ FiguresTrue(f, t)
          PROVE  /\ cache' = [u \in Tenant |-> cache'[u]]
                 /\ \A u \in Tenant : cache'[u] = Re!None \/ FiguresTrue(cache'[u], u)
      <3>1. cache = [u \in Tenant |-> cache[u]]
        BY DEF ReportsInv
      <3>2. cache' = [u \in Tenant |-> cache'[u]]
        BY <2>2, <3>1
      <3>3. cache'[t] = f /\ \A u \in Tenant \ {t} : cache'[u] = cache[u]
        BY <2>2, <3>1
      <3> QED
        BY <2>2, <3>2, <3>3 DEF ReportsInv
    <2> QED
      BY <2>1, <2>2
  <1>2. /\ req' = [v \in Hand |-> req'[v]]
        /\ req'[w] = r
        /\ \A v \in Hand \ {w} : req'[v] = req[v]
    <2>1. req = [v \in Hand |-> req[v]]
      BY DEF ReportsInv
    <2> QED
      BY <2>1
  <1>3. \A v \in Hand : req'[v] = Re!Idle \/ ReadTrue(req'[v])
    BY <1>2 DEF ReportsInv
  <1>4. (\A t \in Tenant : cache[t] = Re!None \/ FiguresTrue(cache[t], t))'
    BY <1>1 DEF FiguresTrue
  <1>5. (\A v \in Hand : req[v] = Re!Idle \/ ReadTrue(req[v]))'
    BY <1>3 DEF ReadTrue, FiguresTrue
  <1> QED
    BY <1>1, <1>2, <1>4, <1>5 DEF ReportsInv

\* A read that begins.
LEMMA ReadingTrue ==
  ASSUME ReportsInv, NEW t \in Tenant, NEW keep \in BOOLEAN, NEW asks \in BOOLEAN,
         NEW found, NEW op \in {"compute", "audit"},
         op = "audit" => FiguresTrue(found, t) /\ ~asks
  PROVE  ReadTrue(Re!Reading(t, op, keep, asks, found))
  <1>1. facts[t] \in Int /\ facts[t] >= 0
    BY DEF ReportsInv
  <1> PICK asked : asked = IF asks THEN facts[t] ELSE 0
    OBVIOUS
  <1> PICK r : r = Re!Reading(t, op, keep, asks, found)
    OBVIOUS
  <1>2. /\ r.op = op /\ r.of = t /\ r.refresh = asks /\ r.found = found /\ r.asked = asked
    BY DEF Re!Reading
  <1> QED
    BY <1>1, <1>2 DEF ReadTrue

LEMMA ReadStep ==
  ASSUME ReportsInv, NEW w \in Hand, NEW t \in Tenant,
         Re!ReadHit(w, t) \/ Re!ReadMiss(w, t) \/ Re!ReadRefresh(w, t) \/ Re!ReadUncached(w, t)
  PROVE  ReportsInv'
  <1>1. last.own /\ last.fresh /\ last.audited
    BY DEF ReportsInv
  <1>2. ASSUME Re!ReadHit(w, t) PROVE ReportsInv'
    <2>1. FiguresTrue(cache[t], t)
      BY <1>2 DEF Re!ReadHit, Re!CacheKey, ReportsInv
    <2>2. ReadTrue(Re!Reading(t, "audit", FALSE, FALSE, cache[t]))
      BY <2>1, ReadingTrue
    <2>3. /\ req' = [req EXCEPT ![w] = Re!Reading(t, "audit", FALSE, FALSE, cache[t])]
          /\ UNCHANGED <<facts, cache, last>>
      BY <1>2 DEF Re!ReadHit, Re!CacheKey, Re!Moves, Re!AuditedFirst
    <2> QED
      BY <1>1, <2>2, <2>3, RequestStep
  <1>3. ASSUME Re!ReadMiss(w, t) PROVE ReportsInv'
    <2>1. ReadTrue(Re!Reading(t, "compute", TRUE, FALSE, Re!None))
      BY ReadingTrue
    <2>2. /\ req' = [req EXCEPT ![w] = Re!Reading(t, "compute", TRUE, FALSE, Re!None)]
          /\ UNCHANGED <<facts, cache, last>>
      BY <1>3 DEF Re!ReadMiss, Re!Moves
    <2> QED
      BY <1>1, <2>1, <2>2, RequestStep
  <1>4. ASSUME Re!ReadRefresh(w, t) PROVE ReportsInv'
    <2>1. ReadTrue(Re!Recomputed(t))
      BY ReadingTrue DEF Re!Recomputed
    <2>2. /\ req' = [req EXCEPT ![w] = Re!Recomputed(t)]
          /\ cache' = [cache EXCEPT ![t] = Re!None]
          /\ UNCHANGED <<facts, last>>
      BY <1>4 DEF Re!ReadRefresh, Re!Moves, Re!CacheKey
    <2> QED
      BY <1>1, <2>1, <2>2, RequestStep
  <1>5. ASSUME Re!ReadUncached(w, t) PROVE ReportsInv'
    <2>1. ReadTrue(Re!Reading(t, "compute", FALSE, TRUE, Re!None))
      BY ReadingTrue
    <2>2. /\ req' = [req EXCEPT ![w] = Re!Reading(t, "compute", FALSE, TRUE, Re!None)]
          /\ UNCHANGED <<facts, cache, last>>
      BY <1>5 DEF Re!ReadUncached, Re!Moves
    <2> QED
      BY <1>1, <2>1, <2>2, RequestStep
  <1> QED
    BY <1>2, <1>3, <1>4, <1>5

LEMMA ServeStep ==
  ASSUME ReportsInv, NEW w \in Hand, Re!Step(w) \/ Re!Fail(w)
  PROVE  ReportsInv'
  <1>1. last.own /\ last.fresh /\ last.audited /\ facts \in [Tenant -> 0 .. MaxFacts]
    BY DEF ReportsInv
  <1>2. req[w].op # "idle" => ReadTrue(req[w])
    BY DEF ReportsInv, Re!Idle
  <1> PICK old : old = req[w]
    OBVIOUS
  <1>3. ASSUME Re!Compute(w) PROVE ReportsInv'
    <2>1. ReadTrue(old) /\ old.op = "compute" /\ old.of \in Tenant
      BY <1>2, <1>3 DEF Re!Compute, ReadTrue
    <2> PICK op \in {"store", "audit"} : op = IF old.keep THEN "store" ELSE "audit"
      OBVIOUS
    <2> PICK f : f = Re!Figures(old.of)
      OBVIOUS
    <2> PICK r : r = [old EXCEPT !.op = op, !.found = f]
      OBVIOUS
    <2>2. req' = [req EXCEPT ![w] = r] /\ UNCHANGED <<facts, cache, last>>
      BY <1>3 DEF Re!Compute, Re!Moves
    <2>3. FiguresTrue(f, old.of) /\ f.n = facts[old.of]
      BY <1>1, <2>1, TrueOfSomething
    <2>4. /\ r.of = old.of /\ r.refresh = old.refresh /\ r.asked = old.asked
          /\ r.op = op \/ r.op = old.op
          /\ r.found = f \/ r.op = old.op
      OBVIOUS
    <2>5. ReadTrue(r)
      BY <2>1, <2>3, <2>4 DEF ReadTrue
    <2> QED
      BY <1>1, <2>2, <2>5, RequestStep
  <1>4. ASSUME Re!Store(w) PROVE ReportsInv'
    <2>1. ReadTrue(old) /\ old.op = "store" /\ old.of \in Tenant /\ FiguresTrue(old.found, old.of)
      BY <1>2, <1>4 DEF Re!Store, ReadTrue
    <2> PICK r : r = [old EXCEPT !.op = "audit", !.keep = FALSE]
      OBVIOUS
    <2>2. /\ req' = [req EXCEPT ![w] = r] /\ UNCHANGED <<facts, last>>
          /\ cache' = cache \/ cache' = [cache EXCEPT ![old.of] = old.found]
      BY <1>4 DEF Re!Store, Re!Moves, Re!CacheKey
    <2>3. ReadTrue(r)
      BY <2>1 DEF ReadTrue
    <2> QED
      BY <1>1, <2>1, <2>2, <2>3, RequestStep
  <1>5. ASSUME Re!Audit(w) PROVE ReportsInv'
    <2>1. ReadTrue(old) /\ old.op = "audit"
      BY <1>2, <1>5 DEF Re!Audit
    <2> PICK r : r = [old EXCEPT !.op = "reply", !.audited = TRUE]
      OBVIOUS
    <2>2. req' = [req EXCEPT ![w] = r] /\ UNCHANGED <<facts, cache, last>>
      BY <1>5 DEF Re!Audit, Re!Moves
    <2>3. ReadTrue(r)
      BY <2>1 DEF ReadTrue
    <2> QED
      BY <1>1, <2>2, <2>3, RequestStep
  <1>6. ASSUME Re!Reply(w) PROVE ReportsInv'
    <2>1. ReadTrue(old) /\ old.op = "reply" /\ FiguresTrue(old.found, old.of) /\ old.of \in Tenant
      BY <1>2, <1>6 DEF Re!Reply, ReadTrue
    <2>2. old.found.of = old.of /\ old.found.n <= facts[old.of]
      BY <1>1, <2>1 DEF FiguresTrue
    <2>3. (old.refresh => old.found.n >= old.asked) /\ old.audited
      BY <2>1 DEF ReadTrue
    <2>4. last'.own /\ last'.fresh /\ last'.audited
      BY <1>6, <2>2, <2>3 DEF Re!Reply
    <2>5. req' = [req EXCEPT ![w] = Re!Idle] /\ UNCHANGED <<facts, cache>>
      BY <1>6 DEF Re!Reply, Re!Moves
    <2> QED
      BY <2>4, <2>5, RequestStep
  <1>7. ASSUME Re!Fail(w) PROVE ReportsInv'
    BY <1>1, <1>7, RequestStep DEF Re!Fail, Re!Moves
  <1> QED
    BY <1>3, <1>4, <1>5, <1>6, <1>7 DEF Re!Step

LEMMA ExpireStep ==
  ASSUME ReportsInv, NEW t \in Tenant, Re!Expire(t)
  PROVE  ReportsInv'
  <1>1. UNCHANGED <<facts, last, req>> /\ cache' = [cache EXCEPT ![t] = Re!None]
    BY DEF Re!Expire
  <1>2. /\ cache' = [u \in Tenant |-> cache'[u]]
        /\ \A u \in Tenant : cache'[u] \in {cache[u], Re!None}
    <2>1. cache = [u \in Tenant |-> cache[u]]
      BY DEF ReportsInv
    <2> QED
      BY <1>1, <2>1
  <1>3. \A u \in Tenant : cache'[u] = Re!None \/ FiguresTrue(cache'[u], u)
    BY <1>2 DEF ReportsInv
  <1>4. (\A u \in Tenant : cache[u] = Re!None \/ FiguresTrue(cache[u], u))'
    BY <1>1, <1>3 DEF FiguresTrue
  <1>5. (\A w \in Hand : req[w] = Re!Idle \/ ReadTrue(req[w]))'
    BY <1>1 DEF ReportsInv, ReadTrue, FiguresTrue
  <1> QED
    BY <1>1, <1>2, <1>4, <1>5 DEF ReportsInv

LEMMA ReportsStep ==
  BoundsAreNumbers /\ ReportsInv /\ [Re!Next]_(Re!vars) => ReportsInv'
  <1> SUFFICES ASSUME BoundsAreNumbers, ReportsInv, [Re!Next]_(Re!vars) PROVE ReportsInv'
    OBVIOUS
  <1>1. ASSUME UNCHANGED Re!vars PROVE ReportsInv'
    BY <1>1 DEF Re!vars, ReportsInv, ReadTrue, FiguresTrue
  <1> QED
    BY <1>1, FactStep, ReadStep, ServeStep, ExpireStep DEF Re!Next

LEMMA ReportsFollow == BoundsAreNumbers /\ ReportsInv => Re!ReportsKept
  <1> SUFFICES ASSUME BoundsAreNumbers, ReportsInv PROVE Re!ReportsKept
    OBVIOUS
  <1>1. ASSUME NEW t \in Tenant, FiguresTrue(cache[t], t)
        PROVE  cache[t] \in UNION {Re!FiguresOf(u) : u \in Tenant}
    <2>1. facts[t] \in 0 .. MaxFacts /\ MaxFacts \in Nat
      BY DEF ReportsInv, BoundsAreNumbers
    <2>2. cache[t] \in Re!FiguresOf(t)
      BY <1>1, <2>1 DEF FiguresTrue, Re!FiguresOf
    <2> QED
      BY <2>2
  <1> QED
    BY <1>1 DEF ReportsInv, ReadTrue, Re!ReportsKept, Re!ReportsTypeOK, Re!OwnFigures,
       Re!RefreshIsFresh, Re!NothingUnaudited

-----------------------------------------------------------------------------
(* All of them.                                                            *)

WebInv == SessionInv /\ TakePageInv /\ PayPageInv /\ ReportsInv

\* A step is of one part, and the others stutter.
LEMMA StepOfEach ==
  [Next]_vars => /\ [Se!Next]_(Se!vars)
                 /\ [Ta!Next]_(Ta!vars)
                 /\ [Pa!Next]_(Pa!vars)
                 /\ [Re!Next]_(Re!vars)
  BY DEF Next, vars, InSession, InTest, InPayment, InReport, session, takePage, payPage, reports,
     Se!vars, Ta!vars, Pa!vars, Re!vars

(* For any users, calls, tenants and bounds: whatever overlaps or breaks,  *)
(* a quiet logout holds (auth.py:127-130), one submission is at the server *)
(* and its result is the one shown (page.tsx:53, take.py:86-87), nobody is *)
(* told they are enrolled, or charged twice, without cause (pay/page.tsx:  *)
(* 4-6), and a report is the tenant's own, on record and as fresh as asked *)
(* (reporting.py:14-18, founder.py:13-14).                                 *)
THEOREM WebHolds ==
  ASSUME NamesApart, BoundsAreNumbers
  PROVE  Spec => []WebKept
  <1>1. Init => WebInv
    BY BoundsAreNumbers, SessionInit, TakePageInit, PayPageInit, ReportsInit DEF Init, WebInv
  <1>2. WebInv /\ [Next]_vars => WebInv'
    BY NamesApart, BoundsAreNumbers, StepOfEach, SessionStep, TakePageStep, PayPageStep, ReportsStep
       DEF WebInv
  <1>3. WebInv => WebKept
    <2>1. SessionInv => Se!SessionKept
      BY DEF SessionInv, Se!SessionKept, Se!QuietLogoutHolds
    <2>2. PayPageInv => Pa!PayPageKept
      BY DEF PayPageInv, Pa!PayPageKept, Pa!DoneIsEnrolled, Pa!OneChargePerVisit, Pa!PayPageTypeOK
    <2> QED
      BY <2>1, <2>2, BoundsAreNumbers, TakePageFollows, ReportsFollow DEF WebInv, WebKept
  <1> QED
    BY <1>1, <1>2, <1>3, PTL DEF Spec
=============================================================================
