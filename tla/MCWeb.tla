------------------------------- MODULE MCWeb -------------------------------
(***************************************************************************)
(* The pages of the frontend and the reports behind them, for TLC: a       *)
(* behaviour is one of the session, the test page, the payment page or the *)
(* report cache, which share nothing.  The others stay as they began.      *)
(***************************************************************************)
EXTENDS Naturals

CONSTANTS User, Hand, TimeLimit, MaxAnswers, MaxCharges, Tenant, MaxFacts

VARIABLES
  shown,                                             \* the part that runs
  account, access, refresh, scall, out,              \* Session
  page, post, test, lost,                            \* TakePage
  server, been, charges, phase, pressed, call, cut,        \* PayPage
  facts, cache, last, req                            \* Reports

Se == INSTANCE Session WITH call <- scall, Call <- Hand
Ta == INSTANCE TakePage WITH Post <- Hand
Pa == INSTANCE PayPage WITH Call <- Hand
Re == INSTANCE Reports WITH Worker <- Hand

session == <<account, access, refresh, scall, out>>
takePage == <<page, post, test, lost>>
payPage == <<server, been, charges, phase, pressed, call, cut>>
reports == <<facts, cache, last, req>>
vars == <<shown, session, takePage, payPage, reports>>

Init == /\ shown \in {"session", "test", "payment", "report"}
        /\ Se!Init /\ Ta!Init /\ Pa!Init /\ Re!Init

InSession == shown = "session" /\ UNCHANGED <<shown, takePage, payPage, reports>>
InTest == shown = "test" /\ UNCHANGED <<shown, session, payPage, reports>>
InPayment == shown = "payment" /\ UNCHANGED <<shown, session, takePage, reports>>
InReport == shown = "report" /\ UNCHANGED <<shown, session, takePage, payPage>>

Next == \/ InSession /\ Se!Next
        \/ InTest /\ Ta!Next
        \/ InPayment /\ Pa!Next
        \/ InReport /\ Re!Next

(* The fairness of each part, of its own steps.  Only one part runs, so    *)
(* that fairness to "this of one part or that of another" is fairness to   *)
(* each.                                                                   *)
Advance(h) == \/ InSession /\ Se!Progress(h)
              \/ InTest /\ (Ta!LoadTest(h) \/ Ta!Grade(h) \/ Ta!Receive(h) \/ Ta!Discard(h))
              \/ InPayment /\ Pa!Progress(h)
              \/ InReport /\ Re!Step(h)

Clock == \/ InSession /\ Se!ExpireAccess
         \/ InTest /\ Ta!Tick

Effect == \/ InTest /\ \E h \in Hand : Ta!AutoSubmit(h)

Fairness == /\ \A h \in Hand : WF_vars(Advance(h))
            /\ WF_vars(Clock)
            /\ WF_vars(InTest /\ Ta!AutoIgnored)
            /\ WF_vars(Effect)
            /\ \A t \in Tenant : WF_vars(InReport /\ Re!Expire(t))

Spec == Init /\ [][Next]_vars /\ Fairness

-----------------------------------------------------------------------------

(* What is always true of each part.  Erasure and logout sign the browser  *)
(* out (auth.py:118, 127-130); one submission of a test is at the server,  *)
(* and its result is the one shown (page.tsx:53, take.py:86-87); nobody is *)
(* told they are enrolled, or charged twice, without cause (pay/page.tsx:  *)
(* 4-6); a report is the tenant's own, on record, and fresh when asked to  *)
(* be (reporting.py:14-18, founder.py:13-14).                              *)
WebKept == Se!SessionKept /\ Ta!TakePageKept /\ Pa!PayPageKept /\ Re!ReportsKept

(* auth.py:118: an erased account ends up without a token, for good; and   *)
(* client.ts:16: every call of a page comes to an end.                     *)
SessionComesToRest == Se!ErasedIsSignedOut /\ Se!EveryCallEnds

(* page.tsx:96: a paper whose timer runs is submitted without anybody; and *)
(* a page that waits for the outcome of a submission gets one.             *)
TestComesToRest == Ta!TimeUpSubmits /\ Ta!EverySubmissionEnds

(* pay/page.tsx:91: whoever presses the button gets an outcome.            *)
EveryPressEnds == Pa!EveryPressEnds

(* reporting.py:14-15: once nothing is committed any more, what the cache  *)
(* holds is current, for good.                                             *)
FiguresConverge == Re!FiguresConverge
=============================================================================
