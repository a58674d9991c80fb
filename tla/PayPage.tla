------------------------------ MODULE PayPage -------------------------------
(***************************************************************************)
(* The page a student pays an enrollment on (frontend/app/(student)/       *)
(* academy/student/pay/page.tsx), over the server's student_pay and        *)
(* my_enrollments (backend/app/routers/academy.py).                        *)
(*                                                                         *)
(* A call is on the wire in steps: sent, for a payment loaded and checked, *)
(* answered.  A call the page no longer waits for goes on at the server.   *)
(***************************************************************************)
EXTENDS Naturals

CONSTANTS
  Call,      \* calls that may be on the wire
  MaxCharges \* bound on the payments made

VARIABLES
  server,  \* the enrollments row: its status and payment_status
  been,    \* the statuses it has had that a move leads out of (history)
  charges, \* payments rows made through this page
  phase,   \* what the page shows
  pressed, \* inFlight, the guard of the pay button
  call,    \* Call -> where the call is, and whether the page waits for it
  cut      \* the page was left, or its connection lost, while it paid (history)

vars == <<server, been, charges, phase, pressed, call, cut>>

Idle == [kind |-> "idle", at |-> "none", live |-> FALSE]

Init == /\ server = [status |-> "applied", paid |-> "pending"]
        /\ been = {"applied"}
        /\ charges = 0
        /\ phase = "loading"
        /\ pressed = FALSE
        /\ call = [c \in Call |-> Idle]
        /\ cut = FALSE

Sent(kind) == [kind |-> kind, at |-> "sent", live |-> TRUE]

Paying(c) == call[c].kind \in {"pay", "receipt"}

-----------------------------------------------------------------------------
(* The server.                                                             *)

\* Fault: an offered enrollment counts as enrolled once it has been paid for.
OfferedToo(e) == e.status \in {"active", "completed", "offered"} \/ e.paid = "paid"

\* isEnrolled, of the page.
IsEnrolled(e) == e.status \in {"active", "completed"} \/ e.paid = "paid"

Answered(c, answer) == call' = [call EXCEPT ![c].at = answer]

ServerOnly == UNCHANGED <<phase, pressed, cut>>

\* my_enrollments, of which the page keeps how it reads the row.
ServeFetch(c) ==
  /\ call[c].kind \in {"fetch", "check", "confirm"}
  /\ call[c].at = "sent"
  /\ Answered(c, IF IsEnrolled(server) THEN "enrolled"
                 ELSE IF server.status = "offered" THEN "offered" ELSE "notdue")
  /\ ServerOnly
  /\ UNCHANGED <<server, been, charges>>

\* student_pay: a paid payment is answered again; any other status is refused.
LoadPay(c) ==
  /\ Paying(c)
  /\ call[c].at = "sent"
  /\ Answered(c, IF charges > 0 THEN "paid"
                 ELSE IF server.status = "offered" THEN "loaded" ELSE "invalid")
  /\ ServerOnly
  /\ UNCHANGED <<server, been, charges>>

CommitPay(c) ==
  /\ call[c].at = "loaded"
  /\ charges < MaxCharges
  /\ charges' = charges + 1
  /\ server' = [status |-> "active", paid |-> "paid"]
  /\ been' = been \cup {"active"}
  /\ Answered(c, "paid")
  /\ ServerOnly

\* Staff and the entrance test price, waive, cancel, drop or complete a copy of
\* the row, which may be of any status it has had; only what changes is written.
Staff(status, paid) ==
  /\ \E from \in been :
       <<from, status>> \in {<<"applied", "offered">>, <<"applied", "cancelled">>,
                            <<"offered", "cancelled">>, <<"offered", "active">>,
                            <<"active", "completed">>, <<"active", "dropped">>}
  /\ paid = IF status = "active" THEN "waived" ELSE server.paid
  /\ server' = [status |-> status, paid |-> paid]
  /\ been' = been \cup ({status} \cap {"applied", "offered", "active"})
  /\ UNCHANGED <<charges, phase, pressed, call, cut>>

-----------------------------------------------------------------------------
(* The page.                                                               *)

PageOnly == UNCHANGED <<server, been, charges>>

Awaits(c, kind, answer) == call[c].live /\ call[c].kind = kind /\ call[c].at = answer

Ends(c) == call' = [call EXCEPT ![c] = Idle]

\* The effect: load the enrollment.
Load(c) == /\ phase = "loading"
           /\ \A d \in Call : ~call[d].live
           /\ call[c] = Idle
           /\ call' = [call EXCEPT ![c] = Sent("fetch")]
           /\ UNCHANGED <<phase, pressed, cut>>
           /\ PageOnly

OnLoaded(c) ==
  /\ \/ Awaits(c, "fetch", "enrolled") /\ phase' = "done"
     \/ Awaits(c, "fetch", "offered") /\ phase' = "offered"
     \/ Awaits(c, "fetch", "notdue") /\ phase' = "notdue"
     \/ Awaits(c, "fetch", "failed") /\ phase' = "conflict"
     \/ Awaits(c, "fetch", "unauthenticated") /\ phase' = "login"
  /\ Ends(c)
  /\ UNCHANGED <<pressed, cut>>
  /\ PageOnly

\* Fault: only the disabled button, one rendering later, stops a second click.
Unguarded == TRUE

Free == ~pressed

\* pay; a double click comes before the button is disabled.
Press(c) == /\ phase \in {"offered", "paying"}
            /\ Free
            /\ call[c] = Idle
            /\ pressed' = TRUE
            /\ phase' = "paying"
            /\ call' = [call EXCEPT ![c] = Sent("pay")]
            /\ UNCHANGED cut
            /\ PageOnly

OnPaid(c) == /\ Awaits(c, "pay", "paid")
             /\ phase' = "done"
             /\ pressed' = FALSE
             /\ Ends(c)
             /\ UNCHANGED cut
             /\ PageOnly

\* Refused by the server, or by a gateway on the way, which answers too.
OnRefused(c) ==
  /\ \/ Awaits(c, "pay", "failed") /\ phase' = "conflict"
     \/ Awaits(c, "pay", "unauthenticated") /\ phase' = "login"
  /\ pressed' = FALSE
  /\ Ends(c)
  /\ UNCHANGED cut
  /\ PageOnly

\* STATUS_INVALID: reconcile first.
OnInvalid(c) == /\ Awaits(c, "pay", "invalid")
                /\ call' = [call EXCEPT ![c] = Sent("check")]
                /\ UNCHANGED <<phase, pressed, cut>>
                /\ PageOnly

\* Fault: what was sent is taken for done.
Trusting(answer) == TRUE

Confirms(answer) == answer = "enrolled"

\* Fault: a fetch that fails is not caught.
Uncaught(answer) == answer \in {"enrolled", "offered", "notdue"}

\* fetchEnr().catch(() => null)
Caught(answer) == answer # "sent"

OnReconciled(c) ==
  /\ call[c].live
  /\ call[c].kind \in {"check", "confirm"}
  /\ Caught(call[c].at)
  /\ phase' = IF Confirms(call[c].at) THEN "done"
              ELSE IF call[c].kind = "check" THEN "conflict" ELSE "unconfirmed"
  /\ pressed' = FALSE
  /\ Ends(c)
  /\ UNCHANGED cut
  /\ PageOnly

\* downloadReceipt pays again, to be given a fresh link.
PressReceipt(c) == /\ phase = "done"
                   /\ \A d \in Call : ~call[d].live
                   /\ call[c] = Idle
                   /\ call' = [call EXCEPT ![c] = Sent("receipt")]
                   /\ UNCHANGED <<phase, pressed, cut>>
                   /\ PageOnly

OnReceipt(c) == /\ call[c].live
                /\ call[c].kind = "receipt"
                /\ call[c].at \notin {"sent", "loaded"}
                /\ Ends(c)
                /\ UNCHANGED <<phase, pressed, cut>>
                /\ PageOnly

-----------------------------------------------------------------------------
(* The network and the browser.                                            *)

\* What fails without reaching the server, or before it has changed anything.
Fails(c) == /\ call[c].live
            /\ call[c].at = "sent"
            /\ \E answer \in {"failed", "unauthenticated"} : Answered(c, answer)
            /\ ServerOnly
            /\ UNCHANGED <<server, been, charges>>

\* The connection of a payment breaks: the page reconciles with a call of its
\* own, while the server goes on.
Break(c, d) ==
  /\ call[c].live
  /\ call[c].kind = "pay"
  /\ call[d] = Idle
  /\ phase' = "confirming"
  /\ call' = [call EXCEPT ![c].live = FALSE, ![d] = Sent("confirm")]
  /\ cut' = TRUE
  /\ UNCHANGED pressed
  /\ PageOnly

\* A gateway gives up waiting for a payment: that is an answer to the page.
GiveUp(c) == /\ call[c].live
             /\ call[c].kind = "pay"
             /\ call[c].at \in {"sent", "loaded"}
             /\ phase' = "conflict"
             /\ pressed' = FALSE
             /\ call' = [call EXCEPT ![c].live = FALSE]
             /\ cut' = TRUE
             /\ PageOnly

\* A reload, by the button of 'unconfirmed' or the browser's own.
Reload == /\ phase # "loading"
          /\ phase' = "loading"
          /\ pressed' = FALSE
          /\ cut' = (cut \/ \E c \in Call : call[c].live /\ Paying(c))
          /\ call' = [c \in Call |-> IF Paying(c) THEN [call[c] EXCEPT !.live = FALSE] ELSE Idle]
          /\ PageOnly

\* Nobody waits for the answer.
Forget(c) == /\ ~call[c].live
             /\ call[c].at \in {"paid", "invalid", "failed", "unauthenticated"}
             /\ Ends(c)
             /\ UNCHANGED <<phase, pressed, cut>>
             /\ PageOnly

-----------------------------------------------------------------------------

Statuses == {"applied", "offered", "active", "completed", "dropped", "cancelled"}

\* What moves a call, once made, and the page that waits for it.
Progress(c) == \/ ServeFetch(c) \/ LoadPay(c) \/ CommitPay(c)
               \/ OnLoaded(c) \/ OnPaid(c) \/ OnRefused(c) \/ OnInvalid(c) \/ OnReconciled(c)
               \/ OnReceipt(c) \/ Forget(c)

Next == \/ \E c \in Call : Progress(c) \/ Load(c) \/ Press(c) \/ PressReceipt(c)
                           \/ Fails(c) \/ GiveUp(c)
        \/ \E c, d \in Call : Break(c, d)
        \/ \E status \in Statuses, paid \in {"pending", "paid", "waived"} : Staff(status, paid)
        \/ Reload

(* The server answers, or the connection breaks, and the page handles what *)
(* it is answered.  Nobody has to press or reload.                         *)
Fairness == \A c \in Call : WF_vars(Progress(c))

Spec == Init /\ [][Next]_vars /\ Fairness

-----------------------------------------------------------------------------

PayPageTypeOK ==
  /\ server \in [status : Statuses, paid : {"pending", "paid", "waived"}]
  /\ been \subseteq {"applied", "offered", "active"}
  /\ charges \in 0 .. MaxCharges
  /\ phase \in {"loading", "offered", "paying", "confirming", "done", "notdue", "conflict",
                "unconfirmed", "login"}
  /\ pressed \in BOOLEAN
  /\ call \in [Call -> [kind : {"idle", "fetch", "pay", "check", "confirm", "receipt"},
                        at : {"none", "sent", "loaded", "paid", "invalid", "enrolled", "offered",
                              "notdue", "failed", "unauthenticated"},
                        live : BOOLEAN]]
  /\ cut \in BOOLEAN

(* page.tsx:5-6, "reconcile from server truth": whatever was lost, retried *)
(* or decided by staff meanwhile, "You're enrolled" is only ever shown of  *)
(* an enrollment that is paid or waived.                                   *)
DoneIsEnrolled == phase = "done" => server.paid # "pending"

(* page.tsx:4-5, "exactly one POST on double-click": impatience alone,     *)
(* without a reload or a lost connection, never pays twice; nor does       *)
(* fetching a receipt, which posts a payment too.                          *)
OneChargePerVisit == charges > 1 => cut

(* page.tsx:91, the finally of pay: whoever presses gets an outcome,       *)
(* whatever the server and the network answer.                             *)
EveryPressEnds == phase \in {"paying", "confirming"} ~> phase \notin {"paying", "confirming"}

(* What is always true of a payment page and what was paid through it.     *)
PayPageKept == PayPageTypeOK /\ DoneIsEnrolled /\ OneChargePerVisit

-----------------------------------------------------------------------------
(* What the documents expect and overlapping requests defeat: see the      *)
(* README, 'Where the code and its documents part'.                        *)

(* page.tsx:5-6, "the network-unknown case (reconcile from server truth,   *)
(* never assume failure)": a gateway's answer in the place of the server's *)
(* is an ApiError, shown as a conflict without a look at the server.       *)
NeverAssumesFailure == phase = "conflict" => server.paid # "paid"

(* page.tsx:106, "no-op when already paid": nothing is paid by asking for  *)
(* the receipt.                                                            *)
ReceiptIsFree == [][\A c \in Call : CommitPay(c) => call[c].kind # "receipt"]_vars

(* academy.py:676-677, "never mint a second payable row": after a reload   *)
(* during a slow payment the page offers to pay again.                     *)
OneCharge == charges <= 1
=============================================================================
