------------------------------- MODULE Roster -------------------------------
(***************************************************************************)
(* The administrator's page on one enrollment (frontend/app/(admin)/admin/ *)
(* academy/enrollments/[id]/page.tsx): it loads the enrollment, offers the *)
(* moves its status allows, and sends the one that is confirmed.           *)
(*                                                                         *)
(* The enrollment is moved elsewhere too: by its test, by a payment and by *)
(* colleagues.  The rows behind it are the subject of Enrollment.          *)
(***************************************************************************)
EXTENDS Naturals

CONSTANT MaxMoves \* bound on the moves of the enrollment

VARIABLES
  status,  \* enrollments.status
  moves,   \* the moves made so far
  shown,   \* the row the page holds, or Nothing
  modal,   \* the move being confirmed, or None
  call,    \* the request of the confirmation
  err,     \* what the open modal says went wrong
  load,    \* the page's fetch of the enrollment
  notice,  \* the page has given way to an error
  told,    \* moves there were when the page's last move succeeded (history)
  pressed, \* confirmations of this modal whose move was made (history)
  stale    \* the row has moved since it was read (history)

vars == <<status, moves, shown, modal, call, err, load, notice, told, pressed, stale>>

Nothing == [held |-> FALSE]
None == "none"
Quiet == [at |-> "none"]
Waive == "waive"

-----------------------------------------------------------------------------
(* The server.                                                             *)

Manual == {<<"applied", "cancelled">>, <<"tested", "cancelled">>, <<"offered", "cancelled">>,
           <<"active", "completed">>, <<"active", "dropped">>}

\* What the endpoint of an action does to a status it accepts.
After(s, action) == IF action = Waive THEN "active" ELSE action

Accepts(s, action) == IF action = Waive THEN s = "offered" ELSE <<s, action>> \in Manual

\* POST .../waive answers 409 STATUS_INVALID, the machine ILLEGAL_TRANSITION.
Refusal(action) == IF action = Waive THEN "STATUS_INVALID" ELSE "ILLEGAL_TRANSITION"

-----------------------------------------------------------------------------
(* The page's mirror of the machine.                                       *)

\* Fault: the mirror has the edge that only the system takes.
WithActivate(s) == CASE s = "offered" -> {Waive, "cancelled", "active"}
                     [] s \in {"applied", "tested"} -> {"cancelled"}
                     [] s = "active" -> {"completed", "dropped"}
                     [] OTHER -> {}

ActionsFor(s) == CASE s = "offered" -> {Waive, "cancelled"}
                   [] s \in {"applied", "tested"} -> {"cancelled"}
                   [] s = "active" -> {"completed", "dropped"}
                   [] OTHER -> {}

Init == /\ status \in {"applied", "offered", "active"}
        /\ moves = 0
        /\ shown = Nothing
        /\ modal = None
        /\ call = Quiet /\ err = "none"
        /\ load = [at |-> "asked"]
        /\ notice = FALSE
        /\ told = 0 /\ pressed = 0
        /\ stale = FALSE

Moved(to) == /\ moves < MaxMoves
             /\ status' = to
             /\ moves' = moves + 1
             /\ stale' = TRUE

\* A graded test, a payment, or a colleague on the same page.
Elsewhere(to) ==
  /\ <<status, to>> \in Manual \cup {<<"applied", "offered">>, <<"tested", "offered">>,
                                     <<"offered", "active">>}
  /\ Moved(to)
  /\ UNCHANGED <<shown, modal, call, err, load, notice, told, pressed>>

-----------------------------------------------------------------------------
(* The page.                                                               *)

\* GET /academy/enrollments/{id}
ServeLoad == /\ load.at = "asked"
             /\ load' = [at |-> "served", status |-> status, moves |-> moves]
             /\ stale' = FALSE
             /\ UNCHANGED <<status, moves, shown, modal, call, err, notice, told, pressed>>

OnLoaded == /\ load.at = "served"
            /\ shown' = [held |-> TRUE, status |-> load.status, moves |-> load.moves]
            /\ load' = Quiet
            /\ UNCHANGED <<status, moves, modal, call, err, notice, told, pressed, stale>>

\* An error replaces the page for good; there is no way to try again.
FailLoad == /\ load # Quiet
            /\ load' = Quiet
            /\ notice' = TRUE
            /\ UNCHANGED <<status, moves, shown, modal, call, err, told, pressed, stale>>

Choose(action) == /\ shown.held /\ modal = None
                  /\ action \in ActionsFor(shown.status)
                  /\ modal' = action
                  /\ pressed' = 0 /\ err' = "none"
                  /\ UNCHANGED <<status, moves, shown, call, load, notice, told, stale>>

\* Disabled while the request is on its way.
Cancel == /\ modal # None /\ call = Quiet
          /\ modal' = None
          /\ UNCHANGED <<status, moves, shown, call, err, load, notice, told, pressed, stale>>

\* inFlight.current: one request at a time.
Submit == /\ modal # None /\ call = Quiet
          /\ call' = [at |-> "asked"]
          /\ err' = "none"
          /\ UNCHANGED <<status, moves, shown, modal, load, notice, told, pressed, stale>>

ServeCall ==
  /\ call.at = "asked"
  /\ IF Accepts(status, modal)
     THEN /\ Moved(After(status, modal))
          /\ pressed' = pressed + 1
          /\ call' = [at |-> "answered", code |-> "OK", moves |-> moves']
     ELSE /\ call' = [at |-> "answered", code |-> Refusal(modal), moves |-> moves]
          /\ UNCHANGED <<status, moves, pressed, stale>>
  /\ UNCHANGED <<shown, modal, err, load, notice, told>>

\* Fault: the modal closes over the row the page already holds.
Dismiss == /\ modal' = None
           /\ UNCHANGED <<shown, load>>

\* onDone: the modal closes and the page reloads from nothing.
Reload == /\ modal' = None
          /\ shown' = Nothing
          /\ load' = [at |-> "asked"]

OnSuccess == /\ call.at = "answered" /\ call.code = "OK"
             /\ call' = Quiet
             /\ told' = call.moves
             /\ Reload
             /\ UNCHANGED <<status, moves, err, notice, pressed, stale>>

\* Of the refusals, the machine's alone reloads the page.
OnRefused == /\ call.at = "answered" /\ call.code # "OK"
             /\ call' = Quiet /\ err' = "refused"
             /\ IF call.code = "ILLEGAL_TRANSITION" THEN Reload
                ELSE UNCHANGED <<modal, shown, load>>
             /\ UNCHANGED <<status, moves, notice, told, pressed, stale>>

\* The request or its answer is lost: the modal stays open for another try.
OnLost == /\ call # Quiet
          /\ call' = Quiet /\ err' = "lost"
          /\ UNCHANGED <<status, moves, shown, modal, load, notice, told, pressed, stale>>

Next == \/ \E to \in {"offered", "active", "cancelled", "completed", "dropped"} : Elsewhere(to)
        \/ ServeLoad \/ OnLoaded \/ FailLoad
        \/ \E action \in {Waive, "cancelled", "completed", "dropped"} : Choose(action)
        \/ Cancel \/ Submit \/ ServeCall \/ OnSuccess \/ OnRefused \/ OnLost

Spec == Init /\ [][Next]_vars

-----------------------------------------------------------------------------

RosterTypeOK ==
  /\ moves \in 0 .. MaxMoves /\ told \in 0 .. moves
  /\ load.at \in {"none", "asked", "served"} /\ call.at \in {"none", "asked", "answered"}
  /\ err \in {"none", "refused", "lost"}

(* page.tsx:2-5: unless the enrollment has moved since it was read, the    *)
(* page offers the moves the server accepts, all of them and no other.     *)
MirrorsMachine ==
  (shown.held /\ ~stale) =>
    \A action \in {Waive, "offered", "active", "cancelled", "completed", "dropped"} :
      action \in ActionsFor(shown.status) <=> Accepts(status, action)

(* page.tsx:76-106, 235: a row on the page is as new as the last move the  *)
(* page made, the page is never left with neither a row, a fetch nor an    *)
(* error, and a confirmation tried again after its answer was lost has     *)
(* moved the enrollment once.                                              *)
MovesOnceAndShowsIt ==
  /\ shown.held => shown.moves >= told
  /\ shown.held \/ load # Quiet \/ notice
  /\ pressed <= 1

(* What is always true of the page.                                        *)
RosterKept == RosterTypeOK /\ MirrorsMachine /\ MovesOnceAndShowsIt

-----------------------------------------------------------------------------
(* What the page says and does not keep.                                   *)

(* page.tsx:98-101, after a 409 "show it + refresh so a now-illegal        *)
(* control doesn't linger": the waiver's own 409 does not refresh.         *)
NoControlLingers == (modal # None /\ err = "refused") => Accepts(status, modal)

=============================================================================
