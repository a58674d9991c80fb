------------------------------- MODULE Board --------------------------------
(***************************************************************************)
(* The pipeline board of one job in one browser (frontend/app/(portal)/    *)
(* employer/pipeline/page.tsx, useJobPipeline and useTransitionStage of    *)
(* frontend/lib/api/hooks.ts), over POST /applications/{id}/transition     *)
(* and GET /jobs/{id}/pipeline, while colleagues move the same cards.      *)
(*                                                                         *)
(* A move is shown at once, sent with the version that was shown, and put  *)
(* back to a snapshot when it is refused; then the board is fetched again. *)
(***************************************************************************)
EXTENDS Naturals

CONSTANTS
  Card,      \* applications of the job
  Column,    \* stages
  First,     \* the stage of a new application
  Move,      \* moves that may be on the wire
  MaxVersion \* bound on the versions of a card

VARIABLES
  server, \* Card -> the row's stage and version
  past,   \* Card -> the stage it had at each version (history)
  board,  \* what the browser holds for the query: Card -> stage and version
  move,   \* Move -> where the move is
  fetch,  \* the fetch of the query on the wire
  failed, \* the last fetch failed (history)
  mine    \* Card -> the highest version a settled move of this browser made (history)

vars == <<server, past, board, move, fetch, failed, mine>>

Null == "null"
Idle == [at |-> "idle"]
Quiet == [at |-> "none"]

Rows == [stage : Column, version : 1 .. MaxVersion]

Init == /\ server = [c \in Card |-> [stage |-> First, version |-> 1]]
        /\ past = [c \in Card |-> [v \in 1 .. MaxVersion |-> IF v = 1 THEN server[c].stage ELSE Null]]
        /\ board = server
        /\ move = [m \in Move |-> Idle]
        /\ fetch = Quiet
        /\ failed = FALSE
        /\ mine = [c \in Card |-> 1]

-----------------------------------------------------------------------------
(* The server.                                                             *)

Advance(c, to) ==
  /\ server[c].version < MaxVersion
  /\ server' = [server EXCEPT ![c] = [stage |-> to, version |-> @.version + 1]]
  /\ past' = [past EXCEPT ![c][server[c].version + 1] = to]

\* The compare-and-set of the guard.
Current(c, version) == server[c].version = version

Answered(m, answer) == move' = [move EXCEPT ![m].at = answer]

ServeMove(m) == /\ move[m].at = "sent"
                /\ Current(move[m].card, move[m].version)
                /\ Advance(move[m].card, move[m].to)
                /\ Answered(m, "moved")
                /\ UNCHANGED <<board, fetch, failed, mine>>

\* STALE_STATE, or an edge the guard does not allow; or the connection is lost,
\* before or after the server has moved the card.
RefuseMove(m) == /\ move[m].at \in {"sent", "moved"}
                 /\ Answered(m, "refused")
                 /\ UNCHANGED <<server, past, board, fetch, failed, mine>>

\* A colleague, in another browser.
Elsewhere(c, to) == /\ server[c].stage # to
                    /\ Advance(c, to)
                    /\ UNCHANGED <<board, move, fetch, failed, mine>>

-----------------------------------------------------------------------------
(* The browser.                                                            *)

\* moveCard: the version stays.
Moved(c, to) == [board EXCEPT ![c].stage = to]

\* onDragEnd and the buttons, then onMutate: fetches are cancelled, the board
\* is kept and changed.  Moves take their names in order.
Drag(c, to) == LET m == CHOOSE n \in Move : move[n] = Idle IN
  /\ \E n \in Move : move[n] = Idle
  /\ board[c].stage # to
  /\ move' = [move EXCEPT ![m] = [at |-> "sent", card |-> c, to |-> to,
                                  version |-> board[c].version, prev |-> board]]
  /\ board' = Moved(c, to)
  /\ fetch' = Quiet
  /\ UNCHANGED <<server, past, failed, mine>>

\* Fault: only a move that succeeded fetches the board again.
OnSuccessOnly(m) == IF move[m].at = "moved" THEN [at |-> "asked"] ELSE fetch

\* invalidateQueries: a fetch under way is cancelled for a new one.
Refetched(m) == [at |-> "asked"]

SettleMoved(m) == /\ move[m].at = "moved"
                  /\ mine' = [mine EXCEPT ![move[m].card] =
                                IF @ > move[m].version THEN @ ELSE move[m].version + 1]
                  /\ fetch' = Refetched(m)
                  /\ move' = [move EXCEPT ![m] = Idle]
                  /\ UNCHANGED <<server, past, board, failed>>

\* onError and onSettled.
SettleRefused(m) == /\ move[m].at = "refused"
                    /\ board' = move[m].prev
                    /\ fetch' = Refetched(m)
                    /\ move' = [move EXCEPT ![m] = Idle]
                    /\ UNCHANGED <<server, past, failed, mine>>

\* GET /jobs/{id}/pipeline
ServeFetch == /\ fetch.at = "asked"
              /\ fetch' = [at |-> "served", rows |-> server]
              /\ UNCHANGED <<server, past, board, move, failed, mine>>

OnFetched == /\ fetch.at = "served"
             /\ board' = fetch.rows
             /\ fetch' = Quiet
             /\ failed' = FALSE
             /\ UNCHANGED <<server, past, move, mine>>

\* retry: false
FailFetch == /\ fetch # Quiet
             /\ fetch' = Quiet
             /\ failed' = TRUE
             /\ UNCHANGED <<server, past, board, move, mine>>

\* The page is opened again: what is older than a minute is fetched.
Reopen == /\ fetch = Quiet
          /\ fetch' = [at |-> "asked"]
          /\ UNCHANGED <<server, past, board, move, failed, mine>>

-----------------------------------------------------------------------------

Progress(m) == ServeMove(m) \/ RefuseMove(m) \/ SettleMoved(m) \/ SettleRefused(m)

Next == \/ \E m \in Move : Progress(m)
        \/ \E c \in Card, to \in Column : Drag(c, to) \/ Elsewhere(c, to)
        \/ ServeFetch \/ OnFetched \/ FailFetch \/ Reopen

Spec == Init /\ [][Next]_vars

-----------------------------------------------------------------------------

BoardTypeOK ==
  /\ server \in [Card -> Rows]
  /\ board \in [Card -> Rows]
  /\ move \in [Move -> {Idle} \cup [at : {"sent", "moved", "refused"}, card : Card, to : Column,
                                    version : 1 .. MaxVersion, prev : [Card -> Rows]]]
  /\ fetch.at \in {"none", "asked", "served"}

(* hooks.ts:420-423, "updates optimistically and reverts + reconciles on   *)
(* any error": however moves overlap, are refused, reverted to each        *)
(* other's snapshots or lost, once nothing is on the wire and the last     *)
(* fetch came through, every card is where the server had it at the        *)
(* version shown, and no move of this browser is forgotten.                *)
SettledBoardIsTrue ==
  fetch = Quiet /\ ~failed /\ (\A m \in Move : move[m] = Idle) =>
    \A c \in Card : /\ board[c].stage = past[c][board[c].version]
                    /\ board[c].version >= mine[c]

(* What is always true of a board and the rows behind it.                  *)
BoardKept == BoardTypeOK /\ SettledBoardIsTrue

=============================================================================
