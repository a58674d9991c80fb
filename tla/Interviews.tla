----------------------------- MODULE Interviews -----------------------------
(***************************************************************************)
(* One interview, the time slots proposed for it and its reminders         *)
(* (backend/app/routers/workflow.py).                                      *)
(*                                                                         *)
(* A transaction reads what is committed when each of its statements       *)
(* begins, and others see what it wrote once it commits.  The interview    *)
(* row is loaded, changed and written by primary key, and an UPDATE names  *)
(* only the columns that differ from the loaded ones.  Slots are changed   *)
(* in bulk, one statement per request, on the rows it found when it began: *)
(* those it locks until the commit, in the order the statements came;      *)
(* slots inserted later it neither changes nor waits for.                  *)
(***************************************************************************)
EXTENDS Naturals, FiniteSets

CONSTANTS
  Slot,       \* ids of slot rows, each standing for its start time too
  Worker,     \* threads serving requests
  MinSlots,   \* the least a proposal may have (3 in the code)
  MaxSequence \* bound on interviews.ics_sequence

VARIABLES
  interview, \* the interviews row: status, scheduled_at, ics_sequence
  slots,     \* its rows in interview_slots
  chosen,    \* those of them that are marked chosen
  proposed,  \* every slot row ever inserted: ids are not used again
  strays,    \* those inserted beside a reschedule that had deleted (history)
  reminders, \* ics_sequence -> time told by the reminder keyed with it
  req,       \* Worker -> the request it serves and the rows it loaded
  found,     \* Worker -> the slots its statement found
  ahead      \* Worker -> those that came first to one of these

vars == <<interview, slots, chosen, proposed, strays, reminders, req, found, ahead>>

rounds == <<slots, chosen, proposed, strays>>

locks == <<found, ahead>>

Unset == "unset"           \* the SQL NULL of scheduled_at, and no reminder
Elsewhere == "elsewhere"   \* a time that is no slot's
Same == "same"             \* a field the request does not name
Idle == [op |-> "idle"]

ASSUME InterviewAssumption == /\ MinSlots \in Nat
                              /\ MaxSequence \in Nat
                              /\ Unset \notin Slot

\* 'closed' stands for completed, cancelled and no_show: nothing that writes
\* an interview tells them apart.
Statuses == {"scheduled", "rescheduled", "closed"}

Times == Slot \cup {Elsewhere, Unset}

Sequences == 0 .. MaxSequence

\* POST /applications/{id}/interviews has been answered.
Init == /\ interview \in [status : {"scheduled"}, at : {Elsewhere, Unset}, seq : {0}]
        /\ slots = {}
        /\ chosen = {}
        /\ proposed = {}
        /\ strays = {}
        /\ reminders = [n \in Sequences |-> Unset]
        /\ req = [w \in Worker |-> Idle]
        /\ found = [w \in Worker |-> {}]
        /\ ahead = [w \in Worker |-> {}]

Begin(w, r) == /\ req[w] = Idle
               /\ req' = [req EXCEPT ![w] = r]
               /\ UNCHANGED <<interview, rounds, reminders, locks>>

\* The request's statement on the slots begins: it finds what is committed now
\* and stands behind those that found one of these rows before.
Statement(w, r, rows) ==
  /\ req' = [req EXCEPT ![w] = r]
  /\ found' = [found EXCEPT ![w] = rows]
  /\ ahead' = [ahead EXCEPT ![w] = {v \in Worker \ {w} : found[v] \cap rows # {}}]
  /\ UNCHANGED <<interview, rounds, reminders>>

\* A transaction ends and its locks are gone.
Finish(w) == /\ req' = [req EXCEPT ![w] = Idle]
             /\ found' = [found EXCEPT ![w] = {}]
             /\ ahead' = [v \in Worker |-> IF v = w THEN {} ELSE ahead[v] \ {w}]

\* A dead worker, a lost deadlock or a vanished slot: nothing is left behind.
Fail(w) == /\ req[w] # Idle
           /\ Finish(w)
           /\ UNCHANGED <<interview, rounds, reminders>>

\* What an UPDATE leaves in a column: one that was not changed is not named.
Column(stored, seen, wanted) == IF wanted = seen THEN stored ELSE wanted

Written(seen, status, at, seq) ==
  [status |-> Column(interview.status, seen.status, status),
   at |-> Column(interview.at, seen.at, at),
   seq |-> Column(interview.seq, seen.seq, seq)]

-----------------------------------------------------------------------------
(* PATCH /interviews/{id}                                                  *)

PostUpdate(w, status, at) ==
  /\ status = "rescheduled" => interview.seq < MaxSequence
  /\ Begin(w, [op |-> "update", seen |-> interview,
               status |-> IF status = Same THEN interview.status ELSE status,
               at |-> IF at = Same THEN interview.at ELSE at,
               reopens |-> status = "rescheduled"])

\* A reschedule has written the interview row before it deletes the slots.
InterviewLocked(w) == \E v \in Worker \ {w} : req[v].op = "withdraw"

CommitUpdate(w) ==
  /\ req[w].op = "update"
  /\ ~req[w].reopens
  /\ ~InterviewLocked(w)
  /\ interview' = Written(req[w].seen, req[w].status, req[w].at, req[w].seen.seq)
  /\ Finish(w)
  /\ UNCHANGED <<rounds, reminders>>

\* Fault: a reschedule drops only what was not chosen.
KeepChosen == slots \ chosen

Round == slots

\* The row is flushed with its new sequence, then the slots are deleted.
Withdraw(w) ==
  /\ req[w].op = "update"
  /\ req[w].reopens
  /\ ~InterviewLocked(w)
  /\ Statement(w, [req[w] EXCEPT !.op = "withdraw"], Round)

CommitReschedule(w) ==
  /\ req[w].op = "withdraw"
  /\ ahead[w] = {}
  /\ interview' = Written(req[w].seen, req[w].status, req[w].at, req[w].seen.seq + 1)
  /\ slots' = slots \ found[w]
  /\ chosen' = chosen \ found[w]
  /\ Finish(w)
  /\ UNCHANGED <<proposed, strays, reminders>>

-----------------------------------------------------------------------------
(* POST /interviews/{id}/slots                                             *)

\* Nothing that was loaded matters: it begins with the DELETE.
PostPropose(w) == /\ req[w] = Idle
                  /\ Statement(w, [op |-> "propose"], slots \ chosen)

\* Rows chosen since the DELETE began are left; the new ones wait for nobody.
CommitPropose(w, S) ==
  /\ req[w].op = "propose"
  /\ ahead[w] = {}
  /\ S # {}
  /\ S \cap proposed = {}
  /\ Cardinality(S) >= MinSlots
  /\ slots' = (slots \ (found[w] \ chosen)) \cup S
  /\ proposed' = proposed \cup S
  /\ strays' = IF InterviewLocked(w) THEN strays \cup S ELSE strays
  /\ Finish(w)
  /\ UNCHANGED <<interview, chosen, reminders>>

-----------------------------------------------------------------------------
(* POST /interviews/{id}/slots/{slot}/choose                               *)

PostChoose(w, s) == s \in slots /\ Begin(w, [op |-> "choose", slot |-> s, seen |-> interview])

\* The bulk UPDATE that clears what was chosen.
Clear(w) == /\ req[w].op = "choose"
            /\ Statement(w, [req[w] EXCEPT !.op = "clear"], slots)

\* Fault: a status of before the check constraint.
ConfirmedAt(seen, s) == Written(seen, "confirmed", s, seen.seq)

ScheduledAt(seen, s) == Written(seen, "scheduled", s, seen.seq)

\* Choosing the same time again does not name a column of the interview.
Unnamed(seen, s) == seen.status = "scheduled" /\ seen.at = s

\* Fault: the slots chosen before are not cleared.
ChooseAlso(w) == chosen' = chosen \cup {req[w].slot}

ChooseOnly(w) == chosen' = (chosen \ found[w]) \cup {req[w].slot}

\* A reminder already enqueued under the key is left as it is.
Remind(seq, s) ==
  reminders' = IF reminders[seq] = Unset THEN [reminders EXCEPT ![seq] = s] ELSE reminders

\* Fault: a slot that was deleted meanwhile goes unnoticed.
CommitChooseBlind(w) ==
  /\ req[w].op = "clear"
  /\ ahead[w] = {}
  /\ InterviewLocked(w) => Unnamed(req[w].seen, req[w].slot)
  /\ interview' = ScheduledAt(req[w].seen, req[w].slot)
  /\ chosen' = (chosen \ found[w]) \cup (slots \cap {req[w].slot})
  /\ Remind(req[w].seen.seq, req[w].slot)
  /\ Finish(w)
  /\ UNCHANGED <<slots, proposed, strays>>

CommitChoose(w) ==
  /\ req[w].op = "clear"
  /\ ahead[w] = {}
  /\ InterviewLocked(w) => Unnamed(req[w].seen, req[w].slot)
  /\ req[w].slot \in slots
  /\ interview' = ScheduledAt(req[w].seen, req[w].slot)
  /\ ChooseOnly(w)
  /\ Remind(req[w].seen.seq, req[w].slot)
  /\ Finish(w)
  /\ UNCHANGED <<slots, proposed, strays>>

-----------------------------------------------------------------------------

Next ==
  \E w \in Worker :
    \/ \E status \in Statuses \cup {Same}, at \in {Elsewhere, Same} : PostUpdate(w, status, at)
    \/ CommitUpdate(w)
    \/ Withdraw(w)
    \/ CommitReschedule(w)
    \/ PostPropose(w)
    \/ \E S \in SUBSET Slot : CommitPropose(w, S)
    \/ \E s \in Slot : PostChoose(w, s)
    \/ Clear(w)
    \/ CommitChoose(w)
    \/ Fail(w)

Spec == Init /\ [][Next]_vars

-----------------------------------------------------------------------------

Row == [status : Statuses, at : Times, seq : Sequences]

Updating == [op : {"update", "withdraw"}, seen : Row, status : Statuses, at : Times,
             reopens : BOOLEAN]

Choosing == [op : {"choose", "clear"}, slot : Slot, seen : Row]

Requests == {Idle, [op |-> "propose"]} \cup Updating \cup Choosing

InterviewTypeOK == /\ interview \in Row
                   /\ chosen \subseteq slots
                   /\ slots \cup strays \subseteq proposed
                   /\ proposed \subseteq Slot
                   /\ reminders \in [Sequences -> Times]
                   /\ req \in [Worker -> Requests]
                   /\ found \in [Worker -> SUBSET proposed]
                   /\ ahead \in [Worker -> SUBSET Worker]

OneChosen == \A s, t \in chosen : s = t

(* models_staffing.py, InterviewSlot, "exactly one becomes chosen": with   *)
(* choices, proposals and reschedules overlapping there are never two, for *)
(* which download_ics would have no answer; the rows keep their types.     *)
InterviewsKept == InterviewTypeOK /\ OneChosen

(* workflow.py:481-482: whenever a slot is chosen the candidate has a      *)
(* reminder under the calendar sequence the interview has now, unless the  *)
(* slot was proposed while a reschedule was between its DELETE and its     *)
(* commit, and so outlived its round.                                      *)
ChosenIsReminded == chosen \subseteq strays \/ reminders[interview.seq] # Unset

(* A choice is committed against the round it was made in: the sequence it *)
(* loaded, and keys its reminder with, is still the interview's, with the  *)
(* same exception.                                                         *)
ChoiceOfThisRound ==
  [][\A w \in Worker :
       CommitChoose(w) /\ req[w].slot \notin strays => req[w].seen.seq = interview.seq]_vars

-----------------------------------------------------------------------------
(* What the documents expect and overlapping requests defeat: see the      *)
(* README, 'Where the code and its documents part'.                        *)

(* ics.py:4, SEQUENCE is "bumped on every reschedule" so that calendars    *)
(* take the fresh file as an update: it never falls back.                  *)
SequenceNeverFalls == [][interview'.seq >= interview.seq]_vars

(* workflow.py:361, "old slots wiped".                                     *)
OldSlotsWiped == [][\A w \in Worker : CommitReschedule(w) => slots' = {}]_vars

(* workflow.py:481-482, "a reschedule->re-choose produces a NEW reminder". *)
RemindedOfTheTime == \A s \in chosen : reminders[interview.seq] = s

(* workflow.py:459, "interview becomes scheduled at that slot".            *)
ScheduledAsChosen ==
  [][\A w \in Worker : CommitChoose(w) => interview'.at = req[w].slot]_vars
=============================================================================
