-------------------------- MODULE InterviewProofs ---------------------------
(***************************************************************************)
(* Theorems about Interviews for any slots, workers and bounds.            *)
(*                                                                         *)
(* That one slot at most is chosen rests on the order in which statements  *)
(* find the slots: of two choices whose slots are still there the later    *)
(* has found the slot of the earlier, so it waits for it and clears it.    *)
(*                                                                         *)
(* That a choice acts in its round rests on Rounds: while the slot a       *)
(* request wants is still there and is no stray, the interview still has   *)
(* the sequence the request loaded.  Only a reschedule writes the          *)
(* sequence; it deletes every slot its DELETE found, what was inserted     *)
(* after that is a stray, and the id of a deleted slot does not come back. *)
(***************************************************************************)
EXTENDS Interviews, TLAPS

Taking == {"withdraw", "propose", "clear"}

\* Who has not begun its statement locks nothing; whoever is waited for holds
\* rows; of two that found the same row one waits for the other.
LockTable ==
  /\ \A w \in Worker : req[w].op \notin Taking => found[w] = {}
  /\ \A v, w \in Worker : v \in ahead[w] => found[v] # {}
  /\ \A v, w \in Worker :
       v # w /\ found[v] \cap found[w] # {} => v \in ahead[w] \/ w \in ahead[v]

Clearing(w) == req[w].op = "clear"

\* What a choice has found: of what is still there, all that those ahead of it
\* found, and all or none of more than another choice; its own slot, and what
\* is chosen, as long as its slot is there.
Views ==
  /\ \A v, w \in Worker : Clearing(w) /\ v \in ahead[w] => found[v] \cap slots \subseteq found[w]
  /\ \A v, w \in Worker :
       Clearing(v) /\ Clearing(w) =>
         found[v] \cap slots \subseteq found[w] \/ found[w] \cap slots \subseteq found[v]
  /\ \A w \in Worker :
       Clearing(w) /\ req[w].slot \in slots => req[w].slot \in found[w] /\ chosen \subseteq found[w]

Rounds ==
  \A w \in Worker :
    req[w].op \in {"choose", "clear"} =>
      /\ req[w].slot \in proposed
      /\ req[w].slot \in slots \ strays => req[w].seen.seq = interview.seq

\* A reschedule under way stays within the bound, and once it has deleted, what
\* it does not know of is a stray.
Reopening ==
  \A w \in Worker :
    /\ req[w].op \in {"update", "withdraw"} /\ req[w].reopens => req[w].seen.seq < MaxSequence
    /\ req[w].op = "withdraw" => req[w].reopens /\ slots \ strays \subseteq found[w]

IInv == /\ InterviewTypeOK
        /\ LockTable
        /\ Views
        /\ OneChosen
        /\ ChosenIsReminded
        /\ Rounds
        /\ Reopening

\* What a request that updates, or chooses, holds.
LEMMA Loaded ==
  ASSUME NEW w \in Worker, InterviewTypeOK
  PROVE  /\ req[w].op \in {"update", "withdraw"} => req[w] \in Updating
         /\ req[w].op \in {"choose", "clear"} => req[w] \in Choosing
  <1>1. req[w] \in Requests
    BY DEF InterviewTypeOK
  <1> QED
    BY <1>1 DEF Idle, Requests, Updating, Choosing

LEMMA InitIInv == Init => IInv
  <1> SUFFICES ASSUME Init PROVE IInv
    OBVIOUS
  <1> USE InterviewAssumption
  <1>1. InterviewTypeOK
    BY DEF Init, InterviewTypeOK, Row, Statuses, Times, Sequences, Requests
  <1>2. LockTable /\ Views
    BY DEF Init, LockTable, Views, Clearing, Idle
  <1>3. OneChosen /\ ChosenIsReminded /\ Rounds /\ Reopening
    BY DEF Init, OneChosen, ChosenIsReminded, Rounds, Reopening, Idle
  <1> QED
    BY <1>1, <1>2, <1>3 DEF IInv

\* A request is loaded: it holds what is stored now and locks nothing.
LEMMA BeginStep ==
  ASSUME IInv, NEW w \in Worker, NEW r \in Updating \cup Choosing,
         r.op \in {"update", "choose"}, r.seen = interview,
         r.op = "choose" => r.slot \in slots,
         r.op = "update" /\ r.reopens => r.seen.seq < MaxSequence,
         Begin(w, r)
  PROVE  IInv'
  <1>1. /\ req' = [req EXCEPT ![w] = r]
        /\ req \in [Worker -> Requests] /\ r \in Requests
        /\ UNCHANGED <<interview, slots, chosen, proposed, strays, reminders, found, ahead>>
    BY DEF Begin, rounds, locks, IInv, InterviewTypeOK, Requests
  <1>2. /\ req'[w] = r
        /\ \A z \in Worker : z # w => req'[z] = req[z]
    BY <1>1
  <1>3. found[w] = {}
    BY DEF Begin, Idle, Taking, IInv, LockTable
  <1>4. InterviewTypeOK'
    BY <1>1 DEF IInv, InterviewTypeOK
  <1>5. OneChosen' /\ ChosenIsReminded'
    BY <1>1 DEF IInv, OneChosen, ChosenIsReminded
  <1>6. LockTable'
    BY <1>1, <1>2, <1>3 DEF IInv, LockTable
  <1>7. Views'
    <2>1. \A z \in Worker : Clearing(z)' => Clearing(z) /\ req'[z] = req[z]
      BY <1>2 DEF Clearing
    <2> QED
      BY <1>1, <2>1 DEF IInv, Views
  <1>8. Rounds'
    <2> SUFFICES ASSUME NEW z \in Worker, req'[z].op \in {"choose", "clear"}
                 PROVE  /\ req'[z].slot \in proposed
                        /\ req'[z].slot \in slots \ strays => req'[z].seen.seq = interview.seq
      BY <1>1 DEF Rounds
    <2>1. CASE z = w
      BY <1>2, <2>1 DEF IInv, InterviewTypeOK
    <2>2. CASE z # w
      BY <1>2, <2>2 DEF IInv, Rounds
    <2> QED
      BY <2>1, <2>2
  <1>9. Reopening'
    BY <1>1, <1>2 DEF IInv, Reopening
  <1> QED
    BY <1>4, <1>5, <1>6, <1>7, <1>8, <1>9 DEF IInv

\* A statement begins on rows that are stored; a choice's on all of them, a
\* reschedule's on all but strays.
LEMMA StatementStep ==
  ASSUME IInv, NEW w \in Worker, NEW r \in Requests, NEW rows \in SUBSET slots,
         req[w].op \notin Taking, r.op \in Taking,
         r.op = "clear" => /\ rows = slots
                           /\ req[w].op = "choose"
                           /\ r.slot = req[w].slot /\ r.seen = req[w].seen,
         r.op = "withdraw" => /\ slots \ strays \subseteq rows
                              /\ r.reopens /\ r.seen.seq < MaxSequence,
         Statement(w, r, rows)
  PROVE  IInv'
  <1>1. /\ req' = [req EXCEPT ![w] = r]
        /\ found' = [found EXCEPT ![w] = rows]
        /\ ahead' = [ahead EXCEPT ![w] = {v \in Worker \ {w} : found[v] \cap rows # {}}]
        /\ UNCHANGED <<interview, slots, chosen, proposed, strays, reminders>>
    BY DEF Statement, rounds
  <1>2. /\ req'[w] = r /\ found'[w] = rows
        /\ ahead'[w] = {v \in Worker \ {w} : found[v] \cap rows # {}}
        /\ \A z \in Worker : z # w => req'[z] = req[z] /\ found'[z] = found[z] /\ ahead'[z] = ahead[z]
    BY <1>1 DEF IInv, InterviewTypeOK
  <1>3. found[w] = {} /\ \A z \in Worker : w \notin ahead[z]
    BY DEF IInv, LockTable
  <1>4. InterviewTypeOK'
    <2>1. rows \subseteq proposed
      BY DEF IInv, InterviewTypeOK
    <2> QED
      BY <1>1, <2>1 DEF IInv, InterviewTypeOK
  <1>5. OneChosen' /\ ChosenIsReminded'
    BY <1>1 DEF IInv, OneChosen, ChosenIsReminded
  <1>6. LockTable'
    <2>1. \A z \in Worker : req'[z].op \notin Taking => found'[z] = {}
      BY <1>2 DEF IInv, LockTable
    <2>2. ASSUME NEW v \in Worker, NEW z \in Worker, v \in ahead'[z]
          PROVE  found'[v] # {}
      <3>1. CASE z = w
        BY <1>2, <2>2, <3>1
      <3>2. CASE z # w
        BY <1>2, <1>3, <2>2, <3>2 DEF IInv, LockTable
      <3> QED
        BY <3>1, <3>2
    <2>3. ASSUME NEW v \in Worker, NEW z \in Worker, v # z, found'[v] \cap found'[z] # {}
          PROVE  v \in ahead'[z] \/ z \in ahead'[v]
      <3>1. CASE z = w
        BY <1>2, <2>3, <3>1
      <3>2. CASE v = w
        BY <1>2, <2>3, <3>2
      <3>3. CASE z # w /\ v # w
        BY <1>2, <2>3, <3>3 DEF IInv, LockTable
      <3> QED
        BY <3>1, <3>2, <3>3
    <2> QED
      BY <2>1, <2>2, <2>3 DEF LockTable
  <1>7. Views'
    <2>1. ASSUME NEW v \in Worker, NEW z \in Worker, req'[z].op = "clear", v \in ahead'[z]
          PROVE  found'[v] \cap slots \subseteq found'[z]
      <3>1. CASE z = w
        BY <1>2, <2>1, <3>1
      <3>2. CASE z # w
        BY <1>2, <1>3, <2>1, <3>2 DEF IInv, Views, Clearing
      <3> QED
        BY <3>1, <3>2
    <2>2. ASSUME NEW v \in Worker, NEW z \in Worker, req'[v].op = "clear", req'[z].op = "clear"
          PROVE  found'[v] \cap slots \subseteq found'[z] \/ found'[z] \cap slots \subseteq found'[v]
      <3>1. CASE z = w \/ v = w
        BY <1>2, <2>2, <3>1
      <3>2. CASE z # w /\ v # w
        BY <1>2, <2>2, <3>2 DEF IInv, Views, Clearing
      <3> QED
        BY <3>1, <3>2
    <2>3. ASSUME NEW z \in Worker, req'[z].op = "clear", req'[z].slot \in slots
          PROVE  req'[z].slot \in found'[z] /\ chosen \subseteq found'[z]
      <3>1. CASE z = w
        BY <1>2, <2>3, <3>1 DEF IInv, InterviewTypeOK
      <3>2. CASE z # w
        BY <1>2, <2>3, <3>2 DEF IInv, Views, Clearing
      <3> QED
        BY <3>1, <3>2
    <2> QED
      BY <1>1, <2>1, <2>2, <2>3 DEF Views, Clearing
  <1>8. Rounds'
    <2> SUFFICES ASSUME NEW z \in Worker, req'[z].op \in {"choose", "clear"}
                 PROVE  /\ req'[z].slot \in proposed
                        /\ req'[z].slot \in slots \ strays => req'[z].seen.seq = interview.seq
      BY <1>1 DEF Rounds
    <2>1. CASE z = w
      <3>1. r.op = "clear"
        BY <1>2, <2>1 DEF Taking
      <3> QED
        BY <1>2, <2>1, <3>1 DEF IInv, Rounds
    <2>2. CASE z # w
      BY <1>2, <2>2 DEF IInv, Rounds
    <2> QED
      BY <2>1, <2>2
  <1>9. Reopening'
    <2> SUFFICES ASSUME NEW z \in Worker
                 PROVE  /\ req'[z].op \in {"update", "withdraw"} /\ req'[z].reopens
                             => req'[z].seen.seq < MaxSequence
                        /\ req'[z].op = "withdraw"
                             => req'[z].reopens /\ slots \ strays \subseteq found'[z]
      BY <1>1 DEF Reopening
    <2>1. CASE z = w
      BY <1>2, <2>1 DEF Taking
    <2>2. CASE z # w
      BY <1>2, <2>2 DEF IInv, Reopening
    <2> QED
      BY <2>1, <2>2
  <1> QED
    BY <1>4, <1>5, <1>6, <1>7, <1>8, <1>9 DEF IInv

\* A transaction that ends leaves the other requests what they hold, and nobody
\* waits for it.
LEMMA Finished ==
  ASSUME IInv, NEW w \in Worker, Finish(w)
  PROVE  /\ req' \in [Worker -> Requests]
         /\ found' \in [Worker -> SUBSET proposed]
         /\ ahead' \in [Worker -> SUBSET Worker]
         /\ \A z \in Worker : req'[z].op # "idle" =>
              z # w /\ req'[z] = req[z] /\ found'[z] = found[z] /\ ahead'[z] \subseteq ahead[z]
         /\ LockTable'
  <1>1. /\ req' = [req EXCEPT ![w] = Idle]
        /\ found' = [found EXCEPT ![w] = {}]
        /\ ahead' = [v \in Worker |-> IF v = w THEN {} ELSE ahead[v] \ {w}]
        /\ req \in [Worker -> Requests]
        /\ found \in [Worker -> SUBSET proposed]
        /\ ahead \in [Worker -> SUBSET Worker]
    BY DEF Finish, IInv, InterviewTypeOK
  <1>2. Idle \in Requests /\ Idle.op = "idle"
    BY DEF Requests, Idle
  <1>3. /\ req' \in [Worker -> Requests]
        /\ found' \in [Worker -> SUBSET proposed]
        /\ ahead' \in [Worker -> SUBSET Worker]
    BY <1>1, <1>2
  <1>4. /\ req'[w].op = "idle" /\ found'[w] = {} /\ ahead'[w] = {}
        /\ \A z \in Worker :
             z # w => req'[z] = req[z] /\ found'[z] = found[z] /\ ahead'[z] = ahead[z] \ {w}
    BY <1>1, <1>2
  <1>5. LockTable'
    BY <1>4 DEF IInv, LockTable
  <1> QED
    BY <1>3, <1>4, <1>5

\* It leaves them their views too, unless it brings back a slot or chooses one
\* that a choice still to be made has not found.
LEMMA FinishedViews ==
  ASSUME IInv, NEW w \in Worker, Finish(w), slots' \cap proposed \subseteq slots,
         \A z \in Worker : z # w /\ Clearing(z) /\ req[z].slot \in slots => chosen' \subseteq found[z]
  PROVE  Views'
  <1>1. \A z \in Worker : req'[z].op # "idle" =>
          z # w /\ req'[z] = req[z] /\ found'[z] = found[z] /\ ahead'[z] \subseteq ahead[z]
    BY Finished
  <1>2. \A z \in Worker : found'[z] \subseteq found[z] /\ found[z] \subseteq proposed
    BY DEF Finish, IInv, InterviewTypeOK
  <1>3. ASSUME NEW v \in Worker, NEW z \in Worker, req'[z].op = "clear", v \in ahead'[z]
        PROVE  found'[v] \cap slots' \subseteq found'[z]
    <2>1. found[v] \cap slots \subseteq found[z]
      BY <1>1, <1>3 DEF IInv, Views, Clearing
    <2> QED
      BY <1>1, <1>2, <1>3, <2>1
  <1>4. ASSUME NEW v \in Worker, NEW z \in Worker, req'[v].op = "clear", req'[z].op = "clear"
        PROVE  \/ found'[v] \cap slots' \subseteq found'[z]
               \/ found'[z] \cap slots' \subseteq found'[v]
    <2>1. found[v] \cap slots \subseteq found[z] \/ found[z] \cap slots \subseteq found[v]
      BY <1>1, <1>4 DEF IInv, Views, Clearing
    <2> QED
      BY <1>1, <1>2, <1>4, <2>1
  <1>5. ASSUME NEW z \in Worker, req'[z].op = "clear", req'[z].slot \in slots'
        PROVE  req'[z].slot \in found'[z] /\ chosen' \subseteq found'[z]
    <2>1. z # w /\ req'[z] = req[z] /\ found'[z] = found[z]
      BY <1>1, <1>5
    <2>2. req[z].slot \in slots
      BY <1>5, <2>1 DEF IInv, Rounds
    <2> QED
      BY <1>5, <2>1, <2>2 DEF IInv, Views, Clearing
  <1> QED
    BY <1>3, <1>4, <1>5 DEF Views, Clearing

LEMMA FailStep ==
  ASSUME IInv, NEW w \in Worker, Fail(w)
  PROVE  IInv'
  <1>1. Finish(w) /\ UNCHANGED <<interview, slots, chosen, proposed, strays, reminders>>
    BY DEF Fail, rounds
  <1>2. /\ req' \in [Worker -> Requests]
        /\ found' \in [Worker -> SUBSET proposed]
        /\ ahead' \in [Worker -> SUBSET Worker]
        /\ \A z \in Worker : req'[z].op # "idle" =>
             z # w /\ req'[z] = req[z] /\ found'[z] = found[z]
        /\ LockTable'
    BY <1>1, Finished
  <1>3. InterviewTypeOK'
    BY <1>1, <1>2 DEF IInv, InterviewTypeOK
  <1>4. OneChosen' /\ ChosenIsReminded'
    BY <1>1 DEF IInv, OneChosen, ChosenIsReminded
  <1>5. Views'
    BY <1>1, FinishedViews DEF IInv, Views
  <1>6. Rounds' /\ Reopening'
    BY <1>1, <1>2 DEF IInv, Rounds, Reopening
  <1> QED
    BY <1>2, <1>3, <1>4, <1>5, <1>6 DEF IInv

LEMMA PostUpdateStep ==
  ASSUME IInv, NEW w \in Worker, NEW status \in Statuses \cup {Same},
         NEW at \in {Elsewhere, Same}, PostUpdate(w, status, at)
  PROVE  IInv'
  <1> DEFINE r == [op |-> "update", seen |-> interview,
                   status |-> IF status = Same THEN interview.status ELSE status,
                   at |-> IF at = Same THEN interview.at ELSE at,
                   reopens |-> status = "rescheduled"]
  <1>1. interview \in Row
    BY DEF IInv, InterviewTypeOK
  <1>2. r \in Updating
    BY <1>1 DEF Updating, Row, Times, Same, Elsewhere
  <1>3. r.op = "update" /\ r.seen = interview /\ (r.reopens => r.seen.seq < MaxSequence)
    BY DEF PostUpdate
  <1>4. Begin(w, r)
    BY DEF PostUpdate
  <1> HIDE DEF r
  <1> QED
    BY <1>2, <1>3, <1>4, BeginStep

LEMMA PostChooseStep ==
  ASSUME IInv, NEW w \in Worker, NEW s \in Slot, PostChoose(w, s)
  PROVE  IInv'
  <1> DEFINE r == [op |-> "choose", slot |-> s, seen |-> interview]
  <1>1. interview \in Row
    BY DEF IInv, InterviewTypeOK
  <1>2. r \in Choosing
    BY <1>1 DEF Choosing
  <1>3. r.op = "choose" /\ r.seen = interview /\ r.slot \in slots
    BY DEF PostChoose
  <1>4. Begin(w, r)
    BY DEF PostChoose
  <1> HIDE DEF r
  <1> QED
    BY <1>2, <1>3, <1>4, BeginStep

LEMMA WithdrawStep ==
  ASSUME IInv, NEW w \in Worker, Withdraw(w)
  PROVE  IInv'
  <1> DEFINE r == [req[w] EXCEPT !.op = "withdraw"]
  <1>1. req[w] \in Updating /\ req[w].op = "update" /\ req[w].reopens
    BY Loaded DEF IInv, Withdraw
  <1>2. r \in Requests
    BY <1>1 DEF Requests, Updating
  <1>3. r.op = "withdraw" /\ r.reopens /\ r.seen.seq < MaxSequence
    BY <1>1 DEF IInv, Reopening, Updating
  <1>4. Statement(w, r, slots)
    BY DEF Withdraw, Round
  <1>5. req[w].op \notin Taking /\ r.op \in Taking
    BY <1>1, <1>3 DEF Taking
  <1> HIDE DEF r
  <1> QED
    BY <1>2, <1>3, <1>4, <1>5, StatementStep

LEMMA PostProposeStep ==
  ASSUME IInv, NEW w \in Worker, PostPropose(w)
  PROVE  IInv'
  <1> DEFINE r == [op |-> "propose"]
  <1>1. r \in Requests /\ r.op = "propose" /\ r.op \in Taking /\ req[w].op \notin Taking
    BY DEF Requests, PostPropose, Taking, Idle
  <1>2. Statement(w, r, slots \ chosen) /\ slots \ chosen \in SUBSET slots
    BY DEF PostPropose
  <1> HIDE DEF r
  <1> QED
    BY <1>1, <1>2, StatementStep

LEMMA ClearStep ==
  ASSUME IInv, NEW w \in Worker, Clear(w)
  PROVE  IInv'
  <1> DEFINE r == [req[w] EXCEPT !.op = "clear"]
  <1>1. req[w] \in Choosing /\ req[w].op = "choose"
    BY Loaded DEF IInv, Clear
  <1>2. r \in Requests
    BY <1>1 DEF Requests, Choosing
  <1>3. r.op = "clear" /\ r.slot = req[w].slot /\ r.seen = req[w].seen
    BY <1>1 DEF Choosing
  <1>4. Statement(w, r, slots)
    BY DEF Clear
  <1>5. req[w].op \notin Taking /\ r.op \in Taking
    BY <1>1, <1>3 DEF Taking
  <1> HIDE DEF r
  <1> QED
    BY <1>1, <1>2, <1>3, <1>4, <1>5, StatementStep

LEMMA WrittenType ==
  ASSUME interview \in Row, NEW seen \in Row, NEW status \in Statuses, NEW at \in Times,
         NEW seq \in Sequences
  PROVE  /\ Written(seen, status, at, seq) \in Row
         /\ Written(seen, status, at, seq).seq = IF seq = seen.seq THEN interview.seq ELSE seq
  BY DEF Written, Column, Row

\* An update that does not reopen leaves the sequence alone.
LEMMA CommitUpdateStep ==
  ASSUME IInv, NEW w \in Worker, CommitUpdate(w)
  PROVE  IInv'
  <1> DEFINE r == req[w]
  <1>1. r \in Updating /\ interview \in Row
    BY Loaded DEF IInv, CommitUpdate, InterviewTypeOK
  <1>2. interview' \in Row /\ interview'.seq = interview.seq
    BY <1>1, WrittenType DEF CommitUpdate, Updating, Row
  <1>3. Finish(w) /\ UNCHANGED <<slots, chosen, proposed, strays, reminders>>
    BY DEF CommitUpdate, rounds
  <1>4. /\ req' \in [Worker -> Requests]
        /\ found' \in [Worker -> SUBSET proposed]
        /\ ahead' \in [Worker -> SUBSET Worker]
        /\ \A z \in Worker : req'[z].op # "idle" =>
             z # w /\ req'[z] = req[z] /\ found'[z] = found[z]
        /\ LockTable'
    BY <1>3, Finished
  <1>5. InterviewTypeOK'
    BY <1>2, <1>3, <1>4 DEF IInv, InterviewTypeOK
  <1>6. OneChosen' /\ ChosenIsReminded'
    BY <1>2, <1>3 DEF IInv, OneChosen, ChosenIsReminded
  <1>7. Views'
    BY <1>3, FinishedViews DEF IInv, Views
  <1>8. Rounds' /\ Reopening'
    BY <1>2, <1>3, <1>4 DEF IInv, Rounds, Reopening
  <1> QED
    BY <1>4, <1>5, <1>6, <1>7, <1>8 DEF IInv

\* A reschedule takes every slot it has found with it: what is left are strays.
LEMMA CommitRescheduleStep ==
  ASSUME IInv, NEW w \in Worker, CommitReschedule(w)
  PROVE  IInv'
  <1> DEFINE r == req[w]
             seq == r.seen.seq + 1
  <1> USE InterviewAssumption
  <1>1. r \in Updating /\ interview \in Row
    BY Loaded DEF IInv, CommitReschedule, InterviewTypeOK
  <1>2. r.seen.seq < MaxSequence /\ slots \ strays \subseteq found[w]
    BY DEF IInv, CommitReschedule, Reopening
  <1>3. seq \in Sequences
    BY <1>1, <1>2 DEF Updating, Row, Sequences
  <1>4. interview' \in Row
    BY <1>1, <1>3, WrittenType DEF CommitReschedule, Updating
  <1>5. /\ slots' = slots \ found[w] /\ chosen' = chosen \ found[w]
        /\ Finish(w) /\ UNCHANGED <<proposed, strays, reminders>>
    BY DEF CommitReschedule
  <1>6. /\ req' \in [Worker -> Requests]
        /\ found' \in [Worker -> SUBSET proposed]
        /\ ahead' \in [Worker -> SUBSET Worker]
        /\ \A z \in Worker : req'[z].op # "idle" =>
             z # w /\ req'[z] = req[z] /\ found'[z] = found[z]
        /\ LockTable'
    BY <1>5, Finished
  <1>7. InterviewTypeOK'
    BY <1>4, <1>5, <1>6 DEF IInv, InterviewTypeOK
  <1>8. OneChosen'
    BY <1>5 DEF IInv, OneChosen
  <1>9. slots' \subseteq strays' /\ chosen' \subseteq slots'
    BY <1>2, <1>5 DEF IInv, InterviewTypeOK
  <1>10. Views'
    BY <1>5, FinishedViews DEF IInv, Views
  <1>11. ChosenIsReminded' /\ Rounds' /\ Reopening'
    BY <1>5, <1>6, <1>9 DEF IInv, ChosenIsReminded, Rounds, Reopening
  <1> QED
    BY <1>6, <1>7, <1>8, <1>10, <1>11 DEF IInv

\* New slots have new ids, so no pending choice is of one of them.
LEMMA CommitProposeStep ==
  ASSUME IInv, NEW w \in Worker, NEW S \in SUBSET Slot, CommitPropose(w, S)
  PROVE  IInv'
  <1>1. /\ slots' = (slots \ (found[w] \ chosen)) \cup S
        /\ proposed' = proposed \cup S
        /\ S \cap proposed = {}
        /\ strays' = IF InterviewLocked(w) THEN strays \cup S ELSE strays
        /\ Finish(w) /\ UNCHANGED <<interview, chosen, reminders>>
    BY DEF CommitPropose
  <1>2. /\ req' \in [Worker -> Requests]
        /\ found' \in [Worker -> SUBSET proposed]
        /\ ahead' \in [Worker -> SUBSET Worker]
        /\ \A z \in Worker : req'[z].op # "idle" =>
             z # w /\ req'[z] = req[z] /\ found'[z] = found[z]
        /\ LockTable'
    BY <1>1, Finished
  <1>3. slots' \cap proposed \subseteq slots
    BY <1>1
  <1>4. InterviewTypeOK'
    BY <1>1, <1>2 DEF IInv, InterviewTypeOK
  <1>5. OneChosen' /\ ChosenIsReminded'
    BY <1>1 DEF IInv, OneChosen, ChosenIsReminded
  <1>6. Views'
    BY <1>1, <1>3, FinishedViews DEF IInv, Views
  <1>7. Rounds'
    <2>1. \A s \in proposed : s \in slots' \ strays' => s \in slots \ strays
      BY <1>1
    <2> QED
      BY <1>1, <1>2, <2>1 DEF IInv, Rounds
  <1>8. Reopening'
    <2> SUFFICES ASSUME NEW z \in Worker
                 PROVE  /\ req'[z].op \in {"update", "withdraw"} /\ req'[z].reopens
                             => req'[z].seen.seq < MaxSequence
                        /\ req'[z].op = "withdraw"
                             => req'[z].reopens /\ slots' \ strays' \subseteq found'[z]
      BY DEF Reopening
    <2>1. req'[z].op \in {"update", "withdraw"} => z # w /\ req'[z] = req[z] /\ found'[z] = found[z]
      BY <1>2
    <2>2. CASE req'[z].op = "withdraw"
      <3>1. InterviewLocked(w)
        BY <2>1, <2>2 DEF InterviewLocked
      <3> QED
        BY <1>1, <2>1, <2>2, <3>1 DEF IInv, Reopening
    <2>3. CASE req'[z].op # "withdraw"
      BY <2>1, <2>3 DEF IInv, Reopening
    <2> QED
      BY <2>2, <2>3
  <1> QED
    BY <1>2, <1>4, <1>5, <1>6, <1>7, <1>8 DEF IInv

\* Another choice whose slot is still there has found the slot that is chosen.
LEMMA ChoiceIsFound ==
  ASSUME IInv, NEW w \in Worker, CommitChoose(w), NEW z \in Worker, z # w, Clearing(z),
         req[z].slot \in slots
  PROVE  req[w].slot \in found[z]
  <1>1. /\ Clearing(w) /\ ahead[w] = {}
        /\ req[w].slot \in slots \cap found[w]
        /\ req[z].slot \in slots \cap found[z]
    BY DEF IInv, CommitChoose, Views, Clearing
  <1>2. CASE w \in ahead[z]
    BY <1>1, <1>2 DEF IInv, Views
  <1>3. CASE w \notin ahead[z]
    <2>1. found[w] \cap found[z] = {}
      BY <1>1, <1>3 DEF IInv, LockTable
    <2>2. found[w] \cap slots \subseteq found[z] \/ found[z] \cap slots \subseteq found[w]
      BY <1>1 DEF IInv, Views
    <2> QED
      BY <1>1, <2>1, <2>2
  <1> QED
    BY <1>2, <1>3

\* A choice clears all that is chosen, acts under the sequence it loaded if its
\* slot is no stray, and reminds under it.
LEMMA CommitChooseStep ==
  ASSUME IInv, NEW w \in Worker, CommitChoose(w)
  PROVE  IInv'
  <1> DEFINE r == req[w]
  <1>1. r \in Choosing /\ interview \in Row
    BY Loaded DEF IInv, CommitChoose, InterviewTypeOK
  <1>2. interview' \in Row /\ interview'.seq = interview.seq
    BY <1>1, WrittenType DEF CommitChoose, ScheduledAt, Choosing, Row, Statuses, Times
  <1>3. Finish(w) /\ UNCHANGED <<slots, proposed, strays>>
    BY DEF CommitChoose
  <1>4. /\ req' \in [Worker -> Requests]
        /\ found' \in [Worker -> SUBSET proposed]
        /\ ahead' \in [Worker -> SUBSET Worker]
        /\ \A z \in Worker : req'[z].op # "idle" =>
             z # w /\ req'[z] = req[z] /\ found'[z] = found[z]
        /\ LockTable'
    BY <1>3, Finished
  <1>5. chosen' = {r.slot} /\ r.slot \in slots
    BY DEF IInv, CommitChoose, ChooseOnly, Views, Clearing
  <1>6. reminders' \in [Sequences -> Times] /\ reminders'[r.seen.seq] # Unset
    <2>1. r.seen.seq \in Sequences /\ r.slot \in Slot
      BY <1>1 DEF Row, Choosing
    <2>2. r.slot # Unset
      BY <2>1, InterviewAssumption
    <2> QED
      BY <2>1, <2>2 DEF CommitChoose, Remind, IInv, InterviewTypeOK, Times
  <1>7. InterviewTypeOK'
    BY <1>2, <1>3, <1>4, <1>5, <1>6 DEF IInv, InterviewTypeOK
  <1>8. OneChosen'
    BY <1>5 DEF OneChosen
  <1>9. ChosenIsReminded'
    <2>1. r.slot \notin strays => r.seen.seq = interview.seq
      BY <1>5 DEF IInv, CommitChoose, Rounds
    <2> QED
      BY <1>2, <1>3, <1>5, <1>6, <2>1 DEF ChosenIsReminded
  <1>10. Views'
    BY <1>3, <1>5, ChoiceIsFound, FinishedViews
  <1>11. Rounds' /\ Reopening'
    BY <1>2, <1>3, <1>4 DEF IInv, Rounds, Reopening
  <1> QED
    BY <1>4, <1>7, <1>8, <1>9, <1>10, <1>11 DEF IInv

LEMMA StutterStep ==
  ASSUME IInv, UNCHANGED vars
  PROVE  IInv'
  BY DEF IInv, vars, InterviewTypeOK, LockTable, Views, Clearing, OneChosen, ChosenIsReminded,
         Rounds, Reopening

LEMMA IInvStep ==
  ASSUME IInv, [Next]_vars
  PROVE  IInv'
  BY PostUpdateStep, CommitUpdateStep, WithdrawStep, CommitRescheduleStep, PostProposeStep,
     CommitProposeStep, PostChooseStep, ClearStep, CommitChooseStep, FailStep, StutterStep DEF Next

LEMMA Invariance == Spec => []IInv
  BY InitIInv, IInvStep, PTL DEF Spec

\* However choices, proposals and reschedules overlap, the rows keep their types
\* and an interview never has two chosen slots (choose_slot, download_ics).
THEOREM InterviewsHold == Spec => []InterviewsKept
  <1>1. IInv => InterviewsKept
    BY DEF IInv, InterviewsKept
  <1> QED
    BY <1>1, Invariance, PTL

\* A chosen slot that was not proposed beside a reschedule has a reminder under
\* the sequence the interview has now (choose_slot, update_interview).
THEOREM ChosenAreReminded == Spec => []ChosenIsReminded
  <1>1. IInv => ChosenIsReminded
    BY DEF IInv
  <1> QED
    BY <1>1, Invariance, PTL

\* Every choice of such a slot is committed under the sequence it loaded.
THEOREM ChoicesInTheirRound == Spec => ChoiceOfThisRound
  <1>1. ASSUME IInv, [Next]_vars
        PROVE  [\A w \in Worker :
                  CommitChoose(w) /\ req[w].slot \notin strays => req[w].seen.seq = interview.seq]_vars
    BY <1>1 DEF IInv, Rounds, CommitChoose
  <1> QED
    BY <1>1, Invariance, PTL DEF Spec, ChoiceOfThisRound
=============================================================================
