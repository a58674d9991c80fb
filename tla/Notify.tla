------------------------------- MODULE Notify -------------------------------
(***************************************************************************)
(* The notification queue (backend/app/notify.py): one table that is the   *)
(* queue, the delivery record and the ledger of keys already used.  A      *)
(* business operation enqueues inside its own transaction; a sweep, run as *)
(* a one-off task, hands pending rows to their channel and commits what    *)
(* came of all of them at once.                                            *)
(*                                                                         *)
(* Nothing locks a row and no UPDATE is guarded, so sweeps may overlap, a  *)
(* sweep may die after a delivery it never recorded, and the only thing    *)
(* that stops a second row for a key is the UNIQUE constraint.             *)
(***************************************************************************)
EXTENDS Naturals, FiniteSets, SequencesExt

CONSTANTS
  Key,         \* idempotency keys, one per thing to be told
  Templated,   \* keys whose template is known and active
  Registered,  \* keys whose template's channel is in CHANNEL_REGISTRY
  Unconsented, \* marketing keys whose subject has not granted consent
  Worker,      \* threads serving requests, and the dunning sweep
  Sweeper,     \* runs of the send sweep that may overlap
  MaxAttempts, \* NOTIFY_MAX_ATTEMPTS
  Batch        \* most rows one sweep takes (500 in the code)

ASSUME NotifyAssumption == /\ {Templated, Registered, Unconsented} \subseteq SUBSET Key
                           /\ MaxAttempts \in Nat \ {0}
                           /\ Batch \in Nat \ {0}

VARIABLES
  rows,      \* key -> its notifications row
  order,     \* the keys with a row a sweep may take, oldest created_at first
  done,      \* keys whose business operation has committed
  tries,     \* key -> times its channel was called, counted up to MaxAttempts
  delivered, \* keys whose channel has delivered
  req        \* Worker or Sweeper -> what it is doing and what it loaded

vars == <<rows, order, done, tries, delivered, req>>

Idle == [op |-> "idle"]
NoRow == [status |-> "none", attempts |-> 0]

Init == /\ rows = [k \in Key |-> NoRow]
        /\ order = <<>>
        /\ done = {}
        /\ tries = [k \in Key |-> 0]
        /\ delivered = {}
        /\ req = [w \in Worker \cup Sweeper |-> Idle]

Capped(n, most) == IF n < most THEN n ELSE most

Finish(w) == req' = [req EXCEPT ![w] = Idle]

\* The process dies, or the business operation fails after its enqueue.
Crash(w) == /\ req[w] # Idle
            /\ Finish(w)
            /\ UNCHANGED <<rows, order, done, tries, delivered>>

-----------------------------------------------------------------------------
(* A business operation, the first time or retried, and its enqueue.       *)

\* Fault: rows are born with a status before the check constraint.
NewQueued(k) == [status |-> "queued", attempts |-> 0]

NewRow(k) == [status |-> IF k \in Unconsented THEN "skipped" ELSE "pending",
              attempts |-> 0]

\* A retry finds the row, or still no template, and writes nothing: no step.
PostTrigger(w, k) == /\ req[w] = Idle
                     /\ rows[k] = NoRow /\ k \notin done
                     /\ req' = [req EXCEPT ![w] = [op |-> "trigger", key |-> k]]
                     /\ UNCHANGED <<rows, order, done, tries, delivered>>

\* Fault: the row is lost when others are waiting, and nobody is told.
QueuedWhenQuiet(k) == /\ rows' = [rows EXCEPT ![k] = IF \E j \in Key : rows[j].status = "pending"
                                                      THEN @ ELSE NewRow(k)]
                      /\ order' = order

\* created_at is when the transaction began: a row may be older than rows
\* committed before it.
Queued(k) == /\ rows' = [rows EXCEPT ![k] = NewRow(k)]
             /\ IF k \in Registered /\ NewRow(k).status = "pending"
                THEN \E i \in 1 .. Len(order) + 1 : order' = InsertAt(order, i, k)
                ELSE order' = order

\* Without a template the notice is dropped and the operation goes on.  A row
\* inserted meanwhile fails the UNIQUE key, and the whole operation with it.
CommitTrigger(w) ==
  /\ req[w].op = "trigger"
  /\ LET k == req[w].key IN
     /\ IF k \in Templated THEN rows[k] = NoRow /\ Queued(k)
                           ELSE UNCHANGED <<rows, order>>
     /\ done' = done \cup {k}
  /\ Finish(w)
  /\ UNCHANGED <<tries, delivered>>

-----------------------------------------------------------------------------
(* send_sweep                                                              *)

\* Fault: the sweep forgets to ask whether the channel is registered.
PendingAnywhere == {k \in Key : rows[k].status = "pending"}

Pending == {k \in ToSet(order) : rows[k].status = "pending"}

Older(j, k) == \E m, n \in DOMAIN order : m < n /\ order[m] = j /\ order[n] = k

StartSweep(s) ==
  /\ req[s] = Idle
  /\ Pending # {}
  /\ LET batch == {k \in Pending : Cardinality({j \in Pending : Older(j, k)}) < Batch} IN
     req' = [req EXCEPT ![s] = [op |-> "sweep", batch |-> batch, results |-> <<>>,
                                attempts |-> [k \in batch |-> rows[k].attempts]]]
  /\ UNCHANGED <<rows, order, done, tries, delivered>>

\* Rows of its batch a sweep has not tried yet.
Untried(s) == req[s].batch \ DOMAIN req[s].results

\* The channel is called for the oldest of them; its answer is held in memory.
SendNext(s, ok) ==
  /\ req[s].op = "sweep"
  /\ \E k \in Untried(s) :
       /\ ~\E j \in Untried(s) : Older(j, k)
       /\ tries' = [tries EXCEPT ![k] = Capped(@ + 1, MaxAttempts)]
       /\ delivered' = IF ok THEN delivered \cup {k} ELSE delivered
       /\ req' = [req EXCEPT ![s].results = [j \in DOMAIN @ \cup {k} |-> IF j = k THEN ok ELSE @[j]]]
  /\ UNCHANGED <<rows, order, done>>

\* Fault: the last attempt is one too early.
SettledEarly(status, attempts, ok) ==
  IF ok THEN "sent" ELSE IF attempts + 1 >= MaxAttempts THEN "failed" ELSE status

\* Fault: a failed attempt is not counted.
NotCounted(attempts) == attempts

Counted(attempts) == attempts + 1

\* The status a sweep writes; an unchanged one is left out of the UPDATE.
Settled(status, attempts, ok) ==
  IF ok THEN "sent" ELSE IF attempts >= MaxAttempts THEN "failed" ELSE status

\* attempts is overwritten with the loaded count plus one.
CommitSweep(s) ==
  LET n == [k \in req[s].batch |-> Counted(req[s].attempts[k])] IN
  /\ req[s].op = "sweep"
  /\ Untried(s) = {}
  /\ rows' = [k \in Key |->
       IF k \in req[s].batch
       THEN [status |-> Settled(rows[k].status, n[k], req[s].results[k]), attempts |-> n[k]]
       ELSE rows[k]]
  /\ Finish(s)
  /\ UNCHANGED <<order, done, tries, delivered>>

-----------------------------------------------------------------------------

Next == \/ \E w \in Worker : \/ \E k \in Key : PostTrigger(w, k)
                             \/ CommitTrigger(w)
        \/ \E s \in Sweeper : \/ StartSweep(s)
                              \/ \E ok \in BOOLEAN : SendNext(s, ok)
                              \/ CommitSweep(s)
        \/ \E w \in Worker \cup Sweeper : Crash(w)

Spec == Init /\ [][Next]_vars

\* The runner is started every day, and not every sweep dies before its end.
FairSpec == /\ Spec
            /\ SF_vars(\E s \in Sweeper : StartSweep(s))
            /\ SF_vars(\E s \in Sweeper, ok \in BOOLEAN : SendNext(s, ok))
            /\ SF_vars(\E s \in Sweeper : CommitSweep(s))

-----------------------------------------------------------------------------

Statuses == {"none", "pending", "sent", "failed", "skipped"}

NotifyTypeOK ==
  /\ rows \in [Key -> [status : Statuses, attempts : 0 .. MaxAttempts]]
  /\ ToSet(order) \subseteq {k \in Registered : rows[k].status # "none"}
  /\ IsInjective(order)
  /\ done \subseteq Key
  /\ tries \in [Key -> 0 .. MaxAttempts]
  /\ delivered \subseteq Key
  /\ \A w \in Worker : req[w] = Idle \/ req[w].op = "trigger"
  /\ \A s \in Sweeper : req[s] = Idle \/ req[s].op = "sweep"

(* A notice and its cause stand or fall together (enqueue writes inside    *)
(* the caller's transaction): whatever overlaps, fails or is retried, a    *)
(* templated key has its row exactly when its operation has committed.     *)
QueuedWithCause == \A k \in Templated : rows[k] # NoRow <=> k \in done

(* The record never says more than happened, with sweeps overlapping and   *)
(* dying: 'sent' was delivered, 'failed' was really tried NOTIFY_MAX_      *)
(* ATTEMPTS times even where a slower sweep overwrote the count, and no    *)
(* row counts a call that was not made.                                    *)
StatusTells ==
  \A k \in Key : /\ rows[k].status = "sent" => k \in delivered
                 /\ rows[k].status = "failed" => tries[k] >= MaxAttempts
                 /\ rows[k].attempts <= tries[k]

(* A row parked on an unregistered channel is untouched by every sweep, so *)
(* registering the channel later picks it up with all its attempts; a      *)
(* notice skipped for want of consent is never sent.                       *)
ParkedUntouched ==
  \A k \in Key : k \in Unconsented \/ k \notin Registered =>
     tries[k] = 0 /\ rows[k].status \in {"none", "pending", "skipped"}

(* Every pending row of a registered channel is settled in the end: the    *)
(* oldest-first batch is not blocked for ever by rows that keep failing,   *)
(* nor by a second sweep putting back a smaller count of attempts.         *)
Settles == \A k \in Registered : rows[k].status = "pending" ~> rows[k].status # "pending"

-----------------------------------------------------------------------------
(* What the documents expect and overlapping requests defeat: see the      *)
(* README, 'Where the code and its documents part'.                        *)

(* notify.py:19-22: the sweep never re-sends.                              *)
SentOnce ==
  [][\A s \in Sweeper : SendNext(s, TRUE) => delivered' # delivered]_vars

(* models.py, Notification: a row that was sent stays sent.                *)
SentStaysSent == [][\A k \in Key : rows[k].status = "sent" => rows'[k].status = "sent"]_vars
=============================================================================
