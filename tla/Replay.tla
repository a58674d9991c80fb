------------------------------- MODULE Replay -------------------------------
(***************************************************************************)
(* Idempotency-Key on the endpoints that create rows (backend/app/         *)
(* idempotency.py and, as the example, POST /clients in routers/           *)
(* staffing.py): look the key up, create and commit, store the answer.     *)
(*                                                                         *)
(* The answers are kept in Redis, which may be down, lose a write or       *)
(* expire an entry; the row is committed before its answer is stored.      *)
(***************************************************************************)
EXTENDS FiniteSets

CONSTANTS
  Tenant, \* tenants
  Key,    \* Idempotency-Key headers: several tenants may use one
  Row,    \* ids of rows
  Worker  \* threads serving requests

VARIABLES
  row,     \* Row -> NoRow, or the row and the key it was asked for with (history)
  cache,   \* what Redis holds: a slot -> Null or the row answered
  answers, \* what clients were answered: tenant and row (history)
  excused, \* slots whose protection was interrupted (history)
  req      \* Worker -> the request it serves

vars == <<row, cache, answers, excused, req>>

Null == "null"
NoRow == [row |-> FALSE]
Idle == [op |-> "idle"]

\* Fault: the key alone names the answer.
SharedSlot(t, k) == <<Null, k>>

\* _k: the tenant is part of the name.
Slot(t, k) == <<t, k>>

Slots == (Tenant \cup {Null}) \X Key

Init == /\ row = [x \in Row |-> NoRow]
        /\ cache = [s \in Slots |-> Null]
        /\ answers = {}
        /\ excused = {}
        /\ req = [w \in Worker |-> Idle]

Finish(w) == req' = [req EXCEPT ![w] = Idle]

\* Requests that are being served for the slot.
Serving(s) == {w \in Worker : req[w] # Idle /\ Slot(req[w].tenant, req[w].key) = s}

-----------------------------------------------------------------------------

\* get_cached, answered.
Hit(w, t, k) == /\ req[w] = Idle
                /\ cache[Slot(t, k)] # Null
                /\ answers' = answers \cup {[tenant |-> t, row |-> cache[Slot(t, k)]]}
                /\ UNCHANGED <<row, cache, excused, req>>

\* Fault: the lookup is left out.
Unasked(t, k) == TRUE

Missed(t, k) == cache[Slot(t, k)] = Null

\* get_cached, not answered: this request will create.
Miss(w, t, k) ==
  /\ req[w] = Idle
  /\ Missed(t, k)
  /\ req' = [req EXCEPT ![w] = [op |-> "create", tenant |-> t, key |-> k]]
  /\ excused' = IF Serving(Slot(t, k)) = {} THEN excused ELSE excused \cup {<<t, k>>}
  /\ UNCHANGED <<row, cache, answers>>

\* Redis is down: "the write proceeds".
Unreachable(w, t, k) ==
  /\ req[w] = Idle
  /\ req' = [req EXCEPT ![w] = [op |-> "create", tenant |-> t, key |-> k]]
  /\ excused' = excused \cup {<<t, k>>}
  /\ UNCHANGED <<row, cache, answers>>

\* Fault: the answer is stored before the row is committed.
BeforeCommit(w, x) == /\ cache' = [cache EXCEPT ![Slot(req[w].tenant, req[w].key)] = x]
                      /\ \/ row' = [row EXCEPT ![x] = [row |-> TRUE, tenant |-> req[w].tenant,
                                                      key |-> req[w].key]]
                         \/ UNCHANGED row

Committed(w, x) == /\ row' = [row EXCEPT ![x] = [row |-> TRUE, tenant |-> req[w].tenant,
                                                key |-> req[w].key]]
                   /\ UNCHANGED cache

Create(w, x) == /\ req[w].op = "create"
                /\ row[x] = NoRow
                /\ Committed(w, x)
                /\ req' = [req EXCEPT ![w] = [op |-> "store", tenant |-> req[w].tenant,
                                              key |-> req[w].key, made |-> x]]
                /\ UNCHANGED <<answers, excused>>

\* Fault: the last answer wins.
LastWins(s, x) == [cache EXCEPT ![s] = x]

\* SET NX: the first answer stays.
FirstWins(s, x) == IF cache[s] = Null THEN [cache EXCEPT ![s] = x] ELSE cache

\* store and the answer; storing may fail without a word.
Store(w) ==
  LET r == req[w] IN
  /\ r.op = "store"
  /\ \/ cache' = FirstWins(Slot(r.tenant, r.key), r.made) /\ UNCHANGED excused
     \/ UNCHANGED cache /\ excused' = excused \cup {<<r.tenant, r.key>>}
  /\ answers' = answers \cup {[tenant |-> r.tenant, row |-> r.made]}
  /\ Finish(w)
  /\ UNCHANGED row

\* A dead worker; a row it committed stays.
Fail(w) == /\ req[w] # Idle
           /\ excused' = excused \cup {<<req[w].tenant, req[w].key>>}
           /\ Finish(w)
           /\ UNCHANGED <<row, cache, answers>>

\* 24 hours have passed, or Redis evicts the entry.
Expire(t, k) == /\ cache[Slot(t, k)] # Null
                /\ cache' = [cache EXCEPT ![Slot(t, k)] = Null]
                /\ excused' = excused \cup {<<t, k>>}
                /\ UNCHANGED <<row, answers, req>>

-----------------------------------------------------------------------------

Next == \/ \E w \in Worker :
             \/ \E t \in Tenant, k \in Key : Hit(w, t, k) \/ Miss(w, t, k) \/ Unreachable(w, t, k)
             \/ \E x \in Row : Create(w, x)
             \/ Store(w)
             \/ Fail(w)
        \/ \E t \in Tenant, k \in Key : Expire(t, k)

Spec == Init /\ [][Next]_vars

-----------------------------------------------------------------------------

ReplayTypeOK ==
  /\ row \in [Row -> {NoRow} \cup [row : {TRUE}, tenant : Tenant, key : Key]]
  /\ cache \in [Slots -> Row \cup {Null}]
  /\ answers \subseteq [tenant : Tenant, row : Row]
  /\ excused \subseteq Tenant \X Key
  /\ req \in [Worker -> {Idle} \cup [op : {"create"}, tenant : Tenant, key : Key]
                         \cup [op : {"store"}, tenant : Tenant, key : Key, made : Row]]

(* idempotency.py:3-5: whoever is answered, from the cache or not, is told *)
(* of a row of his own tenant that is committed, whatever dies or expires. *)
AnswersAreRows ==
  \A a \in answers : row[a.row] # NoRow /\ row[a.row].tenant = a.tenant

(* "returns the same result instead of creating a duplicate": one key has  *)
(* made two rows only if two requests with it overlapped, a worker died,   *)
(* or Redis was down, lost the answer or let it expire.                    *)
OnceUnlessExcused ==
  \A x, y \in Row :
    /\ x # y
    /\ row[x] # NoRow
    /\ row[x] = row[y]
    => <<row[x].tenant, row[x].key>> \in excused

StayingAnswer ==
  \A s \in Slots : cache[s] # Null => cache'[s] \in {cache[s], Null}

(* "the first successful create is cached": an answer, once stored, is     *)
(* replaced by no other before it has expired.                             *)
FirstAnswerStays == [][StayingAnswer]_vars

(* What is always true of rows and the answers cached for them.            *)
AnswersKept == ReplayTypeOK /\ AnswersAreRows /\ OnceUnlessExcused

-----------------------------------------------------------------------------
(* What the documents expect and overlapping requests defeat: see the      *)
(* README, 'Where the code and its documents part'.                        *)

(* timeline.py:5-7, the key "therefore covers it, ... it never             *)
(* double-appends": two requests that overlap both miss.                   *)
OncePerKey == \A x, y \in Row : row[x] # NoRow /\ row[x] = row[y] => x = y
=============================================================================
