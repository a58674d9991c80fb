------------------------------ MODULE Reports -------------------------------
(***************************************************************************)
(* The founder's figures: computed on read and kept in Redis for five      *)
(* minutes (backend/app/reporting.py), every access audited                *)
(* (routers/founder.py).                                                   *)
(*                                                                         *)
(* A metric of a tenant is the number of facts committed for it; a read    *)
(* looks into the cache, computes, stores, audits and answers in steps of  *)
(* its own.  What the guard against personal data lets through is not      *)
(* modelled: figures are numbers.                                          *)
(***************************************************************************)
EXTENDS Integers

CONSTANTS
  Tenant,   \* tenants
  Worker,   \* threads serving requests
  MaxFacts  \* bound on the facts committed for a tenant

VARIABLES
  facts,   \* Tenant -> how many facts are committed
  cache,   \* what Redis holds: a slot -> None or figures
  last,    \* what is true of the last answer (history)
  req      \* Worker -> the read it serves

vars == <<facts, cache, last, req>>

None == [n |-> -1]
Idle == [op |-> "idle"]

\* Fault: the key does not name the tenant.
SharedKey(t) == CHOOSE u \in Tenant : TRUE

\* cache_key, for one metric and range.
CacheKey(t) == t

Figures(t) == [of |-> t, n |-> facts[t]]

Init == /\ facts = [t \in Tenant |-> 0]
        /\ cache = [t \in Tenant |-> None]
        /\ last = [own |-> TRUE, fresh |-> TRUE, audited |-> TRUE]
        /\ req = [w \in Worker |-> Idle]

\* Anything the figures count is committed.
CommitFact(t) == /\ facts[t] < MaxFacts
                 /\ facts' = [facts EXCEPT ![t] = @ + 1]
                 /\ UNCHANGED <<cache, last, req>>

-----------------------------------------------------------------------------
(* GET /dashboard/founder/overview, trends and by-bu; export.              *)

Moves(w, r) == req' = [req EXCEPT ![w] = r]

\* How a read goes on: with what it found, or computing, then storing or not;
\* of a refresh, how many facts there were when it was asked.
Reading(t, op, keep, refresh, found) ==
  [op |-> op, of |-> t, keep |-> keep, refresh |-> refresh, found |-> found,
   asked |-> IF refresh THEN facts[t] ELSE 0, audited |-> FALSE]

\* Fault: a hit needs no audit.
AnsweredAtOnce == "reply"

AuditedFirst == "audit"

\* The cache has the figures.
ReadHit(w, t) ==
  /\ req[w] = Idle
  /\ cache[CacheKey(t)] # None
  /\ Moves(w, Reading(t, AuditedFirst, FALSE, FALSE, cache[CacheKey(t)]))
  /\ UNCHANGED <<facts, cache, last>>

ReadMiss(w, t) ==
  /\ req[w] = Idle
  /\ cache[CacheKey(t)] = None
  /\ Moves(w, Reading(t, "compute", TRUE, FALSE, None))
  /\ UNCHANGED <<facts, cache, last>>

\* Fault: the entry is deleted, but what it held is answered.
ReadBeforeDelete(t) == IF cache[CacheKey(t)] = None THEN Reading(t, "compute", TRUE, TRUE, None)
                       ELSE Reading(t, "audit", FALSE, TRUE, cache[CacheKey(t)])

Recomputed(t) == Reading(t, "compute", TRUE, TRUE, None)

\* refresh=1: the entry is deleted.
ReadRefresh(w, t) ==
  /\ req[w] = Idle
  /\ cache' = [cache EXCEPT ![CacheKey(t)] = None]
  /\ Moves(w, Recomputed(t))
  /\ UNCHANGED <<facts, last>>

\* Redis is down; and the export, which does not ask it.
ReadUncached(w, t) ==
  /\ req[w] = Idle
  /\ Moves(w, Reading(t, "compute", FALSE, TRUE, None))
  /\ UNCHANGED <<facts, cache, last>>

Compute(w) ==
  /\ req[w].op = "compute"
  /\ Moves(w, [req[w] EXCEPT !.op = IF req[w].keep THEN "store" ELSE "audit",
                             !.found = Figures(req[w].of)])
  /\ UNCHANGED <<facts, cache, last>>

\* Storing may fail without a word.
Store(w) ==
  /\ req[w].op = "store"
  /\ cache' \in {cache, [cache EXCEPT ![CacheKey(req[w].of)] = req[w].found]}
  /\ Moves(w, [req[w] EXCEPT !.op = "audit", !.keep = FALSE])
  /\ UNCHANGED <<facts, last>>

Audit(w) == /\ req[w].op = "audit"
            /\ Moves(w, [req[w] EXCEPT !.op = "reply", !.audited = TRUE])
            /\ UNCHANGED <<facts, cache, last>>

Reply(w) == /\ req[w].op = "reply"
            /\ last' = [own |-> /\ req[w].found.of = req[w].of
                                /\ req[w].found.n <= facts[req[w].of],
                        fresh |-> req[w].refresh => req[w].found.n >= req[w].asked,
                        audited |-> req[w].audited]
            /\ Moves(w, Idle)
            /\ UNCHANGED <<facts, cache>>

Fail(w) == /\ req[w] # Idle
           /\ Moves(w, Idle)
           /\ UNCHANGED <<facts, cache, last>>

\* Fault: the entry is stored without a lifetime.
Undying(t) == FALSE

Due(t) == cache[t] # None

\* The five minutes have passed.
Expire(t) == /\ Due(t)
             /\ cache' = [cache EXCEPT ![t] = None]
             /\ UNCHANGED <<facts, last, req>>

-----------------------------------------------------------------------------

Step(w) == Compute(w) \/ Store(w) \/ Audit(w) \/ Reply(w)

Next == \/ \E t \in Tenant : CommitFact(t) \/ Expire(t)
        \/ \E w \in Worker :
             \/ \E t \in Tenant : \/ ReadHit(w, t) \/ ReadMiss(w, t)
                                  \/ ReadRefresh(w, t) \/ ReadUncached(w, t)
             \/ Step(w)
             \/ Fail(w)

(* Requests are served to their end and Redis expires what it holds;       *)
(* nobody has to read.                                                     *)
Fairness == /\ \A w \in Worker : WF_vars(Step(w))
            /\ \A t \in Tenant : WF_vars(Expire(t))

Spec == Init /\ [][Next]_vars /\ Fairness

-----------------------------------------------------------------------------

FiguresOf(t) == [of : {t}, n : 0 .. MaxFacts]

ReportsTypeOK ==
  /\ facts \in [Tenant -> 0 .. MaxFacts]
  /\ \A t \in Tenant : cache[t] \in {None} \cup UNION {FiguresOf(u) : u \in Tenant}
  /\ \A w \in Worker : req[w] # Idle =>
       req[w].op \in {"compute", "store", "audit", "reply"} /\ req[w].of \in Tenant

(* reporting.py:17-18, "nothing here can aggregate across tenants": what   *)
(* is answered, from the cache or not, is the tenant's own and was true.   *)
OwnFigures == last.own

(* reporting.py:14-15, "?refresh=1 deletes the key and recomputes": its    *)
(* answer counts every fact committed before it was asked, whatever other  *)
(* reads store meanwhile.                                                  *)
RefreshIsFresh == last.fresh

(* founder.py:13-14, "EVERY access writes an audit row": a hit, a refresh  *)
(* and an export are all on record before they are answered.               *)
NothingUnaudited == last.audited

(* Once nothing is committed any more, the cache gets to hold nothing but  *)
(* the current figures, for good: stale ones expire, and no slow read puts *)
(* them back for ever.                                                     *)
FiguresConverge == <>[](\A t \in Tenant : cache[t] \in {None, Figures(t)})

(* What is always true of a report that was answered.                      *)
ReportsKept == ReportsTypeOK /\ OwnFigures /\ RefreshIsFresh /\ NothingUnaudited

-----------------------------------------------------------------------------
(* What the documents expect and overlapping requests defeat: see the      *)
(* README, 'Where the code and its documents part'.                        *)

(* A refreshed entry is not replaced by older figures: a slow read stores  *)
(* what it computed before the refresh.                                    *)
NeverOlder ==
  [][\A t \in Tenant : cache[t] = None \/ cache'[t] = None \/ cache'[t].n >= cache[t].n]_cache
=============================================================================
