------------------------------ MODULE Vendors -------------------------------
(***************************************************************************)
(* What a vendor is owed for one placement: vendors, their contracts and   *)
(* client rates, the candidates they submitted, and the commission the     *)
(* resolver computes from them (backend/app/routers/vendor_mgmt.py and the *)
(* vendor part of workflow.py).                                            *)
(*                                                                         *)
(* An accrual loads, checks and commits while the others change what it    *)
(* loaded; a merge of two candidates repoints the submissions of the loser *)
(* and leaves the placement alone.  The life of the commission once        *)
(* accrued is the subject of Placements.                                   *)
(***************************************************************************)
EXTENDS Naturals, FiniteSets

CONSTANTS
  Vendor,    \* ids of vendors rows
  Candidate, \* candidates rows, all of one tenant
  Job,       \* jobs
  Client,    \* clients whose rate a vendor may have
  Contract,  \* ids of vendor_contracts rows
  Sub,       \* ids of vendor_submissions rows
  Day,       \* the calendar, a set of naturals
  Percentage,   \* commission rates
  Worker     \* threads serving requests

VARIABLES
  vendor,     \* vendors that have a row
  contract,   \* Contract -> the row
  rate,       \* <<Vendor, Client>> -> percent of its vendor_client_rates row
  sub,        \* Sub -> the row
  gone,       \* candidates retired by a merge
  placement,  \* the placements row
  commission, \* its vendor_commissions row
  pointed,    \* Sub -> every candidate the row has named (history)
  req         \* Worker -> the accrual it serves and what it loaded

vars == <<vendor, contract, rate, sub, gone, placement, commission, pointed, req>>

tables == <<vendor, contract, rate, sub, gone, placement, commission, pointed>>

Null == 0              \* the SQL NULL, no day
NoRow == [row |-> FALSE]
Idle == [op |-> "idle"]

Exists(r) == r # NoRow

\* The placement and its fee invoice have been made.  A NULL client is that of
\* a job no client owns.
Init == /\ vendor = {}
        /\ contract = [k \in Contract |-> NoRow]
        /\ rate = [vc \in Vendor \X Client |-> Null]
        /\ sub = [s \in Sub |-> NoRow]
        /\ gone = {}
        /\ placement \in [candidate : Candidate, job : Job, client : Client \cup {Null}, joined : Day]
        /\ commission = NoRow
        /\ pointed = [s \in Sub |-> {}]
        /\ req = [w \in Worker |-> Idle]

Begin(w, r) == req[w] = Idle /\ req' = [req EXCEPT ![w] = r] /\ UNCHANGED tables

Finish(w) == req' = [req EXCEPT ![w] = Idle]

\* A refusal, a broken constraint or a dead worker: nothing is left behind.
Fail(w) == req[w] # Idle /\ Finish(w) /\ UNCHANGED tables

-----------------------------------------------------------------------------
(* Vendors, their contracts and client rates.  What these requests load    *)
(* cannot change what they commit: each is one step.                       *)

\* An update of the vendor changes only what the list of vendors shows.
CreateVendor(v) ==
  /\ v \notin vendor
  /\ vendor' = vendor \cup {v}
  /\ UNCHANGED <<contract, rate, sub, gone, placement, commission, pointed, req>>

\* No handler changes or removes a contract: its status stays 'active'.
CreateContract(k, v, from, until, pct) ==
  /\ v \in vendor
  /\ ~Exists(contract[k])
  /\ until # Null => until >= from
  /\ contract' = [contract EXCEPT ![k] = [row |-> TRUE, vendor |-> v, from |-> from,
                                          until |-> until, percent |-> pct]]
  /\ UNCHANGED <<vendor, rate, sub, gone, placement, commission, pointed, req>>

\* Of two that both found no row, the UNIQUE key refuses the later one.
SetClientRate(v, c, pct) ==
  /\ v \in vendor
  /\ rate' = [rate EXCEPT ![<<v, c>>] = pct]
  /\ UNCHANGED <<vendor, contract, sub, gone, placement, commission, pointed, req>>

-----------------------------------------------------------------------------
(* POST /vendors/{id}/submissions, and the merge that repoints its rows.   *)

\* The candidate was live when it was loaded, and may have been merged since.
CreateSubmission(s, v, c, j) ==
  /\ v \in vendor
  /\ ~Exists(sub[s])
  /\ sub' = [sub EXCEPT ![s] = [row |-> TRUE, vendor |-> v, candidate |-> c, job |-> j]]
  /\ pointed' = [pointed EXCEPT ![s] = {c}]
  /\ UNCHANGED <<vendor, contract, rate, gone, placement, commission, req>>

\* POST /candidates/dup-reviews/{id}/merge.
Merge(loser, survivor) ==
  LET moved == {s \in Sub : Exists(sub[s]) /\ sub[s].candidate = loser} IN
  /\ loser # survivor
  /\ {loser, survivor} \cap gone = {}
  /\ gone' = gone \cup {loser}
  /\ sub' = [s \in Sub |-> IF s \in moved THEN [sub[s] EXCEPT !.candidate = survivor] ELSE sub[s]]
  /\ pointed' = [s \in Sub |-> IF s \in moved THEN pointed[s] \cup {survivor} ELSE pointed[s]]
  /\ UNCHANGED <<vendor, contract, rate, placement, commission, req>>

-----------------------------------------------------------------------------
(* POST /placements/{id}/commission.                                       *)

\* Fault: the candidate's submissions for any job count.
AnyJob(v) == {s \in Sub : /\ Exists(sub[s])
                          /\ sub[s].candidate = placement.candidate
                          /\ v # Null => sub[s].vendor = v}

\* The submissions of the placed candidate by the vendor that is named, if one
\* is, for no job in particular or for the placement's.
Trail(v) == {s \in Sub : /\ Exists(sub[s])
                         /\ sub[s].candidate = placement.candidate
                         /\ v # Null => sub[s].vendor = v
                         /\ sub[s].job \in {Null, placement.job}}

\* Fault: a contract counts from the day it was made, whenever it ends.
StillOpen(v) == {k \in Contract : /\ Exists(contract[k])
                                  /\ contract[k].vendor = v
                                  /\ contract[k].until = Null \/ contract[k].until >= placement.joined}

InForce(v) == {k \in Contract : /\ Exists(contract[k])
                                /\ contract[k].vendor = v
                                /\ contract[k].from <= placement.joined
                                /\ contract[k].until = Null \/ contract[k].until >= placement.joined}

Latest(ks) == {k \in ks : \A l \in ks : contract[l].from <= contract[k].from}

OwnRate(v) == placement.client # Null /\ rate[<<v, placement.client>>] # Null

ByOverride(pct) == {[source |-> "placement_override", percent |-> pct]}

ByClient(v) == {[source |-> "client_rate", percent |-> rate[<<v, placement.client>>]]}

ByContract(v) == {[source |-> "contract_base", percent |-> contract[k].percent] : k \in Latest(InForce(v))}

\* Fault: the contract is asked before the client's rate.
ContractFirst(v, override) ==
  IF override # Null THEN ByOverride(override)
  ELSE IF InForce(v) # {} THEN ByContract(v)
  ELSE IF OwnRate(v) THEN ByClient(v)
  ELSE {}

\* Fault: the percent is kept under the name of the level.
Unsourced(v, override) ==
  IF override # Null THEN {[source |-> "override", percent |-> override]}
  ELSE IF OwnRate(v) THEN ByClient(v)
  ELSE ByContract(v)

\* What the resolver may answer: of two contracts from the same day the query
\* may return either.  No global default is configured: empty is the refusal.
Resolved(v, override) ==
  IF override # Null THEN ByOverride(override)
  ELSE IF OwnRate(v) THEN ByClient(v)
  ELSE ByContract(v)

PostCommission(w, named, override) ==
  /\ ~Exists(commission)
  /\ Trail(named) # {}
  /\ named = Null => \A s, t \in Trail(named) : sub[s].vendor = sub[t].vendor
  /\ \E s \in Trail(named) : \E basis \in Resolved(sub[s].vendor, override) :
       Begin(w, [op |-> "accrue", vendor |-> sub[s].vendor, basis |-> basis,
                 unnamed |-> named = Null])

\* UNIQUE(placement_id)
CommitCommission(w) ==
  /\ req[w].op = "accrue"
  /\ ~Exists(commission)
  /\ commission' = [row |-> TRUE, vendor |-> req[w].vendor,
                    source |-> req[w].basis.source, percent |-> req[w].basis.percent]
  /\ Finish(w)
  /\ UNCHANGED <<vendor, contract, rate, sub, gone, placement, pointed>>

-----------------------------------------------------------------------------

Next ==
  \/ \E v \in Vendor : CreateVendor(v)
  \/ \E k \in Contract, v \in Vendor, from \in Day, until \in Day \cup {Null}, pct \in Percentage :
       CreateContract(k, v, from, until, pct)
  \/ \E v \in Vendor, c \in Client, pct \in Percentage : SetClientRate(v, c, pct)
  \/ \E s \in Sub, v \in Vendor, c \in Candidate, j \in Job \cup {Null} : CreateSubmission(s, v, c, j)
  \/ \E l, s \in Candidate : Merge(l, s)
  \/ \E w \in Worker :
       \/ \E v \in Vendor \cup {Null}, pct \in Percentage \cup {Null} : PostCommission(w, v, pct)
       \/ CommitCommission(w)
       \/ Fail(w)

Spec == Init /\ [][Next]_vars

-----------------------------------------------------------------------------

Contracts == [row : {TRUE}, vendor : Vendor, from : Day, until : Day \cup {Null}, percent : Percentage]

Submissions == [row : {TRUE}, vendor : Vendor, candidate : Candidate, job : Job \cup {Null}]

Commissions == [row : {TRUE}, vendor : Vendor, percent : Percentage,
                source : {"placement_override", "client_rate", "contract_base"}]

VendorsTypeOK == /\ vendor \subseteq Vendor
                 /\ contract \in [Contract -> Contracts \cup {NoRow}]
                 /\ rate \in [Vendor \X Client -> Percentage \cup {Null}]
                 /\ sub \in [Sub -> Submissions \cup {NoRow}]
                 /\ gone \subseteq Candidate
                 /\ commission \in Commissions \cup {NoRow}
                 /\ pointed \in [Sub -> SUBSET Candidate]

(* vendor_mgmt.py:219, "the vendor must have actually submitted this        *)
(* candidate": whoever is owed a commission has a submission, for this job  *)
(* or for none, that named the placed candidate, however candidates were    *)
(* merged meanwhile.                                                        *)
TrailBacked ==
  Exists(commission) =>
    \E s \in Sub : /\ Exists(sub[s])
                   /\ sub[s].vendor = commission.vendor
                   /\ placement.candidate \in pointed[s]
                   /\ sub[s].job \in {Null, placement.job}

(* vendor_mgmt.py:48, "Locks to the state valid AT placement_date": a       *)
(* commission that took a contract's percent has one, of that vendor, whose *)
(* window holds the day of joining.                                         *)
LockedToJoining ==
  Exists(commission) /\ commission.source = "contract_base" =>
    \E k \in Contract : /\ Exists(contract[k])
                        /\ contract[k].vendor = commission.vendor
                        /\ contract[k].percent = commission.percent
                        /\ contract[k].from <= placement.joined
                        /\ contract[k].until # Null => placement.joined <= contract[k].until

SpecificRate ==
  \A w \in Worker : req[w] = Idle /\ req'[w] # Idle =>
     LET v == req'[w].vendor
         won == req'[w].basis
     IN CASE won.source = "client_rate" -> won.percent = rate[<<v, placement.client>>]
          [] won.source = "contract_base" ->
               /\ \A c \in Client : c = placement.client => rate[<<v, c>>] = Null
               /\ \E k \in InForce(v) : /\ contract[k].percent = won.percent
                                       /\ \A l \in InForce(v) : contract[l].from <= contract[k].from
          [] OTHER -> TRUE

(* vendor_mgmt.py:3-6, "most-specific wins": when an accrual reads the       *)
(* rates, no level above the one it takes has a rate for it, and no contract *)
(* of the vendor that is in force began later than the one it takes.         *)
MostSpecificWins == [][SpecificRate]_vars

(* What is always true of commissions and the trails behind them.          *)
CommissionsKept == VendorsTypeOK /\ TrailBacked /\ LockedToJoining

-----------------------------------------------------------------------------
(* What the documents expect and the code, or overlapping requests, defeat:*)
(* see the README, 'Where the code and its documents part'.                *)

(* dup_reviews.py:18, "vendor_submissions.candidate_id is repointed": but  *)
(* placements.candidate_id is not, and the trail of a vendor's own         *)
(* candidate is no longer found.                                           *)
TrailSurvivesMerge ==
  \A s \in Sub :
    Exists(sub[s]) /\ placement.candidate \in pointed[s] /\ sub[s].job \in {Null, placement.job}
      => Trail(sub[s].vendor) # {}

(* vendor_mgmt.py:232, "Multiple vendors submitted - specify vendor_id": a  *)
(* submission that commits after the trail was read escapes the check.      *)
UnnamedIsUnambiguous ==
  [][\A w \in Worker : CommitCommission(w) /\ req[w].unnamed =>
       \A s, t \in Trail(Null) : sub[s].vendor = sub[t].vendor]_vars
=============================================================================
