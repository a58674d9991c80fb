------------------------------- MODULE Leads -------------------------------
(***************************************************************************)
(* One lead of the staffing unit, from its first contact to the client it  *)
(* becomes (backend/app/routers/crm.py).                                   *)
(*                                                                         *)
(* Handlers load the lead, check it, then commit an UPDATE by primary key  *)
(* that names only the columns whose value differs from the loaded one.    *)
(* The hand-logged activities, which nothing reads back, are left out; the *)
(* contact columns are one.                                                *)
(***************************************************************************)
EXTENDS Integers, FiniteSets

CONSTANTS
  Account, \* ids of clients rows that conversions may create
  Worker   \* threads serving requests

VARIABLES
  lead,   \* the leads row
  trail,  \* audit_logs: the moves lead.stage_change recorded, <<before, after>>
  client, \* Account -> the clients row a conversion created, with its job or not
  req     \* Worker -> the request it serves and the row it loaded

vars == <<lead, trail, client, req>>

Null == "null"         \* the SQL NULL
Idle == [op |-> "idle"]
NoRow == [row |-> FALSE]

LEAD_STAGES == {"new", "qualified", "proposal", "negotiation", "won", "lost"}

LEAD_TRANSITIONS == [s \in LEAD_STAGES |->
  CASE s = "new" -> {"qualified"}
    [] s = "qualified" -> {"proposal"}
    [] s = "proposal" -> {"negotiation"}
    [] s = "negotiation" -> {"won"}
    [] OTHER -> {}]

TERMINAL == {"won", "lost"}

\* POST /leads has been answered.
Init == /\ lead = [stage |-> "new", reason |-> Null, converted |-> Null, contact |-> "first"]
        /\ trail = {}
        /\ client = [c \in Account |-> NoRow]
        /\ req = [w \in Worker |-> Idle]

Exists(r) == r # NoRow

Begin(w, r) == req[w] = Idle /\ req' = [req EXCEPT ![w] = r] /\ UNCHANGED <<lead, trail, client>>

Finish(w) == req' = [req EXCEPT ![w] = Idle]

\* A dead worker: nothing is left behind.
Fail(w) == req[w] # Idle /\ Finish(w) /\ UNCHANGED <<lead, trail, client>>

\* Fault: the UPDATE names every column of the row.
Overwritten(r) == r.wanted

\* What an UPDATE leaves: a column that was not changed is not named.
Written(r) == [f \in DOMAIN lead |-> IF r.wanted[f] = r.seen[f] THEN lead[f] ELSE r.wanted[f]]

-----------------------------------------------------------------------------
(* PATCH /leads/{id} and POST /leads/{id}/transition.                      *)

PatchLead(w, contact) ==
  Begin(w, [op |-> "patch", seen |-> lead, wanted |-> [lead EXCEPT !.contact = contact]])

CommitPatch(w) == /\ req[w].op = "patch"
                  /\ lead' = Written(req[w])
                  /\ Finish(w)
                  /\ UNCHANGED <<trail, client>>

\* Fault: the map is not consulted: any open stage may be next.
AnyForward(to) == lead.stage \notin TERMINAL /\ to \in LEAD_STAGES \ {"new", "lost", lead.stage}

Forward(to) == lead.stage \notin TERMINAL /\ to \in LEAD_TRANSITIONS[lead.stage]

PostForward(w, to) ==
  /\ Forward(to)
  /\ Begin(w, [op |-> "move", seen |-> lead, wanted |-> [lead EXCEPT !.stage = to]])

\* Fault: the reason is written to the activity alone.
LostSilently(reason) == [lead EXCEPT !.stage = "lost"]

\* Fault: the stage is stored as closed, the word the map does not know.
ClosedLead(reason) == [lead EXCEPT !.stage = "closed", !.reason = reason]

Lost(reason) == [lead EXCEPT !.stage = "lost", !.reason = reason]

\* A blank reason is refused.
PostLost(w, reason) == /\ lead.stage \notin TERMINAL
                       /\ Begin(w, [op |-> "move", seen |-> lead, wanted |-> Lost(reason)])

CommitMove(w) == LET r == req[w] IN
                 /\ r.op = "move"
                 /\ lead' = Written(r)
                 /\ trail' = trail \cup {<<r.seen.stage, r.wanted.stage>>}
                 /\ Finish(w)
                 /\ UNCHANGED client

-----------------------------------------------------------------------------
(* PATCH /leads/{id}/convert.  A lead converted before is answered from    *)
(* its row, and nothing changes.                                           *)

\* Fault: the guard on the client it already has is forgotten.
WonAlone == lead.stage = "won"

Convertible == lead.converted = Null /\ lead.stage = "won"

PostConvert(w, intake) ==
  Convertible /\ Begin(w, [op |-> "convert", seen |-> lead, intake |-> intake])

\* Clients take their ids in order.
CommitConvert(w) ==
  LET r == req[w]
      c == CHOOSE d \in Account : ~Exists(client[d]) IN
  /\ r.op = "convert"
  /\ \E d \in Account : ~Exists(client[d])
  /\ client' = [client EXCEPT ![c] = [row |-> TRUE, intake |-> r.intake]]
  /\ lead' = [lead EXCEPT !.converted = c]
  /\ Finish(w)
  /\ UNCHANGED trail

-----------------------------------------------------------------------------

Next == \E w \in Worker :
          \/ \E contact \in {"first", "second"} : PatchLead(w, contact)
          \/ CommitPatch(w)
          \/ \E to \in LEAD_STAGES : PostForward(w, to)
          \/ \E reason \in {"price", "timing"} : PostLost(w, reason)
          \/ CommitMove(w)
          \/ \E intake \in BOOLEAN : PostConvert(w, intake)
          \/ CommitConvert(w)
          \/ Fail(w)

Spec == Init /\ [][Next]_vars

-----------------------------------------------------------------------------

LeadsTypeOK == /\ lead \in [stage : LEAD_STAGES, reason : {Null, "price", "timing"},
                            converted : Account \cup {Null}, contact : {"first", "second"}]
               /\ trail \subseteq LEAD_STAGES \X LEAD_STAGES
               /\ client \in [Account -> [row : {TRUE}, intake : BOOLEAN] \cup {NoRow}]

Created == {c \in Account : Exists(client[c])}

\* The whole forward path, each move recorded.
Earned == {<<"new", "qualified">>, <<"qualified", "proposal">>,
           <<"proposal", "negotiation">>, <<"negotiation", "won">>} \subseteq trail

(* crm.py:3-5, the mini guard is the only stage writer: whatever moves     *)
(* overlap, a client exists only for a lead that was won, and a lead is    *)
(* won only by every move of the path, each in the audit log.              *)
WonWasEarned == lead.stage = "won" \/ Created # {} => Earned

(* crm.py:4-5, "LOST requires a reason": the reason is there although an   *)
(* equal one loaded with the row is not written, and although the lead may *)
(* have been lost and moved back by an overlap before.                     *)
LostHasReason == lead.stage = "lost" => lead.reason # Null

(* crm.py:257-258, "converted_client_id is the guard": no move or patch    *)
(* that loaded the lead before the conversion takes it back.               *)
ConversionStays ==
  /\ lead.converted = Null <=> Created = {}
  /\ lead.converted # Null => Exists(client[lead.converted])

(* The same guard again: once one conversion has committed, only those in  *)
(* flight create another client, however often the request is repeated: no *)
(* more than there are threads.                                            *)
ClientsBounded == Cardinality(Created) <= Cardinality(Worker)

(* What is always true of a lead and the clients it was converted to.      *)
LeadsKept ==
  LeadsTypeOK /\ WonWasEarned /\ LostHasReason /\ ConversionStays /\ ClientsBounded

-----------------------------------------------------------------------------
(* What the documents expect and overlapping requests defeat: see the      *)
(* README, 'Where the code and its documents part'.                        *)

(* crm.py:258, "can never create a duplicate".                             *)
OneClientPerLead == Cardinality(Created) <= 1

(* crm.py:4-5, "won/lost terminal".                                        *)
TerminalIsFinal == [][lead.stage \in TERMINAL => lead'.stage = lead.stage]_vars
=============================================================================
