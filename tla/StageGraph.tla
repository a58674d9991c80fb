----------------------------- MODULE StageGraph -----------------------------
(***************************************************************************)
(* The staffing pipeline's vocabulary and its forward graph, as the guard  *)
(* in backend/app/pipeline.py knows them.  A row is any record with the    *)
(* fields stage, hold (hold_prior_stage) and rtr (rtr_consent_at is set).  *)
(***************************************************************************)
EXTENDS Naturals

Stages == {"applied", "screening", "aptitude_test", "aptitude_passed",
           "aptitude_failed", "internal_interview", "internal_passed",
           "rtr_pending", "submitted_to_client", "client_round_1",
           "client_round_2", "client_round_3", "offer", "offer_accepted",
           "joined", "guarantee", "invoiced", "paid",
           "withdrawn", "dropped", "on_hold"}

\* The SQL NULL of applications.hold_prior_stage.
NoStage == "null"

Terminal == {"paid", "withdrawn", "dropped"}

\* The two exits open from every non-terminal stage, with a reason.
Closing == {"withdrawn", "dropped"}

\* Fault: a shortcut past the internal interview.
EdgesWithShortcut == {<<"applied", "screening">>,
                      <<"screening", "aptitude_test">>,
                      <<"aptitude_test", "aptitude_passed">>,
                      <<"aptitude_passed", "rtr_pending">>,
                      <<"rtr_pending", "submitted_to_client">>}

\* ALLOWED_TRANSITIONS; holding, closing and reopening are not edges.
Edges == {<<"applied", "screening">>,
          <<"screening", "aptitude_test">>,
          <<"aptitude_test", "aptitude_passed">>,
          <<"aptitude_test", "aptitude_failed">>,
          <<"aptitude_passed", "internal_interview">>,
          <<"aptitude_failed", "aptitude_test">>,
          <<"internal_interview", "internal_passed">>,
          <<"internal_passed", "rtr_pending">>,
          <<"rtr_pending", "submitted_to_client">>,
          <<"submitted_to_client", "client_round_1">>,
          <<"client_round_1", "client_round_2">>,
          <<"client_round_1", "offer">>,
          <<"client_round_2", "client_round_3">>,
          <<"client_round_2", "offer">>,
          <<"client_round_3", "offer">>,
          <<"offer", "offer_accepted">>,
          <<"offer_accepted", "joined">>,
          <<"joined", "guarantee">>,
          <<"guarantee", "invoiced">>,
          <<"invoiced", "paid">>}

\* The order a duplicate merge compares two rows by.
StageRank ==
  [s \in Stages |->
     CASE s \in Closing -> 0
       [] s = "on_hold" -> 1
       [] s = "applied" -> 2
       [] s = "screening" -> 3
       [] s \in {"aptitude_test", "aptitude_failed"} -> 4
       [] s = "aptitude_passed" -> 5
       [] s = "internal_interview" -> 6
       [] s = "internal_passed" -> 7
       [] s = "rtr_pending" -> 8
       [] s = "submitted_to_client" -> 9
       [] s = "client_round_1" -> 10
       [] s = "client_round_2" -> 11
       [] s = "client_round_3" -> 12
       [] s = "offer" -> 13
       [] s = "offer_accepted" -> 14
       [] s = "joined" -> 15
       [] s = "guarantee" -> 16
       [] s = "invoiced" -> 17
       [] s = "paid" -> 18]

\* The stages from submitted_to_client on: the client has seen the candidate.
Represented == {"submitted_to_client", "client_round_1", "client_round_2",
                "client_round_3", "offer", "offer_accepted", "joined",
                "guarantee", "invoiced", "paid"}

-----------------------------------------------------------------------------
Close(to, reason) == to \in Closing /\ reason

Hold(row, to) == to = "on_hold" /\ row.stage # "on_hold"

Reopen(row, to) == /\ row.stage = "on_hold"
                   /\ to \notin Closing \cup {"on_hold"}
                   /\ row.hold # NoStage
                   /\ to = row.hold

Advance(row, to) == /\ row.stage # "on_hold"
                    /\ to \notin Closing \cup {"on_hold"}
                    /\ <<row.stage, to>> \in Edges

\* Fault: the gate on submitted_to_client is forgotten.
LegalWithoutConsent(row, to, reason) ==
  /\ to \in Stages
  /\ row.stage \in Stages \ Terminal
  /\ Close(to, reason) \/ Hold(row, to) \/ Reopen(row, to) \/ Advance(row, to)

\* Fault: the terminal check is left to the graph, which holding bypasses.
LegalWhenClosed(row, to, reason) ==
  /\ to \in Stages
  /\ row.stage \in Stages
  /\ Close(to, reason) \/ Hold(row, to) \/ Reopen(row, to) \/ Advance(row, to)
  /\ to = "submitted_to_client" => row.rtr

\* What transition() demands of the row it loaded before it writes anything.
Legal(row, to, reason) ==
  /\ to \in Stages
  /\ row.stage \in Stages \ Terminal
  /\ \/ Close(to, reason)
     \/ Hold(row, to)
     \/ Reopen(row, to)
     \/ Advance(row, to)
  /\ to = "submitted_to_client" => row.rtr

\* Fault: reopening does not clear the stored prior stage.
HoldKept(stored, loaded, to) == IF to = "on_hold" THEN loaded.stage ELSE stored

\* The value the guarded UPDATE leaves in hold_prior_stage: the columns it
\* sets come from the loaded row, the others keep what is stored.
HoldAfter(stored, loaded, to) ==
  IF to = "on_hold" THEN loaded.stage
  ELSE IF loaded.stage = "on_hold" /\ to \notin Closing THEN NoStage
  ELSE stored
=============================================================================
