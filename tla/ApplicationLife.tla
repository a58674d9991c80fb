-------------------------- MODULE ApplicationLife --------------------------
(***************************************************************************)
(* What the pipeline promises of one application, with no request, no row  *)
(* version and no database in sight: it is created once, moves one legal   *)
(* step at a time, and is represented to a client only with the            *)
(* candidate's right-to-represent consent.                                 *)
(***************************************************************************)
EXTENDS StageGraph

CONSTANT App           \* the natural keys <job, candidate> of applications

VARIABLE life          \* App -> what is true of the application

Unborn == [stage |-> "unborn", hold |-> NoStage, rtr |-> FALSE]

Init == life = [a \in App |-> Unborn]

Become(a, stage, hold, rtr) ==
  life' = [life EXCEPT ![a] = [stage |-> stage, hold |-> hold, rtr |-> rtr]]

Apply(a) == /\ life[a].stage = "unborn"
            /\ Become(a, "applied", NoStage, FALSE)

Consent(a) == /\ life[a].stage \in Stages
              /\ Become(a, life[a].stage, life[a].hold, TRUE)

Move(a, to) ==
  /\ Legal(life[a], to, TRUE)
  /\ Become(a, to, HoldAfter(life[a].hold, life[a], to), life[a].rtr)

Next == \E a \in App : \/ Apply(a)
                       \/ Consent(a)
                       \/ \E to \in Stages : Move(a, to)

Spec == Init /\ [][Next]_life
=============================================================================
