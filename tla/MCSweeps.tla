------------------------------ MODULE MCSweeps ------------------------------
(***************************************************************************)
(* The two sweeps a runner starts every day, for TLC: a behaviour is one   *)
(* of the queue of notices or of the guarantees of placements.  The other  *)
(* stays as it began.                                                      *)
(***************************************************************************)
EXTENDS Notify

CONSTANTS App, Clerk, Runner, MaxPlacements, MaxInvoices          \* Placements

VARIABLES
  part,                                                           \* the part that runs
  joined, placements, over, invoices, commission, completed, work \* Placements

Pl == INSTANCE Placements WITH Worker <- Clerk, Sweeper <- Runner, req <- work

guarantees == <<joined, placements, over, invoices, commission, completed, work>>

allVars == <<part, vars, guarantees>>

InQueue == part = "queue" /\ UNCHANGED <<part, guarantees>>

InGuarantees == part = "guarantees" /\ UNCHANGED <<part, vars>>

AnyInit == part \in {"queue", "guarantees"} /\ Init /\ Pl!Init

AnyNext == \/ InQueue /\ Next
           \/ InGuarantees /\ Pl!Next

(* Some sweep of either kind gets through again and again, whatever becomes *)
(* of the others: the fairness of Notify and of Placements, of the part    *)
(* that runs.                                                              *)
AnySpec ==
  /\ AnyInit /\ [][AnyNext]_allVars
  /\ SF_allVars(InQueue /\ \E s \in Sweeper : StartSweep(s))
  /\ SF_allVars(InQueue /\ \E s \in Sweeper, ok \in BOOLEAN : SendNext(s, ok))
  /\ SF_allVars(InQueue /\ \E s \in Sweeper : CommitSweep(s))
  /\ SF_allVars(InGuarantees /\ \E r \in Runner : Pl!StartSweep(r))
  /\ SF_allVars(InGuarantees /\ \E r \in Runner : Pl!CommitSweep(r))

-----------------------------------------------------------------------------

(* jobs.py:6-7, "a missed run self-heal on the next pass": a placement     *)
(* whose window is over does not stay active.                              *)
SelfHeals == Pl!SelfHeals
=============================================================================
