------------------------------- MODULE MCDues -------------------------------
(***************************************************************************)
(* What is due, for TLC: a behaviour is one of an academy enrollment from  *)
(* its application to its payment, of a placement with the contracts and   *)
(* submissions that a vendor's commission is computed from, or of the      *)
(* database through its migrations.  While one runs, the variables of the  *)
(* others alone are off.                                                   *)
(***************************************************************************)
EXTENDS Enrollment, TLC

CONSTANTS
  Vendor, Candidate, Job, Client, Contract, Sub, Day, Percentage, Clerk, \* Vendors
  placed, wanted,                                                          \* whom, and what for
  Slot, Number, Owner                                                      \* Migrations

VARIABLES
  part, \* the part that runs
  vendor, contract, rate, sub, gone, placement, commission, pointed,
  at, sealing, row, templates

Ve == INSTANCE Vendors WITH Worker <- Clerk
Mi == INSTANCE Migrations

allVars == <<part, enrollment, tests, payments, receipts, notices, vendor, contract, rate,
             sub, gone, placement, commission, pointed, req, at, sealing, row, templates>>

Off == "off"

OfEnrollment == <<enrollment, tests, payments, receipts, notices>>
OfVendors == <<vendor, contract, rate, sub, gone, placement, commission, pointed>>
OfMigrations == <<at, sealing, row, templates>>

RestOfEnrollment == <<part, OfVendors, OfMigrations>>
RestOfVendors == <<part, OfEnrollment, OfMigrations>>
RestOfMigrations == <<part, OfEnrollment, OfVendors, req>>

NoEnrollment == /\ enrollment = Off /\ tests = Off /\ payments = Off /\ receipts = Off
                /\ notices = Off
NoVendors == /\ vendor = Off /\ contract = Off /\ rate = Off /\ sub = Off /\ gone = Off
             /\ placement = Off /\ commission = Off /\ pointed = Off
NoMigrations == at = Off /\ sealing = Off /\ row = Off /\ templates = Off

AnyInit ==
  \/ part = "enrollment" /\ Init /\ NoVendors /\ NoMigrations
  \/ /\ part = "vendors" /\ Ve!Init /\ NoEnrollment /\ NoMigrations
     /\ placement.candidate = placed /\ placement.job = wanted
  \/ part = "migrations" /\ Mi!Init /\ NoEnrollment /\ NoVendors /\ req = Off

AnyNext ==
  \/ part = "enrollment" /\ Next /\ UNCHANGED RestOfEnrollment
  \/ part = "vendors" /\ Ve!Next /\ UNCHANGED RestOfVendors
  \/ part = "migrations" /\ Mi!Next /\ UNCHANGED RestOfMigrations

AnySpec == AnyInit /\ [][AnyNext]_allVars

Symmetry == Permutations(Worker) \cup Permutations(Payment) \cup Permutations(Percentage)

-----------------------------------------------------------------------------

(* academy.py:640-728, academy_transitions.py:27-76: whoever is or was let *)
(* into a course paid or was waived, nobody pays or is let in before a     *)
(* test has priced the enrollment, a paid enrollment names a payment of    *)
(* its own and a payment has its receipt, however payments, waivers, late  *)
(* grades and staff overlap.                                               *)
EnrollmentsKept ==
  part = "enrollment" =>
    EnrollmentTypeOK /\ NoUnpaidAccess /\ NothingUnpriced /\ PaidIsBacked

(* vendor_mgmt.py:48-78, 183-254: whoever is owed a commission submitted   *)
(* the candidate, at a percent of a contract in force at the joining.      *)
CommissionsKept == part = "vendors" => Ve!CommissionsKept

(* alembic/versions: no row written under one revision stops the next, no  *)
(* number is lost, a search finds what rows say now, none names another    *)
(* than its job does, and a rollback that promises it is possible.         *)
MigrationsKept == part = "migrations" => Mi!MigrationsKept

(* vendor_mgmt.py:3-6: an accrual takes the most specific rate there is.   *)
(* 0010, 0024: a migrated application stands as it did, and holds hold.    *)
DuesSteps == [][/\ part = "vendors" => Ve!SpecificRate
                /\ part = "migrations" => Mi!StandingKept]_allVars
=============================================================================
