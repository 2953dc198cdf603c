------------------------------ MODULE MCJobsLive ------------------------------
(***************************************************************************)
(* The two daily jobs that must get on, for TLC: the one that charges      *)
(* renewals and the one that gives deposits back.  They share no state, so *)
(* a behaviour explores one of them.                                       *)
(***************************************************************************)
EXTENDS MCPayRenewals

CONSTANTS
    DueBookings, WithUnused, DepositFaults      \* of DepositRefunds

VARIABLES
    part,           \* the job of this behaviour
    due, marked, dRows, back, stage, marking, hasty, dTodo, dAt, task, dFaults, astray,
    failed, remarked

Deposits == INSTANCE DepositRefunds WITH
    Bookings <- DueBookings, Unused <- WithUnused, MaxFaults <- DepositFaults,
    rows <- dRows, todo <- dTodo, at <- dAt, faults <- dFaults

depositVars == <<due, marked, dRows, back, stage, marking, hasty, dTodo, dAt, task, dFaults,
                 astray, failed, remarked>>
jobsVars == <<part, vars, depositVars>>

Renewing(A) == part = "renewals" /\ A /\ UNCHANGED <<part, depositVars>>
Refunding(A) == part = "deposits" /\ A /\ UNCHANGED <<part, vars>>

JobsInit == part \in {"renewals", "deposits"} /\ Init /\ Deposits!Init

JobsNext == Renewing(Next) \/ Refunding(Deposits!Next)

(* Kubernetes starts a run of each every day, and every call of it ends.   *)
JobsSpec ==
    /\ JobsInit /\ [][JobsNext]_jobsVars
    /\ WF_jobsVars(Renewing(RunSteps))
    /\ WF_jobsVars(Refunding(Deposits!RunSteps))

-----------------------------------------------------------------------------
(* What is due of the renewals, DueIsBilled, is stated in PayRenewals.     *)

(* A deposit that is due comes back (cron-job/refund-deposit): again and   *)
(* again there is a moment when none is owed, for a deposit that was given *)
(* back is not due again.                                                  *)
DepositComesBack == []<>(\A b \in due : back[b].deposit > 0)

=============================================================================
