---------------------------- MODULE Terminations ----------------------------
(***************************************************************************)
(* The end of a booking: requestTermination and payTerminationDues         *)
(* (terminations/termination.service.ts), called by customers and by the   *)
(* daily job (cron-job/termination/terminate-bookings.cron.ts), with the   *)
(* jobs that activate and complete bookings and the days that pass.        *)
(*                                                                         *)
(* A termination is known by the request that created it, a charge by the  *)
(* payment that made it.  A request of the job goes on, in the same run,   *)
(* to pay what it has created.  What a transaction writes becomes visible  *)
(* at its COMMIT in one step, for nothing is called between the first      *)
(* UPDATE and COMMIT.  Amounts are abstracted to what the code compares    *)
(* them with: "none" (<= 0), "small" (less than 1) and "due".              *)
(***************************************************************************)
EXTENDS Integers, FiniteSets

CONSTANTS
    Bookings,
    CustomerReqs,   \* requestTermination calls of customers
    JobReqs,        \* bookings handled by runs of the job, each at most once
    PayReqs,        \* payTerminationAmount calls of customers
    BookingOf,      \* [CustomerReqs \cup JobReqs -> Bookings]
    MovesOutOn,     \* [Bookings -> Nat]: the move-out date, Never if there is none
    Notice,         \* app.termination.noticeDays
    Month,          \* how far ahead a move-out may be requested
    LastDay,        \* bound on the calendar
    NoReq

Never == LastDay + Notice + Month + 1

TermReqs == CustomerReqs \cup JobReqs
Payers == JobReqs \cup PayReqs
Requests == TermReqs \cup PayReqs

VARIABLES
    status,         \* [Bookings -> ...]: the bookings' status
    moveOut,        \* [Bookings -> 1..Never]
    requested,      \* [Bookings -> BOOLEAN]: is_termination_requested
    termination,    \* [TermReqs -> Termination \cup {NoTermination}]: the rows
    booked,         \* the payments whose transactions row is committed
    kept,           \* the payments whose charge Stripe has not given back
    pc,             \* [Requests -> ...]: where each call is
    plan,           \* [TermReqs -> ...]: what calculateTermination returned
    paying,         \* [Payers -> TermReqs \cup {NoReq}]: the termination paid for
    differs,        \* payments whose catch has something to write (see PayMark)
    queue,          \* the bookings the job's run has listed and not handled
    today

rows == <<status, moveOut, requested, termination, booked>>
calls == <<pc, plan, paying, differs>>
vars == <<rows, kept, calls, queue, today>>

NoTermination == [on |-> Never, dues |-> "none", status |-> "NONE", payment |-> "NONE"]

(* What may still be owed: notice, commitment, promotions and renewals.    *)
Owing == {"none", "small", "due"}

Termination ==
    [on : 1..Never, dues : Owing,
     status : {"REQUESTED", "SCHEDULED", "ON_HOLD", "TERMINATED"},
     payment : {"PENDING", "PAID", "FAILED"}]
NoPlan == [out |-> Never, on |-> Never, dues |-> "none"]

TypeOK ==
    /\ status \in [Bookings -> {"CONFIRMED", "ACTIVE", "COMPLETED"}]
    /\ moveOut \in [Bookings -> 1..Never]
    /\ requested \in [Bookings -> BOOLEAN]
    /\ termination \in [TermReqs -> Termination \cup {NoTermination}]
    /\ booked \subseteq Payers /\ kept \subseteq Payers /\ differs \subseteq Payers
    /\ pc \in [Requests -> {"idle", "planned", "created", "opened", "charged", "refunding",
                           "marking", "unheard", "done", "paid", "failed", "stuck"}]
    /\ plan \in [TermReqs -> [out : 1..Never, on : 1..Never,
                              dues : Owing]]
    /\ paying \in [Payers -> TermReqs \cup {NoReq}]
    /\ queue \subseteq Bookings
    /\ today \in 0..LastDay

Init ==
    /\ status \in [Bookings -> {"CONFIRMED", "ACTIVE"}]
    /\ moveOut = MovesOutOn
    /\ requested = [b \in Bookings |-> FALSE]
    /\ termination = [r \in TermReqs |-> NoTermination]
    /\ booked = {} /\ kept = {} /\ differs = {} /\ queue = {}
    /\ pc = [c \in Requests |-> "idle"]
    /\ plan = [r \in TermReqs |-> NoPlan]
    /\ paying = [p \in Payers |-> NoReq]
    /\ today = 0

Goto(c, l) == pc' = [pc EXCEPT ![c] = l]

TerminationsOf(b) == {r \in TermReqs : BookingOf[r] = b /\ termination[r] # NoTermination}

-----------------------------------------------------------------------------
(* requestTermination                                                      *)

(* The move-out dates a request may name: from tomorrow, within a month;   *)
(* the job names the booking's own.                                        *)
MoveOutChoices(r) ==
    (today + 1)..(today + Month) \cap
        IF r \in JobReqs THEN {moveOut[BookingOf[r]]} ELSE 1..Never

(* The notice period moves the termination date of a customer's request.   *)
TerminatesOn(r, out) ==
    IF r \in JobReqs \/ out > today + Notice THEN out ELSE today + Notice

MayRequest(b) == status[b] \in {"ACTIVE", "CONFIRMED"} /\ TerminationsOf(b) = {}

(* calculateTermination: the checks, the dates and what is still owed.     *)
PlanTermination(r) ==
    /\ pc[r] = "idle"
    /\ r \in JobReqs => BookingOf[r] \in queue
    /\ MayRequest(BookingOf[r])
    /\ \E out \in MoveOutChoices(r), dues \in Owing :
          plan' = [plan EXCEPT ![r] =
                      [out |-> out, on |-> TerminatesOn(r, out), dues |-> dues]]
    /\ Goto(r, "planned")
    /\ UNCHANGED <<rows, kept, paying, differs, queue, today>>

(* A check fails, a query throws or COMMIT is refused: nothing is written. *)
RequestFails(r) ==
    /\ pc[r] \in {"idle", "planned"}
    /\ r \in JobReqs => BookingOf[r] \in queue
    /\ plan' = [plan EXCEPT ![r] = NoPlan]
    /\ Goto(r, "failed")
    /\ queue' = IF r \in JobReqs THEN queue \ {BookingOf[r]} ELSE queue
    /\ UNCHANGED <<rows, kept, paying, differs, today>>

(* What will not be charged taken for nothing.                             *)
FirstStatus_Small(dues) == IF dues \in {"none", "small"} THEN "SCHEDULED" ELSE "REQUESTED"

FirstStatus(dues) == IF dues = "none" THEN "SCHEDULED" ELSE "REQUESTED"

(* The termination and the booking, in one transaction.                    *)
WritesRequest(r) ==
    LET b == BookingOf[r] IN
    /\ pc[r] = "planned"
    /\ termination' = [termination EXCEPT ![r] =
          [on |-> plan[r].on, dues |-> plan[r].dues,
           status |-> FirstStatus(plan[r].dues), payment |-> "PENDING"]]
    /\ moveOut' = [moveOut EXCEPT ![b] = plan[r].out]
    /\ requested' = [requested EXCEPT ![b] = TRUE]
    /\ plan' = [plan EXCEPT ![r] = NoPlan]
    /\ UNCHANGED <<status, booked, kept, paying, differs, today>>

(* The job goes on to pay when there is anything to pay.                   *)
CommitRequest(r) ==
    /\ WritesRequest(r)
    /\ Goto(r, IF r \in JobReqs /\ plan[r].dues # "none" THEN "created" ELSE "done")
    /\ queue' = IF r \in JobReqs /\ plan[r].dues = "none"
                THEN queue \ {BookingOf[r]} ELSE queue

(* COMMIT is applied but not heard of: the caller is told of a failure.    *)
CommitRequestUnheard(r) ==
    /\ WritesRequest(r)
    /\ Goto(r, "failed")
    /\ queue' = IF r \in JobReqs THEN queue \ {BookingOf[r]} ELSE queue

RequestNext(r) ==
    PlanTermination(r) \/ RequestFails(r) \/ CommitRequest(r) \/ CommitRequestUnheard(r)

-----------------------------------------------------------------------------
(* payTerminationDues                                                      *)

(* The payment of p, of termination n, has read the row.                   *)
Reads(p, n) ==
    /\ termination[n] # NoTermination
    /\ IF p \in JobReqs THEN pc[p] = "created" /\ n = p ELSE pc[p] = "idle"

Leaves(p) ==
    /\ queue' = IF p \in JobReqs THEN queue \ {BookingOf[p]} ELSE queue
    /\ differs' = differs \ {p}

(* Less than 1 is not charged, and reported as paid.                       *)
PaySkips(p, n) ==
    /\ Reads(p, n) /\ termination[n].payment # "PAID" /\ termination[n].dues # "due"
    /\ Goto(p, "done") /\ Leaves(p)
    /\ UNCHANGED <<rows, kept, plan, paying, today>>

PayAdmit(p, n) ==
    /\ Reads(p, n) /\ termination[n].payment # "PAID" /\ termination[n].dues = "due"
    /\ paying' = [paying EXCEPT ![p] = n]
    /\ differs' = IF termination[n].status = "ON_HOLD" THEN differs ELSE differs \cup {p}
    /\ Goto(p, "opened")
    /\ UNCHANGED <<rows, kept, plan, queue, today>>

(* Paid already, no customer at Stripe, or the card is declined.           *)
PayRefused(p) ==
    /\ \/ pc[p] = "opened"
       \/ \E n \in TermReqs : Reads(p, n)
    /\ Goto(p, "failed") /\ Leaves(p)
    /\ UNCHANGED <<rows, kept, plan, paying, today>>

PayCharge(p) ==
    /\ pc[p] = "opened"
    /\ kept' = kept \cup {p}
    /\ Goto(p, "charged")
    /\ UNCHANGED <<rows, plan, paying, differs, queue, today>>

(* Stripe charges, but its answer is lost: there is no charge to refund.   *)
PayChargeUnheard(p) ==
    /\ pc[p] = "opened"
    /\ kept' = kept \cup {p}
    /\ Goto(p, "unheard") /\ Leaves(p)
    /\ UNCHANGED <<rows, plan, paying, today>>

(* The same without payment_status.                                        *)
WritesPayment_StatusOnly(p) ==
    /\ pc[p] = "charged"
    /\ termination' = [termination EXCEPT ![paying[p]].status = "SCHEDULED"]
    /\ booked' = booked \cup {p}
    /\ UNCHANGED <<status, moveOut, requested, kept, plan, paying, today>>

(* The termination and the transactions row, in one transaction.           *)
WritesPayment(p) ==
    /\ pc[p] = "charged"
    /\ termination' = [termination EXCEPT ![paying[p]].status = "SCHEDULED",
                                          ![paying[p]].payment = "PAID"]
    /\ booked' = booked \cup {p}
    /\ UNCHANGED <<status, moveOut, requested, kept, plan, paying, today>>

PayCommit(p) == WritesPayment(p) /\ Goto(p, "paid") /\ Leaves(p)

PayCommitUnheard(p) ==
    /\ WritesPayment(p) /\ Goto(p, "refunding")
    /\ differs' = differs \cup {p}
    /\ UNCHANGED queue

(* Short ids, the two writes or COMMIT fail; before or after the UPDATE.   *)
PayWriteFails(p) ==
    /\ pc[p] = "charged"
    /\ Goto(p, "refunding")
    /\ differs' \in {differs, differs \cup {p}}
    /\ UNCHANGED <<rows, kept, plan, paying, queue, today>>

PayRefund(p) ==
    /\ pc[p] = "refunding"
    /\ kept' = kept \ {p}
    /\ Goto(p, "marking")
    /\ UNCHANGED <<rows, plan, paying, differs, queue, today>>

(* The refund throws out of the catch, made or not.                        *)
PayRefundFails(p) ==
    /\ pc[p] = "refunding"
    /\ kept' \in {kept, kept \ {p}}
    /\ Goto(p, "stuck") /\ Leaves(p)
    /\ UNCHANGED <<rows, plan, paying, today>>

(* termination.save() writes what differs from the row as it was read or   *)
(* last saved: nothing when a failed payment of it fails again.            *)
PayMark(p) ==
    /\ pc[p] = "marking"
    /\ termination' =
          IF p \in differs
          THEN [termination EXCEPT ![paying[p]].status = "ON_HOLD",
                                   ![paying[p]].payment = "FAILED"]
          ELSE termination
    /\ Goto(p, "failed") /\ Leaves(p)
    /\ UNCHANGED <<status, moveOut, requested, booked, kept, plan, paying, today>>

PayMarkFails(p) ==
    /\ pc[p] = "marking"
    /\ Goto(p, "stuck") /\ Leaves(p)
    /\ UNCHANGED <<rows, kept, plan, paying, today>>

PayNext(p) ==
    \/ \E n \in TermReqs : PaySkips(p, n) \/ PayAdmit(p, n)
    \/ PayRefused(p) \/ PayCharge(p) \/ PayChargeUnheard(p)
    \/ PayCommit(p) \/ PayCommitUnheard(p) \/ PayWriteFails(p)
    \/ PayRefund(p) \/ PayRefundFails(p) \/ PayMark(p) \/ PayMarkFails(p)

-----------------------------------------------------------------------------
(* Processes, jobs and days                                                *)

Busy == {"planned", "created", "opened", "charged", "refunding", "marking"}

(* The process of a call ends; the job's whole run ends with it.           *)
Crash(c) ==
    /\ pc[c] \in Busy
    /\ Goto(c, "stuck")
    /\ queue' = IF c \in JobReqs THEN {} ELSE queue
    /\ differs' = differs \ {c}
    /\ plan' = [r \in TermReqs |-> IF r = c THEN NoPlan ELSE plan[r]]
    /\ UNCHANGED <<rows, kept, paying, today>>

(* The job's first UPDATE, of all terminations that are due; then its list.*)
TerminateDue ==
    [r \in TermReqs |->
        IF termination[r].status = "SCHEDULED" /\ termination[r].on <= today
        THEN [termination[r] EXCEPT !.status = "TERMINATED"] ELSE termination[r]]

Terminable == {b \in Bookings : /\ status[b] = "ACTIVE" /\ ~requested[b]
                                /\ moveOut[b] <= today + Notice}

JobRuns ==
    /\ queue = {} /\ \A r \in JobReqs : pc[r] \notin Busy
    /\ termination' = TerminateDue
    /\ queue' = {b \in Terminable : \E r \in JobReqs : BookingOf[r] = b /\ pc[r] = "idle"}
    /\ termination' # termination \/ queue' # {}
    /\ UNCHANGED <<status, moveOut, requested, booked, kept, calls, today>>

StatusJobs ==
    /\ status' = [b \in Bookings |->
          IF status[b] = "CONFIRMED" THEN "ACTIVE"
          ELSE IF moveOut[b] <= today THEN "COMPLETED" ELSE status[b]]
    /\ status' # status
    /\ UNCHANGED <<moveOut, requested, termination, booked, kept, calls, queue, today>>

DayPasses ==
    /\ today < LastDay
    /\ today' = today + 1
    /\ UNCHANGED <<rows, kept, calls, queue>>

Next ==
    \/ \E r \in TermReqs : RequestNext(r)
    \/ \E p \in Payers : PayNext(p)
    \/ \E c \in Requests : Crash(c)
    \/ JobRuns \/ StatusJobs \/ DayPasses

Spec == Init /\ [][Next]_vars

-----------------------------------------------------------------------------
(* A termination that is SCHEDULED or TERMINATED owes nothing, or a        *)
(* payment of it is booked: the job never ends one that was not settled.   *)
SettledBeforeScheduled ==
    \A r \in TermReqs :
        termination[r].status \in {"SCHEDULED", "TERMINATED"} =>
            \/ termination[r].dues = "none"
            \/ \E p \in booked : paying[p] = r

(* A termination whose payment is booked and kept says PAID, unless        *)
(* another payment of it was charged at the same time and failed: then it  *)
(* is ON_HOLD and may be paid a second time.                               *)
PaidStaysPaid ==
    \A p \in booked \cap kept :
        \/ termination[paying[p]].payment = "PAID"
        \/ \E q \in Payers \ {p} :
              /\ paying[q] = paying[p]
              /\ pc[q] \in {"failed", "refunding", "marking", "stuck"}
=============================================================================
