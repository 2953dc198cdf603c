----------------------------- MODULE PayRenewals -----------------------------
(***************************************************************************)
(* The job that charges the monthly renewals of active bookings:           *)
(* src/src/cron-job/pay-renewals/pay-renewal.cron.ts, a process that       *)
(* Kubernetes starts once a day, over PostgreSQL and Stripe.               *)
(*                                                                         *)
(* A run reads every active booking with its renewals once and then takes  *)
(* the bookings one by one.  It retries the renewals that FAILED, then     *)
(* creates the next month's renewal if it is due; each charge is followed  *)
(* by a transaction with the rows that book it.  An exception in a try     *)
(* leads to its catch; any other, and one thrown by a catch, is a          *)
(* rejection nobody handles: the process goes on but the run stands still  *)
(* until the next day's run replaces it.  A process that dies is started   *)
(* again at once.  Customers ask for termination meanwhile.                *)
(*                                                                         *)
(* Days are counted from the move-in day, the same for all bookings, and a *)
(* month has MonthDays days.  All bookings stay ACTIVE: one that completes *)
(* has asked for termination before, or been asked for by the other job.   *)
(***************************************************************************)
EXTENDS Integers, Sequences, FiniteSets

CONSTANTS
    Bookings,       \* ids of bookings
    OpenEnded,      \* the bookings without a move-out date
    MoveOut,        \* the move-out day of the others
    MonthDays,
    Lead,           \* app.renewal.createBefore: days a renewal is made ahead
    \* bounds
    LastDay,        \* where the calendar stops; runs go on
    LastMonth,      \* the last month billed
    MaxFaults       \* how many calls go wrong, other than by a declined card

ASSUME BookingsAssumption ==
    /\ Bookings \subseteq Nat \ {0}
    /\ OpenEnded \subseteq Bookings
    /\ MoveOut \in [Bookings \ OpenEnded -> Nat]

ASSUME CalendarAssumption ==
    /\ MonthDays \in Nat
    /\ Lead \in Nat
    /\ LastDay \in Nat
    /\ LastMonth \in Nat \ {0}
    /\ MaxFaults \in Nat

NoBooking == 0
Never == -1         \* a last_attempt_date that is null
Months == 1..LastMonth

VARIABLES
    \* committed rows
    rows,           \* the renewals of each booking, by id: month, status, last attempt
    transactions,   \* how many transactions rows each month of a booking has
    requested,      \* the bookings with is_termination_requested
    dues,           \* the renewals a termination counts in its dues
    \* Stripe
    kept,           \* the charges for a month that were made and not given back
    \* the job
    pc,
    todo,           \* the bookings read and not yet looked at
    at,             \* the booking looked at
    row,            \* how far its renewals are looked at
    fresh,          \* whether a new renewal is billed, or an old one again
    month,          \* the month billed
    charged,        \* whether the variable charge (failedRenewalCharge) is set
    committing,     \* whether commit() was called on the transaction
    \* the rest
    today,
    faults,         \* calls that went wrong so far
    stray,          \* charges that no process will ever book or give back
    unheard         \* COMMITs that were applied though commit() threw

db == <<rows, transactions>>
world == <<today, requested, dues>>
bill == <<fresh, month, charged, committing>>
cursor == <<todo, at, row>>
ghosts == <<stray, unheard>>
vars == <<db, world, kept, pc, cursor, bill, faults, ghosts>>

Resting == {"waiting", "closed", "stuck", "dead"}
Working ==
    {"starting", "choosing", "looking", "opened", "charged", "written",
     "record", "refund", "undo", "note"}

Renewals ==
    [month : Months, status : {"PAID", "FAILED"}, last : Nat \cup {Never}]

(* A booking's first renewal was paid, or was paid and then marked FAILED  *)
(* by a second payment of the same booking that was declined.              *)
Init ==
    /\ rows \in [Bookings ->
                    {<<[month |-> 1, status |-> s, last |-> Never]>> :
                        s \in {"PAID", "FAILED"}}]
    /\ transactions = [b \in Bookings |-> [m \in Months |-> 0]]
    /\ requested = {}
    /\ dues = [b \in Bookings |-> {}]
    /\ kept = [b \in Bookings |-> [m \in Months |-> 0]]
    /\ pc = "waiting"
    /\ todo = {} /\ at = NoBooking /\ row = 1
    /\ fresh = FALSE /\ month = 1 /\ charged = FALSE /\ committing = FALSE
    /\ today = 0
    /\ faults = 0
    /\ stray = [b \in Bookings |-> [m \in Months |-> 0]]
    /\ unheard = [b \in Bookings |-> [m \in Months |-> 0]]

-----------------------------------------------------------------------------
(* The calendar                                                            *)

StartDay(m) == (m - 1) * MonthDays
DueDay(m) == StartDay(m) - Lead

(* Whether the renewal of month m has a next_renewal_date: two more months *)
(* must fit before the move-out date.                                      *)
HasNext_Always(b, m) == m \in Months

HasNext(b, m) ==
    b \notin OpenEnded => MoveOut[b] + 1 - StartDay(m) >= 2 * MonthDays

LatestRow(b) == rows[b][Len(rows[b])]

NextMonth_CountsRows(b) == Len(rows[b]) + 1

NextMonth(b) == LatestRow(b).month + 1

Due_OnTheDay(b) ==
    /\ HasNext(b, LatestRow(b).month)
    /\ NextMonth(b) \in Months
    /\ today = DueDay(NextMonth(b))

Due(b) ==
    /\ HasNext(b, LatestRow(b).month)
    /\ NextMonth(b) \in Months
    /\ today >= DueDay(NextMonth(b))
    /\ b \notin OpenEnded => today < MoveOut[b]

(* A renewal is retried more than two days after the last attempt.  The    *)
(* times of day of two runs differ, so the second day may count or not.    *)
MayRetry_Paid(r) == r.last = Never \/ today - r.last >= 2

MayRetry(r) ==
    /\ r.status # "PAID"
    /\ r.last = Never \/ today - r.last >= 2

MaySkip(r) ==
    \/ r.status = "PAID"
    \/ r.last # Never /\ today - r.last <= 2

-----------------------------------------------------------------------------
Goto(from, to) == pc = from /\ pc' = to

Mishap == faults < MaxFaults /\ faults' = faults + 1

Once(counts) == [counts EXCEPT ![at][month] = @ + 1]

(* No call is under way.                                                   *)
NoBill == fresh' = FALSE /\ month' = 1 /\ charged' = FALSE /\ committing' = FALSE

(* The run ends, stands still or dies: its variables are gone.             *)
Rest(how) ==
    /\ pc' = how
    /\ todo' = {} /\ at' = NoBooking /\ row' = 1
    /\ NoBill

LosesCharge == stray' = IF charged THEN Once(stray) ELSE stray

-----------------------------------------------------------------------------
(* Starting and ending a run                                               *)

NextRun ==
    /\ pc \in Resting
    /\ pc' = "starting"
    /\ today' = IF today < LastDay THEN today + 1 ELSE today
    /\ UNCHANGED <<db, requested, dues, kept, cursor, bill, faults, ghosts>>

Restart ==
    /\ Goto("dead", "starting")
    /\ UNCHANGED <<db, world, kept, cursor, bill, faults, ghosts>>

Killed ==
    /\ pc \in Working
    /\ Mishap
    /\ LosesCharge
    /\ Rest("dead")
    /\ UNCHANGED <<db, world, kept, unheard>>

(* Bookings and their flags are read here, once.                           *)
Listed == Bookings \ requested

Read ==
    /\ Goto("starting", "choosing")
    /\ todo' = Listed
    /\ UNCHANGED <<db, world, kept, at, row, bill, faults, ghosts>>

ReadFails ==
    /\ pc = "starting"
    /\ Mishap
    /\ Rest("stuck")
    /\ UNCHANGED <<db, world, kept, ghosts>>

Choose(b) ==
    /\ Goto("choosing", "looking")
    /\ \A c \in todo : b <= c
    /\ todo' = todo \ {b}
    /\ at' = b
    /\ row' = 1
    /\ UNCHANGED <<db, world, kept, bill, faults, ghosts>>

Close ==
    /\ pc = "choosing"
    /\ todo = {}
    /\ Rest("closed")
    /\ UNCHANGED <<db, world, kept, faults, ghosts>>

-----------------------------------------------------------------------------
(* One booking: its renewals in turn, then a new one                       *)

SkipRow ==
    /\ pc = "looking"
    /\ row <= Len(rows[at])
    /\ MaySkip(rows[at][row])
    /\ row' = row + 1
    /\ UNCHANGED <<db, world, kept, pc, todo, at, bill, faults, ghosts>>

OpenRetry ==
    /\ Goto("looking", "opened")
    /\ row <= Len(rows[at])
    /\ MayRetry(rows[at][row])
    /\ month' = rows[at][row].month
    /\ UNCHANGED <<db, world, kept, cursor, fresh, charged, committing, faults, ghosts>>

NothingDue_Returns ==
    /\ pc = "looking"
    /\ row > Len(rows[at])
    /\ ~Due(at)
    /\ Rest("closed")
    /\ UNCHANGED <<db, world, kept, faults, ghosts>>

NothingDue ==
    /\ Goto("looking", "choosing")
    /\ row > Len(rows[at])
    /\ ~Due(at)
    /\ UNCHANGED <<db, world, kept, cursor, bill, faults, ghosts>>

OpenNew ==
    /\ Goto("looking", "opened")
    /\ row > Len(rows[at])
    /\ Due(at)
    /\ fresh' = TRUE
    /\ month' = NextMonth(at)
    /\ UNCHANGED <<db, world, kept, cursor, charged, committing, faults, ghosts>>

(* transaction(), or the reads of promotions and taxes, outside any try.   *)
OpenFails ==
    /\ pc = "looking"
    /\ IF row <= Len(rows[at]) THEN MayRetry(rows[at][row]) ELSE Due(at)
    /\ Mishap
    /\ Rest("stuck")
    /\ UNCHANGED <<db, world, kept, ghosts>>

Catch == pc' = IF fresh THEN "record" ELSE "refund"

(* Ids or the card could not be had, or the card is declined.              *)
Decline ==
    /\ pc = "opened"
    /\ Catch
    /\ UNCHANGED <<db, world, kept, cursor, bill, faults, ghosts>>

Charge ==
    /\ Goto("opened", "charged")
    /\ kept' = Once(kept)
    /\ charged' = TRUE
    /\ UNCHANGED <<db, world, cursor, fresh, month, committing, faults, ghosts>>

(* Stripe charged the card but its answer did not arrive.                  *)
ChargeUnheard ==
    /\ pc = "opened"
    /\ Mishap
    /\ Catch
    /\ kept' = Once(kept)
    /\ stray' = Once(stray)
    /\ UNCHANGED <<db, world, cursor, bill, unheard>>

(* The rows that book the charge, in the open transaction.                 *)
Write ==
    /\ Goto("charged", "written")
    /\ UNCHANGED <<db, world, kept, cursor, bill, faults, ghosts>>

WriteFails ==
    /\ pc = "charged"
    /\ Mishap
    /\ Catch
    /\ UNCHANGED <<db, world, kept, cursor, bill, ghosts>>

-----------------------------------------------------------------------------
(* COMMIT                                                                  *)

Renewal(status, last) == [month |-> month, status |-> status, last |-> last]

PaidRows ==
    IF fresh
    THEN [rows EXCEPT ![at] = Append(@, Renewal("PAID", Never))]
    ELSE [rows EXCEPT ![at][row] = Renewal("PAID", today)]

BookedTransactions_OnlyNew == IF fresh THEN Once(transactions) ELSE transactions

BookedTransactions == Once(transactions)

Booked ==
    /\ rows' = PaidRows
    /\ transactions' = BookedTransactions

(* On to the next renewal of the booking, or after a new one to the next   *)
(* booking.                                                                *)
Onward ==
    /\ NoBill
    /\ IF fresh
       THEN pc' = "choosing" /\ UNCHANGED row
       ELSE pc' = "looking" /\ row' = row + 1
    /\ UNCHANGED <<todo, at>>

Commit ==
    /\ pc = "written"
    /\ Booked
    /\ Onward
    /\ UNCHANGED <<world, kept, faults, ghosts>>

(* commit() throws, before the COMMIT took effect or after.                *)
CommitFails ==
    /\ pc = "written"
    /\ Mishap
    /\ Catch
    /\ committing' = TRUE
    /\ \/ UNCHANGED <<db, unheard>>
       \/ Booked /\ unheard' = Once(unheard)
    /\ UNCHANGED <<world, kept, cursor, fresh, month, charged, stray>>

-----------------------------------------------------------------------------
(* The catch of a new renewal first records it as FAILED, in a transaction *)
(* of its own; the rest is common, but only an old one notes the attempt.  *)

Recorded == [rows EXCEPT ![at] = Append(@, Renewal("FAILED", today))]

Record ==
    /\ Goto("record", "refund")
    /\ rows' = Recorded
    /\ UNCHANGED <<transactions, world, kept, cursor, bill, faults, ghosts>>

(* The INSERT is rejected, and rolled back.                                *)
RecordFails ==
    /\ Goto("record", "refund")
    /\ Mishap
    /\ UNCHANGED <<db, world, kept, cursor, bill, ghosts>>

(* transaction() throws, or commit() and then rollback().                  *)
RecordBreaks ==
    /\ pc = "record"
    /\ Mishap
    /\ rows' \in {rows, Recorded}
    /\ LosesCharge
    /\ Rest("stuck")
    /\ UNCHANGED <<transactions, world, kept, unheard>>

GivenBack_Unasked == [kept EXCEPT ![at][month] = @ - 1]
GivenBack_Never == kept

GivenBack == IF charged THEN [kept EXCEPT ![at][month] = @ - 1] ELSE kept

Refund ==
    /\ Goto("refund", "undo")
    /\ kept' = GivenBack
    /\ charged' = FALSE
    /\ UNCHANGED <<db, world, cursor, fresh, month, committing, faults, ghosts>>

(* Stripe refuses, or gives back but its answer does not arrive.           *)
RefundFails ==
    /\ pc = "refund"
    /\ charged
    /\ Mishap
    /\ \/ stray' = Once(stray) /\ UNCHANGED kept
       \/ kept' = GivenBack /\ UNCHANGED stray
    /\ Rest("stuck")
    /\ UNCHANGED <<db, world, unheard>>

Undo ==
    /\ pc = "undo"
    /\ ~committing
    /\ IF fresh THEN Onward ELSE pc' = "note" /\ UNCHANGED <<cursor, bill>>
    /\ UNCHANGED <<db, world, kept, faults, ghosts>>

(* rollback() throws when commit() was called before.                      *)
UndoThrows ==
    /\ pc = "undo"
    /\ committing
    /\ Rest("stuck")
    /\ UNCHANGED <<db, world, kept, faults, ghosts>>

Note ==
    /\ pc = "note"
    /\ rows' = [rows EXCEPT ![at][row].last = today]
    /\ Onward
    /\ UNCHANGED <<transactions, world, kept, faults, ghosts>>

(* rollback() or the UPDATE of last_attempt_date throws.                   *)
TidyFails ==
    /\ \/ pc = "undo" /\ ~committing
       \/ pc = "note"
    /\ Mishap
    /\ Rest("stuck")
    /\ UNCHANGED <<db, world, kept, ghosts>>

-----------------------------------------------------------------------------
(* requestTermination, by the customer or by the job that terminates: the  *)
(* renewals not paid whose month has begun are part of the dues.           *)
RequestTermination(b) ==
    /\ b \notin requested
    /\ requested' = requested \cup {b}
    /\ dues' = [dues EXCEPT ![b] =
                    {i \in DOMAIN rows[b] :
                        /\ rows[b][i].status # "PAID"
                        /\ StartDay(rows[b][i].month) < today}]
    /\ UNCHANGED <<db, today, kept, pc, cursor, bill, faults, ghosts>>

-----------------------------------------------------------------------------
RunSteps ==
    \/ NextRun \/ Restart \/ Read \/ Close
    \/ \E b \in todo : Choose(b)
    \/ SkipRow \/ OpenRetry \/ NothingDue \/ OpenNew
    \/ Decline \/ Charge \/ Write \/ Commit
    \/ Record \/ Refund \/ Undo \/ UndoThrows \/ Note

Mishaps ==
    \/ Killed \/ ReadFails \/ OpenFails
    \/ ChargeUnheard \/ WriteFails \/ CommitFails
    \/ RecordFails \/ RecordBreaks \/ RefundFails \/ TidyFails

Next ==
    \/ RunSteps
    \/ Mishaps
    \/ \E b \in Bookings : RequestTermination(b)

Spec == Init /\ [][Next]_vars

-----------------------------------------------------------------------------
(* Properties                                                              *)

TypeOK ==
    /\ rows \in [Bookings -> Seq(Renewals)]
    /\ \A b \in Bookings : rows[b] # <<>>
    /\ transactions \in [Bookings -> [Months -> Nat]]
    /\ requested \subseteq Bookings
    /\ dues \in [Bookings -> SUBSET (Nat \ {0})]
    /\ kept \in [Bookings -> [Months -> Nat]]
    /\ pc \in Resting \cup Working
    /\ todo \subseteq Bookings
    /\ at \in Bookings \cup {NoBooking}
    /\ row \in Nat \ {0}
    /\ fresh \in BOOLEAN
    /\ month \in Months
    /\ charged \in BOOLEAN
    /\ committing \in BOOLEAN
    /\ today \in Nat
    /\ faults \in Nat
    /\ stray \in [Bookings -> [Months -> Nat]]
    /\ unheard \in [Bookings -> [Months -> Nat]]

(* A month is paid for once: the job keeps at most one charge for it, but  *)
(* for those whose process died or stood still with them, or whose answer  *)
(* Stripe sent in vain.  Runs are killed, repeated and replaced meanwhile. *)
MonthPaidOnce ==
    \A b \in Bookings, m \in Months : kept[b][m] <= 1 + stray[b][m]

(* Each charge the job keeps is booked by one transactions row, was lost   *)
(* by a run, or is in the hands of the one that made it.                   *)
Held(b, m) == IF charged /\ b = at /\ m = month THEN 1 ELSE 0

ChargesBooked ==
    \A b \in Bookings, m \in Months :
        kept[b][m] + unheard[b][m] = transactions[b][m] + stray[b][m] + Held(b, m)

(* No month is left out, and a month has two renewals only when the COMMIT *)
(* of the first was not heard of, so that its catch recorded the second.   *)
MonthsInOrder ==
    \A b \in Bookings :
        /\ rows[b][1].month = 1
        /\ \A i \in 1..(Len(rows[b]) - 1) :
            LET this == rows[b][i]
                that == rows[b][i + 1]
            IN  \/ that.month = this.month + 1
                \/ /\ that.month = this.month
                   /\ this.status = "PAID"
                   /\ unheard[b][this.month] > 0

(* The renewals the job marked PAID and the transactions rows it wrote for *)
(* a month are equally many.                                               *)
PaidByJob(b, m) ==
    {i \in DOMAIN rows[b] :
        /\ rows[b][i].month = m
        /\ rows[b][i].status = "PAID"
        /\ i > 1 \/ rows[b][i].last # Never}

PaidIsBooked ==
    \A b \in Bookings, m \in Months :
        Cardinality(PaidByJob(b, m)) = transactions[b][m]

(* A run that comes to its end has tried, or a run in the two days before  *)
(* it has, each renewal that is still FAILED, of every booking that may    *)
(* still be billed: no failure of one booking keeps the job from another.  *)
AllTriedWhenClosed ==
    pc = "closed" =>
        \A b \in Bookings \ requested : \A i \in DOMAIN rows[b] :
            rows[b][i].status = "FAILED" =>
                /\ rows[b][i].last # Never
                /\ today - rows[b][i].last <= 2

(* No renewal is made for a month that begins after the booking's end.     *)
NoMonthAfterMoveOut ==
    \A b \in Bookings \ OpenEnded : \A i \in DOMAIN rows[b] :
        StartDay(rows[b][i].month) <= MoveOut[b]

(* A renewal that the dues of a termination count is not charged as well:  *)
(* "if termination is requested, all other dues would be paid in           *)
(* termination" (pay-renewal.cron.ts 177).  The run read the flag before   *)
(* the customer asked.                                                     *)
DueOnce ==
    \A b \in Bookings : \A i \in dues[b] : rows[b][i].status # "PAID"

(* A failed renewal is charged again "after 72 hours" (pay-renewal.cron.ts *)
(* 206).                                                                   *)
RetriedAfter72Hours ==
    [][OpenRetry => \/ rows[at][row].last = Never
                    \/ today - rows[at][row].last >= 3]_vars

(* A month that is due gets its renewal, paid or failed, unless the        *)
(* customer asks to leave: however many runs went wrong, a later one       *)
(* catches up.                                                             *)
DueIsBilled ==
    \A b \in OpenEnded, m \in Months :
        today >= DueDay(m) ~>
            \/ b \in requested
            \/ \E i \in DOMAIN rows[b] : rows[b][i].month = m

=============================================================================
