--------------------------- MODULE BookingPayment ---------------------------
(***************************************************************************)
(* Paying, cancelling and changing a booking, with the cron jobs that move *)
(* its status: src/src/bookings/booking.service.ts, refunds/refund.service *)
(* .ts and the cron-job processes, over PostgreSQL and Stripe.             *)
(*                                                                         *)
(* A request is a handler that awaits the database or Stripe at each of    *)
(* its steps, so the steps of several requests, in one or in several       *)
(* server processes, and of the cron jobs interleave.  Handlers read a     *)
(* booking outside any transaction and later UPDATE it by id, inside their *)
(* own transaction and without looking at its status again.                *)
(*                                                                         *)
(* A transaction is READ COMMITTED: its rows appear at COMMIT, and from    *)
(* its UPDATE to its end it holds the row's lock, which other UPDATEs of   *)
(* that row wait for.  An SQL error aborts the transaction in the server   *)
(* and frees its locks at once; an error raised by anything else leaves    *)
(* them held until ROLLBACK, and a handler that returns without finishing  *)
(* its transaction holds them until its process ends.                      *)
(*                                                                         *)
(* A request is run once and stands for one call by a user; amounts are    *)
(* counted in halves of what the payment charged.                          *)
(***************************************************************************)
EXTENDS Integers, FiniteSets, FiniteSetsExt

CONSTANTS
    Bookings,
    PayReqs,        \* payBooking
    CancelReqs,     \* cancelBooking
    InsureReqs,     \* updateBooking by the customer: adds an insurance
    AdminReqs,      \* updateBooking by an administrator: sets a status
    NoRequest,      \* a value that is no request
    BookingOf,      \* the booking each request names
    StatusFor,      \* the status each administrator's request sets
    Ordered,        \* the bookings with a pick-up order
    Quoted,         \* the bookings made from a quotation
    OpenEnded       \* the bookings without a move-out date

Requests == PayReqs \cup CancelReqs \cup InsureReqs \cup AdminReqs

BookingStatus ==
    {"RESERVED", "CONFIRMED", "ACTIVE", "TERMINATED", "COMPLETED", "CANCELLED"}

(* An administrator may set any status but these three.                    *)
AdminStatus == BookingStatus \ {"RESERVED", "CONFIRMED", "ACTIVE"}

ASSUME RequestsAssumption ==
    /\ NoRequest \notin Requests
    /\ PayReqs \cap (CancelReqs \cup InsureReqs \cup AdminReqs) = {}
    /\ CancelReqs \cap (InsureReqs \cup AdminReqs) = {}
    /\ InsureReqs \cap AdminReqs = {}
    /\ BookingOf \in [Requests -> Bookings]
    /\ StatusFor \in [AdminReqs -> AdminStatus]

ASSUME BookingsAssumption ==
    /\ Ordered \subseteq Bookings
    /\ Quoted \subseteq Bookings
    /\ OpenEnded \subseteq Bookings

ASSUME CancelsAssumption == IsFiniteSet(CancelReqs)

Full == 2           \* all of what a payment charged

(* "hold": the booking is 15 minutes old; "orderHold": its order is, which *)
(* is made later; "moveIn", "moveOut": these dates have come.              *)
Milestones == {"hold", "orderHold", "moveIn", "moveOut"}

Working ==
    {"opened", "charged", "renewalWritten", "dropped", "bookingWritten",
     "written", "refunded", "refundFailed", "aborted",
     "catchNoCharge", "catchCharged"}
Ended == {"succeeded", "failed", "abandoned", "crashed"}

VARIABLES
    \* committed rows
    status,         \* bookings.status
    renewal,        \* renewals[0].status
    order,          \* orders[0].status
    quotation,      \* quotations.status
    insurance,      \* the request whose insurance the booking and its renewal carry
    taxes,          \* the requests that own the applied_taxes rows of the insurance
    payments,       \* the payments whose transaction row (with its redeem and
                    \* history rows) is committed
    refund,         \* the refund row of each cancellation
    \* row locks
    bookingLock,
    renewalLock,    \* the renewal's, and the order's when the holder is a payment
    \* Stripe
    charge,         \* the charge of each payment
    back,           \* what has been given back of it
    \* the handlers
    pc,
    terms,          \* the insurance a payment read, so charged for
    source,         \* the payment a cancellation gives back
    due,            \* how much of it
    \* the rest
    elapsed,        \* the milestones each booking is past
    rejecting       \* the quotations the reject job has listed

rows == <<status, renewal, order, quotation, insurance, taxes, payments, refund>>
locks == <<bookingLock, renewalLock>>
stripe == <<charge, back>>
locals == <<terms, source, due>>
outside == <<elapsed, rejecting>>
vars == <<rows, locks, stripe, pc, locals, outside>>

-----------------------------------------------------------------------------
(* Bookings as create() leaves them, with the order and the quotation of   *)
(* those that have one.                                                    *)
Init ==
    /\ status = [b \in Bookings |-> "RESERVED"]
    /\ renewal = [b \in Bookings |-> "UN_PAID"]
    /\ order = [b \in Bookings |-> IF b \in Ordered THEN "PENDING" ELSE "NONE"]
    /\ quotation = [b \in Bookings |-> IF b \in Quoted THEN "ACTIVE" ELSE "NONE"]
    /\ insurance = [b \in Bookings |-> NoRequest]
    /\ taxes = [b \in Bookings |-> {}]
    /\ payments = {}
    /\ refund = [c \in CancelReqs |-> "none"]
    /\ bookingLock = [b \in Bookings |-> NoRequest]
    /\ renewalLock = [b \in Bookings |-> NoRequest]
    /\ charge = [r \in PayReqs |-> "none"]
    /\ back = [r \in PayReqs |-> 0]
    /\ pc = [r \in Requests |-> "idle"]
    /\ terms = [r \in PayReqs |-> NoRequest]
    /\ source = [c \in CancelReqs |-> NoRequest]
    /\ due = [c \in CancelReqs |-> 0]
    /\ elapsed = [b \in Bookings |-> {}]
    /\ rejecting = {}

Payments(b) == {p \in payments : BookingOf[p] = b}

Goto(r, from, to) ==
    /\ pc[r] \in from
    /\ pc' = [pc EXCEPT ![r] = to]

Without(lock, r) == [b \in Bookings |-> IF lock[b] = r THEN NoRequest ELSE lock[b]]

ReleaseLocks(r) ==
    /\ bookingLock' = Without(bookingLock, r)
    /\ renewalLock' = Without(renewalLock, r)

LockBooking(r) ==
    /\ bookingLock[BookingOf[r]] = NoRequest
    /\ bookingLock' = [bookingLock EXCEPT ![BookingOf[r]] = r]
    /\ UNCHANGED renewalLock

LockRenewal(r) ==
    /\ renewalLock[BookingOf[r]] = NoRequest
    /\ renewalLock' = [renewalLock EXCEPT ![BookingOf[r]] = r]
    /\ UNCHANGED bookingLock

(* Steps that change only where a handler is, or also its locks.           *)
OnlyMoves == UNCHANGED <<rows, locks, stripe, locals, outside>>
OnlyLocks == UNCHANGED <<rows, stripe, locals, outside>>

-----------------------------------------------------------------------------
(* payBooking                                                              *)

CanPay_AnyStatus(b) == status[b] \in BookingStatus

CanPay(b) == status[b] = "RESERVED"

(* The booking is read, with its renewal and order, and no lock is taken;  *)
(* the amount is fixed here, before any await.                             *)
PayAdmit(r) ==
    /\ CanPay(BookingOf[r])
    /\ Goto(r, {"idle"}, "opened")
    /\ terms' = [terms EXCEPT ![r] = insurance[BookingOf[r]]]
    /\ UNCHANGED <<rows, locks, stripe, source, due, outside>>

(* Ids, customer or card could not be had, or Stripe declined the charge.  *)
PayRefused(r) ==
    /\ Goto(r, {"opened"}, "catchNoCharge")
    /\ OnlyMoves

PayCharge(r) ==
    /\ Goto(r, {"opened"}, "charged")
    /\ charge' = [charge EXCEPT ![r] = "made"]
    /\ UNCHANGED <<rows, locks, back, locals, outside>>

(* Stripe charged the card but its answer did not arrive.                  *)
PayChargeUnheard(r) ==
    /\ Goto(r, {"opened"}, "catchNoCharge")
    /\ charge' = [charge EXCEPT ![r] = "unheard"]
    /\ UNCHANGED <<rows, locks, back, locals, outside>>

PayWriteRenewal_NoTransaction(r) ==
    /\ Goto(r, {"charged"}, "renewalWritten")
    /\ renewal' = [renewal EXCEPT ![BookingOf[r]] = "PAID"]
    /\ UNCHANGED <<status, order, quotation, insurance, taxes, payments, refund,
                   locks, stripe, locals, outside>>

(* The transaction and redeem rows, the order's and the renewal's UPDATE.  *)
PayWriteRenewal(r) ==
    /\ Goto(r, {"charged"}, "renewalWritten")
    /\ LockRenewal(r)
    /\ OnlyLocks

(* The UPDATE of the booking, its history and the quotation.               *)
PayWriteBooking(r) ==
    /\ Goto(r, {"renewalWritten"}, "written")
    /\ LockBooking(r)
    /\ OnlyLocks

(* A statement fails and its transaction is aborted; or, once the booking  *)
(* is updated, publishing the change to the queue fails in the model hook. *)
PayWriteFails(r) ==
    /\ \/ pc[r] \in {"charged", "renewalWritten", "written"} /\ ReleaseLocks(r)
       \/ pc[r] = "written" /\ UNCHANGED locks
    /\ pc' = [pc EXCEPT ![r] = "catchCharged"]
    /\ OnlyLocks

(* The rows of a payment.  When the answer to COMMIT is lost they are      *)
(* there, but the handler goes on as if they were not.                     *)
PayCommit(r) ==
    LET b == BookingOf[r] IN
    /\ \E to \in {"succeeded", "catchCharged"} : Goto(r, {"written"}, to)
    /\ status' = [status EXCEPT ![b] = "CONFIRMED"]
    /\ renewal' = [renewal EXCEPT ![b] = "PAID"]
    /\ order' = [order EXCEPT ![b] = IF @ = "NONE" THEN @ ELSE "CONFIRMED"]
    /\ quotation' = [quotation EXCEPT ![b] = IF @ = "NONE" THEN @ ELSE "ACCEPTED"]
    /\ payments' = payments \cup {r}
    /\ ReleaseLocks(r)
    /\ UNCHANGED <<insurance, taxes, refund, stripe, locals, outside>>

PayCommitRefused(r) ==
    /\ Goto(r, {"written"}, "catchCharged")
    /\ ReleaseLocks(r)
    /\ OnlyLocks

(* The error path begins with a second transaction.  When that cannot be   *)
(* had, nothing is given back and the first one is never finished.         *)
CatchAbandoned(r) ==
    /\ Goto(r, {"catchNoCharge", "catchCharged"}, "abandoned")
    /\ OnlyMoves

(* Without a charge the renewal is marked, whatever its status is by now.  *)
CatchMarksRenewal(r) ==
    /\ renewalLock[BookingOf[r]] = NoRequest
    /\ Goto(r, {"catchNoCharge"}, "failed")
    /\ renewal' = [renewal EXCEPT ![BookingOf[r]] = "FAILED"]
    /\ UNCHANGED <<status, order, quotation, insurance, taxes, payments, refund,
                   locks, stripe, locals, outside>>

CatchCannotMark(r) ==
    /\ Goto(r, {"catchNoCharge"}, "failed")
    /\ OnlyMoves

CatchRefunds_NoRollback(r) ==
    /\ back[r] < Full
    /\ Goto(r, {"catchCharged"}, "failed")
    /\ back' = [back EXCEPT ![r] = Full]
    /\ UNCHANGED <<rows, locks, charge, locals, outside>>

CatchKeepsMoney(r) ==
    /\ Goto(r, {"catchCharged"}, "failed")
    /\ ReleaseLocks(r)
    /\ OnlyLocks

(* With a charge all that is left of it is given back, then the            *)
(* transaction is rolled back.                                             *)
CatchRefunds(r) ==
    /\ back[r] < Full
    /\ Goto(r, {"catchCharged"}, "failed")
    /\ back' = [back EXCEPT ![r] = Full]
    /\ ReleaseLocks(r)
    /\ UNCHANGED <<rows, charge, locals, outside>>

(* Stripe refuses, or its answer is lost: the handler throws before its    *)
(* rollback.                                                               *)
CatchRefundFails(r) ==
    /\ Goto(r, {"catchCharged"}, "abandoned")
    /\ \E n \in {back[r], Full} : back' = [back EXCEPT ![r] = n]
    /\ UNCHANGED <<rows, locks, charge, locals, outside>>

PayNext(r) ==
    \/ PayAdmit(r) \/ PayRefused(r) \/ PayCharge(r) \/ PayChargeUnheard(r)
    \/ PayWriteRenewal(r) \/ PayWriteBooking(r) \/ PayWriteFails(r)
    \/ PayCommit(r) \/ PayCommitRefused(r)
    \/ CatchAbandoned(r) \/ CatchMarksRenewal(r) \/ CatchCannotMark(r)
    \/ CatchRefunds(r) \/ CatchRefundFails(r)

-----------------------------------------------------------------------------
(* cancelBooking, with RefundService.refund                                *)

CanCancel_NotCancelled(b) == status[b] # "CANCELLED" /\ "moveIn" \notin elapsed[b]

CanCancel(b) == status[b] = "CONFIRMED" /\ "moveIn" \notin elapsed[b]

RefundTiers_Added == {Full, Full + 1, 0}

(* From 14 days before move-in all that was paid is due, from 7 the rent   *)
(* counts by half, later not at all (which can leave nothing).             *)
RefundTiers == {Full, 1, 0}

(* The payment to give back is read with the booking.                      *)
CancelAdmit(c) ==
    /\ CanCancel(BookingOf[c])
    /\ Goto(c, {"idle"}, "opened")
    /\ \E p \in IF Payments(BookingOf[c]) = {} THEN {NoRequest}
                                               ELSE Payments(BookingOf[c]) :
          source' = [source EXCEPT ![c] = p]
    /\ \E n \in RefundTiers : due' = [due EXCEPT ![c] = n]
    /\ UNCHANGED <<rows, locks, stripe, terms, outside>>

CancelWrite(c) ==
    /\ Goto(c, {"opened"}, "written")
    /\ LockBooking(c)
    /\ OnlyLocks

(* Nothing catches an error before the call of Stripe: a refused statement *)
(* or publish, the card or an id that cannot be had.  The transaction is   *)
(* never finished.                                                         *)
CancelAbandoned(c) ==
    /\ Goto(c, {"opened", "written"}, "abandoned")
    /\ ReleaseLocks(c) \/ UNCHANGED locks
    /\ OnlyLocks

(* Stripe refuses an amount of zero and more than is left of the charge.   *)
Refundable(p, n) == p \in PayReqs /\ n > 0 /\ back[p] + n <= Full

GivenBack_All(c) == [back EXCEPT ![source[c]] = Full]

GivenBack(c) == [back EXCEPT ![source[c]] = @ + due[c]]

CancelRefund(c) ==
    /\ Refundable(source[c], due[c])
    /\ Goto(c, {"written"}, "refunded")
    /\ back' = GivenBack(c)
    /\ UNCHANGED <<rows, locks, charge, locals, outside>>

CancelRefundFails(c) ==
    /\ Goto(c, {"written"}, "refundFailed")
    /\ \/ UNCHANGED back
       \/ Refundable(source[c], due[c]) /\ back' = GivenBack(c)
    /\ UNCHANGED <<rows, locks, charge, locals, outside>>

(* Saving stripe_refund_id is refused: the error is swallowed, and the     *)
(* aborted transaction goes on to its COMMIT.                              *)
CancelSaveRefused(c) ==
    /\ Goto(c, {"refunded"}, "aborted")
    /\ ReleaseLocks(c)
    /\ OnlyLocks

RefundRecord_AlwaysRecorded(c) == "recorded"

(* The refund row has a stripe_refund_id only when the handler heard it.   *)
RefundRecord(c) == IF pc[c] = "refunded" THEN "recorded" ELSE "pending"

(* The booking is cancelled whether or not the refund went through; the    *)
(* caller is told of a failure after the COMMIT.                           *)
CancelCommit(c) ==
    /\ \/ Goto(c, {"refunded"}, "succeeded")
       \/ Goto(c, {"refunded", "refundFailed"}, "failed")
    /\ status' = [status EXCEPT ![BookingOf[c]] = "CANCELLED"]
    /\ refund' = [refund EXCEPT ![c] = RefundRecord(c)]
    /\ ReleaseLocks(c)
    /\ UNCHANGED <<renewal, order, quotation, insurance, taxes, payments,
                   stripe, locals, outside>>

(* COMMIT is refused, or the transaction was aborted and COMMIT undoes it. *)
CancelCommitRefused(c) ==
    /\ Goto(c, {"refunded", "refundFailed", "aborted"}, "failed")
    /\ ReleaseLocks(c)
    /\ OnlyLocks

CancelNext(c) ==
    \/ CancelAdmit(c) \/ CancelWrite(c) \/ CancelAbandoned(c)
    \/ CancelRefund(c) \/ CancelRefundFails(c) \/ CancelSaveRefused(c)
    \/ CancelCommit(c) \/ CancelCommitRefused(c)

-----------------------------------------------------------------------------
(* updateBooking by the customer: adds an insurance to a reserved booking  *)

InsureAdmit(i) ==
    /\ status[BookingOf[i]] = "RESERVED"
    /\ Goto(i, {"idle"}, "opened")
    /\ OnlyMoves

(* The transaction is opened before the checks and outside the try: a      *)
(* request that fails them, or whose insurance or taxes cannot be had,     *)
(* never finishes it.                                                      *)
InsureAbandoned(i) ==
    /\ \/ status[BookingOf[i]] # "RESERVED" /\ Goto(i, {"idle"}, "abandoned")
       \/ Goto(i, {"opened", "dropped"}, "abandoned")
    /\ OnlyMoves

(* The insurance taxes the booking has are listed and deleted, outside the *)
(* transaction.                                                            *)
InsureDropTaxes(i) ==
    /\ Goto(i, {"opened"}, "dropped")
    /\ taxes' = [taxes EXCEPT ![BookingOf[i]] = {}]
    /\ UNCHANGED <<status, renewal, order, quotation, insurance, payments, refund,
                   locks, stripe, locals, outside>>

(* The booking first, then its renewal: payBooking locks them in the       *)
(* opposite order.                                                         *)
InsureWriteBooking(i) ==
    /\ Goto(i, {"dropped"}, "bookingWritten")
    /\ LockBooking(i)
    /\ OnlyLocks

InsureWriteRenewal(i) ==
    /\ Goto(i, {"bookingWritten"}, "written")
    /\ LockRenewal(i)
    /\ OnlyLocks

TaxRows_DeletedLast(i) == {}

(* The rows of an insurance, added to those there are.                     *)
TaxRows(i) == taxes[BookingOf[i]] \cup {i}

(* The new amounts and tax rows; the answer to COMMIT may be lost.         *)
InsureCommit(i) ==
    LET b == BookingOf[i] IN
    /\ \E to \in {"succeeded", "failed"} : Goto(i, {"written"}, to)
    /\ insurance' = [insurance EXCEPT ![b] = i]
    /\ taxes' = [taxes EXCEPT ![b] = TaxRows(i)]
    /\ ReleaseLocks(i)
    /\ UNCHANGED <<status, renewal, order, quotation, payments, refund,
                   stripe, locals, outside>>

(* A statement or the COMMIT fails: rolled back.                           *)
InsureFails(i) ==
    /\ Goto(i, {"dropped", "bookingWritten", "written"}, "failed")
    /\ ReleaseLocks(i)
    /\ OnlyLocks

InsureNext(i) ==
    \/ InsureAdmit(i) \/ InsureAbandoned(i) \/ InsureDropTaxes(i)
    \/ InsureWriteBooking(i) \/ InsureWriteRenewal(i)
    \/ InsureCommit(i) \/ InsureFails(i)

-----------------------------------------------------------------------------
(* updateBooking by an administrator: sets the status                      *)

CanSet(a, b) ==
    StatusFor[a] = "CANCELLED" /\ b \in OpenEnded => status[b] = "RESERVED"

AdminAdmit(a) ==
    /\ CanSet(a, BookingOf[a])
    /\ Goto(a, {"idle"}, "opened")
    /\ OnlyMoves

AdminAbandoned(a) ==
    /\ ~CanSet(a, BookingOf[a])
    /\ Goto(a, {"idle"}, "abandoned")
    /\ OnlyMoves

AdminWrite(a) ==
    /\ Goto(a, {"opened"}, "written")
    /\ LockBooking(a)
    /\ OnlyLocks

AdminCommit(a) ==
    /\ \E to \in {"succeeded", "failed"} : Goto(a, {"written"}, to)
    /\ status' = [status EXCEPT ![BookingOf[a]] = StatusFor[a]]
    /\ ReleaseLocks(a)
    /\ UNCHANGED <<renewal, order, quotation, insurance, taxes, payments, refund,
                   stripe, locals, outside>>

AdminFails(a) ==
    /\ Goto(a, {"opened", "written"}, "failed")
    /\ ReleaseLocks(a)
    /\ OnlyLocks

AdminNext(a) ==
    AdminAdmit(a) \/ AdminAbandoned(a) \/ AdminWrite(a) \/ AdminCommit(a) \/ AdminFails(a)

-----------------------------------------------------------------------------
(* The server process of a request ends (a deployment, an out-of-memory    *)
(* kill): its connection closes and PostgreSQL rolls its transaction back. *)
Crash(r) ==
    /\ Goto(r, Working \cup {"abandoned"}, "crashed")
    /\ ReleaseLocks(r)
    /\ OnlyLocks

(* A payment holds the renewal and waits for the booking, a change of      *)
(* insurance holds the booking and waits for the renewal: PostgreSQL       *)
(* aborts one of the two.                                                  *)
Deadlocked(p, i) ==
    /\ pc[p] = "renewalWritten"
    /\ pc[i] = "bookingWritten"
    /\ BookingOf[p] = BookingOf[i]

BreakDeadlock(p, i) ==
    /\ Deadlocked(p, i)
    /\ PayWriteFails(p) \/ InsureFails(i)

-----------------------------------------------------------------------------
(* The cron jobs.  updateBookingsStatus is one conditional UPDATE: it      *)
(* waits until no row it selects is locked and changes them together.      *)

Past(m) == {b \in Bookings : m \in elapsed[b]}

MoveAll(B, to) ==
    /\ B # {}
    /\ \A b \in B : bookingLock[b] = NoRequest
    /\ status' = [b \in Bookings |-> IF b \in B THEN to ELSE status[b]]
    /\ UNCHANGED <<renewal, order, quotation, insurance, taxes, payments, refund,
                   locks, stripe, pc, locals, outside>>

WithStatus(s) == {b \in Bookings : status[b] = s}

Expirable_OfQuotation == Past("hold") \cap WithStatus("RESERVED") \cap Quoted

Expirable_AnyStatus == Past("hold") \ WithStatus("CANCELLED")

Expirable == Past("hold") \cap WithStatus("RESERVED")

ExpireReservations == MoveAll(Expirable, "CANCELLED")

Startable_NotCancelled == Past("moveIn") \ WithStatus("CANCELLED")

Startable == Past("moveIn") \cap WithStatus("CONFIRMED")

ActivateBookings == MoveAll(Startable, "ACTIVE")

CompleteBookings == MoveAll(Past("moveOut") \cap WithStatus("ACTIVE"), "COMPLETED")

ExpirableOrders_AnyStatus == Past("orderHold") \cap Ordered

ExpirableOrders == {b \in Past("orderHold") : order[b] = "PENDING"}

ExpireOrders ==
    /\ ExpirableOrders # {}
    /\ \A b \in ExpirableOrders : renewalLock[b] \notin PayReqs
    /\ order' =
          [b \in Bookings |-> IF b \in ExpirableOrders THEN "CANCELLED" ELSE order[b]]
    /\ UNCHANGED <<status, renewal, quotation, insurance, taxes, payments, refund,
                   locks, stripe, pc, locals, outside>>

(* The reject job lists the old ACTIVE quotations, then rejects them one   *)
(* by one, by id.                                                          *)
ListQuotations ==
    /\ \E B \in SUBSET {b \in Bookings : quotation[b] = "ACTIVE"} : rejecting' = B
    /\ rejecting' # rejecting
    /\ UNCHANGED <<rows, locks, stripe, pc, locals, elapsed>>

RejectQuotation(b) ==
    /\ b \in rejecting
    /\ bookingLock[b] \notin PayReqs
    /\ quotation' = [quotation EXCEPT ![b] = "REJECTED"]
    /\ rejecting' = rejecting \ {b}
    /\ UNCHANGED <<status, renewal, order, insurance, taxes, payments, refund,
                   locks, stripe, pc, locals, elapsed>>

TimePasses(b) ==
    /\ \E m \in Milestones \ elapsed[b] :
          /\ m = "orderHold" => "hold" \in elapsed[b] /\ b \in Ordered
          /\ m = "moveOut" => "moveIn" \in elapsed[b] /\ b \notin OpenEnded
          /\ elapsed' = [elapsed EXCEPT ![b] = @ \cup {m}]
    /\ UNCHANGED <<rows, locks, stripe, pc, locals, rejecting>>

CronNext ==
    \/ ExpireReservations \/ ActivateBookings \/ CompleteBookings \/ ExpireOrders
    \/ ListQuotations
    \/ \E b \in Bookings : RejectQuotation(b)

Next ==
    \/ \E r \in PayReqs : PayNext(r)
    \/ \E c \in CancelReqs : CancelNext(c)
    \/ \E i \in InsureReqs : InsureNext(i)
    \/ \E a \in AdminReqs : AdminNext(a)
    \/ \E r \in Requests : Crash(r)
    \/ CronNext
    \/ \E b \in Bookings : TimePasses(b)

Spec == Init /\ [][Next]_vars

-----------------------------------------------------------------------------
(* What the scheduling assures.  Every call of the database that waits for *)
(* no lock and every call of Stripe ends, well or badly; PostgreSQL breaks *)
(* deadlocks; the job that expires reservations is started again every 15  *)
(* minutes.  Nothing makes a handler that waits for a lock give up, an     *)
(* abandoned transaction end or a server crash.                            *)
Progress(r) ==
    \/ /\ r \in PayReqs
       /\ \/ PayCharge(r) \/ PayWriteRenewal(r) \/ PayWriteBooking(r) \/ PayCommit(r)
          \/ CatchMarksRenewal(r) \/ CatchRefunds(r) \/ CatchRefundFails(r)
    \/ /\ r \in CancelReqs
       /\ \/ CancelWrite(r) \/ CancelRefund(r) \/ CancelRefundFails(r)
          \/ CancelCommit(r) \/ CancelCommitRefused(r)
    \/ /\ r \in InsureReqs
       /\ \/ InsureDropTaxes(r) \/ InsureWriteBooking(r)
          \/ InsureWriteRenewal(r) \/ InsureCommit(r)
    \/ /\ r \in AdminReqs
       /\ AdminWrite(r) \/ AdminCommit(r)

Fairness ==
    /\ \A r \in Requests : WF_vars(Progress(r))
    /\ \A p \in PayReqs, i \in InsureReqs : WF_vars(BreakDeadlock(p, i))
    /\ WF_vars(ExpireReservations)

FairSpec == Spec /\ Fairness

-----------------------------------------------------------------------------
(* Properties                                                              *)

(* Where a handler can be.                                                 *)
StatesOf(r) ==
    {"idle", "opened", "written"} \cup Ended \cup
    IF r \in PayReqs THEN {"charged", "renewalWritten", "catchNoCharge", "catchCharged"}
    ELSE IF r \in CancelReqs THEN {"refunded", "refundFailed", "aborted"}
    ELSE IF r \in InsureReqs THEN {"dropped", "bookingWritten"}
    ELSE {}

(* Every variable keeps its type; in particular no more is ever due, or    *)
(* given back, than was charged (booking.service.ts 1728-1743).            *)
TypeOK ==
    /\ status \in [Bookings -> BookingStatus]
    /\ renewal \in [Bookings -> {"UN_PAID", "PAID", "FAILED"}]
    /\ order \in [Bookings -> {"NONE", "PENDING", "CONFIRMED", "CANCELLED"}]
    /\ quotation \in [Bookings -> {"NONE", "ACTIVE", "ACCEPTED", "REJECTED"}]
    /\ insurance \in [Bookings -> InsureReqs \cup {NoRequest}]
    /\ taxes \in [Bookings -> SUBSET InsureReqs]
    /\ payments \subseteq PayReqs
    /\ refund \in [CancelReqs -> {"none", "pending", "recorded"}]
    /\ bookingLock \in [Bookings -> Requests \cup {NoRequest}]
    /\ renewalLock \in [Bookings -> PayReqs \cup InsureReqs \cup {NoRequest}]
    /\ charge \in [PayReqs -> {"none", "made", "unheard"}]
    /\ back \in [PayReqs -> 0..Full]
    /\ pc \in [Requests -> {"idle"} \cup Working \cup Ended]
    /\ \A r \in Requests : pc[r] \in StatesOf(r)
    /\ terms \in [PayReqs -> InsureReqs \cup {NoRequest}]
    /\ source \in [CancelReqs -> PayReqs \cup {NoRequest}]
    /\ due \in [CancelReqs -> 0..Full]
    /\ elapsed \in [Bookings -> SUBSET Milestones]
    /\ rejecting \subseteq Bookings

(* A RESERVED booking was never paid, whatever paid, failed or raced       *)
(* before: payBooking's rows appear together (1215-1324) and nothing       *)
(* returns a booking to RESERVED (1452-1459).                              *)
ReservedIsUnpaid ==
    \A b \in Bookings :
        status[b] = "RESERVED" => Payments(b) = {} /\ renewal[b] # "PAID"

(* A booking that holds a space was paid, and its renewal says so unless   *)
(* another payment of it, refused, overwrote that (1371-1381).             *)
LiveIsPaid ==
    \A b \in Bookings :
        status[b] \in {"CONFIRMED", "ACTIVE"} =>
            /\ Payments(b) # {}
            /\ \/ renewal[b] = "PAID"
               \/ \E r \in PayReqs \ payments :
                     BookingOf[r] = b /\ pc[r] = "failed" /\ charge[r] # "made"

(* A charge the handler knows of is booked, or given back, or still in the *)
(* handler's hands; it is kept for nothing only when the error path could  *)
(* not be finished or the process died (1368-1394).                        *)
ChargeAccounted ==
    \A r \in PayReqs :
        charge[r] = "made" /\ r \notin payments /\ back[r] = 0 =>
            pc[r] \in {"charged", "renewalWritten", "written", "catchCharged",
                      "abandoned", "crashed"}

(* A cancellation past its check has a payment of its booking to give back *)
(* (1676, 1794-1827).                                                      *)
CancelHasPayment ==
    \A c \in CancelReqs :
        pc[c] # "idle" => source[c] \in Payments(BookingOf[c])

(* A refund row with a stripe_refund_id stands for money given back, and   *)
(* its booking was paid by the charge it names (refund.service.ts 94-111). *)
RecordedRefundIsReal ==
    \A c \in CancelReqs :
        refund[c] = "recorded" =>
            /\ source[c] \in Payments(BookingOf[c])
            /\ due[c] > 0
            /\ back[source[c]] >= due[c]

(* No more of a payment that went through is given back than cancellations *)
(* made of it owed, together (booking.service.ts 1763-1777).               *)
NoUndueRefund ==
    \A r \in PayReqs :
        pc[r] = "succeeded" =>
            back[r] <= MapThenSumSet(LAMBDA c : IF source[c] = r THEN due[c] ELSE 0, CancelReqs)

(* What goes with a paid booking went with it: its order is confirmed and  *)
(* stays so, its quotation is no longer open (1250-1322,                   *)
(* cancel-booking.cron.ts 56-62).                                          *)
PaidTogether ==
    \A b \in Bookings :
        Payments(b) # {} =>
            /\ b \in Ordered => order[b] = "CONFIRMED"
            /\ quotation[b] # "ACTIVE"

(* A handler that has answered holds no row: no path to an answer leaves   *)
(* its transaction, and those who wait for it, behind.                     *)
AnsweredHoldsNothing ==
    \A b \in Bookings, r \in Requests :
        pc[r] \in {"idle", "opened", "succeeded", "failed", "crashed"} =>
            r \notin {bookingLock[b], renewalLock[b]}

(* The insurance a booking carries has its tax rows, unless another change *)
(* of insurance has deleted them without having been made (1543).          *)
InsuranceIsTaxed ==
    \A b \in Bookings, i \in InsureReqs :
        insurance[b] = i /\ i \notin taxes[b] =>
            \E j \in InsureReqs \ {i} :
                /\ BookingOf[j] = b
                /\ pc[j] \notin {"idle", "opened", "succeeded"}

(* The status a payment, a cancellation or a job leaves is one the request *)
(* was admitted for, or the job's next one: BookingLifecycle.              *)
Undecided ==
    {"opened", "charged", "renewalWritten", "written", "refunded", "refundFailed", "aborted"}
admitted ==
    [b \in Bookings |->
        {r \in PayReqs \cup CancelReqs \cup AdminReqs :
            BookingOf[r] = b /\ pc[r] \in Undecided}]

Lifecycle == INSTANCE BookingLifecycle WITH status <- status, admitted <- admitted

LifecycleImplemented == Lifecycle!LifecycleSpec

(* A booking is confirmed only out of RESERVED: what payBooking tells the  *)
(* user (1148-1152).  It does not hold.                                    *)
ConfirmsOnlyReserved ==
    [][\A b \in Bookings :
          status'[b] = "CONFIRMED" /\ status[b] # "CONFIRMED" => status[b] = "RESERVED"]_vars

(* An insurance is added only to a booking that is reserved: the comment   *)
(* and the error of getUpdateBookingPayload (1496-1502).  It does not hold.*)
InsuresOnlyReserved ==
    [][\A b \in Bookings : insurance'[b] # insurance[b] => status[b] = "RESERVED"]_vars

AbandonedHolds(b) ==
    \E r \in Requests : pc[r] = "abandoned" /\ r \in {bookingLock[b], renewalLock[b]}

(* A reservation that is not paid in time ends, unless an abandoned        *)
(* transaction holds one of those the job would cancel with it             *)
(* (cancel-booking.cron.ts 45-53).                                         *)
ReservationEnds ==
    \A b \in Bookings :
        (status[b] = "RESERVED" /\ "hold" \in elapsed[b])
            ~> (status[b] # "RESERVED" \/ \E e \in Bookings : AbandonedHolds(e))

(* Every request that began ends, unless one that was abandoned holds a    *)
(* row of the same booking.                                                *)
RequestsEnd ==
    \A r \in Requests :
        (pc[r] \in Working) ~> (pc[r] \in Ended \/ AbandonedHolds(BookingOf[r]))
=============================================================================
