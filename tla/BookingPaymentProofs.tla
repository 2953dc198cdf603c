------------------------ MODULE BookingPaymentProofs ------------------------
(* Theorems about BookingPayment, for any bookings and requests: what      *)
(* holds of every reachable state, and that the model implements           *)
(* BookingLifecycle.                                                       *)
EXTENDS BookingPayment, FiniteSetTheorems, TLAPS

USE DEF Requests, BookingStatus, AdminStatus, Full, Milestones, Working, Ended,
        StatesOf, rows, locks, stripe, locals, outside, OnlyMoves, OnlyLocks

-----------------------------------------------------------------------------
(* Types                                                                   *)

(* Each handler keeps the types.                                           *)
LEMMA PayKeepsType ==
    ASSUME TypeOK,
           NEW r \in PayReqs, PayNext(r)
    PROVE  TypeOK'
<1> USE RequestsAssumption DEF TypeOK, Goto
<1>0. BookingOf[r] \in Bookings
  BY RequestsAssumption
<1>1. CASE PayAdmit(r)
  BY <1>0, <1>1 DEF PayAdmit, CanPay
<1>2. CASE PayRefused(r)
  BY <1>0, <1>2 DEF PayRefused
<1>3. CASE PayCharge(r)
  BY <1>0, <1>3 DEF PayCharge
<1>4. CASE PayChargeUnheard(r)
  BY <1>0, <1>4 DEF PayChargeUnheard
<1>5. CASE PayWriteRenewal(r)
  BY <1>0, <1>5 DEF PayWriteRenewal, LockRenewal
<1>6. CASE PayWriteBooking(r)
  BY <1>0, <1>6 DEF PayWriteBooking, LockBooking
<1>7. CASE PayWriteFails(r)
  BY <1>0, <1>7 DEF PayWriteFails, ReleaseLocks, Without
<1>8. CASE PayCommit(r)
  BY <1>0, <1>8 DEF PayCommit, ReleaseLocks, Without
<1>9. CASE PayCommitRefused(r)
  BY <1>0, <1>9 DEF PayCommitRefused, ReleaseLocks, Without
<1>10. CASE CatchAbandoned(r)
  BY <1>0, <1>10 DEF CatchAbandoned
<1>11. CASE CatchMarksRenewal(r)
  BY <1>0, <1>11 DEF CatchMarksRenewal
<1>12. CASE CatchCannotMark(r)
  BY <1>0, <1>12 DEF CatchCannotMark
<1>13. CASE CatchRefunds(r)
  BY <1>0, <1>13 DEF CatchRefunds, ReleaseLocks, Without
<1>14. CASE CatchRefundFails(r)
  BY <1>0, <1>14 DEF CatchRefundFails
<1> QED
  BY <1>1, <1>2, <1>3, <1>4, <1>5, <1>6, <1>7, <1>8, <1>9, <1>10, <1>11, <1>12,
      <1>13, <1>14 DEF PayNext

(* The same of CancelNext.                                                 *)
LEMMA CancelKeepsType ==
    ASSUME TypeOK,
           NEW c \in CancelReqs, CancelNext(c)
    PROVE  TypeOK'
<1> USE RequestsAssumption DEF TypeOK, Goto
<1>0. BookingOf[c] \in Bookings
  BY RequestsAssumption
<1>1. CASE CancelAdmit(c)
  <2>1. Payments(BookingOf[c]) \subseteq PayReqs
    BY DEF Payments
  <2>2. /\ source' \in [CancelReqs -> PayReqs \cup {NoRequest}]
        /\ due' \in [CancelReqs -> 0..Full]
    BY <1>1, <2>1 DEF CancelAdmit, RefundTiers
  <2> QED
    BY <1>1, <2>2 DEF CancelAdmit
<1>2. CASE CancelWrite(c)
  BY <1>0, <1>2 DEF CancelWrite, LockBooking
<1>3. CASE CancelAbandoned(c)
  BY <1>0, <1>3 DEF CancelAbandoned, ReleaseLocks, Without
<1>4. CASE CancelRefund(c)
  BY <1>0, <1>4, SMTT(30) DEF CancelRefund, Refundable, GivenBack
<1>5. CASE CancelRefundFails(c)
  BY <1>0, <1>5, SMTT(30) DEF CancelRefundFails, Refundable, GivenBack
<1>6. CASE CancelSaveRefused(c)
  BY <1>0, <1>6 DEF CancelSaveRefused, ReleaseLocks, Without
<1>7. CASE CancelCommit(c)
  <2>1. refund' \in [CancelReqs -> {"none", "pending", "recorded"}]
    BY <1>7 DEF CancelCommit, RefundRecord
  <2>2. /\ bookingLock' \in [Bookings -> Requests \cup {NoRequest}]
        /\ renewalLock' \in [Bookings -> PayReqs \cup InsureReqs \cup {NoRequest}]
    BY <1>7 DEF CancelCommit, ReleaseLocks, Without
  <2>3. \E to \in {"succeeded", "failed"} : pc' = [pc EXCEPT ![c] = to]
    BY <1>7 DEF CancelCommit
  <2>4. /\ pc' \in [Requests -> {"idle"} \cup Working \cup Ended]
        /\ \A r \in Requests : pc'[r] \in StatesOf(r)
    BY <2>3
  <2> QED
    BY <1>0, <1>7, <2>1, <2>2, <2>4 DEF CancelCommit
<1>8. CASE CancelCommitRefused(c)
  BY <1>0, <1>8 DEF CancelCommitRefused, ReleaseLocks, Without
<1> QED
  BY <1>1, <1>2, <1>3, <1>4, <1>5, <1>6, <1>7, <1>8 DEF CancelNext

(* The same of InsureNext.                                                 *)
LEMMA InsureKeepsType ==
    ASSUME TypeOK,
           NEW i \in InsureReqs, InsureNext(i)
    PROVE  TypeOK'
<1> USE RequestsAssumption DEF TypeOK, Goto
<1>0. BookingOf[i] \in Bookings
  BY RequestsAssumption
<1>1. CASE InsureAdmit(i)
  BY <1>0, <1>1 DEF InsureAdmit
<1>2. CASE InsureAbandoned(i)
  BY <1>0, <1>2, SMTT(30) DEF InsureAbandoned
<1>3. CASE InsureDropTaxes(i)
  BY <1>0, <1>3 DEF InsureDropTaxes
<1>4. CASE InsureWriteBooking(i)
  BY <1>0, <1>4 DEF InsureWriteBooking, LockBooking
<1>5. CASE InsureWriteRenewal(i)
  BY <1>0, <1>5 DEF InsureWriteRenewal, LockRenewal
<1>6. CASE InsureCommit(i)
  BY <1>0, <1>6 DEF InsureCommit, TaxRows, ReleaseLocks, Without
<1>7. CASE InsureFails(i)
  BY <1>0, <1>7 DEF InsureFails, ReleaseLocks, Without
<1> QED
  BY <1>1, <1>2, <1>3, <1>4, <1>5, <1>6, <1>7 DEF InsureNext

(* The same of AdminNext.                                                  *)
LEMMA AdminKeepsType ==
    ASSUME TypeOK,
           NEW a \in AdminReqs, AdminNext(a)
    PROVE  TypeOK'
<1> USE RequestsAssumption DEF TypeOK, Goto
<1>0. BookingOf[a] \in Bookings
  BY RequestsAssumption
<1>1. CASE AdminAdmit(a)
  BY <1>0, <1>1 DEF AdminAdmit
<1>2. CASE AdminAbandoned(a)
  BY <1>0, <1>2 DEF AdminAbandoned
<1>3. CASE AdminWrite(a)
  BY <1>0, <1>3 DEF AdminWrite, LockBooking
<1>4. CASE AdminCommit(a)
  BY <1>0, <1>4 DEF AdminCommit, ReleaseLocks, Without
<1>5. CASE AdminFails(a)
  BY <1>0, <1>5 DEF AdminFails, ReleaseLocks, Without
<1> QED
  BY <1>1, <1>2, <1>3, <1>4, <1>5 DEF AdminNext

(* Time and the jobs keep the types.                                       *)
LEMMA OutsideKeepsType ==
    ASSUME TypeOK,
           (\E r \in Requests : Crash(r)) \/ CronNext \/ (\E b \in Bookings : TimePasses(b))
    PROVE  TypeOK'
<1> USE RequestsAssumption DEF TypeOK, Goto
<1>1. ASSUME NEW r \in Requests, Crash(r)
      PROVE  TypeOK'
  BY <1>1 DEF Crash, ReleaseLocks, Without
<1>2. ASSUME NEW B \in SUBSET Bookings, NEW to \in BookingStatus, MoveAll(B, to)
      PROVE  TypeOK'
  BY <1>2 DEF MoveAll
<1>3. /\ Expirable \in SUBSET Bookings
      /\ Past("moveIn") \cap WithStatus("CONFIRMED") \in SUBSET Bookings
      /\ Past("moveOut") \cap WithStatus("ACTIVE") \in SUBSET Bookings
  BY DEF Expirable, Past, WithStatus
<1>4. CASE ExpireReservations
  BY <1>2, <1>3, <1>4 DEF ExpireReservations
<1>5. CASE ActivateBookings
  BY <1>2, <1>3, <1>5 DEF ActivateBookings, Startable
<1>6. CASE CompleteBookings
  BY <1>2, <1>3, <1>6 DEF CompleteBookings
<1>7. CASE ExpireOrders
  BY <1>7 DEF ExpireOrders
<1>8. CASE ListQuotations
  BY <1>8 DEF ListQuotations
<1>9. ASSUME NEW b \in Bookings, RejectQuotation(b)
      PROVE  TypeOK'
  BY <1>9 DEF RejectQuotation
<1>10. ASSUME NEW b \in Bookings, TimePasses(b)
       PROVE  TypeOK'
  BY <1>10 DEF TimePasses
<1> QED
  BY <1>1, <1>4, <1>5, <1>6, <1>7, <1>8, <1>9, <1>10 DEF CronNext

LEMMA StepKeepsType == TypeOK /\ [Next]_vars => TypeOK'
<1> SUFFICES ASSUME TypeOK, [Next]_vars
             PROVE  TypeOK'
  OBVIOUS
<1>1. CASE Next
  BY <1>1, PayKeepsType, CancelKeepsType, InsureKeepsType, AdminKeepsType,
     OutsideKeepsType DEF Next
<1>2. CASE UNCHANGED vars
  BY <1>2 DEF vars, TypeOK
<1> QED
  BY <1>1, <1>2

LEMMA InitHasType == Init => TypeOK
  BY RequestsAssumption, BookingsAssumption DEF Init, TypeOK

(* Every variable keeps its type, whatever the requests and their order.   *)
THEOREM TypeCorrect == Spec => []TypeOK
  BY InitHasType, StepKeepsType, PTL DEF Spec

-----------------------------------------------------------------------------
(* The inductive invariant: TypeOK and what the parts below say of the     *)
(* states between two steps of a handler, which the properties do not.     *)

(* Where a handler is while it may hold a row.                             *)
Holding ==
    {"renewalWritten", "bookingWritten", "written", "refunded", "refundFailed",
     "catchCharged", "abandoned"}

LocksAreHeld ==
    \A b \in Bookings, r \in Requests :
        r \in {bookingLock[b], renewalLock[b]} => pc[r] \in Holding

(* What a payment has done with Stripe and in the database by each step.   *)
ChargeSteps ==
    \A r \in PayReqs :
        /\ pc[r] \in {"charged", "renewalWritten", "written"} => r \notin payments
        /\ pc[r] \in {"charged", "renewalWritten", "written", "catchCharged"} => charge[r] = "made"
        /\ pc[r] = "catchNoCharge" => charge[r] # "made" /\ r \notin payments
        /\ pc[r] \in {"idle", "opened"} => charge[r] = "none" /\ r \notin payments
        /\ pc[r] = "succeeded" => r \in payments

(* Orders and quotations exist from the start or never.                    *)
OrdersExist == \A b \in Ordered : order[b] # "NONE"

(* What a cancellation knows of its payment, and when its refund row says. *)
RefundFacts(c) ==
    /\ pc[c] # "idle" =>
          source[c] \in payments /\ BookingOf[source[c]] = BookingOf[c]
    /\ pc[c] = "refunded" => due[c] > 0 /\ back[source[c]] >= due[c]
    /\ refund[c] = "recorded" =>
          pc[c] \in Ended /\ due[c] > 0 /\ back[source[c]] >= due[c]

(* A cancellation that may have given back.                                *)
Gave(c) == pc[c] \notin {"idle", "opened", "written"}

(* Two cancellations, or one, owed what was given back: an amount is two   *)
(* halves.                                                                 *)
OwedBy(r, c, d) ==
    /\ source[c] = r /\ source[d] = r /\ Gave(c) /\ Gave(d)
    /\ back[r] <= IF c = d THEN due[c] ELSE due[c] + due[d]

(* Nothing is given back of a payment before it is booked, and of one that *)
(* went through only by cancellations, each once.                          *)
RefundsOwed ==
    \A r \in PayReqs :
        /\ pc[r] \in {"idle", "opened", "charged", "renewalWritten", "written"} => back[r] = 0
        /\ pc[r] = "succeeded" /\ back[r] # 0 =>
              \E c, d \in CancelReqs : OwedBy(r, c, d)

(* An insurance a booking carries was committed by a request for it.       *)
InsuranceSteps ==
    \A b \in Bookings, i \in InsureReqs :
        insurance[b] = i => BookingOf[i] = b /\ pc[i] \in {"succeeded", "failed"}

(* The standing of bookings and what was paid for them.                    *)
Standing == ReservedIsUnpaid /\ LiveIsPaid /\ OrdersExist /\ PaidTogether

RefundInv == \A c \in CancelReqs : RefundFacts(c)

InsuranceInv == InsuranceSteps /\ InsuranceIsTaxed

IInv ==
    /\ TypeOK
    /\ LocksAreHeld
    /\ ChargeSteps /\ ChargeAccounted
    /\ Standing
    /\ RefundInv /\ RefundsOwed
    /\ InsuranceInv

-----------------------------------------------------------------------------
(* Row locks                                                               *)

(* Each handler has finished with the rows it held when it answers.        *)
LEMMA PayKeepsLocks ==
    ASSUME TypeOK, LocksAreHeld,
           NEW r \in PayReqs, PayNext(r)
    PROVE  LocksAreHeld'
<1> USE RequestsAssumption DEF TypeOK, LocksAreHeld, Holding, Goto
<1>0. BookingOf[r] \in Bookings
  BY RequestsAssumption
<1>1. CASE PayAdmit(r)
  BY <1>0, <1>1 DEF PayAdmit, CanPay
<1>2. CASE PayRefused(r)
  BY <1>0, <1>2 DEF PayRefused
<1>3. CASE PayCharge(r)
  BY <1>0, <1>3 DEF PayCharge
<1>4. CASE PayChargeUnheard(r)
  BY <1>0, <1>4 DEF PayChargeUnheard
<1>5. CASE PayWriteRenewal(r)
  BY <1>0, <1>5 DEF PayWriteRenewal, LockRenewal
<1>6. CASE PayWriteBooking(r)
  BY <1>0, <1>6 DEF PayWriteBooking, LockBooking
<1>7. CASE PayWriteFails(r)
  BY <1>0, <1>7 DEF PayWriteFails, ReleaseLocks, Without
<1>8. CASE PayCommit(r)
  BY <1>0, <1>8 DEF PayCommit, ReleaseLocks, Without
<1>9. CASE PayCommitRefused(r)
  BY <1>0, <1>9 DEF PayCommitRefused, ReleaseLocks, Without
<1>10. CASE CatchAbandoned(r)
  BY <1>0, <1>10 DEF CatchAbandoned
<1>11. CASE CatchMarksRenewal(r)
  BY <1>0, <1>11 DEF CatchMarksRenewal
<1>12. CASE CatchCannotMark(r)
  BY <1>0, <1>12 DEF CatchCannotMark
<1>13. CASE CatchRefunds(r)
  BY <1>0, <1>13 DEF CatchRefunds, ReleaseLocks, Without
<1>14. CASE CatchRefundFails(r)
  BY <1>0, <1>14 DEF CatchRefundFails
<1> QED
  BY <1>1, <1>2, <1>3, <1>4, <1>5, <1>6, <1>7, <1>8, <1>9, <1>10, <1>11, <1>12,
      <1>13, <1>14 DEF PayNext

(* The same of CancelNext.                                                 *)
LEMMA CancelKeepsLocks ==
    ASSUME TypeOK, LocksAreHeld,
           NEW c \in CancelReqs, CancelNext(c)
    PROVE  LocksAreHeld'
<1> USE RequestsAssumption DEF TypeOK, LocksAreHeld, Holding, Goto
<1>0. BookingOf[c] \in Bookings
  BY RequestsAssumption
<1>1. CASE CancelAdmit(c)
  BY <1>0, <1>1 DEF CancelAdmit, CanCancel, RefundTiers, Payments
<1>2. CASE CancelWrite(c)
  BY <1>0, <1>2 DEF CancelWrite, LockBooking
<1>3. CASE CancelAbandoned(c)
  BY <1>0, <1>3 DEF CancelAbandoned, ReleaseLocks, Without
<1>4. CASE CancelRefund(c)
  BY <1>0, <1>4 DEF CancelRefund, Refundable, GivenBack
<1>5. CASE CancelRefundFails(c)
  BY <1>0, <1>5 DEF CancelRefundFails, Refundable, GivenBack
<1>6. CASE CancelSaveRefused(c)
  BY <1>0, <1>6 DEF CancelSaveRefused, ReleaseLocks, Without
<1>7. CASE CancelCommit(c)
  BY <1>0, <1>7 DEF CancelCommit, RefundRecord, ReleaseLocks, Without
<1>8. CASE CancelCommitRefused(c)
  BY <1>0, <1>8 DEF CancelCommitRefused, ReleaseLocks, Without
<1> QED
  BY <1>1, <1>2, <1>3, <1>4, <1>5, <1>6, <1>7, <1>8 DEF CancelNext

(* The same of InsureNext.                                                 *)
LEMMA InsureKeepsLocks ==
    ASSUME TypeOK, LocksAreHeld,
           NEW i \in InsureReqs, InsureNext(i)
    PROVE  LocksAreHeld'
<1> USE RequestsAssumption DEF TypeOK, LocksAreHeld, Holding, Goto
<1>0. BookingOf[i] \in Bookings
  BY RequestsAssumption
<1>1. CASE InsureAdmit(i)
  BY <1>0, <1>1 DEF InsureAdmit
<1>2. CASE InsureAbandoned(i)
  BY <1>0, <1>2 DEF InsureAbandoned
<1>3. CASE InsureDropTaxes(i)
  BY <1>0, <1>3 DEF InsureDropTaxes
<1>4. CASE InsureWriteBooking(i)
  BY <1>0, <1>4 DEF InsureWriteBooking, LockBooking
<1>5. CASE InsureWriteRenewal(i)
  BY <1>0, <1>5 DEF InsureWriteRenewal, LockRenewal
<1>6. CASE InsureCommit(i)
  BY <1>0, <1>6 DEF InsureCommit, TaxRows, ReleaseLocks, Without
<1>7. CASE InsureFails(i)
  BY <1>0, <1>7 DEF InsureFails, ReleaseLocks, Without
<1> QED
  BY <1>1, <1>2, <1>3, <1>4, <1>5, <1>6, <1>7 DEF InsureNext

(* The same of AdminNext.                                                  *)
LEMMA AdminKeepsLocks ==
    ASSUME TypeOK, LocksAreHeld,
           NEW a \in AdminReqs, AdminNext(a)
    PROVE  LocksAreHeld'
<1> USE RequestsAssumption DEF TypeOK, LocksAreHeld, Holding, Goto
<1>0. BookingOf[a] \in Bookings
  BY RequestsAssumption
<1>1. CASE AdminAdmit(a)
  BY <1>0, <1>1 DEF AdminAdmit
<1>2. CASE AdminAbandoned(a)
  BY <1>0, <1>2 DEF AdminAbandoned
<1>3. CASE AdminWrite(a)
  BY <1>0, <1>3 DEF AdminWrite, LockBooking
<1>4. CASE AdminCommit(a)
  BY <1>0, <1>4 DEF AdminCommit, ReleaseLocks, Without
<1>5. CASE AdminFails(a)
  BY <1>0, <1>5 DEF AdminFails, ReleaseLocks, Without
<1> QED
  BY <1>1, <1>2, <1>3, <1>4, <1>5 DEF AdminNext

LEMMA StepKeepsLocks == TypeOK /\ LocksAreHeld /\ [Next]_vars => LocksAreHeld'
<1> SUFFICES ASSUME TypeOK, LocksAreHeld, [Next]_vars
             PROVE  LocksAreHeld'
  OBVIOUS
<1>1. ASSUME NEW r \in Requests, Crash(r)
      PROVE  LocksAreHeld'
  BY <1>1, RequestsAssumption
     DEF TypeOK, LocksAreHeld, Holding, Crash, Goto, ReleaseLocks, Without
<1>2. ASSUME UNCHANGED <<locks, pc>>
      PROVE  LocksAreHeld'
  BY <1>2 DEF LocksAreHeld, Holding
<1>3. ASSUME CronNext \/ (\E b \in Bookings : TimePasses(b)) \/ UNCHANGED vars
      PROVE  UNCHANGED <<locks, pc>>
  BY <1>3 DEF CronNext, ExpireReservations, ActivateBookings, CompleteBookings, MoveAll,
     ExpireOrders, ListQuotations, RejectQuotation, TimePasses, vars
<1> QED
  BY <1>1, <1>2, <1>3, PayKeepsLocks, CancelKeepsLocks, InsureKeepsLocks,
      AdminKeepsLocks
     DEF Next

-----------------------------------------------------------------------------
(* Charges                                                                 *)

(* payBooking takes one step after the other, and books a charge or gives *)
(* it back.                                                                *)
LEMMA PayKeepsCharges ==
    ASSUME TypeOK, ChargeSteps, ChargeAccounted,
           NEW r \in PayReqs, PayNext(r)
    PROVE  ChargeSteps' /\ ChargeAccounted'
<1> USE RequestsAssumption DEF TypeOK, ChargeSteps, ChargeAccounted, Goto
<1>0. BookingOf[r] \in Bookings
  BY RequestsAssumption
<1>1. CASE PayAdmit(r)
  BY <1>1 DEF PayAdmit, CanPay
<1>2. CASE PayRefused(r)
  BY <1>2 DEF PayRefused
<1>3. CASE PayCharge(r)
  BY <1>3 DEF PayCharge
<1>4. CASE PayChargeUnheard(r)
  BY <1>4 DEF PayChargeUnheard
<1>5. CASE PayWriteRenewal(r)
  BY <1>5 DEF PayWriteRenewal, LockRenewal
<1>6. CASE PayWriteBooking(r)
  BY <1>6 DEF PayWriteBooking, LockBooking
<1>7. CASE PayWriteFails(r)
  BY <1>7 DEF PayWriteFails, ReleaseLocks, Without
<1>8. CASE PayCommit(r)
  BY <1>8 DEF PayCommit, ReleaseLocks, Without
<1>9. CASE PayCommitRefused(r)
  BY <1>9 DEF PayCommitRefused, ReleaseLocks, Without
<1>10. CASE CatchAbandoned(r)
  BY <1>10 DEF CatchAbandoned
<1>11. CASE CatchMarksRenewal(r)
  BY <1>11 DEF CatchMarksRenewal
<1>12. CASE CatchCannotMark(r)
  BY <1>12 DEF CatchCannotMark
<1>13. CASE CatchRefunds(r)
  BY <1>13 DEF CatchRefunds, ReleaseLocks, Without
<1>14. CASE CatchRefundFails(r)
  BY <1>14 DEF CatchRefundFails
<1> QED
  BY <1>1, <1>2, <1>3, <1>4, <1>5, <1>6, <1>7, <1>8, <1>9, <1>10, <1>11, <1>12,
      <1>13, <1>14 DEF PayNext

(* Nobody else books or makes a charge, or takes back what was given back. *)
LEMMA OthersLeaveCharges ==
    ASSUME TypeOK, ChargeSteps, ChargeAccounted,
           UNCHANGED <<payments, charge>>,
           \A r \in PayReqs : back'[r] = 0 => back[r] = 0,
           \A r \in PayReqs : pc'[r] = pc[r]
    PROVE  ChargeSteps' /\ ChargeAccounted'
  BY DEF TypeOK, ChargeSteps, ChargeAccounted

LEMMA CancelLeavesCharges ==
    ASSUME TypeOK, NEW c \in CancelReqs, CancelNext(c)
    PROVE  /\ UNCHANGED <<payments, charge>>
           /\ \A r \in PayReqs : back'[r] >= back[r] /\ back[r] \in Int /\ pc'[r] = pc[r]
<1>0. /\ c \notin PayReqs
      /\ back \in [PayReqs -> 0..Full]
      /\ due[c] \in 0..Full
      /\ pc \in [Requests -> {"idle"} \cup Working \cup Ended]
  BY RequestsAssumption DEF TypeOK
<1> USE <1>0 DEF Goto
<1>1. CASE CancelAdmit(c)
  BY <1>1 DEF CancelAdmit
<1>2. CASE CancelWrite(c)
  BY <1>2 DEF CancelWrite
<1>3. CASE CancelAbandoned(c)
  BY <1>3 DEF CancelAbandoned
<1>4. CASE CancelRefund(c)
  BY <1>4 DEF CancelRefund, Refundable, GivenBack
<1>5. CASE CancelRefundFails(c)
  <2>1. CASE UNCHANGED back
    BY <1>5, <2>1 DEF CancelRefundFails
  <2>2. CASE Refundable(source[c], due[c]) /\ back' = GivenBack(c)
    BY <1>5, <2>2 DEF CancelRefundFails, Refundable, GivenBack
  <2> QED
    BY <1>5, <2>1, <2>2 DEF CancelRefundFails
<1>6. CASE CancelSaveRefused(c)
  BY <1>6 DEF CancelSaveRefused
<1>7. CASE CancelCommit(c)
  BY <1>7 DEF CancelCommit
<1>8. CASE CancelCommitRefused(c)
  BY <1>8 DEF CancelCommitRefused
<1> QED
  BY <1>1, <1>2, <1>3, <1>4, <1>5, <1>6, <1>7, <1>8 DEF CancelNext

LEMMA InsureLeavesCharges ==
    ASSUME TypeOK, NEW i \in InsureReqs, InsureNext(i)
    PROVE  /\ UNCHANGED <<payments, charge, back, status, renewal, order, quotation>>
           /\ \A r \in PayReqs : pc'[r] = pc[r]
<1> USE RequestsAssumption DEF TypeOK, Goto
<1>1. CASE InsureAdmit(i)
  BY <1>1 DEF InsureAdmit
<1>2. CASE InsureAbandoned(i)
  BY <1>2 DEF InsureAbandoned
<1>3. CASE InsureDropTaxes(i)
  BY <1>3 DEF InsureDropTaxes
<1>4. CASE InsureWriteBooking(i)
  BY <1>4 DEF InsureWriteBooking
<1>5. CASE InsureWriteRenewal(i)
  BY <1>5 DEF InsureWriteRenewal
<1>6. CASE InsureCommit(i)
  BY <1>6 DEF InsureCommit
<1>7. CASE InsureFails(i)
  BY <1>7 DEF InsureFails
<1> QED
  BY <1>1, <1>2, <1>3, <1>4, <1>5, <1>6, <1>7 DEF InsureNext

LEMMA AdminLeavesCharges ==
    ASSUME TypeOK, NEW a \in AdminReqs, AdminNext(a)
    PROVE  /\ UNCHANGED <<payments, charge, back, renewal, order, quotation>>
           /\ \A r \in PayReqs : pc'[r] = pc[r]
<1> USE RequestsAssumption DEF TypeOK, Goto
<1>1. CASE AdminAdmit(a)
  BY <1>1 DEF AdminAdmit
<1>2. CASE AdminAbandoned(a)
  BY <1>2 DEF AdminAbandoned
<1>3. CASE AdminWrite(a)
  BY <1>3 DEF AdminWrite
<1>4. CASE AdminCommit(a)
  BY <1>4 DEF AdminCommit
<1>5. CASE AdminFails(a)
  BY <1>5 DEF AdminFails
<1> QED
  BY <1>1, <1>2, <1>3, <1>4, <1>5 DEF AdminNext

(* The jobs and time touch neither Stripe nor the handlers.                *)
LEMMA OutsideLeavesHandlers ==
    ASSUME CronNext \/ (\E b \in Bookings : TimePasses(b)) \/ UNCHANGED vars
    PROVE  UNCHANGED <<payments, refund, insurance, taxes, renewal, locks, stripe, pc, locals>>
  BY DEF CronNext, ExpireReservations, ActivateBookings, CompleteBookings, MoveAll,
     ExpireOrders, ListQuotations, RejectQuotation, TimePasses, vars

LEMMA StepKeepsCharges ==
    TypeOK /\ ChargeSteps /\ ChargeAccounted /\ [Next]_vars => ChargeSteps' /\ ChargeAccounted'
<1> SUFFICES ASSUME TypeOK, ChargeSteps, ChargeAccounted, [Next]_vars
             PROVE  ChargeSteps' /\ ChargeAccounted'
  OBVIOUS
<1>1. ASSUME NEW r \in Requests, Crash(r)
      PROVE  ChargeSteps' /\ ChargeAccounted'
  BY <1>1, RequestsAssumption DEF TypeOK, ChargeSteps, ChargeAccounted, Crash, Goto
<1>2. ASSUME NEW c \in CancelReqs, CancelNext(c)
      PROVE  ChargeSteps' /\ ChargeAccounted'
  <2>1. \A r \in PayReqs : back'[r] = 0 => back[r] = 0
    BY <1>2, CancelLeavesCharges DEF TypeOK
  <2> QED
    BY <1>2, <2>1, CancelLeavesCharges, OthersLeaveCharges
<1>3. ASSUME NEW i \in InsureReqs, InsureNext(i)
      PROVE  ChargeSteps' /\ ChargeAccounted'
  BY <1>3, InsureLeavesCharges, OthersLeaveCharges
<1>4. ASSUME NEW a \in AdminReqs, AdminNext(a)
      PROVE  ChargeSteps' /\ ChargeAccounted'
  BY <1>4, AdminLeavesCharges, OthersLeaveCharges
<1>5. ASSUME CronNext \/ (\E b \in Bookings : TimePasses(b)) \/ UNCHANGED vars
      PROVE  ChargeSteps' /\ ChargeAccounted'
  BY <1>5, OutsideLeavesHandlers, OthersLeaveCharges
<1> QED
  BY <1>1, <1>2, <1>3, <1>4, <1>5, PayKeepsCharges DEF Next

-----------------------------------------------------------------------------
(* Bookings and their payments                                             *)

(* payBooking changes the rows of one booking, together.                   *)
LEMMA PayKeepsStanding ==
    ASSUME TypeOK, ChargeSteps, Standing,
           NEW r \in PayReqs, PayNext(r)
    PROVE  Standing'
<1> USE RequestsAssumption, BookingsAssumption DEF TypeOK, ChargeSteps, Standing,
    ReservedIsUnpaid, LiveIsPaid, OrdersExist, PaidTogether, Payments, Goto
<1>0. BookingOf[r] \in Bookings
  BY RequestsAssumption
<1>1. CASE PayAdmit(r)
  BY <1>0, <1>1 DEF PayAdmit, CanPay
<1>2. CASE PayRefused(r)
  BY <1>0, <1>2 DEF PayRefused
<1>3. CASE PayCharge(r)
  BY <1>0, <1>3, SMTT(30) DEF PayCharge
<1>4. CASE PayChargeUnheard(r)
  BY <1>0, <1>4 DEF PayChargeUnheard
<1>5. CASE PayWriteRenewal(r)
  BY <1>0, <1>5 DEF PayWriteRenewal, LockRenewal
<1>6. CASE PayWriteBooking(r)
  BY <1>0, <1>6 DEF PayWriteBooking, LockBooking
<1>7. CASE PayWriteFails(r)
  BY <1>0, <1>7 DEF PayWriteFails, ReleaseLocks, Without
<1>8. CASE PayCommit(r)
  <2> DEFINE b == BookingOf[r]
  <2>1. /\ status' = [status EXCEPT ![b] = "CONFIRMED"]
        /\ renewal' = [renewal EXCEPT ![b] = "PAID"]
        /\ payments' = payments \cup {r}
        /\ \A q \in PayReqs : q # r => pc'[q] = pc[q]
        /\ charge' = charge /\ pc[r] = "written"
    BY <1>8 DEF PayCommit
  <2>2. /\ order' = [order EXCEPT ![b] = IF @ = "NONE" THEN @ ELSE "CONFIRMED"]
        /\ quotation' = [quotation EXCEPT ![b] = IF @ = "NONE" THEN @ ELSE "ACCEPTED"]
    BY <1>8 DEF PayCommit
  <2>3. ReservedIsUnpaid'
    BY <1>0, <2>1
  <2>4. LiveIsPaid'
    BY <1>0, <2>1
  <2>5. OrdersExist' /\ PaidTogether'
    BY <1>0, <2>1, <2>2
  <2> QED
    BY <2>3, <2>4, <2>5
<1>9. CASE PayCommitRefused(r)
  BY <1>0, <1>9 DEF PayCommitRefused, ReleaseLocks, Without
<1>10. CASE CatchAbandoned(r)
  BY <1>0, <1>10 DEF CatchAbandoned
<1>11. CASE CatchMarksRenewal(r)
  BY <1>0, <1>11 DEF CatchMarksRenewal
<1>12. CASE CatchCannotMark(r)
  BY <1>0, <1>12 DEF CatchCannotMark
<1>13. CASE CatchRefunds(r)
  BY <1>0, <1>13 DEF CatchRefunds, ReleaseLocks, Without
<1>14. CASE CatchRefundFails(r)
  BY <1>0, <1>14 DEF CatchRefundFails
<1> QED
  BY <1>1, <1>2, <1>3, <1>4, <1>5, <1>6, <1>7, <1>8, <1>9, <1>10, <1>11, <1>12,
      <1>13, <1>14 DEF PayNext

(* Apart from payments, a booking is only closed, or goes from CONFIRMED   *)
(* to ACTIVE; its order and quotation are only closed while still open.    *)
ClosesOrActivates ==
    /\ UNCHANGED <<payments, charge, renewal>>
    /\ \A r \in PayReqs : pc[r] = "failed" => pc'[r] = "failed"
    /\ \A b \in Bookings :
          /\ \/ status'[b] = status[b]
             \/ status'[b] \in {"CANCELLED", "TERMINATED", "COMPLETED"}
             \/ status[b] = "CONFIRMED" /\ status'[b] = "ACTIVE"
          /\ \/ order'[b] = order[b]
             \/ order[b] = "PENDING" /\ order'[b] = "CANCELLED"
          /\ quotation'[b] \in {quotation[b], "REJECTED"}

LEMMA OthersKeepStanding == TypeOK /\ Standing /\ ClosesOrActivates => Standing'
<1> SUFFICES ASSUME TypeOK, Standing, ClosesOrActivates
             PROVE  Standing'
  OBVIOUS
<1> USE BookingsAssumption
    DEF TypeOK, Standing, ReservedIsUnpaid, LiveIsPaid, OrdersExist, PaidTogether, Payments,
        ClosesOrActivates
<1>1. ReservedIsUnpaid'
  OBVIOUS
<1>2. LiveIsPaid'
  OBVIOUS
<1>3. OrdersExist' /\ PaidTogether'
  OBVIOUS
<1> QED
  BY <1>1, <1>2, <1>3

LEMMA CancelCloses ==
    ASSUME TypeOK, NEW c \in CancelReqs, CancelNext(c)
    PROVE  /\ UNCHANGED <<renewal, order, quotation>>
           /\ \A b \in Bookings : status'[b] \in {status[b], "CANCELLED"}
<1> USE RequestsAssumption DEF TypeOK
<1>1. CASE CancelAdmit(c)
  BY <1>1 DEF CancelAdmit
<1>2. CASE CancelWrite(c)
  BY <1>2 DEF CancelWrite
<1>3. CASE CancelAbandoned(c)
  BY <1>3 DEF CancelAbandoned
<1>4. CASE CancelRefund(c)
  BY <1>4 DEF CancelRefund
<1>5. CASE CancelRefundFails(c)
  BY <1>5 DEF CancelRefundFails
<1>6. CASE CancelSaveRefused(c)
  BY <1>6 DEF CancelSaveRefused
<1>7. CASE CancelCommit(c)
  BY <1>7 DEF CancelCommit
<1>8. CASE CancelCommitRefused(c)
  BY <1>8 DEF CancelCommitRefused
<1> QED
  BY <1>1, <1>2, <1>3, <1>4, <1>5, <1>6, <1>7, <1>8 DEF CancelNext

LEMMA AdminCloses ==
    ASSUME TypeOK, NEW a \in AdminReqs, AdminNext(a)
    PROVE  \A b \in Bookings : status'[b] = status[b] \/ status'[b] \in AdminStatus
<1>1. CASE AdminCommit(a)
  BY <1>1, RequestsAssumption DEF AdminCommit, TypeOK
<1>2. CASE AdminAdmit(a) \/ AdminAbandoned(a) \/ AdminWrite(a) \/ AdminFails(a)
  BY <1>2 DEF AdminAdmit, AdminAbandoned, AdminWrite, AdminFails
<1> QED
  BY <1>1, <1>2 DEF AdminNext

LEMMA JobsCloseOrActivate ==
    ASSUME TypeOK,
           CronNext \/ (\E b \in Bookings : TimePasses(b)) \/ UNCHANGED vars
    PROVE  ClosesOrActivates
<1> USE DEF TypeOK, ClosesOrActivates
<1>0. payments' = payments /\ charge' = charge /\ renewal' = renewal /\ pc' = pc
  BY OutsideLeavesHandlers
<1>1. CASE ExpireReservations
  BY <1>0, <1>1 DEF ExpireReservations, MoveAll, Expirable, WithStatus
<1>2. CASE ActivateBookings
  BY <1>0, <1>2 DEF ActivateBookings, Startable, MoveAll, WithStatus
<1>3. CASE CompleteBookings
  BY <1>0, <1>3 DEF CompleteBookings, MoveAll, WithStatus
<1>4. CASE ExpireOrders
  BY <1>0, <1>4 DEF ExpireOrders, ExpirableOrders
<1>5. CASE ListQuotations
  BY <1>0, <1>5 DEF ListQuotations
<1>6. ASSUME NEW b \in Bookings, RejectQuotation(b)
      PROVE  ClosesOrActivates
  BY <1>0, <1>6 DEF RejectQuotation
<1>7. ASSUME NEW b \in Bookings, TimePasses(b)
      PROVE  ClosesOrActivates
  BY <1>0, <1>7 DEF TimePasses
<1>8. CASE UNCHANGED vars
  BY <1>0, <1>8 DEF vars
<1> QED
  BY <1>1, <1>2, <1>3, <1>4, <1>5, <1>6, <1>7, <1>8 DEF CronNext

LEMMA StepKeepsStanding ==
    TypeOK /\ ChargeSteps /\ Standing /\ [Next]_vars => Standing'
<1> SUFFICES ASSUME TypeOK, ChargeSteps, Standing, [Next]_vars
             PROVE  Standing'
  OBVIOUS
<1>1. ASSUME NEW r \in Requests, Crash(r)
      PROVE  ClosesOrActivates
  BY <1>1 DEF Crash, Goto, TypeOK, ClosesOrActivates
<1>2. ASSUME NEW c \in CancelReqs, CancelNext(c)
      PROVE  ClosesOrActivates
  BY <1>2, CancelLeavesCharges, CancelCloses DEF ClosesOrActivates
<1>3. ASSUME NEW i \in InsureReqs, InsureNext(i)
      PROVE  ClosesOrActivates
  BY <1>3, InsureLeavesCharges DEF ClosesOrActivates
<1>4. ASSUME NEW a \in AdminReqs, AdminNext(a)
      PROVE  ClosesOrActivates
  BY <1>4, AdminLeavesCharges, AdminCloses DEF ClosesOrActivates
<1> QED
  BY <1>1, <1>2, <1>3, <1>4, PayKeepsStanding, JobsCloseOrActivate, OthersKeepStanding
     DEF Next

-----------------------------------------------------------------------------
(* Refunds                                                                 *)

(* Payments are added, and money is given back, but neither is undone.     *)
LEMMA PayLeavesRefunds ==
    ASSUME TypeOK, NEW r \in PayReqs, PayNext(r)
    PROVE  /\ UNCHANGED <<source, due, refund>>
           /\ payments \subseteq payments'
           /\ \A q \in PayReqs : back'[q] >= back[q]
           /\ \A c \in CancelReqs : pc'[c] = pc[c]
<1>0. /\ r \notin CancelReqs
      /\ back \in [PayReqs -> 0..Full]
      /\ pc \in [Requests -> {"idle"} \cup Working \cup Ended]
  BY RequestsAssumption DEF TypeOK
<1> USE <1>0 DEF Goto
<1>1. CASE PayAdmit(r)
  BY <1>1 DEF PayAdmit
<1>2. CASE PayRefused(r)
  BY <1>2 DEF PayRefused
<1>3. CASE PayCharge(r)
  BY <1>3 DEF PayCharge
<1>4. CASE PayChargeUnheard(r)
  BY <1>4 DEF PayChargeUnheard
<1>5. CASE PayWriteRenewal(r)
  BY <1>5 DEF PayWriteRenewal
<1>6. CASE PayWriteBooking(r)
  BY <1>6 DEF PayWriteBooking
<1>7. CASE PayWriteFails(r)
  BY <1>7 DEF PayWriteFails
<1>8. CASE PayCommit(r)
  BY <1>8 DEF PayCommit
<1>9. CASE PayCommitRefused(r)
  BY <1>9 DEF PayCommitRefused
<1>10. CASE CatchAbandoned(r)
  BY <1>10 DEF CatchAbandoned
<1>11. CASE CatchMarksRenewal(r)
  BY <1>11 DEF CatchMarksRenewal
<1>12. CASE CatchCannotMark(r)
  BY <1>12 DEF CatchCannotMark
<1>13. CASE CatchRefunds(r)
  BY <1>13 DEF CatchRefunds
<1>14. CASE CatchRefundFails(r)
  BY <1>14 DEF CatchRefundFails
<1> QED
  BY <1>1, <1>2, <1>3, <1>4, <1>5, <1>6, <1>7, <1>8, <1>9, <1>10, <1>11, <1>12,
      <1>13, <1>14 DEF PayNext

LEMMA InsureLeavesRefunds ==
    ASSUME TypeOK, NEW i \in InsureReqs, InsureNext(i)
    PROVE  /\ UNCHANGED <<source, due, refund>>
           /\ \A c \in CancelReqs : pc'[c] = pc[c]
<1> USE RequestsAssumption DEF TypeOK, Goto
<1>1. CASE InsureAdmit(i)
  BY <1>1 DEF InsureAdmit
<1>2. CASE InsureAbandoned(i)
  BY <1>2 DEF InsureAbandoned
<1>3. CASE InsureDropTaxes(i)
  BY <1>3 DEF InsureDropTaxes
<1>4. CASE InsureWriteBooking(i)
  BY <1>4 DEF InsureWriteBooking
<1>5. CASE InsureWriteRenewal(i)
  BY <1>5 DEF InsureWriteRenewal
<1>6. CASE InsureCommit(i)
  BY <1>6 DEF InsureCommit
<1>7. CASE InsureFails(i)
  BY <1>7 DEF InsureFails
<1> QED
  BY <1>1, <1>2, <1>3, <1>4, <1>5, <1>6, <1>7 DEF InsureNext

LEMMA AdminLeavesRefunds ==
    ASSUME TypeOK, NEW a \in AdminReqs, AdminNext(a)
    PROVE  /\ UNCHANGED <<source, due, refund>>
           /\ \A c \in CancelReqs : pc'[c] = pc[c]
<1> USE RequestsAssumption DEF TypeOK, Goto
<1>1. CASE AdminAdmit(a)
  BY <1>1 DEF AdminAdmit
<1>2. CASE AdminAbandoned(a)
  BY <1>2 DEF AdminAbandoned
<1>3. CASE AdminWrite(a)
  BY <1>3 DEF AdminWrite
<1>4. CASE AdminCommit(a)
  BY <1>4 DEF AdminCommit
<1>5. CASE AdminFails(a)
  BY <1>5 DEF AdminFails
<1> QED
  BY <1>1, <1>2, <1>3, <1>4, <1>5 DEF AdminNext

(* A step that leaves a cancellation's own state alone, but for its crash,  *)
(* leaves the facts about it.                                              *)
LeavesRefund(c) ==
    /\ source'[c] = source[c] /\ due'[c] = due[c] /\ refund'[c] = refund[c]
    /\ payments \subseteq payments'
    /\ \A q \in PayReqs : back'[q] >= back[q]
    /\ \/ pc'[c] = pc[c]
       \/ pc[c] \in Working \cup {"abandoned"} /\ pc'[c] = "crashed"

LEMMA LeftRefundKeepsFacts ==
    ASSUME TypeOK, TypeOK', NEW c \in CancelReqs, RefundFacts(c), LeavesRefund(c)
    PROVE  RefundFacts(c)'
<1> USE DEF TypeOK, LeavesRefund, RefundFacts
<1>1. source[c] \in payments => back'[source[c]] >= back[source[c]]
  OBVIOUS
<1>2. /\ due[c] \in Int
      /\ source[c] \in payments =>
            /\ source[c] \in payments'
            /\ back[source[c]] \in Int /\ back'[source[c]] \in Int
  BY SMTT(30)
<1> QED
  BY <1>1, <1>2

LEMMA CancelLeavesOtherRefunds ==
    ASSUME TypeOK, NEW c \in CancelReqs, CancelNext(c), NEW d \in CancelReqs \ {c}
    PROVE  LeavesRefund(d)
<1>0. payments' = payments /\ \A q \in PayReqs : back'[q] >= back[q]
  BY CancelLeavesCharges
<1> USE DEF TypeOK, Goto
<1>1. CASE CancelAdmit(c)
  <2>1. source'[d] = source[d] /\ due'[d] = due[d] /\ refund'[d] = refund[d] /\ pc'[d] = pc[d]
    BY <1>1 DEF CancelAdmit
  <2> QED
    BY <1>0, <2>1 DEF LeavesRefund
<1>2. CASE CancelWrite(c)
  <2>1. source'[d] = source[d] /\ due'[d] = due[d] /\ refund'[d] = refund[d] /\ pc'[d] = pc[d]
    BY <1>2 DEF CancelWrite
  <2> QED
    BY <1>0, <2>1 DEF LeavesRefund
<1>3. CASE CancelAbandoned(c)
  <2>1. source'[d] = source[d] /\ due'[d] = due[d] /\ refund'[d] = refund[d] /\ pc'[d] = pc[d]
    BY <1>3 DEF CancelAbandoned
  <2> QED
    BY <1>0, <2>1 DEF LeavesRefund
<1>4. CASE CancelRefund(c)
  <2>1. source'[d] = source[d] /\ due'[d] = due[d] /\ refund'[d] = refund[d] /\ pc'[d] = pc[d]
    BY <1>4 DEF CancelRefund
  <2> QED
    BY <1>0, <2>1 DEF LeavesRefund
<1>5. CASE CancelRefundFails(c)
  <2>1. source'[d] = source[d] /\ due'[d] = due[d] /\ refund'[d] = refund[d] /\ pc'[d] = pc[d]
    BY <1>5 DEF CancelRefundFails
  <2> QED
    BY <1>0, <2>1 DEF LeavesRefund
<1>6. CASE CancelSaveRefused(c)
  <2>1. source'[d] = source[d] /\ due'[d] = due[d] /\ refund'[d] = refund[d] /\ pc'[d] = pc[d]
    BY <1>6 DEF CancelSaveRefused
  <2> QED
    BY <1>0, <2>1 DEF LeavesRefund
<1>7. CASE CancelCommit(c)
  <2>1. source'[d] = source[d] /\ due'[d] = due[d] /\ refund'[d] = refund[d] /\ pc'[d] = pc[d]
    BY <1>7 DEF CancelCommit
  <2> QED
    BY <1>0, <2>1 DEF LeavesRefund
<1>8. CASE CancelCommitRefused(c)
  <2>1. source'[d] = source[d] /\ due'[d] = due[d] /\ refund'[d] = refund[d] /\ pc'[d] = pc[d]
    BY <1>8 DEF CancelCommitRefused
  <2> QED
    BY <1>0, <2>1 DEF LeavesRefund
<1> QED
  BY <1>1, <1>2, <1>3, <1>4, <1>5, <1>6, <1>7, <1>8 DEF CancelNext

(* A cancellation finds a payment because its booking is CONFIRMED, and    *)
(* records a refund only after Stripe confirmed it.                        *)
LEMMA CancelKeepsFacts ==
    ASSUME TypeOK, TypeOK', LiveIsPaid, RefundInv,
           NEW c \in CancelReqs, CancelNext(c)
    PROVE  RefundFacts(c)'
<1> USE RequestsAssumption DEF TypeOK, Goto, RefundInv, RefundFacts
<1>0. BookingOf[c] \in Bookings
  BY RequestsAssumption
<1>1. CASE CancelAdmit(c)
  <2>1. source'[c] \in Payments(BookingOf[c])
    BY <1>0, <1>1 DEF CancelAdmit, CanCancel, LiveIsPaid
  <2>2. pc'[c] = "opened" /\ refund' = refund /\ payments' = payments /\ pc[c] = "idle"
    BY <1>1 DEF CancelAdmit
  <2> QED
    BY <2>1, <2>2 DEF Payments
<1>2. CASE CancelWrite(c)
  BY <1>0, <1>2 DEF CancelWrite, LockBooking
<1>3. CASE CancelAbandoned(c)
  BY <1>0, <1>3 DEF CancelAbandoned, ReleaseLocks, Without
<1>4. CASE CancelRefund(c)
  BY <1>0, <1>4, SMTT(30) DEF CancelRefund, Refundable, GivenBack
<1>5. CASE CancelRefundFails(c)
  BY <1>0, <1>5 DEF CancelRefundFails, Refundable, GivenBack
<1>6. CASE CancelSaveRefused(c)
  BY <1>0, <1>6 DEF CancelSaveRefused, ReleaseLocks, Without
<1>7. CASE CancelCommit(c)
  BY <1>0, <1>7 DEF CancelCommit, RefundRecord, ReleaseLocks, Without
<1>8. CASE CancelCommitRefused(c)
  BY <1>0, <1>8 DEF CancelCommitRefused, ReleaseLocks, Without
<1> QED
  BY <1>1, <1>2, <1>3, <1>4, <1>5, <1>6, <1>7, <1>8 DEF CancelNext

LEMMA StepKeepsRefunds ==
    TypeOK /\ TypeOK' /\ LiveIsPaid /\ RefundInv /\ [Next]_vars => RefundInv'
<1> SUFFICES ASSUME TypeOK, TypeOK', LiveIsPaid, RefundInv, [Next]_vars,
                    NEW d \in CancelReqs
             PROVE  RefundFacts(d)'
  BY DEF RefundInv
<1>0. RefundFacts(d)
  BY DEF RefundInv
<1>1. ASSUME NEW r \in PayReqs, PayNext(r)
      PROVE  LeavesRefund(d)
  BY <1>1, PayLeavesRefunds DEF LeavesRefund
<1>2. ASSUME NEW i \in InsureReqs, InsureNext(i)
      PROVE  LeavesRefund(d)
  <2>1. back' = back /\ payments' = payments
    BY <1>2, InsureLeavesCharges
  <2>2. \A q \in PayReqs : back'[q] >= back[q]
    BY <2>1, SMTT(30) DEF TypeOK
  <2> QED
    BY <1>2, <2>1, <2>2, InsureLeavesRefunds DEF LeavesRefund
<1>3. ASSUME NEW a \in AdminReqs, AdminNext(a)
      PROVE  LeavesRefund(d)
  BY <1>3, AdminLeavesRefunds, AdminLeavesCharges DEF LeavesRefund, TypeOK
<1>4. ASSUME NEW r \in Requests, Crash(r)
      PROVE  LeavesRefund(d)
  BY <1>4 DEF Crash, Goto, LeavesRefund, TypeOK
<1>5. ASSUME CronNext \/ (\E b \in Bookings : TimePasses(b)) \/ UNCHANGED vars
      PROVE  LeavesRefund(d)
  BY <1>5, OutsideLeavesHandlers DEF LeavesRefund, TypeOK
<1>6. ASSUME NEW c \in CancelReqs, CancelNext(c)
      PROVE  RefundFacts(d)'
  BY <1>0, <1>6, CancelKeepsFacts, CancelLeavesOtherRefunds, LeftRefundKeepsFacts
<1> QED
  BY <1>0, <1>1, <1>2, <1>3, <1>4, <1>5, <1>6, LeftRefundKeepsFacts DEF Next

(* What the two properties of refunds say follows.                         *)
LEMMA RefundInvSuffices == RefundInv => CancelHasPayment /\ RecordedRefundIsReal
  BY DEF RefundInv, RefundFacts, CancelHasPayment, RecordedRefundIsReal, Payments

-----------------------------------------------------------------------------
(* A sum over the cancellations                                            *)

(* The first number a set has.                                             *)
LEMMA LeastNumber ==
    ASSUME NEW S, S \subseteq Nat, S # {}
    PROVE  \E m \in S : \A k \in S : m <= k
<1> DEFINE Ends == {0..m : m \in S}
<1>1. \A m \in S : 0..m \in FiniteSubsetsOf(Int)
  <2> SUFFICES ASSUME NEW m \in S PROVE 0..m \in FiniteSubsetsOf(Int)
    OBVIOUS
  <2>1. IsFiniteSet(0..m)
    BY FS_Interval
  <2> QED
    BY <2>1 DEF FiniteSubsetsOf
<1>2. Ends \subseteq FiniteSubsetsOf(Int) /\ Ends # {}
  BY <1>1
<1>3. IsWellFoundedOn(StrictSubsetOrdering(Int), FiniteSubsetsOf(Int))
  BY FS_StrictSubsetOrderingWellFounded
<1> HIDE DEF Ends
<1>4. PICK U \in Ends : \A V \in Ends : <<V, U>> \notin StrictSubsetOrdering(Int)
  BY <1>2, <1>3, WFMin
<1> USE DEF Ends
<1>5. PICK m \in S : U = 0..m
  OBVIOUS
<1>6. ASSUME NEW k \in S, ~(m <= k) PROVE FALSE
  <2>1. m \in Nat /\ k \in Nat /\ k < m
    BY <1>6
  <2>2. 0..k \subseteq 0..m /\ m \in 0..m /\ m \notin 0..k
    BY <2>1
  <2>3. <<0..k, 0..m>> \in StrictSubsetOrdering(Int)
    BY <2>1, <2>2 DEF StrictSubsetOrdering
  <2> QED
    BY <1>4, <1>5, <2>3
<1> QED
  BY <1>5, <1>6

(* Induction, over the numbers for which something holds.                  *)
LEMMA UpTo ==
    ASSUME NEW n \in Nat, NEW G, 0 \in G, \A i \in 0..n : i + 1 \in 0..n /\ i \in G => i + 1 \in G
    PROVE  \A i \in 0..n : i \in G
<1> SUFFICES ASSUME (0..n) \ G # {} PROVE FALSE
  OBVIOUS
<1>1. PICK m \in (0..n) \ G : \A k \in (0..n) \ G : m <= k
  <2>1. (0..n) \ G \subseteq Nat
    OBVIOUS
  <2> QED
    BY <2>1, LeastNumber
<1>2. m # 0 /\ m - 1 \in 0..n
  BY <1>1
<1>3. m - 1 \in G
  BY <1>1, <1>2
<1> QED
  BY <1>1, <1>2, <1>3

(* The subsets of at most n elements, and a sum over each: the steps of    *)
(* MapThenSumSet.                                                          *)
Small(S, n) == {s \in SUBSET S : Cardinality(s) <= n}
Chosen(s) == CHOOSE x \in s : TRUE
Sums(v, D, g) ==
    \A s \in D : g[s] = IF s = {} THEN 0 ELSE v[Chosen(s)] + g[s \ {Chosen(s)}]

(* A finite set without one of its elements.                               *)
LEMMA OneLess ==
    ASSUME NEW S, IsFiniteSet(S), NEW s \in SUBSET S, s # {}
    PROVE  /\ Chosen(s) \in s /\ Chosen(s) \in S
           /\ s \ {Chosen(s)} \in SUBSET S
           /\ Cardinality(s) \in Nat \ {0}
           /\ Cardinality(s \ {Chosen(s)}) = Cardinality(s) - 1
<1>1. Chosen(s) \in s
  BY DEF Chosen
<1>2. IsFiniteSet(s)
  BY FS_Subset
<1>3. Cardinality(s) \in Nat /\ Cardinality(s) # 0
  BY <1>2, FS_CardinalityType, FS_EmptySet
<1>4. Cardinality(s \ {Chosen(s)}) = Cardinality(s) - 1
  BY <1>1, <1>2, FS_RemoveElement
<1> QED
  BY <1>1, <1>3, <1>4

LEMMA SumsExist ==
    ASSUME NEW S, IsFiniteSet(S), NEW v \in [S -> Nat]
    PROVE  \E g \in [SUBSET S -> Nat] : Sums(v, SUBSET S, g)
<1> DEFINE N == Cardinality(S)
           G == {n \in 0..N : \E g \in [Small(S, n) -> Nat] : Sums(v, Small(S, n), g)}
<1>0. N \in Nat
  BY FS_CardinalityType
<1> HIDE DEF N
<1>1. 0 \in G
  <2>1. \A s \in Small(S, 0) : s = {}
    <3> SUFFICES ASSUME NEW s \in Small(S, 0), s # {} PROVE FALSE
      OBVIOUS
    <3>1. s \in SUBSET S /\ Cardinality(s) <= 0
      BY DEF Small
    <3>2. Cardinality(s) \in Nat \ {0}
      BY <3>1, OneLess
    <3> QED
      BY <3>1, <3>2
  <2> DEFINE g == [s \in Small(S, 0) |-> 0]
  <2>2. g \in [Small(S, 0) -> Nat] /\ Sums(v, Small(S, 0), g)
    BY <2>1 DEF Sums
  <2> HIDE DEF g
  <2> QED
    BY <1>0, <2>2
<1>2. ASSUME NEW n \in 0..N, n + 1 \in 0..N, n \in G PROVE n + 1 \in G
  <2>1. PICK g \in [Small(S, n) -> Nat] : Sums(v, Small(S, n), g)
    BY <1>2
  <2>0. n \in Nat
    BY <1>0
  <2> DEFINE D == Small(S, n)
             E == Small(S, n + 1)
             more == [s \in E |-> IF s \in D THEN g[s]
                                  ELSE v[Chosen(s)] + g[s \ {Chosen(s)}]]
  <2>2. D \subseteq E
    <3> SUFFICES ASSUME NEW s \in D PROVE s \in E
      OBVIOUS
    <3>1. s \in SUBSET S /\ Cardinality(s) <= n
      BY DEF Small
    <3>2. Cardinality(s) \in Nat
      BY <3>1, FS_Subset, FS_CardinalityType
    <3> QED
      BY <2>0, <3>1, <3>2 DEF Small
  <2>3. ASSUME NEW s \in E, s # {}
        PROVE  Chosen(s) \in S /\ s \ {Chosen(s)} \in D
    <3>1. s \in SUBSET S /\ Cardinality(s) <= n + 1
      BY DEF Small
    <3>2. /\ Chosen(s) \in S /\ s \ {Chosen(s)} \in SUBSET S
          /\ Cardinality(s) \in Nat \ {0}
          /\ Cardinality(s \ {Chosen(s)}) = Cardinality(s) - 1
      BY <2>3, <3>1, OneLess
    <3>3. Cardinality(s \ {Chosen(s)}) <= n
      BY <2>0, <3>1, <3>2
    <3> QED
      BY <3>2, <3>3 DEF Small
  <2>4. {} \in D
    BY <2>0, FS_EmptySet DEF Small
  <2> HIDE DEF D, E
  <2>5. \A s \in E : s \notin D => more[s] = v[Chosen(s)] + g[s \ {Chosen(s)}]
    OBVIOUS
  <2>6. \A s \in D : more[s] = g[s]
    BY <2>2
  <2>7. more \in [E -> Nat]
    <3> SUFFICES ASSUME NEW s \in E
                 PROVE  (IF s \in D THEN g[s] ELSE v[Chosen(s)] + g[s \ {Chosen(s)}]) \in Nat
      OBVIOUS
    <3>1. CASE s \in D
      BY <2>1, <3>1 DEF D
    <3>2. CASE s \notin D
      <4>1. Chosen(s) \in S /\ s \ {Chosen(s)} \in D
        BY <2>3, <2>4, <3>2
      <4>2. v[Chosen(s)] \in Nat /\ g[s \ {Chosen(s)}] \in Nat
        BY <2>1, <4>1 DEF D
      <4> QED
        BY <3>2, <4>2
    <3> QED
      BY <3>1, <3>2
  <2>8. Sums(v, E, more)
    <3> SUFFICES ASSUME NEW s \in E
                 PROVE  more[s] = IF s = {} THEN 0
                                  ELSE v[Chosen(s)] + more[s \ {Chosen(s)}]
      BY DEF Sums
    <3> HIDE DEF more
    <3>1. s # {} => more[s \ {Chosen(s)}] = g[s \ {Chosen(s)}]
      BY <2>3, <2>6
    <3>2. CASE s \in D
      <4>1. g[s] = IF s = {} THEN 0 ELSE v[Chosen(s)] + g[s \ {Chosen(s)}]
        BY <2>1, <3>2 DEF Sums, D
      <4> QED
        BY <2>6, <3>1, <3>2, <4>1
    <3>3. CASE s \notin D
      BY <2>4, <2>5, <3>1, <3>3
    <3> QED
      BY <3>2, <3>3
  <2> HIDE DEF more
  <2>9. \E h \in [Small(S, n + 1) -> Nat] : Sums(v, Small(S, n + 1), h)
    BY <2>7, <2>8 DEF E
  <2> QED
    BY <1>2, <2>9
<1> HIDE DEF G
<1>3. \A n \in 0..N : n + 1 \in 0..N /\ n \in G => n + 1 \in G
  BY <1>2
<1>4. \A n \in 0..N : n \in G
  BY <1>0, <1>1, <1>3, UpTo
<1>5. N \in G
  BY <1>0, <1>4
<1>6. Small(S, N) = SUBSET S
  <2>1. \A s \in SUBSET S : Cardinality(s) <= N
    BY FS_Subset DEF N
  <2> QED
    BY <2>1 DEF Small
<1> QED
  BY <1>5, <1>6 DEF G

(* A sum of such steps is at least each of its terms, and any two.         *)
LEMMA TermsOfSum ==
    ASSUME NEW S, IsFiniteSet(S), NEW v \in [S -> Nat],
           NEW g, Sums(v, SUBSET S, g)
    PROVE  /\ g[S] \in Nat
           /\ \A x, y \in S : (IF x = y THEN v[x] ELSE v[x] + v[y]) <= g[S]
<1> DEFINE N == Cardinality(S)
           Holds(s) == /\ g[s] \in Nat
                       /\ \A x, y \in s : (IF x = y THEN v[x] ELSE v[x] + v[y]) <= g[s]
           G == {n \in 0..N : \A s \in Small(S, n) : Holds(s)}
<1>0. N \in Nat
  BY FS_CardinalityType
<1> HIDE DEF N
<1>1. 0 \in G
  <2>1. \A s \in Small(S, 0) : s = {}
    <3> SUFFICES ASSUME NEW s \in Small(S, 0), s # {} PROVE FALSE
      OBVIOUS
    <3>1. s \in SUBSET S /\ Cardinality(s) <= 0
      BY DEF Small
    <3>2. Cardinality(s) \in Nat \ {0}
      BY <3>1, OneLess
    <3> QED
      BY <3>1, <3>2
  <2>2. \A s \in Small(S, 0) : g[s] = 0
    BY <2>1 DEF Sums, Small
  <2> QED
    BY <1>0, <2>1, <2>2
<1>2. ASSUME NEW n \in 0..N, n + 1 \in 0..N, n \in G,
             NEW s \in Small(S, n + 1), NEW x \in s, NEW y \in s
      PROVE  g[s] \in Nat /\ (IF x = y THEN v[x] ELSE v[x] + v[y]) <= g[s]
  <2>0. n \in Nat
    BY <1>0
  <2>1. s \in SUBSET S /\ Cardinality(s) <= n + 1 /\ s # {}
    BY DEF Small
  <2>2. PICK z : z = Chosen(s)
    OBVIOUS
  <2>3. PICK t : t = s \ {z}
    OBVIOUS
  <2>4. /\ z \in S /\ t \in SUBSET S /\ Cardinality(s) \in Nat \ {0}
        /\ Cardinality(t) = Cardinality(s) - 1
    BY <2>1, <2>2, <2>3, OneLess
  <2>5. Cardinality(t) <= n
    BY <2>0, <2>1, <2>4
  <2>6. Holds(t)
    BY <1>2, <2>4, <2>5 DEF Small
  <2>7. g[s] = v[z] + g[t]
    BY <2>1, <2>2, <2>3 DEF Sums
  <2>8. v[z] \in Nat /\ g[t] \in Nat /\ g[s] \in Nat /\ v[x] \in Nat /\ v[y] \in Nat
    BY <2>1, <2>4, <2>6, <2>7
  <2>9. \A e \in s : e # z => e \in t /\ v[e] <= g[t] /\ v[e] \in Nat
    <3> SUFFICES ASSUME NEW e \in s, e # z PROVE e \in t /\ v[e] <= g[t] /\ v[e] \in Nat
      OBVIOUS
    <3>1. e \in t
      BY <2>3
    <3>2. (IF e = e THEN v[e] ELSE v[e] + v[e]) <= g[t]
      BY <2>6, <3>1
    <3> QED
      BY <2>1, <3>1, <3>2
  <2> HIDE DEF Holds
  <2>10. CASE x = y
    <3>1. x # z => v[x] <= g[t]
      BY <2>9
    <3>2. x = z => v[x] = v[z]
      OBVIOUS
    <3> QED
      BY <2>7, <2>8, <2>10, <3>1, <3>2
  <2>11. CASE x # y
    <3>1. CASE x = z
      <4>1. v[y] <= g[t] /\ v[x] = v[z]
        BY <2>9, <2>11, <3>1
      <4> QED
        BY <2>7, <2>8, <2>11, <4>1
    <3>2. CASE y = z
      <4>1. v[x] <= g[t] /\ v[y] = v[z]
        BY <2>9, <2>11, <3>2
      <4> QED
        BY <2>7, <2>8, <2>11, <4>1
    <3>3. CASE x # z /\ y # z
      <4>1. x \in t /\ y \in t
        BY <2>9, <3>3
      <4>2. v[x] + v[y] <= g[t]
        BY <2>6, <2>11, <4>1 DEF Holds
      <4> QED
        BY <2>7, <2>8, <2>11, <4>2
    <3> QED
      BY <3>1, <3>2, <3>3
  <2> QED
    BY <2>8, <2>10, <2>11
<1>3. \A n \in 0..N : n + 1 \in 0..N /\ n \in G => n + 1 \in G
  <2>1. ASSUME NEW n \in 0..N, n + 1 \in 0..N, n \in G, NEW s \in Small(S, n + 1)
        PROVE  g[s] \in Nat
    <3>1. CASE s = {}
      <4>1. g[s] = 0
        BY <3>1 DEF Sums
      <4> QED
        BY <4>1
    <3>2. CASE s # {}
      BY <1>2, <2>1, <3>2
    <3> QED
      BY <3>1, <3>2
  <2> QED
    BY <1>2, <2>1
<1> HIDE DEF G
<1>4. \A n \in 0..N : n \in G
  BY <1>0, <1>1, <1>3, UpTo
<1>5. S \in Small(S, N)
  BY <1>0 DEF Small, N
<1> QED
  BY <1>0, <1>4, <1>5 DEF G

(* What the cancellations of a payment owe, as a sum of such steps.        *)
LEMMA DueSums ==
    ASSUME TypeOK, NEW r \in PayReqs
    PROVE  \E v \in [CancelReqs -> Nat] : \E g :
              /\ v = [e \in CancelReqs |-> IF source[e] = r THEN due[e] ELSE 0]
              /\ Sums(v, SUBSET CancelReqs, g)
              /\ MapThenSumSet(LAMBDA e : IF source[e] = r THEN due[e] ELSE 0, CancelReqs)
                   = g[CancelReqs]
<1> DEFINE Q(g) == g = [s \in SUBSET CancelReqs |->
                          IF s = {} THEN 0
                          ELSE (IF source[CHOOSE x \in s : TRUE] = r
                                THEN due[CHOOSE x \in s : TRUE] ELSE 0)
                               + g[s \ {CHOOSE x \in s : TRUE}]]
           f == CHOOSE g : Q(g)
<1>1. PICK v : v = [e \in CancelReqs |-> IF source[e] = r THEN due[e] ELSE 0]
  OBVIOUS
<1>2. v \in [CancelReqs -> Nat]
  BY <1>1 DEF TypeOK
<1>3. PICK g \in [SUBSET CancelReqs -> Nat] : Sums(v, SUBSET CancelReqs, g)
  BY <1>2, SumsExist, CancelsAssumption
<1>4. \A s \in SUBSET CancelReqs : s # {} =>
         v[Chosen(s)] = IF source[Chosen(s)] = r THEN due[Chosen(s)] ELSE 0
  BY <1>1, OneLess, CancelsAssumption
<1>5. Q(g)
  BY <1>3, <1>4 DEF Sums, Chosen
<1>6. Q(f)
  <2> HIDE DEF Q
  <2> QED
    BY <1>5
<1>7. MapThenSumSet(LAMBDA e : IF source[e] = r THEN due[e] ELSE 0, CancelReqs)
        = f[CancelReqs]
  BY DEF MapThenSumSet, MapThenFoldSet
<1> HIDE DEF f
<1>8. \A s \in SUBSET CancelReqs :
         f[s] = IF s = {} THEN 0
                ELSE (IF source[CHOOSE x \in s : TRUE] = r
                      THEN due[CHOOSE x \in s : TRUE] ELSE 0)
                     + f[s \ {CHOOSE x \in s : TRUE}]
  BY <1>6
<1> HIDE DEF Q
<1>9. Sums(v, SUBSET CancelReqs, f)
  BY <1>4, <1>8 DEF Sums, Chosen
<1> QED
  BY <1>1, <1>2, <1>7, <1>9

(* So it is a number, and at least what two of them owe.                   *)
LEMMA DueTogether ==
    ASSUME TypeOK, NEW r \in PayReqs
    PROVE  /\ MapThenSumSet(LAMBDA e : IF source[e] = r THEN due[e] ELSE 0, CancelReqs) \in Nat
           /\ \A c, d \in CancelReqs :
                 source[c] = r /\ source[d] = r =>
                    (IF c = d THEN due[c] ELSE due[c] + due[d]) <=
                       MapThenSumSet(LAMBDA e : IF source[e] = r THEN due[e] ELSE 0, CancelReqs)
<1>0. PICK v \in [CancelReqs -> Nat] : \E g :
         /\ v = [e \in CancelReqs |-> IF source[e] = r THEN due[e] ELSE 0]
         /\ Sums(v, SUBSET CancelReqs, g)
         /\ MapThenSumSet(LAMBDA e : IF source[e] = r THEN due[e] ELSE 0, CancelReqs)
              = g[CancelReqs]
  BY DueSums
<1>1. PICK g :
         /\ v = [e \in CancelReqs |-> IF source[e] = r THEN due[e] ELSE 0]
         /\ Sums(v, SUBSET CancelReqs, g)
         /\ MapThenSumSet(LAMBDA e : IF source[e] = r THEN due[e] ELSE 0, CancelReqs)
              = g[CancelReqs]
  BY <1>0
<1>2. /\ g[CancelReqs] \in Nat
      /\ \A x, y \in CancelReqs : (IF x = y THEN v[x] ELSE v[x] + v[y]) <= g[CancelReqs]
  BY <1>1, TermsOfSum, CancelsAssumption
<1>3. \A c \in CancelReqs : source[c] = r => v[c] = due[c]
  BY <1>1
<1> QED
  BY <1>1, <1>2, <1>3

-----------------------------------------------------------------------------
(* What is given back of a payment is owed                                 *)

(* A step that neither gives back nor makes a payment succeed, and that    *)
(* leaves alone what a cancellation owes that may have given back.         *)
LeavesOwed ==
    /\ back' = back
    /\ \A r \in PayReqs :
          /\ pc'[r] = "succeeded" => pc[r] = "succeeded" \/ back[r] = 0
          /\ pc'[r] \in {"idle", "opened", "charged", "renewalWritten", "written"} =>
                pc[r] \in {"idle", "opened", "charged", "renewalWritten", "written"}
    /\ \A c \in CancelReqs :
          Gave(c) => Gave(c)' /\ source'[c] = source[c] /\ due'[c] = due[c]

LEMMA LeftOwedIsOwed ==
    ASSUME TypeOK, RefundsOwed, LeavesOwed
    PROVE  RefundsOwed'
<1> SUFFICES ASSUME NEW r \in PayReqs
             PROVE  /\ pc'[r] \in {"idle", "opened", "charged", "renewalWritten", "written"} =>
                           back'[r] = 0
                    /\ pc'[r] = "succeeded" /\ back'[r] # 0 =>
                           \E c, d \in CancelReqs : OwedBy(r, c, d)'
  BY DEF RefundsOwed
<1>1. ASSUME pc'[r] = "succeeded", back'[r] # 0
      PROVE  \E c, d \in CancelReqs : OwedBy(r, c, d)'
  <2>1. PICK c, d \in CancelReqs : OwedBy(r, c, d)
    BY <1>1 DEF RefundsOwed, LeavesOwed
  <2>2. /\ Gave(c)' /\ Gave(d)'
        /\ source'[c] = source[c] /\ due'[c] = due[c]
        /\ source'[d] = source[d] /\ due'[d] = due[d]
    BY <2>1 DEF LeavesOwed, OwedBy
  <2>3. OwedBy(r, c, d)'
    BY <2>1, <2>2 DEF LeavesOwed, OwedBy
  <2> QED
    BY <2>3
<1> QED
  BY <1>1 DEF RefundsOwed, LeavesOwed

(* payBooking gives back what it does not book.                            *)
LEMMA PayKeepsOwed ==
    ASSUME TypeOK, ChargeSteps, RefundsOwed, NEW r \in PayReqs, PayNext(r)
    PROVE  RefundsOwed'
<1>0. /\ source' = source /\ due' = due
      /\ \A c \in CancelReqs : pc'[c] = pc[c]
      /\ \A q \in PayReqs \ {r} : pc'[q] = pc[q] /\ back'[q] = back[q]
  <2>1. \A q \in PayReqs \ {r} : pc'[q] = pc[q] /\ back'[q] = back[q]
    BY DEF PayNext, PayAdmit, PayRefused, PayCharge, PayChargeUnheard, PayWriteRenewal,
       PayWriteBooking, PayWriteFails, PayCommit, PayCommitRefused, CatchAbandoned,
       CatchMarksRenewal, CatchCannotMark, CatchRefunds, CatchRefundFails, Goto, TypeOK
  <2> QED
    BY <2>1, PayLeavesRefunds
<1>1. \/ back'[r] = 0
      \/ pc'[r] \notin {"idle", "opened", "charged", "renewalWritten", "written", "succeeded"}
  <2> USE DEF RefundsOwed, TypeOK, Goto
  <2>1. CASE PayAdmit(r)
    BY <2>1 DEF PayAdmit
  <2>2. CASE PayRefused(r)
    BY <2>2 DEF PayRefused
  <2>3. CASE PayCharge(r)
    BY <2>3 DEF PayCharge
  <2>4. CASE PayChargeUnheard(r)
    BY <2>4 DEF PayChargeUnheard
  <2>5. CASE PayWriteRenewal(r)
    BY <2>5 DEF PayWriteRenewal
  <2>6. CASE PayWriteBooking(r)
    BY <2>6 DEF PayWriteBooking
  <2>7. CASE PayWriteFails(r)
    BY <2>7 DEF PayWriteFails
  <2>8. CASE PayCommit(r)
    BY <2>8 DEF PayCommit
  <2>9. CASE PayCommitRefused(r)
    BY <2>9 DEF PayCommitRefused
  <2>10. CASE CatchAbandoned(r)
    BY <2>10 DEF CatchAbandoned
  <2>11. CASE CatchMarksRenewal(r)
    BY <2>11 DEF CatchMarksRenewal
  <2>12. CASE CatchCannotMark(r)
    BY <2>12 DEF CatchCannotMark
  <2>13. CASE CatchRefunds(r)
    BY <2>13 DEF CatchRefunds
  <2>14. CASE CatchRefundFails(r)
    BY <2>14 DEF CatchRefundFails
  <2> QED
    BY <2>1, <2>2, <2>3, <2>4, <2>5, <2>6, <2>7, <2>8, <2>9, <2>10, <2>11, <2>12,
        <2>13, <2>14 DEF PayNext
<1>2. ASSUME NEW q \in PayReqs, q # r, pc'[q] = "succeeded", back'[q] # 0
      PROVE  \E c, d \in CancelReqs : OwedBy(q, c, d)'
  <2>1. PICK c, d \in CancelReqs : OwedBy(q, c, d)
    BY <1>0, <1>2 DEF RefundsOwed
  <2>2. OwedBy(q, c, d)'
    BY <1>0, <1>2, <2>1 DEF OwedBy, Gave
  <2> QED
    BY <2>2
<1> QED
  BY <1>0, <1>1, <1>2 DEF RefundsOwed

(* A cancellation that gives back owes it, and did not give back before.   *)
LEMMA CancelGives ==
    ASSUME TypeOK, ChargeSteps, RefundInv, RefundsOwed, NEW c \in CancelReqs,
           pc[c] = "written", Refundable(source[c], due[c]), back' = GivenBack(c),
           source' = source, due' = due,
           pc' = [pc EXCEPT ![c] = "refunded"] \/ pc' = [pc EXCEPT ![c] = "refundFailed"]
    PROVE  RefundsOwed'
<1>1. PICK p \in PayReqs : p = source[c] /\ p \in payments /\ due[c] > 0 /\ back[p] + due[c] <= Full
  BY DEF Refundable, RefundInv, RefundFacts, TypeOK
<1>2. /\ back'[p] = back[p] + due[c]
      /\ \A q \in PayReqs \ {p} : back'[q] = back[q]
  BY <1>1 DEF GivenBack, TypeOK
<1>3. /\ \A q \in PayReqs : pc'[q] = pc[q]
      /\ \A d \in CancelReqs : Gave(d) => Gave(d)' /\ d # c
      /\ Gave(c)'
  BY RequestsAssumption DEF Gave, TypeOK
<1>4. pc[p] \notin {"idle", "opened", "charged", "renewalWritten", "written"}
  BY <1>1 DEF ChargeSteps
<1>5. back[p] \in 0..2 /\ back'[p] \in Int /\ \A d \in CancelReqs : due[d] \in 0..2
  BY <1>1, <1>2 DEF TypeOK
<1>6. ASSUME pc[p] = "succeeded"
      PROVE  \E d, e \in CancelReqs : OwedBy(p, d, e)'
  <2>1. CASE back[p] = 0
    <3>1. OwedBy(p, c, c)'
      BY <1>1, <1>2, <1>3, <1>5, <2>1 DEF OwedBy
    <3> QED
      BY <3>1
  <2>2. CASE back[p] # 0
    <3>1. PICK d, e \in CancelReqs : OwedBy(p, d, e)
      BY <1>6, <2>2 DEF RefundsOwed
    <3>2. PICK f \in CancelReqs : source[f] = p /\ Gave(f) /\ due[f] > 0
      <4>1. due[d] > 0 \/ due[e] > 0
        BY <1>5, <2>2, <3>1 DEF OwedBy
      <4> QED
        BY <3>1, <4>1 DEF OwedBy
    <3>3. back'[p] <= due[f] + due[c]
      BY <1>1, <1>2, <1>5, <2>2, <3>2
    <3>4. OwedBy(p, f, c)'
      BY <1>1, <1>3, <3>2, <3>3 DEF OwedBy
    <3> QED
      BY <3>4
  <2> QED
    BY <2>1, <2>2
<1>7. ASSUME NEW q \in PayReqs \ {p}, pc'[q] = "succeeded", back'[q] # 0
      PROVE  \E d, e \in CancelReqs : OwedBy(q, d, e)'
  <2>1. PICK d, e \in CancelReqs : OwedBy(q, d, e)
    BY <1>2, <1>3, <1>7 DEF RefundsOwed
  <2>2. OwedBy(q, d, e)'
    BY <1>2, <1>3, <1>7, <2>1 DEF OwedBy
  <2> QED
    BY <2>2
<1> QED
  BY <1>2, <1>3, <1>4, <1>6, <1>7 DEF RefundsOwed

LEMMA CancelKeepsOwed ==
    ASSUME TypeOK, ChargeSteps, RefundInv, RefundsOwed, NEW c \in CancelReqs, CancelNext(c)
    PROVE  RefundsOwed'
<1>0. /\ back' = back
      /\ \A d \in CancelReqs :
            Gave(d) => Gave(d)' /\ source'[d] = source[d] /\ due'[d] = due[d]
      => LeavesOwed
  BY CancelLeavesCharges DEF LeavesOwed
<1> USE DEF TypeOK, Goto, Gave
<1>1. CASE CancelAdmit(c)
  BY <1>0, <1>1, LeftOwedIsOwed DEF CancelAdmit
<1>2. CASE CancelWrite(c)
  BY <1>0, <1>2, LeftOwedIsOwed DEF CancelWrite
<1>3. CASE CancelAbandoned(c)
  BY <1>0, <1>3, LeftOwedIsOwed DEF CancelAbandoned
<1>4. CASE CancelRefund(c)
  BY <1>4, CancelGives DEF CancelRefund
<1>5. CASE CancelRefundFails(c)
  <2>1. CASE UNCHANGED back
    BY <1>0, <1>5, <2>1, LeftOwedIsOwed DEF CancelRefundFails
  <2>2. CASE Refundable(source[c], due[c]) /\ back' = GivenBack(c)
    BY <1>5, <2>2, CancelGives DEF CancelRefundFails
  <2> QED
    BY <1>5, <2>1, <2>2 DEF CancelRefundFails
<1>6. CASE CancelSaveRefused(c)
  BY <1>0, <1>6, LeftOwedIsOwed DEF CancelSaveRefused
<1>7. CASE CancelCommit(c)
  BY <1>0, <1>7, LeftOwedIsOwed DEF CancelCommit
<1>8. CASE CancelCommitRefused(c)
  BY <1>0, <1>8, LeftOwedIsOwed DEF CancelCommitRefused
<1> QED
  BY <1>1, <1>2, <1>3, <1>4, <1>5, <1>6, <1>7, <1>8 DEF CancelNext

LEMMA StepKeepsOwed ==
    TypeOK /\ ChargeSteps /\ RefundInv /\ RefundsOwed /\ [Next]_vars => RefundsOwed'
<1> SUFFICES ASSUME TypeOK, ChargeSteps, RefundInv, RefundsOwed, [Next]_vars
             PROVE  RefundsOwed'
  OBVIOUS
<1>1. ASSUME NEW i \in InsureReqs, InsureNext(i)
      PROVE  LeavesOwed
  BY <1>1, InsureLeavesCharges, InsureLeavesRefunds DEF LeavesOwed, Gave
<1>2. ASSUME NEW a \in AdminReqs, AdminNext(a)
      PROVE  LeavesOwed
  BY <1>2, AdminLeavesCharges, AdminLeavesRefunds DEF LeavesOwed, Gave
<1>3. ASSUME NEW r \in Requests, Crash(r)
      PROVE  LeavesOwed
  BY <1>3 DEF Crash, Goto, LeavesOwed, Gave, TypeOK
<1>4. ASSUME CronNext \/ (\E b \in Bookings : TimePasses(b)) \/ UNCHANGED vars
      PROVE  LeavesOwed
  BY <1>4, OutsideLeavesHandlers DEF LeavesOwed, Gave
<1> QED
  BY <1>1, <1>2, <1>3, <1>4, PayKeepsOwed, CancelKeepsOwed, LeftOwedIsOwed DEF Next

(* No more of a payment that went through is given back than is owed.      *)
LEMMA OwedIsEnough == TypeOK /\ RefundsOwed => NoUndueRefund
<1> DEFINE Owed(r) == MapThenSumSet(LAMBDA c : IF source[c] = r THEN due[c] ELSE 0, CancelReqs)
<1>1. ASSUME TypeOK, NEW r \in PayReqs
      PROVE  /\ Owed(r) \in Nat
             /\ \A c, d \in CancelReqs :
                   source[c] = r /\ source[d] = r =>
                      (IF c = d THEN due[c] ELSE due[c] + due[d]) <= Owed(r)
  BY <1>1, DueTogether
<1> HIDE DEF Owed
<1>2. ASSUME TypeOK, RefundsOwed, NEW r \in PayReqs, pc[r] = "succeeded"
      PROVE  back[r] <= Owed(r)
  <2>1. Owed(r) \in Nat
    BY <1>1, <1>2
  <2>2. CASE back[r] = 0
    BY <2>1, <2>2
  <2>3. CASE back[r] # 0
    <3>1. PICK c, d \in CancelReqs : OwedBy(r, c, d)
      BY <1>2, <2>3 DEF RefundsOwed
    <3>2. (IF c = d THEN due[c] ELSE due[c] + due[d]) <= Owed(r)
      BY <1>1, <1>2, <3>1 DEF OwedBy
    <3>3. back[r] \in Int /\ due[c] \in Int /\ due[d] \in Int
      BY <1>2 DEF TypeOK
    <3> QED
      BY <2>1, <3>1, <3>2, <3>3 DEF OwedBy
  <2> QED
    BY <2>2, <2>3
<1> QED
  BY <1>2 DEF NoUndueRefund, Owed

-----------------------------------------------------------------------------
(* Insurances                                                              *)

(* A step that neither undoes a committed insurance nor brings a change of *)
(* insurance back to before its deletion.                                  *)
LeavesInsurances ==
    /\ insurance' = insurance /\ taxes' = taxes
    /\ \A i \in InsureReqs :
          /\ pc[i] \in {"succeeded", "failed"} => pc'[i] = pc[i]
          /\ pc[i] \notin {"idle", "opened", "succeeded"} =>
                pc'[i] \notin {"idle", "opened", "succeeded"}

LEMMA LeftInsurancesKeepTaxes == TypeOK /\ InsuranceInv /\ LeavesInsurances => InsuranceInv'
<1> SUFFICES ASSUME TypeOK, InsuranceInv, LeavesInsurances
             PROVE  InsuranceSteps' /\ InsuranceIsTaxed'
  BY DEF InsuranceInv
<1>1. InsuranceSteps'
  BY DEF InsuranceInv, InsuranceSteps, LeavesInsurances
<1>2. InsuranceIsTaxed'
  <2> SUFFICES ASSUME NEW b \in Bookings, NEW i \in InsureReqs,
                      insurance[b] = i, i \notin taxes[b]
               PROVE  \E j \in InsureReqs \ {i} :
                          BookingOf[j] = b /\ pc'[j] \notin {"idle", "opened", "succeeded"}
    BY DEF InsuranceIsTaxed, LeavesInsurances
  <2>1. PICK j \in InsureReqs \ {i} :
            BookingOf[j] = b /\ pc[j] \notin {"idle", "opened", "succeeded"}
    BY DEF InsuranceInv, InsuranceIsTaxed
  <2> QED
    BY <2>1 DEF LeavesInsurances
<1> QED
  BY <1>1, <1>2

(* A change of insurance adds its tax rows when it adds itself; only in    *)
(* between its deletion and its end can others be without theirs.          *)
LEMMA InsureKeepsTaxes ==
    ASSUME TypeOK, InsuranceInv,
           NEW i \in InsureReqs, InsureNext(i)
    PROVE  InsuranceInv'
<1> USE RequestsAssumption DEF TypeOK, InsuranceInv, InsuranceSteps,
    InsuranceIsTaxed, Goto
<1>0. BookingOf[i] \in Bookings
  BY RequestsAssumption
<1>1. CASE InsureAdmit(i)
  BY <1>0, <1>1 DEF InsureAdmit
<1>2. CASE InsureAbandoned(i)
  <2>1. LeavesInsurances
    BY <1>2 DEF InsureAbandoned, LeavesInsurances
  <2> QED
    BY <2>1, LeftInsurancesKeepTaxes DEF InsuranceInv
<1>3. CASE InsureDropTaxes(i)
  BY <1>0, <1>3 DEF InsureDropTaxes
<1>4. CASE InsureWriteBooking(i)
  BY <1>0, <1>4 DEF InsureWriteBooking, LockBooking
<1>5. CASE InsureWriteRenewal(i)
  BY <1>0, <1>5 DEF InsureWriteRenewal, LockRenewal
<1>6. CASE InsureCommit(i)
  BY <1>0, <1>6 DEF InsureCommit, TaxRows, ReleaseLocks, Without
<1>7. CASE InsureFails(i)
  BY <1>0, <1>7 DEF InsureFails, ReleaseLocks, Without
<1> QED
  BY <1>1, <1>2, <1>3, <1>4, <1>5, <1>6, <1>7 DEF InsureNext

LEMMA PayLeavesInsurances ==
    ASSUME TypeOK, NEW r \in PayReqs, PayNext(r)
    PROVE  LeavesInsurances
<1> USE RequestsAssumption DEF TypeOK, LeavesInsurances, Goto
<1>1. CASE PayAdmit(r)
  BY <1>1 DEF PayAdmit
<1>2. CASE PayRefused(r)
  BY <1>2 DEF PayRefused
<1>3. CASE PayCharge(r)
  BY <1>3 DEF PayCharge
<1>4. CASE PayChargeUnheard(r)
  BY <1>4 DEF PayChargeUnheard
<1>5. CASE PayWriteRenewal(r)
  BY <1>5 DEF PayWriteRenewal
<1>6. CASE PayWriteBooking(r)
  BY <1>6 DEF PayWriteBooking
<1>7. CASE PayWriteFails(r)
  BY <1>7 DEF PayWriteFails
<1>8. CASE PayCommit(r)
  BY <1>8 DEF PayCommit
<1>9. CASE PayCommitRefused(r)
  BY <1>9 DEF PayCommitRefused
<1>10. CASE CatchAbandoned(r)
  BY <1>10 DEF CatchAbandoned
<1>11. CASE CatchMarksRenewal(r)
  BY <1>11 DEF CatchMarksRenewal
<1>12. CASE CatchCannotMark(r)
  BY <1>12 DEF CatchCannotMark
<1>13. CASE CatchRefunds(r)
  BY <1>13 DEF CatchRefunds
<1>14. CASE CatchRefundFails(r)
  BY <1>14 DEF CatchRefundFails
<1> QED
  BY <1>1, <1>2, <1>3, <1>4, <1>5, <1>6, <1>7, <1>8, <1>9, <1>10, <1>11, <1>12,
      <1>13, <1>14 DEF PayNext

LEMMA CancelLeavesInsurances ==
    ASSUME TypeOK, NEW c \in CancelReqs, CancelNext(c)
    PROVE  LeavesInsurances
<1> USE RequestsAssumption DEF TypeOK, LeavesInsurances, Goto
<1>1. CASE CancelAdmit(c)
  BY <1>1 DEF CancelAdmit
<1>2. CASE CancelWrite(c)
  BY <1>2 DEF CancelWrite
<1>3. CASE CancelAbandoned(c)
  BY <1>3 DEF CancelAbandoned
<1>4. CASE CancelRefund(c)
  BY <1>4 DEF CancelRefund
<1>5. CASE CancelRefundFails(c)
  BY <1>5 DEF CancelRefundFails
<1>6. CASE CancelSaveRefused(c)
  BY <1>6 DEF CancelSaveRefused
<1>7. CASE CancelCommit(c)
  BY <1>7 DEF CancelCommit
<1>8. CASE CancelCommitRefused(c)
  BY <1>8 DEF CancelCommitRefused
<1> QED
  BY <1>1, <1>2, <1>3, <1>4, <1>5, <1>6, <1>7, <1>8 DEF CancelNext

LEMMA AdminLeavesInsurances ==
    ASSUME TypeOK, NEW a \in AdminReqs, AdminNext(a)
    PROVE  LeavesInsurances
<1> USE RequestsAssumption DEF TypeOK, LeavesInsurances, Goto
<1>1. CASE AdminAdmit(a)
  BY <1>1 DEF AdminAdmit
<1>2. CASE AdminAbandoned(a)
  BY <1>2 DEF AdminAbandoned
<1>3. CASE AdminWrite(a)
  BY <1>3 DEF AdminWrite
<1>4. CASE AdminCommit(a)
  BY <1>4 DEF AdminCommit
<1>5. CASE AdminFails(a)
  BY <1>5 DEF AdminFails
<1> QED
  BY <1>1, <1>2, <1>3, <1>4, <1>5 DEF AdminNext

LEMMA StepKeepsTaxes == TypeOK /\ InsuranceInv /\ [Next]_vars => InsuranceInv'
<1> SUFFICES ASSUME TypeOK, InsuranceInv, [Next]_vars
             PROVE  InsuranceInv'
  OBVIOUS
<1>1. ASSUME NEW r \in Requests, Crash(r)
      PROVE  LeavesInsurances
  BY <1>1 DEF Crash, Goto, LeavesInsurances, TypeOK
<1>2. ASSUME CronNext \/ (\E b \in Bookings : TimePasses(b)) \/ UNCHANGED vars
      PROVE  LeavesInsurances
  BY <1>2, OutsideLeavesHandlers DEF LeavesInsurances
<1> QED
  BY <1>1, <1>2, PayLeavesInsurances, CancelLeavesInsurances, AdminLeavesInsurances,
     InsureKeepsTaxes, LeftInsurancesKeepTaxes DEF Next

-----------------------------------------------------------------------------
(* The invariant and the theorems                                          *)

LEMMA InitIInv == Init => IInv
<1> SUFFICES ASSUME Init
             PROVE  IInv
  OBVIOUS
<1> USE RequestsAssumption, BookingsAssumption DEF Init
<1>1. TypeOK
  BY InitHasType
<1>2. LocksAreHeld
  BY DEF LocksAreHeld
<1>3. ChargeSteps /\ ChargeAccounted
  BY DEF ChargeSteps, ChargeAccounted
<1>4. Standing
  BY DEF Standing, ReservedIsUnpaid, LiveIsPaid, OrdersExist, PaidTogether, Payments
<1>5. RefundInv /\ RefundsOwed
  BY DEF RefundInv, RefundFacts, RefundsOwed
<1>6. InsuranceInv
  BY DEF InsuranceInv, InsuranceSteps, InsuranceIsTaxed
<1> QED
  BY <1>1, <1>2, <1>3, <1>4, <1>5, <1>6 DEF IInv

LEMMA StepKeepsIInv == IInv /\ [Next]_vars => IInv'
<1> SUFFICES ASSUME IInv, [Next]_vars
             PROVE  IInv'
  OBVIOUS
<1>1. TypeOK'
  BY StepKeepsType DEF IInv
<1>2. LocksAreHeld'
  BY StepKeepsLocks DEF IInv
<1>3. ChargeSteps' /\ ChargeAccounted'
  BY StepKeepsCharges DEF IInv
<1>4. Standing'
  BY StepKeepsStanding DEF IInv
<1>5. RefundInv' /\ RefundsOwed'
  BY <1>1, StepKeepsRefunds, StepKeepsOwed DEF IInv, Standing
<1>6. InsuranceInv'
  BY StepKeepsTaxes DEF IInv
<1> QED
  BY <1>1, <1>2, <1>3, <1>4, <1>5, <1>6 DEF IInv

LEMMA IInvHolds == Spec => []IInv
  BY InitIInv, StepKeepsIInv, PTL DEF Spec

(* A reserved booking was never paid.                                      *)
THEOREM ReservedBookingsAreUnpaid == Spec => []ReservedIsUnpaid
<1>1. IInv => ReservedIsUnpaid
  BY DEF IInv, Standing
<1> QED
  BY <1>1, IInvHolds, PTL

(* A booking that holds a space was paid.                                  *)
THEOREM LiveBookingsArePaid == Spec => []LiveIsPaid
<1>1. IInv => LiveIsPaid
  BY DEF IInv, Standing
<1> QED
  BY <1>1, IInvHolds, PTL

(* A charge is booked, given back, or still in a handler's hands.          *)
THEOREM ChargesAreAccounted == Spec => []ChargeAccounted
<1>1. IInv => ChargeAccounted
  BY DEF IInv
<1> QED
  BY <1>1, IInvHolds, PTL

(* The order and the quotation follow the payment.                         *)
THEOREM PaidRowsStandTogether == Spec => []PaidTogether
<1>1. IInv => PaidTogether
  BY DEF IInv, Standing
<1> QED
  BY <1>1, IInvHolds, PTL

(* A cancellation has a payment to give back.                              *)
THEOREM CancellationsHavePayments == Spec => []CancelHasPayment
<1>1. IInv => CancelHasPayment
  BY RefundInvSuffices DEF IInv
<1> QED
  BY <1>1, IInvHolds, PTL

(* A recorded refund was really given back.                                *)
THEOREM RecordedRefundsAreReal == Spec => []RecordedRefundIsReal
<1>1. IInv => RecordedRefundIsReal
  BY RefundInvSuffices DEF IInv
<1> QED
  BY <1>1, IInvHolds, PTL

(* No more is given back of a payment than its cancellations owe.          *)
THEOREM RefundsAreOwed == Spec => []NoUndueRefund
<1>1. IInv => NoUndueRefund
  BY OwedIsEnough DEF IInv
<1> QED
  BY <1>1, IInvHolds, PTL

(* An answered handler holds no row.                                       *)
THEOREM AnsweredHandlersHoldNothing == Spec => []AnsweredHoldsNothing
<1>1. IInv => AnsweredHoldsNothing
  BY DEF IInv, LocksAreHeld, Holding, AnsweredHoldsNothing
<1> QED
  BY <1>1, IInvHolds, PTL

(* The insurance a booking carries is taxed, or another one was begun.     *)
THEOREM InsurancesAreTaxed == Spec => []InsuranceIsTaxed
<1>1. IInv => InsuranceIsTaxed
  BY DEF IInv, InsuranceInv
<1> QED
  BY <1>1, IInvHolds, PTL

-----------------------------------------------------------------------------
(* BookingPayment implements BookingLifecycle; a request is admitted from  *)
(* its check to its COMMIT.                                                *)

Deciders == PayReqs \cup CancelReqs \cup AdminReqs

LifecycleStep ==
    Lifecycle!LifecycleNext \/ UNCHANGED <<status, admitted>>

(* How a step of one request changes who is admitted.                      *)
LEMMA BecomesAdmitted ==
    ASSUME TypeOK, NEW r \in Deciders, NEW s \in Undecided, pc' = [pc EXCEPT ![r] = s]
    PROVE  admitted' = [admitted EXCEPT ![BookingOf[r]] = @ \cup {r}]
<1>1. BookingOf[r] \in Bookings /\ r \in Requests
  BY RequestsAssumption DEF Deciders
<1>2. \A q \in Requests : pc'[q] = IF q = r THEN s ELSE pc[q]
  BY <1>1 DEF TypeOK
<1>3. ASSUME NEW b \in Bookings, NEW q \in Deciders
      PROVE  q \in admitted'[b] <=>
                 q \in IF b = BookingOf[r] THEN admitted[b] \cup {r} ELSE admitted[b]
  BY <1>1, <1>2 DEF admitted, Deciders
<1>4. ASSUME NEW b \in Bookings
      PROVE  admitted'[b] = IF b = BookingOf[r] THEN admitted[b] \cup {r} ELSE admitted[b]
  <2>1. admitted'[b] \subseteq Deciders /\ admitted[b] \subseteq Deciders
    BY DEF admitted, Deciders
  <2> QED
    BY <1>3, <2>1
<1>5. admitted' = [b \in Bookings |-> admitted'[b]] /\ admitted = [b \in Bookings |-> admitted[b]]
  BY DEF admitted
<1> QED
  BY <1>1, <1>4, <1>5

LEMMA NoLongerAdmitted ==
    ASSUME TypeOK, NEW r \in Deciders, NEW s, s \notin Undecided, pc' = [pc EXCEPT ![r] = s]
    PROVE  admitted' = [admitted EXCEPT ![BookingOf[r]] = @ \ {r}]
<1>1. BookingOf[r] \in Bookings /\ r \in Requests
  BY RequestsAssumption DEF Deciders
<1>2. \A q \in Requests : pc'[q] = IF q = r THEN s ELSE pc[q]
  BY <1>1 DEF TypeOK
<1>3. ASSUME NEW b \in Bookings, NEW q \in Deciders
      PROVE  q \in admitted'[b] <=>
                 q \in IF b = BookingOf[r] THEN admitted[b] \ {r} ELSE admitted[b]
  BY <1>1, <1>2 DEF admitted, Deciders
<1>4. ASSUME NEW b \in Bookings
      PROVE  admitted'[b] = IF b = BookingOf[r] THEN admitted[b] \ {r} ELSE admitted[b]
  <2>1. admitted'[b] \subseteq Deciders /\ admitted[b] \subseteq Deciders
    BY DEF admitted, Deciders
  <2> QED
    BY <1>3, <2>1
<1>5. admitted' = [b \in Bookings |-> admitted'[b]] /\ admitted = [b \in Bookings |-> admitted[b]]
  BY DEF admitted
<1> QED
  BY <1>1, <1>4, <1>5

LEMMA Admitting ==
    ASSUME TypeOK, NEW r \in Deciders, NEW s \in Undecided, pc' = [pc EXCEPT ![r] = s],
           status' = status,
           r \in PayReqs => status[BookingOf[r]] = "RESERVED",
           r \in CancelReqs => status[BookingOf[r]] = "CONFIRMED"
    PROVE  LifecycleStep
<1>1. BookingOf[r] \in Bookings
  BY RequestsAssumption DEF Deciders
<1>2. Lifecycle!Admit(r, BookingOf[r])
  BY BecomesAdmitted DEF Lifecycle!Admit
<1> QED
  BY <1>1, <1>2 DEF LifecycleStep, Lifecycle!LifecycleNext, Lifecycle!Deciders, Deciders

LEMMA GoingOn ==
    ASSUME TypeOK, NEW r \in Deciders, NEW s \in Undecided, pc' = [pc EXCEPT ![r] = s],
           pc[r] \in Undecided, status' = status
    PROVE  LifecycleStep
<1>1. \A q \in Requests : pc'[q] \in Undecided <=> pc[q] \in Undecided
  BY RequestsAssumption DEF Deciders, TypeOK
<1>2. admitted' = admitted
  BY <1>1 DEF admitted
<1> QED
  BY <1>2 DEF LifecycleStep

LEMMA Dropping ==
    ASSUME TypeOK, NEW r \in Deciders, NEW s, s \notin Undecided, pc' = [pc EXCEPT ![r] = s],
           status' = status
    PROVE  LifecycleStep
<1>1. BookingOf[r] \in Bookings
  BY RequestsAssumption DEF Deciders
<1>2. admitted' = [admitted EXCEPT ![BookingOf[r]] = @ \ {r}]
  BY NoLongerAdmitted
<1>3. CASE r \in admitted[BookingOf[r]]
  BY <1>1, <1>2, <1>3
     DEF LifecycleStep, Lifecycle!LifecycleNext, Lifecycle!Drop, Lifecycle!Deciders, Deciders
<1>4. CASE r \notin admitted[BookingOf[r]]
  <2>1. \A q \in Requests : pc'[q] \in Undecided <=> pc[q] \in Undecided
    BY <1>1, <1>4 DEF admitted, Deciders, TypeOK
  <2> QED
    BY <2>1 DEF LifecycleStep, admitted
<1> QED
  BY <1>3, <1>4

LEMMA Settling ==
    ASSUME TypeOK, NEW r \in Deciders, NEW s, s \notin Undecided, pc' = [pc EXCEPT ![r] = s],
           pc[r] \in Undecided,
           NEW to \in Lifecycle!Outcome(r),
           status' = [status EXCEPT ![BookingOf[r]] = to]
    PROVE  LifecycleStep
<1>1. BookingOf[r] \in Bookings
  BY RequestsAssumption DEF Deciders
<1>2. r \in admitted[BookingOf[r]]
  BY <1>1 DEF admitted, Deciders
<1>3. Lifecycle!Settle(r, BookingOf[r])
  BY <1>2, NoLongerAdmitted DEF Lifecycle!Settle
<1> QED
  BY <1>1, <1>3 DEF LifecycleStep, Lifecycle!LifecycleNext, Lifecycle!Deciders, Deciders

LEMMA PayImplements ==
    ASSUME TypeOK, NEW r \in PayReqs, PayNext(r)
    PROVE  LifecycleStep
<1>0. r \in Deciders /\ BookingOf[r] \in Bookings
  BY RequestsAssumption DEF Deciders
<1> USE DEF TypeOK, Goto, Undecided
<1>1. CASE PayAdmit(r)
  <2>1. pc' = [pc EXCEPT ![r] = "opened"] /\ status' = status
    BY <1>1 DEF PayAdmit
  <2>2. r \notin CancelReqs /\ status[BookingOf[r]] = "RESERVED"
    BY <1>1, RequestsAssumption DEF PayAdmit, CanPay
  <2> QED
    BY <1>0, <2>1, <2>2, Admitting
<1>2. CASE PayRefused(r)
  <2>1. \E s \in {"catchNoCharge", "catchCharged"} \cup Ended : pc' = [pc EXCEPT ![r] = s]
    BY <1>2 DEF PayRefused
  <2>2. status' = status
    BY <1>2 DEF PayRefused
  <2> QED
    BY <1>0, <2>1, <2>2, Dropping
<1>3. CASE PayCharge(r)
  <2>1. pc[r] \in Undecided /\ \E s \in Undecided : pc' = [pc EXCEPT ![r] = s]
    BY <1>3 DEF PayCharge
  <2>2. status' = status
    BY <1>3 DEF PayCharge
  <2> QED
    BY <1>0, <2>1, <2>2, GoingOn
<1>4. CASE PayChargeUnheard(r)
  <2>1. \E s \in {"catchNoCharge", "catchCharged"} \cup Ended : pc' = [pc EXCEPT ![r] = s]
    BY <1>4 DEF PayChargeUnheard
  <2>2. status' = status
    BY <1>4 DEF PayChargeUnheard
  <2> QED
    BY <1>0, <2>1, <2>2, Dropping
<1>5. CASE PayWriteRenewal(r)
  <2>1. pc[r] \in Undecided /\ \E s \in Undecided : pc' = [pc EXCEPT ![r] = s]
    BY <1>5 DEF PayWriteRenewal
  <2>2. status' = status
    BY <1>5 DEF PayWriteRenewal
  <2> QED
    BY <1>0, <2>1, <2>2, GoingOn
<1>6. CASE PayWriteBooking(r)
  <2>1. pc[r] \in Undecided /\ \E s \in Undecided : pc' = [pc EXCEPT ![r] = s]
    BY <1>6 DEF PayWriteBooking
  <2>2. status' = status
    BY <1>6 DEF PayWriteBooking
  <2> QED
    BY <1>0, <2>1, <2>2, GoingOn
<1>7. CASE PayWriteFails(r)
  <2>1. \E s \in {"catchNoCharge", "catchCharged"} \cup Ended : pc' = [pc EXCEPT ![r] = s]
    BY <1>7 DEF PayWriteFails
  <2>2. status' = status
    BY <1>7 DEF PayWriteFails
  <2> QED
    BY <1>0, <2>1, <2>2, Dropping
<1>8. CASE PayCommit(r)
  <2>1. pc[r] \in Undecided
    BY <1>8 DEF PayCommit
  <2>2. \E s \in {"catchCharged"} \cup Ended : pc' = [pc EXCEPT ![r] = s]
    BY <1>8 DEF PayCommit
  <2>3. status' = [status EXCEPT ![BookingOf[r]] = "CONFIRMED"]
    BY <1>8 DEF PayCommit
  <2>4. "CONFIRMED" \in Lifecycle!Outcome(r)
    BY RequestsAssumption DEF Lifecycle!Outcome, Lifecycle!AdminStatus,
        Lifecycle!BookingStatus
  <2> QED
    BY <1>0, <2>1, <2>2, <2>3, <2>4, Settling
<1>9. CASE PayCommitRefused(r)
  <2>1. \E s \in {"catchNoCharge", "catchCharged"} \cup Ended : pc' = [pc EXCEPT ![r] = s]
    BY <1>9 DEF PayCommitRefused
  <2>2. status' = status
    BY <1>9 DEF PayCommitRefused
  <2> QED
    BY <1>0, <2>1, <2>2, Dropping
<1>10. CASE CatchAbandoned(r)
  <2>1. \E s \in {"catchNoCharge", "catchCharged"} \cup Ended : pc' = [pc EXCEPT ![r] = s]
    BY <1>10 DEF CatchAbandoned
  <2>2. status' = status
    BY <1>10 DEF CatchAbandoned
  <2> QED
    BY <1>0, <2>1, <2>2, Dropping
<1>11. CASE CatchMarksRenewal(r)
  <2>1. \E s \in {"catchNoCharge", "catchCharged"} \cup Ended : pc' = [pc EXCEPT ![r] = s]
    BY <1>11 DEF CatchMarksRenewal
  <2>2. status' = status
    BY <1>11 DEF CatchMarksRenewal
  <2> QED
    BY <1>0, <2>1, <2>2, Dropping
<1>12. CASE CatchCannotMark(r)
  <2>1. \E s \in {"catchNoCharge", "catchCharged"} \cup Ended : pc' = [pc EXCEPT ![r] = s]
    BY <1>12 DEF CatchCannotMark
  <2>2. status' = status
    BY <1>12 DEF CatchCannotMark
  <2> QED
    BY <1>0, <2>1, <2>2, Dropping
<1>13. CASE CatchRefunds(r)
  <2>1. \E s \in {"catchNoCharge", "catchCharged"} \cup Ended : pc' = [pc EXCEPT ![r] = s]
    BY <1>13 DEF CatchRefunds
  <2>2. status' = status
    BY <1>13 DEF CatchRefunds
  <2> QED
    BY <1>0, <2>1, <2>2, Dropping
<1>14. CASE CatchRefundFails(r)
  <2>1. \E s \in {"catchNoCharge", "catchCharged"} \cup Ended : pc' = [pc EXCEPT ![r] = s]
    BY <1>14 DEF CatchRefundFails
  <2>2. status' = status
    BY <1>14 DEF CatchRefundFails
  <2> QED
    BY <1>0, <2>1, <2>2, Dropping
<1> QED
  BY <1>1, <1>2, <1>3, <1>4, <1>5, <1>6, <1>7, <1>8, <1>9, <1>10, <1>11, <1>12,
      <1>13, <1>14 DEF PayNext

LEMMA CancelImplements ==
    ASSUME TypeOK, NEW c \in CancelReqs, CancelNext(c)
    PROVE  LifecycleStep
<1>0. c \in Deciders /\ BookingOf[c] \in Bookings
  BY RequestsAssumption DEF Deciders
<1> USE DEF TypeOK, Goto, Undecided
<1>1. CASE CancelAdmit(c)
  <2>1. pc' = [pc EXCEPT ![c] = "opened"] /\ status' = status
    BY <1>1 DEF CancelAdmit
  <2>2. c \notin PayReqs /\ status[BookingOf[c]] = "CONFIRMED"
    BY <1>1, RequestsAssumption DEF CancelAdmit, CanCancel
  <2> QED
    BY <1>0, <2>1, <2>2, Admitting
<1>2. CASE CancelWrite(c)
  <2>1. pc[c] \in Undecided /\ \E s \in Undecided : pc' = [pc EXCEPT ![c] = s]
    BY <1>2 DEF CancelWrite
  <2>2. status' = status
    BY <1>2 DEF CancelWrite
  <2> QED
    BY <1>0, <2>1, <2>2, GoingOn
<1>3. CASE CancelAbandoned(c)
  <2>1. \E s \in {"catchNoCharge", "catchCharged"} \cup Ended : pc' = [pc EXCEPT ![c] = s]
    BY <1>3 DEF CancelAbandoned
  <2>2. status' = status
    BY <1>3 DEF CancelAbandoned
  <2> QED
    BY <1>0, <2>1, <2>2, Dropping
<1>4. CASE CancelRefund(c)
  <2>1. pc[c] \in Undecided /\ \E s \in Undecided : pc' = [pc EXCEPT ![c] = s]
    BY <1>4 DEF CancelRefund
  <2>2. status' = status
    BY <1>4 DEF CancelRefund
  <2> QED
    BY <1>0, <2>1, <2>2, GoingOn
<1>5. CASE CancelRefundFails(c)
  <2>1. pc[c] \in Undecided /\ \E s \in Undecided : pc' = [pc EXCEPT ![c] = s]
    BY <1>5 DEF CancelRefundFails
  <2>2. status' = status
    BY <1>5 DEF CancelRefundFails
  <2> QED
    BY <1>0, <2>1, <2>2, GoingOn
<1>6. CASE CancelSaveRefused(c)
  <2>1. pc[c] \in Undecided /\ \E s \in Undecided : pc' = [pc EXCEPT ![c] = s]
    BY <1>6 DEF CancelSaveRefused
  <2>2. status' = status
    BY <1>6 DEF CancelSaveRefused
  <2> QED
    BY <1>0, <2>1, <2>2, GoingOn
<1>7. CASE CancelCommit(c)
  <2>1. pc[c] \in Undecided
    BY <1>7 DEF CancelCommit
  <2>2. \E s \in {"catchCharged"} \cup Ended : pc' = [pc EXCEPT ![c] = s]
    BY <1>7 DEF CancelCommit
  <2>3. status' = [status EXCEPT ![BookingOf[c]] = "CANCELLED"]
    BY <1>7 DEF CancelCommit
  <2>4. "CANCELLED" \in Lifecycle!Outcome(c)
    BY RequestsAssumption DEF Lifecycle!Outcome, Lifecycle!AdminStatus,
        Lifecycle!BookingStatus
  <2> QED
    BY <1>0, <2>1, <2>2, <2>3, <2>4, Settling
<1>8. CASE CancelCommitRefused(c)
  <2>1. \E s \in {"catchNoCharge", "catchCharged"} \cup Ended : pc' = [pc EXCEPT ![c] = s]
    BY <1>8 DEF CancelCommitRefused
  <2>2. status' = status
    BY <1>8 DEF CancelCommitRefused
  <2> QED
    BY <1>0, <2>1, <2>2, Dropping
<1> QED
  BY <1>1, <1>2, <1>3, <1>4, <1>5, <1>6, <1>7, <1>8 DEF CancelNext

LEMMA AdminImplements ==
    ASSUME TypeOK, NEW a \in AdminReqs, AdminNext(a)
    PROVE  LifecycleStep
<1>0. a \in Deciders /\ BookingOf[a] \in Bookings
  BY RequestsAssumption DEF Deciders
<1> USE DEF TypeOK, Goto, Undecided
<1>1. CASE AdminAdmit(a)
  <2>1. pc' = [pc EXCEPT ![a] = "opened"] /\ status' = status
    BY <1>1 DEF AdminAdmit
  <2>2. a \notin PayReqs /\ a \notin CancelReqs
    BY <1>1, RequestsAssumption DEF AdminAdmit
  <2> QED
    BY <1>0, <2>1, <2>2, Admitting
<1>2. CASE AdminAbandoned(a)
  <2>1. \E s \in {"catchNoCharge", "catchCharged"} \cup Ended : pc' = [pc EXCEPT ![a] = s]
    BY <1>2 DEF AdminAbandoned
  <2>2. status' = status
    BY <1>2 DEF AdminAbandoned
  <2> QED
    BY <1>0, <2>1, <2>2, Dropping
<1>3. CASE AdminWrite(a)
  <2>1. pc[a] \in Undecided /\ \E s \in Undecided : pc' = [pc EXCEPT ![a] = s]
    BY <1>3 DEF AdminWrite
  <2>2. status' = status
    BY <1>3 DEF AdminWrite
  <2> QED
    BY <1>0, <2>1, <2>2, GoingOn
<1>4. CASE AdminCommit(a)
  <2>1. pc[a] \in Undecided
    BY <1>4 DEF AdminCommit
  <2>2. \E s \in {"catchCharged"} \cup Ended : pc' = [pc EXCEPT ![a] = s]
    BY <1>4 DEF AdminCommit
  <2>3. status' = [status EXCEPT ![BookingOf[a]] = StatusFor[a]]
    BY <1>4 DEF AdminCommit
  <2>4. StatusFor[a] \in Lifecycle!Outcome(a)
    BY RequestsAssumption DEF Lifecycle!Outcome, Lifecycle!AdminStatus,
        Lifecycle!BookingStatus
  <2> QED
    BY <1>0, <2>1, <2>2, <2>3, <2>4, Settling
<1>5. CASE AdminFails(a)
  <2>1. \E s \in {"catchNoCharge", "catchCharged"} \cup Ended : pc' = [pc EXCEPT ![a] = s]
    BY <1>5 DEF AdminFails
  <2>2. status' = status
    BY <1>5 DEF AdminFails
  <2> QED
    BY <1>0, <2>1, <2>2, Dropping
<1> QED
  BY <1>1, <1>2, <1>3, <1>4, <1>5 DEF AdminNext

(* Other handlers change neither a status nor who is admitted.             *)
LEMMA InsureImplements ==
    ASSUME TypeOK, NEW i \in InsureReqs, InsureNext(i)
    PROVE  LifecycleStep
<1>1. status' = status
  BY InsureLeavesCharges
<1>2. \A r \in Deciders : pc'[r] = pc[r]
  BY RequestsAssumption
     DEF Deciders, TypeOK, Goto, InsureNext, InsureAdmit, InsureAbandoned, InsureDropTaxes,
         InsureWriteBooking, InsureWriteRenewal, InsureCommit, InsureFails
<1> QED
  BY <1>1, <1>2 DEF LifecycleStep, admitted, Deciders

LEMMA CrashImplements ==
    ASSUME TypeOK, NEW r \in Requests, Crash(r)
    PROVE  LifecycleStep
<1>1. status' = status /\ pc' = [pc EXCEPT ![r] = "crashed"]
  BY DEF Crash, Goto
<1>2. CASE r \in Deciders
  BY <1>1, <1>2, Dropping DEF Undecided
<1>3. CASE r \notin Deciders
  <2>1. \A q \in Deciders : pc'[q] = pc[q]
    BY <1>1, <1>3 DEF TypeOK, Deciders
  <2> QED
    BY <1>1, <2>1 DEF LifecycleStep, admitted, Deciders
<1> QED
  BY <1>2, <1>3

LEMMA MoveImplements ==
    ASSUME NEW B \in SUBSET Bookings, NEW from, NEW to, MoveAll(B, to),
           \A b \in B : status[b] = from,
           \/ from = "RESERVED" /\ to = "CANCELLED"
           \/ from = "CONFIRMED" /\ to = "ACTIVE"
           \/ B \cap OpenEnded = {} /\ from = "ACTIVE" /\ to = "COMPLETED"
    PROVE  LifecycleStep
<1>1. admitted' = admitted
  BY DEF MoveAll, admitted
<1>2. Lifecycle!Move(B, from, to)
  BY <1>1 DEF MoveAll, Lifecycle!Move
<1> QED
  BY <1>2 DEF LifecycleStep, Lifecycle!LifecycleNext

(* A booking without a move-out date never gets past one.                  *)
OpenEndedStay == \A b \in OpenEnded : "moveOut" \notin elapsed[b]

LEMMA StepKeepsOpenEnded == TypeOK /\ OpenEndedStay /\ [Next]_vars => OpenEndedStay'
<1> SUFFICES ASSUME TypeOK, OpenEndedStay, [Next]_vars
             PROVE  OpenEndedStay'
  OBVIOUS
<1> USE DEF OpenEndedStay
<1>1. ASSUME NEW b \in Bookings, TimePasses(b)
      PROVE  OpenEndedStay'
  BY <1>1, BookingsAssumption DEF TimePasses, TypeOK
<1>2. CASE elapsed' = elapsed
  BY <1>2
<1>3. ASSUME NEW r \in PayReqs, PayNext(r)
      PROVE  elapsed' = elapsed
  BY <1>3 DEF PayNext, PayAdmit, PayRefused, PayCharge, PayChargeUnheard,
      PayWriteRenewal,
     PayWriteBooking, PayWriteFails, PayCommit, PayCommitRefused, CatchAbandoned,
     CatchMarksRenewal, CatchCannotMark, CatchRefunds, CatchRefundFails
<1>4. ASSUME NEW c \in CancelReqs, CancelNext(c)
      PROVE  elapsed' = elapsed
  BY <1>4 DEF CancelNext, CancelAdmit, CancelWrite, CancelAbandoned, CancelRefund,
     CancelRefundFails, CancelSaveRefused, CancelCommit, CancelCommitRefused
<1>5. ASSUME NEW i \in InsureReqs, InsureNext(i)
      PROVE  elapsed' = elapsed
  BY <1>5 DEF InsureNext, InsureAdmit, InsureAbandoned, InsureDropTaxes,
     InsureWriteBooking, InsureWriteRenewal, InsureCommit, InsureFails
<1>6. ASSUME NEW a \in AdminReqs, AdminNext(a)
      PROVE  elapsed' = elapsed
  BY <1>6 DEF AdminNext, AdminAdmit, AdminAbandoned, AdminWrite, AdminCommit, AdminFails
<1>7. ASSUME (\E r \in Requests : Crash(r)) \/ CronNext \/ UNCHANGED vars
      PROVE  elapsed' = elapsed
  BY <1>7 DEF Crash, CronNext, ExpireReservations, ActivateBookings, CompleteBookings,
     MoveAll, ExpireOrders, ListQuotations, RejectQuotation, vars
<1> QED
  BY <1>1, <1>2, <1>3, <1>4, <1>5, <1>6, <1>7 DEF Next

LEMMA OutsideImplements ==
    ASSUME OpenEndedStay,
           CronNext \/ (\E b \in Bookings : TimePasses(b)) \/ UNCHANGED vars
    PROVE  LifecycleStep
<1>1. CASE ExpireReservations
  BY <1>1, MoveImplements DEF ExpireReservations, Expirable, Past, WithStatus
<1>2. CASE ActivateBookings
  BY <1>2, MoveImplements DEF ActivateBookings, Startable, Past, WithStatus
<1>3. CASE CompleteBookings
  <2>1. (Past("moveOut") \cap WithStatus("ACTIVE")) \cap OpenEnded = {}
    BY DEF OpenEndedStay, Past
  <2> QED
    BY <1>3, <2>1, MoveImplements DEF CompleteBookings, Past, WithStatus
<1>4. CASE ExpireOrders \/ ListQuotations \/ (\E b \in Bookings : RejectQuotation(b))
           \/ (\E b \in Bookings : TimePasses(b)) \/ UNCHANGED vars
  <2>1. status' = status /\ pc' = pc
    BY <1>4 DEF ExpireOrders, ListQuotations, RejectQuotation, TimePasses, vars
  <2> QED
    BY <2>1 DEF LifecycleStep, admitted
<1> QED
  BY <1>1, <1>2, <1>3, <1>4 DEF CronNext

LEMMA InitImplements == Init => Lifecycle!LifecycleInit
  BY DEF Init, Lifecycle!LifecycleInit, admitted, Undecided

LEMMA StepImplements ==
    TypeOK /\ OpenEndedStay /\ [Next]_vars => [Lifecycle!LifecycleNext]_(Lifecycle!lifecycleVars)
<1> SUFFICES ASSUME TypeOK, OpenEndedStay, [Next]_vars
             PROVE  LifecycleStep
  BY DEF LifecycleStep, Lifecycle!lifecycleVars
<1> QED
  BY PayImplements, CancelImplements, InsureImplements, AdminImplements,
      CrashImplements,
     OutsideImplements DEF Next

(* Every change of a status is one BookingLifecycle allows.                *)
THEOREM LifecycleIsImplemented == Spec => LifecycleImplemented
<1>1. Init => OpenEndedStay
  BY BookingsAssumption DEF Init, OpenEndedStay
<1> QED
  BY <1>1, TypeCorrect, StepKeepsOpenEnded, InitImplements, StepImplements, PTL
     DEF Spec, LifecycleImplemented, Lifecycle!LifecycleSpec

=============================================================================
