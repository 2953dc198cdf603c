-------------------------- MODULE BookingLifecycle --------------------------
(***************************************************************************)
(* What the status of a booking promises, without saying how a payment, a  *)
(* cancellation or a cron job is carried out.                              *)
(*                                                                         *)
(* A request that may change a status is first admitted, on the status the *)
(* booking had when the request read it, and takes effect later or never.  *)
(* Nothing is promised about the status at the time it takes effect: a     *)
(* payment admitted while the booking was RESERVED confirms it even when   *)
(* the booking has been cancelled meanwhile.  What is promised is that     *)
(* every change either belongs to a request that was rightly admitted or   *)
(* is one of the three moves the cron jobs make, each from the one status  *)
(* it starts from.  BookingPayment implements this specification.          *)
(***************************************************************************)
CONSTANTS
    Bookings,
    PayReqs,        \* payBooking requests
    CancelReqs,     \* cancelBooking requests of the customer
    AdminReqs,      \* updateBooking requests of an administrator
    OpenEnded       \* the bookings without a move-out date

BookingStatus ==
    {"RESERVED", "CONFIRMED", "ACTIVE", "TERMINATED", "COMPLETED", "CANCELLED"}

(* An administrator may set any status but these three.                    *)
AdminStatus == BookingStatus \ {"RESERVED", "CONFIRMED", "ACTIVE"}

Deciders == PayReqs \cup CancelReqs \cup AdminReqs

VARIABLES
    status,     \* [Bookings -> BookingStatus]
    admitted    \* [Bookings -> SUBSET Deciders]: read the booking, not yet done

lifecycleVars == <<status, admitted>>

-----------------------------------------------------------------------------
LifecycleTypeOK ==
    /\ status \in [Bookings -> BookingStatus]
    /\ admitted \in [Bookings -> SUBSET Deciders]

LifecycleInit ==
    /\ status = [b \in Bookings |-> "RESERVED"]
    /\ admitted = [b \in Bookings |-> {}]

Admit(r, b) ==
    /\ r \in PayReqs => status[b] = "RESERVED"
    /\ r \in CancelReqs => status[b] = "CONFIRMED"
    /\ admitted' = [admitted EXCEPT ![b] = @ \cup {r}]
    /\ UNCHANGED status

(* The status an admitted request may leave behind.                        *)
Outcome(r) ==
    IF r \in PayReqs THEN {"CONFIRMED"}
    ELSE IF r \in CancelReqs THEN {"CANCELLED"}
    ELSE AdminStatus

Settle(r, b) ==
    /\ r \in admitted[b]
    /\ \E s \in Outcome(r) : status' = [status EXCEPT ![b] = s]
    /\ admitted' = [admitted EXCEPT ![b] = @ \ {r}]

Drop(r, b) ==
    /\ r \in admitted[b]
    /\ admitted' = [admitted EXCEPT ![b] = @ \ {r}]
    /\ UNCHANGED status

(* A cron job moves every booking of B from one status to another.         *)
Move(B, from, to) ==
    /\ \A b \in B : status[b] = from
    /\ status' = [b \in Bookings |-> IF b \in B THEN to ELSE status[b]]
    /\ UNCHANGED admitted

LifecycleNext ==
    \/ \E r \in Deciders, b \in Bookings :
          Admit(r, b) \/ Settle(r, b) \/ Drop(r, b)
    \/ \E B \in SUBSET Bookings :
          \/ Move(B, "RESERVED", "CANCELLED")
          \/ Move(B, "CONFIRMED", "ACTIVE")
          \/ B \cap OpenEnded = {} /\ Move(B, "ACTIVE", "COMPLETED")

LifecycleSpec == LifecycleInit /\ [][LifecycleNext]_lifecycleVars
=============================================================================
