-------------------------- MODULE MCBookingPayment --------------------------
(* Requests that contend for one booking, in several mixes (one .cfg each);*)
(* a second booking, if there is one, only waits to be paid.               *)
EXTENDS BookingPayment, TLC

CONSTANTS b1, b2, p1, p2, c1, c2, a1

MCBookingOf == [r \in Requests |-> b1]
MCStatusFor == [a \in AdminReqs |-> IF a = a1 THEN "CANCELLED" ELSE "TERMINATED"]

Alike == Permutations({p1, p2}) \cup Permutations({c1, c2})
=============================================================================
