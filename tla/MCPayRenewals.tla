---------------------------- MODULE MCPayRenewals ----------------------------
(***************************************************************************)
(* Instances of PayRenewals for TLC: months of two days.                   *)
(***************************************************************************)
EXTENDS PayRenewals

MCMoveOut == [b \in Bookings \ OpenEnded |-> 5]

=============================================================================
