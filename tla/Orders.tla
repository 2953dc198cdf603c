-------------------------------- MODULE Orders --------------------------------
(***************************************************************************)
(* Pick-up orders (orders/order.service.ts) and the courier they are       *)
(* placed with (logistics/providers/gogox): create, payOrder, cancelOrder, *)
(* and what payBooking and the cancel job do to an order.                  *)
(*                                                                         *)
(* The courier is another program: an order is placed there before the     *)
(* row is written and called off there before the row is, and in between   *)
(* the courier sets out by its own.  A charge is known by the request that *)
(* made it.  One booking; payBooking reads the first of its orders.        *)
(***************************************************************************)
EXTENDS Integers, FiniteSets

CONSTANTS
    Orders,         \* createOrder requests, each known by the order it makes
    OrderPays,      \* payOrder requests
    BookingPays,    \* payBooking requests of the orders' booking
    Cancels,        \* cancelOrder requests
    NoOrder

Payers == OrderPays \cup BookingPays
Requests == Orders \cup Payers \cup Cancels

VARIABLES
    booking,        \* the booking's status
    order,          \* [Orders -> OrderStatus \cup {"NONE"}]: the rows
    courier,        \* [Orders -> ...]: the orders the courier has
    booked,         \* payers whose transactions row is committed
    kept,           \* payers whose charge was not refunded by their own request
    returned,       \* [Payers -> Nat]: how often cancelOrder gave their charge back
    pc,             \* [Requests -> ...]
    of              \* [Payers \cup Cancels -> Orders \cup {NoOrder}]

money == <<booked, kept, returned>>
orderVars == <<booking, order, courier, money, pc, of>>

OrderStatus == {"PENDING", "CONFIRMED", "ACTIVE", "CANCELLED", "COMPLETED"}
CourierStatus == {"pending", "active", "cancelled", "completed"}

(* An order the courier has set out for taken for a confirmed one.         *)
Mapped_Confirmed(c) ==
    CASE c = "active" -> "CONFIRMED" [] c = "cancelled" -> "CANCELLED"
      [] c = "completed" -> "COMPLETED"

(* OrderStatus[gogoxOrder.status.toUpperCase()]                            *)
Mapped(c) == CASE c = "active" -> "ACTIVE" [] c = "cancelled" -> "CANCELLED"
               [] c = "completed" -> "COMPLETED"

TypeOK ==
    /\ booking \in {"RESERVED", "CONFIRMED", "CANCELLED"}
    /\ order \in [Orders -> OrderStatus \cup {"NONE"}]
    /\ courier \in [Orders -> CourierStatus \cup {"none"}]
    /\ booked \subseteq Payers /\ kept \subseteq Payers
    /\ returned \in [Payers -> 0..Cardinality(Cancels)]
    /\ pc \in [Requests -> {"idle", "placed", "undoing", "opened", "charged", "refunding",
                            "checked", "asking", "calledOff", "closing",
                            "active", "cancelled", "completed", "done", "failed", "cut"}]
    /\ of \in [Payers \cup Cancels -> Orders \cup {NoOrder}]

Init ==
    /\ booking = "RESERVED"
    /\ order = [o \in Orders |-> "NONE"]
    /\ courier = [o \in Orders |-> "none"]
    /\ booked = {} /\ kept = {} /\ returned = [p \in Payers |-> 0]
    /\ pc = [r \in Requests |-> "idle"]
    /\ of = [r \in Payers \cup Cancels |-> NoOrder]

Goto(r, l) == pc' = [pc EXCEPT ![r] = l]
SetOrder(o, s) == order' = [order EXCEPT ![o] = s]
SetCourier(o, s) == courier' = [courier EXCEPT ![o] = s]

-----------------------------------------------------------------------------
(* create                                                                  *)

(* After the checks (the booking has not ended, the vehicle is big enough) *)
(* the order is placed with the courier; the answer may be lost.           *)
PlaceOrder(o) ==
    /\ pc[o] = "idle" /\ booking # "CANCELLED"
    /\ SetCourier(o, "pending")
    /\ \E l \in {"placed", "failed"} : Goto(o, l)
    /\ UNCHANGED <<booking, order, money, of>>

(* The pick-up service, the order, its history and its taxes.  When nobody *)
(* hears of the COMMIT, rolling back throws and the courier's order stays. *)
CreateCommit(o) ==
    /\ pc[o] = "placed"
    /\ SetOrder(o, "PENDING")
    /\ Goto(o, "done")
    /\ UNCHANGED <<booking, courier, money, of>>

(* A write fails and the courier's order is called off.  Tax is calculated *)
(* outside the try: when that throws, or the process ends, the courier is  *)
(* not told.                                                               *)
CreateFails(o) ==
    /\ pc[o] = "placed"
    /\ \E l \in {"undoing", "failed"} : Goto(o, l)
    /\ UNCHANGED <<booking, order, courier, money, of>>

UndoPlace(o) ==
    /\ pc[o] = "undoing"
    /\ courier' \in {courier, [courier EXCEPT ![o] = "cancelled"]}
    /\ Goto(o, "failed")
    /\ UNCHANGED <<booking, order, money, of>>

-----------------------------------------------------------------------------
(* payOrder, and payBooking as far as it concerns an order                 *)

PayOrder(p, o) ==
    /\ p \in OrderPays /\ pc[p] = "idle" /\ order[o] = "PENDING"
    /\ of' = [of EXCEPT ![p] = o]
    /\ Goto(p, "opened")
    /\ UNCHANGED <<booking, order, courier, money>>

(* payBooking looks at the booking's status, not at the order's.           *)
PayBooking(p) ==
    /\ p \in BookingPays /\ pc[p] = "idle" /\ booking = "RESERVED"
    /\ \E o \in Orders \cup {NoOrder} :
          /\ IF o = NoOrder THEN \A x \in Orders : order[x] = "NONE" ELSE order[o] # "NONE"
          /\ of' = [of EXCEPT ![p] = o]
    /\ Goto(p, "opened")
    /\ UNCHANGED <<booking, order, courier, money>>

PayDeclined(p) ==
    /\ pc[p] = "opened"
    /\ Goto(p, "failed")
    /\ UNCHANGED <<booking, order, courier, money, of>>

(* The charge; when its answer is lost there is nothing to refund.         *)
PayCharge(p) ==
    /\ pc[p] = "opened"
    /\ kept' = kept \cup {p}
    /\ \E l \in {"charged", "cut"} : Goto(p, l)
    /\ UNCHANGED <<booking, order, courier, booked, returned, of>>

(* The transactions row and the statuses; heard of or not.                 *)
PayCommit(p) ==
    /\ pc[p] = "charged"
    /\ booked' = booked \cup {p}
    /\ IF of[p] = NoOrder THEN UNCHANGED order ELSE SetOrder(of[p], "CONFIRMED")
    /\ booking' = IF p \in BookingPays THEN "CONFIRMED" ELSE booking
    /\ \E l \in {"done", "refunding"} : Goto(p, l)
    /\ UNCHANGED <<courier, kept, returned, of>>

(* A write fails, or the process ends.                                     *)
PayFails(p) ==
    /\ pc[p] = "charged"
    /\ \E l \in {"refunding", "cut"} : Goto(p, l)
    /\ UNCHANGED <<booking, order, courier, money, of>>

PayRefund(p) ==
    /\ pc[p] = "refunding"
    /\ \/ kept' = kept \ {p} /\ Goto(p, "failed")
       \/ kept' \in {kept, kept \ {p}} /\ Goto(p, "cut")
    /\ UNCHANGED <<booking, order, courier, booked, returned, of>>

-----------------------------------------------------------------------------
(* cancelOrder                                                             *)

(* Requests that have not started are alike, so that the next is any one.  *)
CancelOrder(c, o) ==
    /\ pc[c] = "idle" /\ c = CHOOSE d \in Cancels : pc[d] = "idle"
    /\ order[o] \in {"PENDING", "CONFIRMED"}
    /\ of' = [of EXCEPT ![c] = o]
    /\ Goto(c, "checked")
    /\ UNCHANGED <<booking, order, courier, money>>

(* getOrder: what the courier says of the order.                           *)
AskCourier(c) ==
    /\ pc[c] = "checked"
    /\ Goto(c, IF courier[of[c]] = "pending" THEN "asking" ELSE courier[of[c]])
    /\ UNCHANGED <<booking, order, courier, money, of>>

(* The courier is no longer waiting: its status is taken over, and the     *)
(* caller is told that the order cannot be cancelled.                      *)
TakeOver(c) ==
    /\ pc[c] \in {"active", "cancelled", "completed"}
    /\ order' \in {order, [order EXCEPT ![of[c]] = Mapped(pc[c])]}
    /\ Goto(c, "failed")
    /\ UNCHANGED <<booking, courier, money, of>>

(* A courier that lets an order be called off twice.                       *)
CallOff_Repeatable(c) ==
    /\ pc[c] = "asking" /\ courier[of[c]] \in {"pending", "cancelled"}
    /\ SetCourier(of[c], "cancelled")
    /\ Goto(c, "calledOff")
    /\ UNCHANGED <<booking, order, money, of>>

CallOff(c) ==
    /\ pc[c] = "asking" /\ courier[of[c]] = "pending"
    /\ SetCourier(of[c], "cancelled")
    /\ Goto(c, "calledOff")
    /\ UNCHANGED <<booking, order, money, of>>

(* getByOrderId takes one of the order's transactions.                     *)
PaymentsOf(o) == {p \in booked : of[p] = o}
Return(p) == returned' = [returned EXCEPT ![p] = @ + 1]

RefundOrder(c) ==
    /\ pc[c] = "calledOff"
    /\ \/ PaymentsOf(of[c]) = {} /\ UNCHANGED returned
       \/ \E p \in PaymentsOf(of[c]) : Return(p)
    /\ Goto(c, "closing")
    /\ UNCHANGED <<booking, order, courier, booked, kept, of>>

CancelCommit(c) ==
    /\ pc[c] = "closing"
    /\ SetOrder(of[c], "CANCELLED")
    /\ Goto(c, "done")
    /\ UNCHANGED <<booking, courier, money, of>>

(* The courier, Stripe or the database fails, before or after it has done  *)
(* what it was asked, or the process ends; nothing that went before is     *)
(* undone.                                                                 *)
CancelFails(c) ==
    /\ \/ /\ pc[c] = "asking"
          /\ courier' \in {courier} \cup
                IF courier[of[c]] = "pending"
                THEN {[courier EXCEPT ![of[c]] = "cancelled"]} ELSE {}
          /\ UNCHANGED returned
       \/ /\ pc[c] = "calledOff"
          /\ UNCHANGED returned \/ \E p \in PaymentsOf(of[c]) : Return(p)
          /\ UNCHANGED courier
       \/ pc[c] \in {"checked", "closing"} /\ UNCHANGED <<courier, returned>>
    /\ Goto(c, "cut")
    /\ UNCHANGED <<booking, order, booked, kept, of>>

-----------------------------------------------------------------------------
(* Others                                                                  *)

(* The cancel job's two UPDATEs, each on its own.                          *)
JobCancelsBooking ==
    /\ booking = "RESERVED"
    /\ booking' = "CANCELLED"
    /\ UNCHANGED <<order, courier, money, pc, of>>

JobCancelsOrder(o) ==
    /\ order[o] = "PENDING"
    /\ SetOrder(o, "CANCELLED")
    /\ UNCHANGED <<booking, courier, money, pc, of>>

CourierMoves(o) ==
    /\ courier[o] \in {"pending", "active"}
    /\ SetCourier(o, IF courier[o] = "pending" THEN "active" ELSE "completed")
    /\ UNCHANGED <<booking, order, money, pc, of>>

Next ==
    \/ \E o \in Orders :
          \/ PlaceOrder(o) \/ CreateCommit(o) \/ CreateFails(o) \/ UndoPlace(o)
          \/ JobCancelsOrder(o) \/ CourierMoves(o)
          \/ \E p \in Payers : PayOrder(p, o)
          \/ \E c \in Cancels : CancelOrder(c, o)
    \/ \E p \in Payers :
          \/ PayBooking(p) \/ PayDeclined(p) \/ PayCharge(p) \/ PayCommit(p)
          \/ PayFails(p) \/ PayRefund(p)
    \/ \E c \in Cancels :
          \/ AskCourier(c) \/ TakeOver(c) \/ CallOff(c) \/ RefundOrder(c)
          \/ CancelCommit(c) \/ CancelFails(c)
    \/ JobCancelsBooking

Spec == Init /\ [][Next]_orderVars

-----------------------------------------------------------------------------
(* A CONFIRMED order has a payment, a PENDING one none: payOrder trusts    *)
(* the status alone (order.service.ts 310-312), and the payments, the      *)
(* cancellations, the courier's word and the job all write it.             *)
PaidIffConfirmed ==
    \A o \in Orders :
        /\ order[o] = "CONFIRMED" => PaymentsOf(o) # {}
        /\ order[o] = "PENDING" => PaymentsOf(o) = {}

(* Cancelling gives a payment back at most once, however many cancelOrder  *)
(* requests run at the same time or again after a failure: nothing in the  *)
(* database says that one is under way, but the courier calls an order off *)
(* once (order.service.ts 434-457).                                        *)
RefundedOnce == \A p \in Payers : returned[p] <= 1
=============================================================================
