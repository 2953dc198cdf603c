--------------------------------- MODULE Cards ---------------------------------
(***************************************************************************)
(* The card of one customer: the one Stripe charges, the one the database  *)
(* shows, and the one a payment's transaction names.  A change of profile  *)
(* (auth/users/user.service.ts, updateProfile) and a payment               *)
(* (bookings/booking.service.ts, payBooking) may each bring a new card;    *)
(* both give it to Stripe in the middle of a database transaction that may *)
(* still fail (stripe/stripe.service.ts).                                  *)
(*                                                                         *)
(* A card is known by the request that brought it; "first" is the one a    *)
(* customer may have to begin with.                                        *)
(***************************************************************************)
EXTENDS FiniteSets

CONSTANTS
    Profiles,       \* updateProfile requests
    Pays,           \* payBooking requests
    Bringing        \* the requests that bring a card token

Requests == Profiles \cup Pays
Cards == Bringing \cup {"first", "none"}

VARIABLES
    default,        \* [Customers -> Cards]: Stripe's customers, by the request that
                    \* created them, and their default card; "none": not created
    user,           \* users.stripe_customer_id
    shown,          \* the customers row: [customer, card]
    holder,         \* the request whose transaction locks the rows, or "nobody"
    req,            \* [Requests -> [pc, known, customer, card, before]]
    charge,         \* [Pays -> Cards]: the card that was charged
    named,          \* [Pays -> Cards]: the card its transaction names
    crossed,        \* requests that overlapped another, one of them with a card
    doubtful        \* since the last card that was brought alone, and saved, cards
                    \* crossed, or one replaced at Stripe was not saved

cardVars == <<default, user, shown, holder, req, charge, named, crossed, doubtful>>

Customers == Bringing \cup {"first"}
Known == Customers \cup {"none"}
StripeSource == [Customers -> Cards]
CustomerRow == [customer: Known, card: Cards]
Request == [pc: {"idle", "read", "upserted", "retrieved", "written", "paying", "charged",
                 "done", "failed"},
            known: Known, customer: Known, card: Cards, before: CustomerRow]

TypeOK ==
    /\ default \in StripeSource
    /\ user \in Known
    /\ shown \in CustomerRow
    /\ holder \in Requests \cup {"nobody"}
    /\ req \in [Requests -> Request]
    /\ charge \in [Pays -> Cards] /\ named \in [Pays -> Cards]
    /\ crossed \subseteq Requests /\ doubtful \in BOOLEAN

NoCard == [customer |-> "none", card |-> "none"]

Init ==
    /\ user \in {"none", "first"}
    /\ default = [c \in Customers |-> IF c = user THEN "first" ELSE "none"]
    /\ shown = [customer |-> user, card |-> user] /\ holder = "nobody"
    /\ req = [r \in Requests |-> [pc |-> "idle", known |-> "none", customer |-> "none",
                                  card |-> "none", before |-> NoCard]]
    /\ charge = [p \in Pays |-> "none"] /\ named = [p \in Pays |-> "none"]
    /\ crossed = {} /\ doubtful = FALSE

InFlight == {r \in Requests : req[r].pc \notin {"idle", "done", "failed"}}

(* Both read the user outside of their transaction; a customer without a   *)
(* card has to bring one to a payment.                                     *)
ReadUser(r) ==
    /\ req[r].pc = "idle"
    /\ req' = [req EXCEPT
                 ![r].pc = IF r \in Pays /\ user = "none" /\ r \notin Bringing
                           THEN "failed" ELSE "read",
                 ![r].known = user, ![r].customer = user, ![r].before = shown]
    /\ crossed' = IF InFlight \cap Bringing # {} \/ (r \in Bringing /\ InFlight # {})
                  THEN crossed \cup {r} \cup InFlight ELSE crossed
    /\ doubtful' = (doubtful \/ (r \in Bringing /\ InFlight \cap Bringing # {}))
    /\ UNCHANGED <<default, user, shown, holder, charge, named>>

(* upsertStripeCustomerSource: the card of the customer known, or a new    *)
(* customer.                                                               *)
Upsert(r) ==
    LET c == IF req[r].known = "none" THEN r ELSE req[r].known IN
    /\ req[r].pc = "read" /\ r \in Bringing
    /\ default' = [default EXCEPT ![c] = r]
    /\ req' = [req EXCEPT ![r].pc = "upserted", ![r].customer = c]
    /\ UNCHANGED <<user, shown, holder, charge, named, crossed, doubtful>>

(* The card is retrieved of the customer the user had.                     *)
Retrieved_Before(r) == IF req[r].known = "none" THEN "none" ELSE default[req[r].known]

(* retrieveCard: the default card of the customer.                         *)
Retrieved(r) == default[req[r].customer]

(* updateCustomerCard: the card is retrieved, then both rows are written.  *)
RetrieveCard(r) ==
    /\ req[r].pc = "upserted"
    /\ req' = [req EXCEPT ![r].pc = "retrieved", ![r].card = Retrieved(r)]
    /\ UNCHANGED <<default, user, shown, holder, charge, named, crossed, doubtful>>

WriteCustomer(r) ==
    /\ req[r].pc = "retrieved" /\ holder = "nobody"
    /\ holder' = r
    /\ req' = [req EXCEPT ![r].pc = "written", ![r].before = shown]
    /\ user' = req[r].customer
    /\ shown' = [customer |-> req[r].customer, card |-> req[r].card]
    /\ UNCHANGED <<default, charge, named, crossed, doubtful>>

(* A payment without a token charges the card Stripe has.                  *)
ReadyToPay(p) ==
    \/ req[p].pc = "written"
    \/ req[p].pc = "read" /\ p \notin Bringing

(* payBooking retrieves the card for the transaction row, and charges.     *)
NameCard(p) ==
    /\ ReadyToPay(p)
    /\ req' = [req EXCEPT ![p].pc = "paying"]
    /\ named' = [named EXCEPT ![p] = Retrieved(p)]
    /\ UNCHANGED <<default, user, shown, holder, charge, crossed, doubtful>>

ChargeCard(p) ==
    /\ req[p].pc = "paying"
    /\ req' = [req EXCEPT ![p].pc = "charged"]
    /\ charge' = [charge EXCEPT ![p] = default[req[p].customer]]
    /\ UNCHANGED <<default, user, shown, holder, named, crossed, doubtful>>

(* A profile without a card changes neither.                               *)
Finished(r) ==
    \/ r \in Pays /\ req[r].pc = "charged"
    \/ r \in Profiles /\ req[r].pc = "written"
    \/ r \in Profiles \ Bringing /\ req[r].pc = "read"

Released(r) == IF holder = r THEN "nobody" ELSE holder

Commit(r) ==
    /\ Finished(r)
    /\ req' = [req EXCEPT ![r].pc = "done"]
    /\ holder' = Released(r)
    /\ doubtful' = (doubtful /\ (r \notin Bringing \/ r \in crossed))
    /\ UNCHANGED <<default, user, shown, charge, named, crossed>>

(* Any step's error rolls the rows back; Stripe keeps the card, and a      *)
(* payment gives its charge back.                                          *)
Fail(r) ==
    /\ r \in InFlight
    /\ req' = [req EXCEPT ![r].pc = "failed"]
    /\ holder' = Released(r)
    /\ IF holder = r
       THEN shown' = req[r].before /\ user' = req[r].before.customer
       ELSE UNCHANGED <<shown, user>>
    /\ doubtful' = (doubtful \/ (/\ r \in Bringing /\ req[r].pc # "read"
                                  /\ req[r].known # "none"))
    /\ charge' = IF r \in Pays THEN [charge EXCEPT ![r] = "none"] ELSE charge
    /\ named' = IF r \in Pays THEN [named EXCEPT ![r] = "none"] ELSE named
    /\ UNCHANGED <<default, crossed>>

Next ==
    \E r \in Requests :
        \/ ReadUser(r) \/ Upsert(r) \/ RetrieveCard(r) \/ WriteCustomer(r)
        \/ r \in Pays /\ (NameCard(r) \/ ChargeCard(r))
        \/ Commit(r) \/ Fail(r)

Spec == Init /\ [][Next]_cardVars

-----------------------------------------------------------------------------
(* The card shown is the one Stripe would charge, unless a card was        *)
(* replaced at Stripe by a request that then failed, or by two at a time,  *)
(* and none was brought since (user.service.ts 300-325, 335-366).  The     *)
(* card a payment names is the one it charged, and the one that came with  *)
(* it, unless another request crossed it (booking.service.ts 1186-1209).   *)
ShownIsCharged ==
    /\ user # "none" /\ ~doubtful /\ InFlight = {} =>
          shown = [customer |-> user, card |-> default[user]]
    /\ \A p \in Pays : req[p].pc = "done" /\ p \notin crossed =>
          /\ charge[p] # "none" /\ named[p] = charge[p]
          /\ p \in Bringing => charge[p] = p
=============================================================================
