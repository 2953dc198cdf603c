------------------------------- MODULE Courier --------------------------------
(***************************************************************************)
(* The price of a pick-up: quoted at the checkout                          *)
(* (logistics/logistics.service.ts getPrice), and asked again when the     *)
(* order is placed (orders/order.service.ts create).  In between the       *)
(* courier's price may change, and the type of the unit.  What becomes of  *)
(* an order once it is placed is in Orders.                                *)
(*                                                                         *)
(* One customer; amounts in hundredths.                                    *)
(***************************************************************************)
EXTENDS Integers

CONSTANTS
    Types,          \* the types the unit may have
    Prices,         \* what the courier may ask, with the drive alone
    MoverFee,       \* and for each mover
    MaxMovers,
    Percent,        \* SND_SERVICE_COMMISSION_PERCENT
    ServiceTax,     \* percent
    LastDay

Vehicles == {"van", "lorry10", "lorry14", "lorry24"}
Movers == 0..MaxMovers
Nothing == [vehicle |-> "none"]

VARIABLES
    now,
    type,           \* the type of the booking's unit
    price,          \* the courier's, of today
    quote,          \* what the checkout showed last
    request,        \* createOrder under way: what was asked and the type it read
    order,          \* the row
    dearer,         \* the courier's price rose after the quote
    resized,        \* the unit's type changed after the quote
    refused         \* an order for the vehicle of the quote was refused as too small

courierVars == <<now, type, price, quote, request, order, dearer, resized, refused>>

-----------------------------------------------------------------------------
VehicleCapacity(v) ==
    CASE v = "van"     -> {"XXS", "XS"}
      [] v = "lorry10" -> {"XXS", "XS", "S"}
      [] v = "lorry14" -> {"XXS", "XS", "S", "M"}
      [] v = "lorry24" -> {"XXS", "XS", "S", "M", "L", "XL", "XXL"}

VehicleTypeValidate(t, v) == t \in VehicleCapacity(v)

(* (n / 100).toFixed(2) of a product with a percentage.                    *)
Percentage(n, percent) == (n * percent + 50) \div 100

(* The platform's share on top, in the quote and again in the order.       *)
QuotedAmount(cents) == (cents * (100 + Percent) + 50) \div 100
OrderedAmount(cents) == (cents * (100 + Percent) + 50) \div 100

(* What the courier asks: no movers and zero movers are the same to it.    *)
Asked(movers) == price + movers * MoverFee

WithTax(amount) == amount + Percentage(amount, ServiceTax)

-----------------------------------------------------------------------------

TypeOK ==
    /\ now \in 0..LastDay
    /\ type \in Types /\ price \in Prices
    /\ quote = Nothing \/
         quote \in [vehicle: Vehicles, movers: Movers, amount: Nat]
    /\ request = Nothing \/
         request \in [vehicle: Vehicles, movers: Movers, day: 0..LastDay, type: Types]
    /\ order = Nothing \/
         order \in [vehicle: Vehicles, movers: Movers, priced: BOOLEAN, cost: Nat, total: Nat]
    /\ {dearer, resized, refused} \subseteq BOOLEAN

Init ==
    /\ now = 0
    /\ type \in Types /\ price \in Prices
    /\ quote = Nothing /\ request = Nothing /\ order = Nothing
    /\ dearer = FALSE /\ resized = FALSE /\ refused = FALSE

(* getPrice: for a day to come and a vehicle that is big enough.           *)
Quote(v, m, day) ==
    /\ order = Nothing /\ request = Nothing
    /\ day > now /\ VehicleTypeValidate(type, v)
    /\ quote' = [vehicle |-> v, movers |-> m, amount |-> QuotedAmount(Asked(m))]
    /\ dearer' = FALSE /\ resized' = FALSE /\ refused' = FALSE
    /\ UNCHANGED <<now, type, price, request, order>>

(* validateCreateOrderPayload and the booking with its unit; the vehicle   *)
(* is looked up after it.                                                  *)
ReadBooking(v, m, day) ==
    /\ order = Nothing /\ request = Nothing
    /\ day >= now
    /\ request' = [vehicle |-> v, movers |-> m, day |-> day, type |-> type]
    /\ UNCHANGED <<now, type, price, quote, order, dearer, resized, refused>>

TooSmall ==
    /\ request # Nothing /\ ~VehicleTypeValidate(request.type, request.vehicle)
    /\ refused' = (refused \/ quote.vehicle = request.vehicle)
    /\ request' = Nothing
    /\ UNCHANGED <<now, type, price, quote, order, dearer, resized>>

(* The courier takes the order, and the row gets its price, tax and total; *)
(* an answer without a price makes a row of NaN with a total of 0.         *)
PlaceOrder ==
    /\ request # Nothing /\ VehicleTypeValidate(request.type, request.vehicle)
    /\ request.day >= now
    /\ \E priced \in BOOLEAN :
          order' = [vehicle |-> request.vehicle, movers |-> request.movers, priced |-> priced,
                    cost |-> Asked(request.movers),
                    total |-> IF priced THEN WithTax(OrderedAmount(Asked(request.movers))) ELSE 0]
    /\ request' = Nothing
    /\ UNCHANGED <<now, type, price, quote, dearer, resized, refused>>

(* The courier is out of reach, or will not come in the past.              *)
CourierRefuses ==
    /\ request # Nothing /\ VehicleTypeValidate(request.type, request.vehicle)
    /\ request' = Nothing
    /\ UNCHANGED <<now, type, price, quote, order, dearer, resized, refused>>

(* The days, the courier's prices and the host's units go their own way.   *)
NextDay ==
    /\ now < LastDay
    /\ now' = now + 1
    /\ UNCHANGED <<type, price, quote, request, order, dearer, resized, refused>>

PriceMoves(p) ==
    /\ p # price /\ order = Nothing
    /\ price' = p
    /\ dearer' = (dearer \/ p > price)
    /\ UNCHANGED <<now, type, quote, request, order, resized, refused>>

Resize(t) ==
    /\ t # type /\ order = Nothing
    /\ type' = t
    /\ resized' = TRUE
    /\ UNCHANGED <<now, price, quote, request, order, dearer, refused>>

Next ==
    \/ \E v \in Vehicles, m \in Movers, day \in 0..LastDay :
          Quote(v, m, day) \/ ReadBooking(v, m, day)
    \/ TooSmall \/ PlaceOrder \/ CourierRefuses \/ NextDay
    \/ \E p \in Prices : PriceMoves(p)
    \/ \E t \in Types : Resize(t)

Spec == Init /\ [][Next]_courierVars

-----------------------------------------------------------------------------
(* An order for what was quoted costs no more than the quote and its tax,  *)
(* unless the courier became dearer (logistics.service.ts 76-80, 148-155,  *)
(* order.service.ts 161-168), and a vehicle that was quoted is refused     *)
(* only after the type of the unit changed (logistics.service.ts 115-122,  *)
(* order.service.ts 129-136).  What the customer owes covers the courier,  *)
(* if the courier named its price.                                         *)
QuoteIsHonoured ==
    /\ order # Nothing =>
          /\ order.priced => order.total >= order.cost
          /\ order.priced /\ ~dearer /\ order.vehicle = quote.vehicle =>
                (order.movers = quote.movers => order.total <= WithTax(quote.amount))
    /\ refused => resized
=============================================================================
