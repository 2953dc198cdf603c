-------------------------------- MODULE Pricing --------------------------------
(***************************************************************************)
(* What a stay costs, computed in five places that have to agree: the      *)
(* checkout quote, the booking and its first renewal, the insurance added  *)
(* later, the pick-up order (bookings/booking.service.ts,                  *)
(* orders/order.service.ts) and the renewal of each further month          *)
(* (renewals/renewal.service.ts, pay-renewal.cron.ts); and a sixth, the    *)
(* schedule of payments, shows some of it beforehand.                      *)
(*                                                                         *)
(* Amounts are in hundredths, rounded where the code calls toFixed(2).     *)
(* Day 0 is the move-in date; months have the lengths of the calendar.     *)
(***************************************************************************)
EXTENDS Integers, Sequences, FiniteSetsExt

CONSTANTS
    Bookables,      \* what a customer may choose, records as choice has them; promo is
                    \* [kind, value, cap, indexed, months, minDays, minPrice, until]
    Insurances,     \* prices per day of the insurances he may add
    MonthLength,    \* sequence: the days of the 1st, 2nd ... month from the move-in date
    Lead,           \* createBefore: a renewal is made so many days early
    SiteTax, InsuranceTax, ServiceTax,  \* percents
    BaseAmounts     \* what updateBookingPrice may set

Open == 0           \* the stay without a move-out date
None == 0 - 1
Months == 1..Len(MonthLength)

VARIABLES
    choice,         \* [stay, price, promo, insurance, pickup]
    phase,          \* "quote", "create", "order", "pay", "paid"
    payable,        \* the quote
    copied,         \* the booking has the promotion (booking_promotions)
    bill,           \* the booking: [total, tax, discount, insurance, base]
    taxes,          \* the applied_taxes rows of its latest renewal: [site, insurance]
    misplaced,      \* a change of the insurance failed after it had deleted its rows
    renewal,        \* its latest renewal
    foretold,       \* what the renewal before projected: [rent, total]
    order,          \* total_amount of the pick-up order
    amount,         \* what payBooking charged
    repriced        \* base_amount was set since the latest renewal was made

priceVars == <<choice, phase, payable, copied, bill, taxes, misplaced, renewal, foretold,
               order, amount, repriced>>

-----------------------------------------------------------------------------
(* Arithmetic and the calendar                                             *)

(* (n / d).toFixed(2)                                                      *)
Round(n, d) == IF n >= 0 THEN (2 * n + d) \div (2 * d) ELSE -((d - 2 * n) \div (2 * d))

Least(a, b) == IF a < b THEN a ELSE b

(* The first day of each month, and of the one after the last.             *)
StartOf[k \in 1..(Len(MonthLength) + 1)] ==
    IF k = 1 THEN 0 ELSE StartOf[k - 1] + MonthLength[k - 1]

(* How many whole months lie between the start of month k and a day.       *)
WholeMonths(k, d) ==
    CHOOSE n \in 0..(Len(MonthLength) + 1 - k) :
        /\ n = 0 \/ StartOf[k + n] <= d
        /\ k + n <= Len(MonthLength) => StartOf[k + n + 1] > d

Prorated(p, days) == Round(p * days, 30)

(* calculateTax: each tax is rounded.                                      *)
Tax(base, percent) == Round(base * percent, 100)
SpaceTax(sub, discount) == Tax(IF discount > 0 THEN sub - discount ELSE sub, SiteTax)

InsurancePrice(perDay) == perDay * 30

(* createAppliedTaxes: a row for each tax of more than nothing.            *)
AppliedTaxes(site, insurance) == [site |-> site, insurance |-> insurance]

(* deleteByIds, outside the transaction of the change.                     *)
WithoutInsurance(applied) == [applied EXCEPT !.insurance = 0]

-----------------------------------------------------------------------------
(* Promotions                                                              *)

(* It is ACTIVE and its last day is not over; until is None if it is not   *)
(* ACTIVE.                                                                 *)
Runs(promo, day) == day <= promo.until

(* For FIRST_MONTHS, or for one month by its RENEWAL_INDEX.                *)
Covers(promo, n) == IF promo.indexed THEN n = promo.months ELSE n <= promo.months

Off(promo, base) ==
    CASE promo.kind = "FIXED"      -> promo.value
      [] promo.kind = "PERCENTAGE" -> Round(base * promo.value, 100)
      [] promo.kind = "TOTAL"      -> base - promo.value

(* Discount without its last checks.                                       *)
Discount_MoreThanRent(promo, base, n) == IF Covers(promo, n) THEN Off(promo, base) ELSE 0

(* What a PUBLIC promotion takes off an amount in its month n.             *)
Discount(promo, base, n) ==
    LET off == Off(promo, base)
        capped == IF promo.cap > 0 THEN Least(off, promo.cap) ELSE off
    IN IF Covers(promo, n) /\ capped > 0 THEN Least(capped, base) ELSE 0

(* getPromotionAmount: the rent it looks at, and what the customer must buy *)
PromotionBase(c) ==
    IF c.stay # Open /\ WholeMonths(1, c.stay - 1) < 1 THEN Prorated(c.price, c.stay)
    ELSE c.price

(* So many days (minPrice is None then), or so dear.                       *)
BuyCheckPassed(c) ==
    IF c.promo.minPrice # None THEN PromotionBase(c) >= c.promo.minPrice
    ELSE \/ c.stay = Open
         \/ c.promo.minDays < 30 /\ c.stay >= c.promo.minDays
         \/ c.promo.minDays >= 30 /\ 30 * WholeMonths(1, c.stay - 1) >= c.promo.minDays

Offered(c) == Runs(c.promo, 0) /\ BuyCheckPassed(c)

(* What it takes off month n, as it looks before the booking is made.      *)
EarlyDiscount(c, offered, n) ==
    IF offered THEN Discount(c.promo, PromotionBase(c), n) ELSE 0

(* getBookingPromotionAmount looks at what is left from today on, the day  *)
(* month k is made: the first on its first day, a later one Lead days      *)
(* early, still in the month before it.                                    *)
Today(k) == IF k = 1 THEN 0 ELSE StartOf[k] - Lead
WithinAMonth(c, k) ==
    c.stay # Open /\ Today(k) + MonthLength[IF k = 1 THEN 1 ELSE k - 1] > c.stay - 1

LaterBase(c, base, k) == IF WithinAMonth(c, k) THEN Prorated(base, c.stay - Today(k)) ELSE base

(* The booking's promotion, whether it still runs or not.                  *)
LaterDiscount_Anytime(c, given, base, k, n) ==
    IF given THEN Discount(c.promo, LaterBase(c, base, k), n) ELSE 0

(* The discount of month n as it is reckoned when month k is made: of the  *)
(* promotion the booking was given, if it still runs on that day.          *)
LaterDiscount(c, given, base, k, n) ==
    IF given /\ Runs(c.promo, Today(k)) THEN Discount(c.promo, LaterBase(c, base, k), n)
    ELSE 0

-----------------------------------------------------------------------------
(* The quote                                                               *)

(* calculateCheckOutPrice: a stay of at most 30 days is paid by the day.   *)
CheckoutRent(c) ==
    IF c.stay # Open /\ c.stay <= 30 THEN Prorated(c.price, c.stay) ELSE c.price

Quoted(c, offered) ==
    LET discount == EarlyDiscount(c, offered, 1)
        insurance == InsurancePrice(c.insurance) IN
    CheckoutRent(c) + insurance + CheckoutRent(c) + c.pickup
      + SpaceTax(CheckoutRent(c), discount)
      + Tax(insurance, InsuranceTax) + Tax(c.pickup, ServiceTax)
      - discount

-----------------------------------------------------------------------------
(* Renewals                                                                *)

(* getRenewalPayload for month k, before taxes.  stay - StartOf[k] days    *)
(* are left; a remainder of less than two months is the last renewal, and  *)
(* no more than 30 days of it are charged.                                 *)
DaysLeft(c, k) == c.stay - StartOf[k]
IsLast(c, k) == c.stay # Open /\ WholeMonths(k, c.stay) <= 1

RentOf(c, base, k) ==
    IF IsLast(c, k) THEN Prorated(base, Least(30, DaysLeft(c, k))) ELSE base

(* The next rent is that of the month's own dates, whether or not there is *)
(* to be a next renewal.                                                   *)
NextRent(c, base, k) ==
    IF c.stay = Open THEN base
    ELSE IF DaysLeft(c, k + 1) < 1 THEN None
    ELSE IF WholeMonths(k + 1, c.stay) <= 1
         THEN Prorated(base, Least(30, DaysLeft(c, k + 1)))
    ELSE base

RenewalPayload(c, base, k, insurance, deposit, discount) ==
    [month    |-> k,
     last     |-> IsLast(c, k),
     rent     |-> RentOf(c, base, k),
     next     |-> NextRent(c, base, k),
     discount |-> discount,
     tax      |-> 0,
     total    |-> RentOf(c, base, k) + deposit + insurance - discount,
     projected |-> None]

Taxed(r, tax) == [r EXCEPT !.tax = tax, !.total = @ + tax]

MonthTotal(rent, insurance, discount) ==
    rent + insurance + SpaceTax(rent, discount) + Tax(insurance, InsuranceTax) - discount

(* getRenewalProjectedAmount: the total of the month after k, whose rent   *)
(* is known; with the promotion as it runs today.                          *)
ProjectedTotal(c, given, base, k, rent, insurance) ==
    MonthTotal(rent, insurance, LaterDiscount(c, given, base, k, k + 1))

(* create keeps the rent for the total (updateRenewalProjectedAmount).     *)
ProjectedFirst(r) == [r EXCEPT !.projected = r.next]

-----------------------------------------------------------------------------
(* The payment schedule, shown for a stay with a PUBLIC promotion before   *)
(* it is booked                                                            *)

(* As many months as the promotion asks for, if it runs                    *)
(* (fetchActivePromotions, calculateMaxBuysDays).                          *)
Foreseen(c) ==
    {m \in Months : m = 1 \/ (Runs(c.promo, 0) /\ 30 * (m - 1) < c.promo.minDays)}

(* Further months are taken to start a day late, and the last of them ends *)
(* with the stay.                                                          *)
Shown(c, m) ==
    LET starts == IF m = 1 THEN 0 ELSE StartOf[m] + 1
        ends == starts + MonthLength[m]
        cut == c.stay # Open /\ ends > c.stay - 1 IN
    [cut |-> cut, days |-> IF cut THEN c.stay - 1 - starts ELSE MonthLength[m]]

(* The months shown: none starts after one that ends with the stay.        *)
Schedule(c) == {m \in Foreseen(c) : \A j \in 1..(m - 1) : ~Shown(c, j).cut}

ByTheDay(c, m) == c.stay # Open /\ Shown(c, m).days < 30
ScheduledRent(c, m) == IF ByTheDay(c, m) THEN Prorated(c.price, Shown(c, m).days) ELSE c.price

ScheduledTotal(c, m, offered) ==
    LET rent == ScheduledRent(c, m)
        service == IF m = 1 THEN c.pickup ELSE 0 IN
    MonthTotal(rent, InsurancePrice(c.insurance), EarlyDiscount(c, offered, m))
      + service + Tax(service, ServiceTax) + (IF m = 1 THEN rent ELSE 0)

-----------------------------------------------------------------------------
(* The invoice of the payment for the latest renewal                       *)

Deposit == IF renewal.month = 1 THEN CheckoutRent(choice) ELSE 0
OrderPaid == IF renewal.month = 1 THEN order ELSE 0

(* Rent, pick-up and insurance are its items, a line each if there is one. *)
InvoiceItems == {[name |-> "rent", amount |-> renewal.rent],
                 [name |-> "pick-up", amount |-> OrderPaid],
                 [name |-> "insurance", amount |-> InsurancePrice(bill.insurance)]}

(* The tax shown is the booking's, the rest the renewal's.                 *)
Invoice ==
    [total |-> OrderPaid + renewal.total, tax |-> bill.tax, discount |-> renewal.discount,
     deposit |-> Deposit, items |-> MapThenSumSet(LAMBDA i : i.amount, InvoiceItems)]

-----------------------------------------------------------------------------

TypeOK ==
    /\ choice \in Bookables
    /\ phase \in {"quote", "create", "order", "pay", "paid"}
    /\ payable \in Int /\ order \in Nat /\ amount \in Int
    /\ taxes.site \in Int /\ taxes.insurance \in Nat /\ misplaced \in BOOLEAN
    /\ foretold.rent \in Int /\ foretold.total \in Int
    /\ renewal.month \in Months \cup {0} /\ renewal.last \in BOOLEAN
    /\ repriced \in BOOLEAN /\ copied \in BOOLEAN

NoBill == [total |-> 0, tax |-> 0, discount |-> 0, insurance |-> 0, base |-> 0]
NoRenewal == [month |-> 0, last |-> FALSE, rent |-> 0, next |-> None, discount |-> 0,
              tax |-> 0, total |-> 0, projected |-> None]
Unforetold == [rent |-> None, total |-> None]

Init ==
    /\ choice \in Bookables
    /\ phase = "quote"
    /\ payable = 0 /\ order = 0 /\ amount = 0 /\ copied = FALSE
    /\ bill = NoBill /\ renewal = NoRenewal
    /\ taxes = AppliedTaxes(0, 0) /\ misplaced = FALSE
    /\ foretold = Unforetold /\ repriced = FALSE

Quote ==
    /\ phase = "quote"
    /\ payable' = Quoted(choice, Offered(choice))
    /\ phase' = "create"
    /\ UNCHANGED <<choice, copied, bill, taxes, misplaced, renewal, foretold, order, amount,
                   repriced>>

(* create: getDepositAndSubTotalAmount for the booking, getRenewalPayload  *)
(* for its renewal; only the site's taxes.  The promotion is looked up     *)
(* again, and may have ended since the quote; the booking gets a copy.     *)
Create ==
    /\ phase = "create"
    /\ copied' \in {Offered(choice), FALSE}
    /\ LET c == choice
           discount == EarlyDiscount(c, copied', 1)
           tax == SpaceTax(CheckoutRent(c), discount) IN
       /\ bill' = [total |-> CheckoutRent(c) + tax + CheckoutRent(c) - discount, tax |-> tax,
                   discount |-> discount, insurance |-> 0, base |-> c.price]
       /\ renewal' = ProjectedFirst(
                        Taxed(RenewalPayload(c, c.price, 1, 0, CheckoutRent(c), discount), tax))
       /\ taxes' = AppliedTaxes(tax, 0)
    /\ phase' = "order"
    /\ UNCHANGED <<choice, payable, misplaced, foretold, order, amount, repriced>>

(* update: the totals as they stand, less the old insurance and its tax;   *)
(* the next total is projected anew.                                       *)
Insure(perDay) ==
    /\ phase \in {"order", "pay"} /\ perDay # bill.insurance
    /\ LET new == InsurancePrice(perDay)  old == InsurancePrice(bill.insurance)
           added == Tax(new, InsuranceTax)  removed == taxes.insurance
           total == bill.total + added + new - old - removed IN
       /\ bill' = [bill EXCEPT !.insurance = perDay, !.total = total,
                               !.tax = @ + added - removed]
       /\ renewal' =
             [renewal EXCEPT !.total = total, !.tax = bill.tax + added - removed,
                             !.projected =
                                IF renewal.next = None THEN @
                                ELSE ProjectedTotal(choice, copied, bill.base, 1,
                                                    renewal.next, new)]
       /\ taxes' = AppliedTaxes(WithoutInsurance(taxes).site, added)
    /\ UNCHANGED <<choice, phase, payable, copied, misplaced, foretold, order, amount, repriced>>

(* A change that comes to nothing, its rows of the old insurance gone;     *)
(* once, for the bound.                                                    *)
InsureFails ==
    /\ phase \in {"order", "pay"} /\ ~misplaced /\ taxes.insurance > 0
    /\ taxes' = WithoutInsurance(taxes) /\ misplaced' = TRUE
    /\ UNCHANGED <<choice, phase, payable, copied, bill, renewal, foretold, order, amount,
                   repriced>>

(* An order without its tax.                                               *)
PlaceOrder_Untaxed ==
    /\ phase = "order"
    /\ order' = choice.pickup
    /\ phase' = "pay"
    /\ UNCHANGED <<choice, payable, copied, bill, taxes, misplaced, renewal, foretold, amount,
                   repriced>>

PlaceOrder ==
    /\ phase = "order"
    /\ order' = choice.pickup + Tax(choice.pickup, ServiceTax)
    /\ phase' = "pay"
    /\ UNCHANGED <<choice, payable, copied, bill, taxes, misplaced, renewal, foretold, amount,
                   repriced>>

(* payBooking charges the first renewal's total and the order's.           *)
PayBooking ==
    /\ phase = "pay"
    /\ amount' = renewal.total + order
    /\ phase' = "paid"
    /\ UNCHANGED <<choice, payable, copied, bill, taxes, misplaced, renewal, foretold, order,
                   repriced>>

(* The job, when the latest renewal has a next date.  The discount of the  *)
(* month to come overwrites the row's own when there is one to project.    *)
Renew ==
    /\ phase = "paid" /\ ~renewal.last /\ renewal.month + 1 < Len(MonthLength)
    /\ LET c == choice
           k == renewal.month + 1
           discount == LaterDiscount(c, copied, bill.base, k, k)
           insurance == InsurancePrice(bill.insurance)
           r == RenewalPayload(c, bill.base, k, insurance, 0, discount)
           applied == AppliedTaxes(SpaceTax(r.rent, discount), Tax(insurance, InsuranceTax))
           taxed == Taxed(r, applied.site + applied.insurance) IN
       /\ taxes' = applied
       /\ renewal' =
             IF r.next = None THEN taxed
             ELSE [taxed EXCEPT
                     !.discount = LaterDiscount(c, copied, bill.base, k, k + 1),
                     !.projected = ProjectedTotal(c, copied, bill.base, k, r.next, insurance)]
    /\ foretold' = IF repriced THEN Unforetold
                   ELSE [rent |-> renewal.next, total |-> renewal.projected]
    /\ repriced' = FALSE
    /\ UNCHANGED <<choice, phase, payable, copied, bill, misplaced, order, amount>>

(* updateBookingPrice: base_amount alone, unless it is as good as the same. *)
Reprice(p) ==
    /\ phase = "paid"
    /\ p - bill.base >= 100 \/ bill.base - p >= 100
    /\ bill' = [bill EXCEPT !.base = p]
    /\ repriced' = TRUE
    /\ UNCHANGED <<choice, phase, payable, copied, taxes, misplaced, renewal, foretold, order,
                   amount>>

Next ==
    \/ Quote \/ Create \/ InsureFails \/ PlaceOrder \/ PayBooking \/ Renew
    \/ \E i \in Insurances : Insure(i)
    \/ \E p \in BaseAmounts : Reprice(p)

Spec == Init /\ [][Next]_priceVars

-----------------------------------------------------------------------------
(* The promotion ended before the booking was made; before month k, that   *)
(* is charged without it.                                                  *)
Withdrawn == Offered(choice) /\ ~copied
Lapsed(k) == Offered(choice) /\ ~(copied /\ Runs(choice.promo, Today(k)))

(* What is foretold is what is charged.  payBooking charges what the       *)
(* checkout quoted for the same choice, to the cent: the quote adds the    *)
(* rent, the deposit, the discount and the taxes of all of them at once    *)
(* (booking.service.ts 224-338), the charge is put together by create,     *)
(* update, createOrder and payBooking from amounts rounded one by one; but *)
(* without the discount when the promotion ended in between, and never     *)
(* less, when a change of the insurance had failed in between.  A          *)
(* renewal's next_renewal_sub_total (renewal.service.ts 193-213) is the    *)
(* rent the job then charges, unless the price was changed in between; and *)
(* a stay without a next renewal was charged up to its last day, but for a *)
(* last renewal of 31 days to two months, of which 30 days are (177-187).  *)
QuoteIsCharged ==
    /\ phase = "paid" /\ renewal.month = 1 /\ bill.insurance = choice.insurance =>
          /\ amount >= payable
          /\ misplaced \/ amount = IF Withdrawn THEN Quoted(choice, FALSE) ELSE payable
    /\ renewal.month > 1 /\ foretold.rent # None => renewal.rent = foretold.rent
    /\ renewal.last =>
          \/ DaysLeft(choice, renewal.month) \in 1..30
          \/ DaysLeft(choice, renewal.month) > 30
             /\ DaysLeft(choice, renewal.month) < MonthLength[renewal.month]
                                                    + MonthLength[renewal.month + 1]

(* And what is projected for a month is what is charged for it, insurance  *)
(* and taxes and all, if the price stays (booking.service.ts 1920-1967):   *)
(* but for a month by whose making the promotion has ended, which is       *)
(* charged without it (bookings/promotions/promotion/promotion.service.ts  *)
(* 182-188); for the second month of a booking without insurance, whose    *)
(* projected total is the rent alone (1905-1910); and for a month made     *)
(* within a month of the end of the stay, whose discount is of less.       *)
ProjectionIsCharged ==
    renewal.month > 1 /\ foretold.total # None =>
        IF renewal.month = 2 /\ bill.insurance = 0 THEN foretold.total = foretold.rent
        ELSE IF Lapsed(renewal.month)
             THEN renewal.total = MonthTotal(foretold.rent, InsurancePrice(bill.insurance), 0)
        ELSE ~WithinAMonth(choice, renewal.month) => renewal.total = foretold.total

(* The schedule of payments (renewal.service.ts 279-490) shows what is     *)
(* then charged for a month, or for a month of less than 30 days in a stay *)
(* with a move-out date no more than that: February is shown by the day    *)
(* and charged whole, and of the month in which the stay ends a day is     *)
(* left out in the first and two days in a later one.  It shows the        *)
(* discount for months by whose making the promotion has ended, which are  *)
(* charged without.                                                        *)
ScheduleIsCharged ==
    phase = "paid" /\ bill.insurance = choice.insurance /\ ~repriced /\ ~misplaced
      /\ bill.base = choice.price /\ renewal.month \in Schedule(choice) =>
        LET k == renewal.month
            offered == Offered(choice) /\ ~Lapsed(k)
            shown == ScheduledTotal(choice, k, offered)
            charged == IF k = 1 THEN amount ELSE renewal.total IN
        /\ ScheduledTotal(choice, k, Offered(choice)) <= charged
        /\ IF ByTheDay(choice, k) THEN shown <= charged ELSE shown = charged

(* The rows of applied_taxes add up to the tax of the renewal they are of, *)
(* but for those a failed change of the insurance took away.  It takes     *)
(* them away outside its transaction, and the next change takes off the    *)
(* total what rows it finds (booking.service.ts 1522-1574,                 *)
(* applied-tax.service.ts 41-78, 153-210).                                 *)
TaxRowsAddUp == misplaced \/ taxes.site + taxes.insurance = renewal.tax

(* The invoice of the first payment (invoices/invoice.service.ts 33-128)   *)
(* adds up to what was paid: its items, the deposit and the booking's tax, *)
(* less the discount.  That of a renewal need not: it shows the tax of the *)
(* booking as it was made and the discount of the month to come.           *)
InvoiceAddsUp ==
    phase = "paid" /\ renewal.month = 1 =>
        /\ Invoice.total = amount
        /\ Invoice.items + Invoice.deposit + Invoice.tax - Invoice.discount = Invoice.total

(* "discounted amount shouldn't be greater than total rent" (the comment  *)
(* of both promotion services, 543 and 328), or else a charge is negative. *)
(* It is, in three places, where the rent the discount is reckoned from is *)
(* not the one charged: a stay of 31 days inside one month, one of 29 days *)
(* that fill February and a day, and a last renewal, whose discount looks  *)
(* at the days from today and so from Lead days before.  What a renewal is *)
(* short is no more than those days' rent, one more when the month is      *)
(* short, and their tax.                                                   *)
DiscountWithinRent ==
    /\ phase = "order" /\ choice.stay # 31 /\ ~(choice.stay = 29 /\ MonthLength[1] = 28) =>
          bill.discount <= CheckoutRent(choice)
    /\ renewal.month > 1 /\ ~repriced =>
          LET short == Prorated(bill.base, Lead + 1) IN
          renewal.total + short + Tax(short, SiteTax) >= 0
=============================================================================
