------------------------------- MODULE Quotations -------------------------------
(***************************************************************************)
(* A quotation (quotations/quotation.service.ts): what a few spaces cost,  *)
(* held for a week for the customer who asked.  A booking made from it     *)
(* takes its price (bookings/booking.service.ts), a payment accepts it, a  *)
(* job reminds of it and another rejects it (cron-job/quotations).         *)
(*                                                                         *)
(* Time is in half days; both jobs start in the middle of the day, on one  *)
(* schedule, and may be started again until the day is over.               *)
(***************************************************************************)
EXTENDS Integers, FiniteSets

CONSTANTS
    Quotes,         \* createQuotation requests, each known by the row it makes
    Bookings,       \* bookings made from a quotation, one request each
    Spaces,         \* of one site
    Prices,
    MaxItems,       \* spaces of a site in a quotation
    Remind, Keep,   \* days after which a quotation is called to mind, and rejected
    LastTime, MaxRuns

NoQuote == "none"

VARIABLES
    now,            \* in half days
    price,          \* [Spaces -> Prices]: price_per_month now
    quote,          \* [Quotes -> [pc, status, created, items]]
    stay,           \* [Bookings -> [pc, of, item, space, quoted, shown, price]]
    job,            \* ["remind", "reject" -> [ran, left]]: the two jobs, today
    runs,           \* how often the jobs were started today, for the bound
    reminded,       \* quotations whose customer was sent the reminder
    overlooked,     \* quotations whose reminder failed, or whose day had no whole run
    declined,       \* [Quotes -> mails that say it is rejected], lost or not
    clung,          \* quotations a run could not reject
    stirred,        \* bookings whose price or quotation changed while they were made
    met             \* pairs of bookings that were reserved, and unpaid, at once

mails == <<reminded, overlooked, declined, clung>>
quoteVars == <<now, price, quote, stay, job, runs, mails, stirred, met>>

QuotationStatus == {"ACTIVE", "ACCEPTED", "REJECTED"}
Items == UNION {[S -> Prices] : S \in SUBSET Spaces}
QuotationRow == [pc: {"idle", "priced", "open", "done", "failed"},
                 status: QuotationStatus \cup {"NONE"}, created: 0..LastTime, items: Items]
BookingRow == [pc: {"idle", "shown", "reserved", "paid"},
               of: Quotes \cup {NoQuote}, item: Spaces, space: Spaces, quoted: BOOLEAN,
               shown: Prices \cup {0}, price: Prices \cup {0}]
Jobs == {"remind", "reject"}

TypeOK ==
    /\ now \in 0..LastTime
    /\ price \in [Spaces -> Prices]
    /\ quote \in [Quotes -> QuotationRow]
    /\ stay \in [Bookings -> BookingRow]
    /\ job \in [Jobs -> [ran: BOOLEAN, left: SUBSET Quotes]]
    /\ runs \in 0..MaxRuns
    /\ reminded \subseteq Quotes /\ overlooked \subseteq Quotes
    /\ declined \in [Quotes -> Nat] /\ clung \subseteq Quotes
    /\ stirred \subseteq Bookings /\ met \subseteq Bookings \X Bookings

NoStay == LET s == CHOOSE x \in Spaces : TRUE IN
          [pc |-> "idle", of |-> NoQuote, item |-> s, space |-> s, quoted |-> FALSE,
           shown |-> 0, price |-> 0]
Idle == [ran |-> FALSE, left |-> {}]

Init ==
    /\ now = 0 /\ price \in [Spaces -> Prices]
    /\ quote = [q \in Quotes |-> [pc |-> "idle", status |-> "NONE", created |-> 0,
                                  items |-> << >>]]
    /\ stay = [b \in Bookings |-> NoStay]
    /\ job = [j \in Jobs |-> Idle] /\ runs = 0
    /\ reminded = {} /\ overlooked = {} /\ declined = [q \in Quotes |-> 0] /\ clung = {}
    /\ stirred = {} /\ met = {}

Today == now \div 2
AtWork == {b \in Bookings : stay[b].pc = "shown"}

(* A host sets a price.                                                    *)
Reprice(s, p) ==
    /\ price[s] # p
    /\ price' = [price EXCEPT ![s] = p]
    /\ stirred' = stirred \cup AtWork
    /\ UNCHANGED <<now, quote, stay, job, runs, mails, met>>

-----------------------------------------------------------------------------
(* createQuotation                                                         *)

(* getSiteWithSpaces: the cheapest of the spaces that have stock.          *)
Cheapest(free) ==
    {S \in SUBSET free :
        /\ Cardinality(S) = MaxItems \/ (S = free /\ Cardinality(S) < MaxItems)
        /\ \A s \in S, r \in free \ S : price[s] <= price[r]}

(* The payload is valid, the stock is asked for and the prices are read; a *)
(* quotation of nothing is refused.                                        *)
PriceSpaces(q, free) ==
    /\ quote[q].pc = "idle"
    /\ IF free = {} THEN quote' = [quote EXCEPT ![q].pc = "failed"]
       ELSE \E S \in Cheapest(free) :
               quote' = [quote EXCEPT ![q].pc = "priced",
                                      ![q].items = [s \in S |-> price[s]]]
    /\ UNCHANGED <<now, price, stay, job, runs, mails, stirred, met>>

(* The transaction: account, quotation, items.                             *)
OpenQuote(q) ==
    /\ quote[q].pc = "priced"
    /\ quote' = [quote EXCEPT ![q].pc = "open", ![q].created = now]
    /\ UNCHANGED <<now, price, stay, job, runs, mails, stirred, met>>

(* After the commit the quotation is read again and sent; when that fails  *)
(* the catch tries to roll back what is committed: the customer is told of *)
(* an error, and the quotation is there all the same.                      *)
CommitQuote(q) ==
    /\ quote[q].pc = "open"
    /\ quote' = [quote EXCEPT ![q].pc = "done", ![q].status = "ACTIVE"]
    /\ UNCHANGED <<now, price, stay, job, runs, mails, stirred, met>>

QuoteFails(q) ==
    /\ quote[q].pc \in {"priced", "open"}
    /\ quote' = [quote EXCEPT ![q].pc = "failed"]
    /\ UNCHANGED <<now, price, stay, job, runs, mails, stirred, met>>

-----------------------------------------------------------------------------
(* Bookings                                                                *)

(* The same whatever has become of the quotation.                          *)
PriceFor_AnyStatus(q, i, s) ==
    [quoted |-> TRUE, price |-> quote[q].items[i]]

(* The price of an item of an ACTIVE quotation, whatever space the booking *)
(* is of; of any other quotation, the price of the space now.              *)
PriceFor(q, i, s) ==
    [quoted |-> quote[q].status = "ACTIVE",
     price |-> IF quote[q].status = "ACTIVE" THEN quote[q].items[i] ELSE price[s]]

(* calculateCheckOutPrice                                                  *)
ShowPrice(b, q, i, s) ==
    /\ stay[b].pc = "idle" /\ \A c \in Bookings : c < b => stay[c].pc # "idle"
    /\ quote[q].status # "NONE" /\ i \in DOMAIN quote[q].items
    /\ stay' = [stay EXCEPT ![b] = [pc |-> "shown", of |-> q, item |-> i, space |-> s,
                                    quoted |-> FALSE, shown |-> PriceFor(q, i, s).price,
                                    price |-> 0]]
    /\ UNCHANGED <<now, price, quote, job, runs, mails, stirred, met>>

Reserved == {b \in Bookings : stay[b].pc = "reserved"}

(* create reads the quotation again; the booking names it in any case.     *)
Reserve(b) ==
    /\ stay[b].pc = "shown"
    /\ LET rent == PriceFor(stay[b].of, stay[b].item, stay[b].space) IN
       stay' = [stay EXCEPT ![b].pc = "reserved", ![b].quoted = rent.quoted,
                            ![b].price = rent.price]
    /\ met' = met \cup ({b} \X Reserved) \cup (Reserved \X {b})
    /\ UNCHANGED <<now, price, quote, job, runs, mails, stirred>>

(* payBooking accepts the quotation, whatever its status.                  *)
Pay(b) ==
    LET q == stay[b].of IN
    /\ stay[b].pc = "reserved"
    /\ stay' = [stay EXCEPT ![b].pc = "paid"]
    /\ quote' = [quote EXCEPT ![q].status = "ACCEPTED"]
    /\ stirred' = stirred \cup {c \in AtWork : stay[c].of = q}
    /\ UNCHANGED <<now, price, job, runs, mails, met>>

-----------------------------------------------------------------------------
(* The jobs                                                                *)

Active == {q \in Quotes : quote[q].status = "ACTIVE"}
OfDay(d) == {q \in Quotes : quote[q].created \div 2 = d}

(* Quotations made on the day before the one on which to remind.           *)
ToRemind_Late == Active \cap OfDay(Today - Remind - 1)

(* getQuotations: those made on one day, and those more than a week old,   *)
(* counted to the minute: of the same half day it may be either.           *)
ToRemind == Active \cap OfDay(Today - Remind)
Old == {q \in Active : quote[q].created < now - 2 * Keep}
AsOld == {q \in Active : quote[q].created = now - 2 * Keep}

(* A run that is not over gives way to a new one.                          *)
StartJob(j) ==
    /\ now % 2 = 1 /\ runs < MaxRuns
    /\ runs' = runs + 1
    /\ \E some \in SUBSET AsOld :
          job' = [job EXCEPT ![j] =
             [ran |-> TRUE, left |-> IF j = "remind" THEN ToRemind ELSE Old \cup some]]
    /\ UNCHANGED <<now, price, quote, stay, mails, stirred, met>>

(* One mail after the other; an error is logged.                           *)
SendReminder(q) ==
    /\ q \in job["remind"].left
    /\ job' = [job EXCEPT !["remind"].left = @ \ {q}]
    /\ \/ reminded' = reminded \cup {q} /\ UNCHANGED overlooked
       \/ overlooked' = overlooked \cup {q} /\ UNCHANGED reminded
    /\ UNCHANGED <<now, price, quote, stay, runs, declined, clung, stirred, met>>

(* By id; an error is logged, and not passed on.                           *)
UpdateQuotation(q) ==
    \/ /\ quote' = [quote EXCEPT ![q].status = "REJECTED"]
       /\ stirred' = stirred \cup {b \in AtWork : stay[b].of = q}
       /\ UNCHANGED clung
    \/ /\ clung' = clung \cup {q}
       /\ UNCHANGED <<quote, stirred>>

(* The customer is mailed whatever became of the update; an error of the   *)
(* mail is logged, and the run goes on.                                    *)
Reject(q) ==
    /\ q \in job["reject"].left
    /\ job' = [job EXCEPT !["reject"].left = @ \ {q}]
    /\ UpdateQuotation(q)
    /\ declined' = [declined EXCEPT ![q] = @ + 1]
    /\ UNCHANGED <<now, price, stay, runs, reminded, overlooked, met>>

(* Half a day passes; a transaction takes less.  At the end of a day       *)
(* without a whole run the quotations it was to remind of are overlooked   *)
(* for good.                                                               *)
Tick ==
    /\ now < LastTime
    /\ \A q \in Quotes : quote[q].pc = "open" => quote[q].created = now
    /\ now' = now + 1
    /\ IF now % 2 = 0 THEN UNCHANGED <<job, runs, overlooked>>
       ELSE /\ job' = [j \in Jobs |-> Idle] /\ runs' = 0
            /\ overlooked' = IF job["remind"].ran /\ job["remind"].left = {} THEN overlooked
                             ELSE overlooked \cup OfDay(Today - Remind)
    /\ UNCHANGED <<price, quote, stay, reminded, declined, clung, stirred, met>>

Next ==
    \/ \E s \in Spaces, p \in Prices : Reprice(s, p)
    \/ \E q \in Quotes :
          \/ \E free \in SUBSET Spaces : PriceSpaces(q, free)
          \/ OpenQuote(q) \/ CommitQuote(q) \/ QuoteFails(q)
          \/ SendReminder(q) \/ Reject(q)
    \/ \E b \in Bookings :
          \/ \E q \in Quotes, i, s \in Spaces : ShowPrice(b, q, i, s)
          \/ Reserve(b) \/ Pay(b)
    \/ \E j \in Jobs : StartJob(j)
    \/ Tick

Spec == Init /\ [][Next]_quoteVars

-----------------------------------------------------------------------------
(* A quotation's price is for one booking, unless two were reserved before *)
(* either was paid (booking.service.ts 896-914, 1296-1317), and what a     *)
(* customer was shown is what the booking costs, unless a price or the     *)
(* quotation changed in between (246-263).                                 *)
PriceIsKept ==
    /\ \A b, c \in Bookings :
          /\ b # c /\ stay[b].of = stay[c].of
          /\ stay[b].pc = "paid" /\ stay[b].quoted /\ stay[c].pc = "paid" /\ stay[c].quoted
          => <<b, c>> \in met
    /\ \A b \in Bookings :
          stay[b].pc \in {"reserved", "paid"} /\ b \notin stirred =>
              stay[b].price = stay[b].shown

(* No quotation is rejected before its customer was reminded of it, the    *)
(* day before at the latest, unless the mail failed or the job came to no  *)
(* end on the one day on which it lists it (quotation.service.ts 436-453,  *)
(* cron-job/quotations).                                                   *)
RejectedWasReminded ==
    \A q \in Quotes : quote[q].status = "REJECTED" => q \in reminded \cup overlooked

(* Who is told of a rejection is told once, and can no longer use the      *)
(* quotation, unless the update failed of which he is told, or a booking   *)
(* made with it before is paid and accepts it after all                    *)
(* (cron-job/quotations/quotation-reject.cron.ts 35-96,                    *)
(* quotation.service.ts 497-513, booking.service.ts 1296-1317).            *)
DeclinedIsRejected ==
    \A q \in Quotes \ clung :
        /\ declined[q] <= 1
        /\ declined[q] = 1 =>
              \/ quote[q].status = "REJECTED"
              \/ \E b \in Bookings : stay[b].of = q /\ stay[b].pc = "paid"
=============================================================================
