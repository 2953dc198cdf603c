------------------------------ MODULE MCServices ------------------------------
(***************************************************************************)
(* The components that share no state of their models, side by side, for   *)
(* TLC: a behaviour explores one of them, the others keep their first      *)
(* state.  One run looks at all (MCServices.cfg), one at the change of a   *)
(* unit alone (MCUnitChange.cfg).                                          *)
(*                                                                         *)
(* Variables and constants of one name in two modules get names of their   *)
(* own here; the short ids are this module's own.                          *)
(***************************************************************************)
EXTENDS IdsCounter, FiniteSets, Sequences

CONSTANTS
    Parts,          \* the components explored
    (* of Terminations *)
    EndBookings, EndCustomers, EndJobs, EndPays, EndBookingOf, EndMovesOut,
    EndNotice, EndMonth, EndLastDay, NoDues,
    (* of DepositRefunds *)
    DueBookings, WithUnused, DepositFaults,
    (* of Payouts *)
    HostRenewals, HostPeriod, HostJitter, HostLastTick,
    (* of Orders *)
    PickOrders, PickOrderPays, PickBookingPays, PickCancels, NoOrder,
    (* of UnitChange *)
    MoveRequests, MoveSpaces, MoveFrom, MovePrice(_), MoveTarget(_), MoveNow, MoveMishaps,
    (* of Pricing *)
    PriceChoices, PriceInsurances, PriceMonths, PriceLead, PriceSiteTax, PriceInsuranceTax,
    PriceServiceTax, PriceBases,
    (* of Promotions *)
    CouponVouchers, CouponCodes, CouponLimit, CouponAlone, CouponEdits, CouponBookers,
    CouponAdds, CouponBookingOf,
    (* of Sessions *)
    SignSends, SignRequests, SignPlatform,
    (* of Sites *)
    SiteUpdates, SiteAsked,
    (* of Cards *)
    CardProfiles, CardPays, CardBringing,
    (* of Doors *)
    DoorBookings, DoorOpenings, DoorOpens, NoBooking, EntranceDoors, DoorSite, DoorAsks,
    (* of Courier *)
    DriveTypes, DrivePrices, DriveMover, DriveMovers, DrivePercent, DriveTax, DriveLastDay,
    (* of Accounts *)
    LoginAddresses, LoginPhones, LoginProfiles, LoginAccounts,
    (* of Quotations: a booking of one, and the reminder of one *)
    QuoteIds, QuoteSpaces, QuotePrices, QuoteItems, QuoteRemind, QuoteRuns,
    QuoteBookings, QuoteKeep, QuoteLast,
    (* of BookingJobs: the jobs, and the reviews of one booking *)
    QuarterBookings, QuarterPosts, QuarterSet, QuarterRuns, QuarterOverlaps, OpinionOf,
    (* of StockSync *)
    StockUnits, StockTypeOf, StockInexact, StockOffers, StockFirst, StockMaxRows, StockRuns,
    StockChanges,
    (* of SpaceTypes and SiteSync *)
    SizeSides, SizeAreas, SizeCountries, SizeStore, SizeTables,
    VisitStores, VisitSites, VisitStoreOf, VisitRuns,
    (* of Notices *)
    NoticeRequests, NoticeCustomers,
    (* of Availability *)
    StayCustomers, StayUnits, StayLastDay, StayFakeEnd,
    (* of Features *)
    ListRequests, ListFirst, ListRules, ListPolicies, ListFeatures, ListUnknown,
    (* of Media *)
    ImageUploads, ImageFiles, ImageKind(_, _), ImageResizes, ImageSource(_), ImagePieces,
    ImageFaults,
    (* of Paging *)
    WalkRows, WalkTied, WalkLimits, WalkUnits, WalkChanges

VARIABLES
    part,           \* the component of this behaviour
    status, moveOut, requested, termination, tBooked, tKept, tPc, plan, paying, differs,
    queue, today,
    due, marked, dRows, back, dStage, marking, hasty, dTodo, at, task, faults, astray,
    dFailed, remarked,
    now, paidAt, payouts, settled, pStage, pTodo, again, repeated, pFailed,
    booking, order, courier, oBooked, oKept, returned, oPc, of,
    unit, deposit, step, seen, held, charged, entered, gaveBack, open, saver, mishaps, lost,
    unsure, stale,
    choice, phase, payable, copied, bill, taxes, misplaced, renewal, foretold, cOrder, amount,
    repriced,
    promo, vEdit, booker, uses, copies, redeemed, adding, loose, wrote, vMet, peak,
    sending, otps, expired, users, tokens, req, sMet,
    site, update, approved, rested, listed, uMet,
    ask, stay, openly, fMet,
    offered, kRows, run, flawed, missed, kEdit, reshaped, touched, queued, fresh, early, untold,
    runs, changes,
    qNow, price, quote, qStay, qJob, qRuns, reminded, overlooked, declined, clung, stirred, qMet,
    default, user, shown, holder, cReq, charge, named, crossed, doubtful,
    jStatus, elapsed, calls, undone, forced, job, jobRuns, told, unheard, review, asked, post,
    published, excused,
    hStatus, opening, turned, history,
    kind, lists, wanted, fRows, fSeen, put, gone, aborted, fPc, applied, late, last, overlapped,
    table, country, space, writer, looked, readdressed, halved,
    thirds, theirs, sPc, store, sSeen, sTodo, all, visited, sFlawed, sRuns,
    accounts, found, renamed, social,
    pList, pRows, joined, page, total, edges, pShown, ended, moved,
    cNow, type, cPrice, cQuote, request, cRow, dearer, retyped, refused,
    file, bucket, upload, resize, read, scaled, resized, mFaults, mUnheard, crashed,
    nKind, answer, messages, delivered

endingVars == <<status, moveOut, requested, termination, tBooked, tKept, tPc, plan, paying,
                differs, queue, today>>
depositVars == <<due, marked, dRows, back, dStage, marking, hasty, dTodo, at, task, faults,
                 astray, dFailed, remarked>>
hostVars == <<now, paidAt, payouts, settled, pStage, pTodo, again, repeated, pFailed>>
pickUpVars == <<booking, order, courier, oBooked, oKept, returned, oPc, of>>
moveVars == <<unit, deposit, step, seen, held, charged, entered, gaveBack, open, saver,
              mishaps, lost, unsure, stale>>
priceVars == <<choice, phase, payable, copied, bill, taxes, misplaced, renewal, foretold, cOrder,
               amount, repriced>>
couponVars == <<promo, vEdit, booker, uses, copies, redeemed, adding, loose, wrote, vMet,
                peak>>
signInVars == <<sending, otps, expired, users, tokens, req, sMet>>
reviewVars == <<site, update, approved, rested, listed, uMet>>
stayVars == <<ask, stay, openly, fMet>>
stockVars == <<offered, kRows, run, flawed, missed, kEdit, reshaped, touched, queued, fresh,
               early, untold, runs, changes>>
quoteVars == <<qNow, price, quote, qStay, qJob, qRuns, reminded, overlooked, declined, clung,
               stirred, qMet>>
cardVars == <<default, user, shown, holder, cReq, charge, named, crossed, doubtful>>
quarterVars == <<jStatus, elapsed, calls, undone, forced, job, jobRuns, told, unheard, review,
                 asked, post, published, excused>>
doorVars == <<hStatus, opening, turned, history>>
listVars == <<kind, lists, wanted, fRows, fSeen, put, gone, aborted, fPc, applied, late, last,
              overlapped>>
typeVars == <<table, country, space, writer, looked, readdressed, halved>>
syncVars == <<thirds, theirs, sPc, store, sSeen, sTodo, all, visited, sFlawed, sRuns>>
accountVars == <<accounts, found, renamed, social>>
pageVars == <<pList, pRows, joined, page, total, edges, pShown, ended, moved>>
courierVars == <<cNow, type, cPrice, cQuote, request, cRow, dearer, retyped, refused>>
mediaVars == <<file, bucket, upload, resize, read, scaled, resized, mFaults, mUnheard, crashed>>
noticeVars == <<nKind, answer, messages, delivered>>

-----------------------------------------------------------------------------
(* The instances                                                           *)

(* Five calls: three for the same counter (a first-row race of three), one *)
(* for another, one for a third.                                           *)
MCCallType ==
    [c \in Callers |->
        CASE c = "c4" -> "INVOICE"
          [] c = "c5" -> "BOOKING"
          [] OTHER    -> "TRANSACTION"]

(* A customer's request and payment, and the job, for one booking that     *)
(* ends on day 2 of 2.                                                     *)
MCEndBookingOf == [r \in {"r1", "j1"} |-> "b1"]
MCEndMovesOut == [b \in {"b1"} |-> 2]
Ending == INSTANCE Terminations WITH
    Bookings <- EndBookings, CustomerReqs <- EndCustomers, JobReqs <- EndJobs,
    PayReqs <- EndPays, BookingOf <- EndBookingOf, MovesOutOn <- EndMovesOut,
    Notice <- EndNotice, Month <- EndMonth, LastDay <- EndLastDay, NoReq <- NoDues,
    booked <- tBooked, kept <- tKept, pc <- tPc

Deposits == INSTANCE DepositRefunds WITH
    Bookings <- DueBookings, Unused <- WithUnused, MaxFaults <- DepositFaults,
    rows <- dRows, stage <- dStage, todo <- dTodo, failed <- dFailed

(* Two months of three ticks, and the run after them.                      *)
Hosts == INSTANCE Payouts WITH
    Renewals <- HostRenewals, Period <- HostPeriod, Jitter <- HostJitter,
    LastTick <- HostLastTick,
    stage <- pStage, todo <- pTodo, failed <- pFailed

PickUps == INSTANCE Orders WITH
    Orders <- PickOrders, OrderPays <- PickOrderPays, BookingPays <- PickBookingPays,
    Cancels <- PickCancels, NoOrder <- NoOrder,
    booked <- oBooked, kept <- oKept, pc <- oPc

(* Two changes that may overlap and one that asks for the rest of the      *)
(* month; the middle unit is the dear one.                                 *)
MCMovePrice(s) == IF s = "s2" THEN 2 ELSE 1
MCMoveTarget(c) == CASE c = "c1" -> "s2" [] c = "c2" -> "s3" [] c = "c3" -> "s1"
Moves == INSTANCE UnitChange WITH
    Changes <- MoveRequests, Spaces <- MoveSpaces, FirstSpace <- MoveFrom,
    Price <- MovePrice, Target <- MoveTarget, Immediate <- MoveNow, MaxMishaps <- MoveMishaps

(* Stays on both sides of every limit of the code, two prices that do not  *)
(* divide by 30, and a promotion of each kind: some end the day before a   *)
(* month is made, on that day, or between two.                             *)
Promo(how, value, cap, months, minDays, until) ==
    [kind |-> how, value |-> value, cap |-> cap, indexed |-> FALSE, months |-> months,
     minDays |-> minDays, minPrice |-> 0 - 1, until |-> until]
MCPromos ==
    {Promo("FIXED", 0, 0, 0, 0, 0 - 1), Promo("PERCENTAGE", 50, 0, 1, 7, 400),
     Promo("PERCENTAGE", 100, 0, 2, 30, 40), Promo("PERCENTAGE", 33, 900, 3, 60, 400),
     Promo("PERCENTAGE", 20, 0, 3, 90, 57), Promo("FIXED", 2500, 0, 2, 1, 28),
     [Promo("PERCENTAGE", 40, 0, 2, 1, 400) EXCEPT !.indexed = TRUE],
     [Promo("TOTAL", 2000, 0, 3, 0, 400) EXCEPT !.minPrice = 3000]}
MCBookables ==
    [stay: {0, 1, 14, 30, 31, 32, 45, 58, 59, 60, 61, 75, 92}, price: {9999},
     promo: MCPromos, insurance: {0, 7}, pickup: {555}]
    \cup [stay: {0, 14, 31, 45, 61, 75, 92}, price: {3100},
          promo: MCPromos, insurance: {0, 7}, pickup: {0}]
MCPriceMonths == <<31, 28, 31, 30, 31>>
Charges == INSTANCE Pricing WITH
    Bookables <- PriceChoices, Insurances <- PriceInsurances, MonthLength <- PriceMonths,
    Lead <- PriceLead, SiteTax <- PriceSiteTax, InsuranceTax <- PriceInsuranceTax,
    ServiceTax <- PriceServiceTax, BaseAmounts <- PriceBases,
    order <- cOrder

(* Two vouchers with one code between them, good for one booking each.     *)
MCCouponBookingOf == [a \in CouponAdds |-> "b1"]
Coupons == INSTANCE Promotions WITH
    Vouchers <- CouponVouchers, Codes <- CouponCodes, Limit <- CouponLimit, Alone <- CouponAlone,
    Edits <- CouponEdits, Bookers <- CouponBookers, Adds <- CouponAdds,
    BookingOf <- CouponBookingOf,
    edit <- vEdit, met <- vMet

(* Three requests, the second from another platform.                       *)
MCSignPlatform == [r \in SignRequests |-> IF r = 2 THEN "ios" ELSE "web"]
SignIns == INSTANCE Sessions WITH
    Sends <- SignSends, Requests <- SignRequests, PlatformOf <- SignPlatform,
    met <- sMet

Review == INSTANCE Sites WITH
    Updates <- SiteUpdates, Asked <- SiteAsked, met <- uMet

(* One unit, and stays long enough for another to lie inside.              *)
Space == INSTANCE Availability WITH
    Customers <- StayCustomers, Total <- StayUnits, LastDay <- StayLastDay,
    FakeEnd <- StayFakeEnd, met <- fMet

(* One type with two units, one of an area that is rounded.                *)
MCStockTypeOf == [u \in StockUnits |-> "t1"]
MCStockFirst == <<"u1", "u2", "nothing", "nothing">>
Stock == INSTANCE StockSync WITH
    Units <- StockUnits, TypeOf <- StockTypeOf, Inexact <- StockInexact, Offers <- StockOffers,
    First <- StockFirst, MaxRows <- StockMaxRows, MaxRuns <- StockRuns,
    MaxChanges <- StockChanges,
    rows <- kRows, edit <- kEdit

(* Two bookings from one quotation, which may be rejected a day later; and *)
(* a reminder on the day after with a rejection two days after, where five *)
(* half days see both, with every way to miss them.                        *)
MCQuoteBookings == [quotations |-> {1, 2}, reminders |-> {1}]
MCQuoteKeep == [quotations |-> 1, reminders |-> 2]
MCQuoteLast == [quotations |-> 3, reminders |-> 5]
Quoting(which) == INSTANCE Quotations WITH
    Quotes <- QuoteIds, Bookings <- QuoteBookings[which], Spaces <- QuoteSpaces,
    Prices <- QuotePrices, MaxItems <- QuoteItems, Remind <- QuoteRemind,
    Keep <- QuoteKeep[which], LastTime <- QuoteLast[which], MaxRuns <- QuoteRuns,
    now <- qNow, stay <- qStay, job <- qJob, runs <- qRuns, met <- qMet

(* A payment with the card Stripe has, and two requests with a new one, of *)
(* a customer without a card or with one.                                  *)
Wallet == INSTANCE Cards WITH
    Profiles <- CardProfiles, Pays <- CardPays, Bringing <- CardBringing,
    req <- cReq

(* Two bookings and the jobs; one booking that an administrator changes    *)
(* too; and one booking, the active job and its reviews.                   *)
MCQuarterBookings == [jobs |-> {"b1", "b2"}, set |-> {"b1"}, reviews |-> {"b1"}]
MCQuarterPosts == [jobs |-> {}, set |-> {}, reviews |-> {"p1", "p2"}]
MCQuarterSet == [jobs |-> {}, set |-> {"b1"}, reviews |-> {}]
MCQuarterRuns ==
    [jobs |-> [cancel |-> 1, active |-> 1], set |-> [cancel |-> 2, active |-> 1],
     reviews |-> [cancel |-> 0, active |-> 2]]
Overlap(pay, cancel) == [pay |-> pay, cancel |-> cancel]
MCQuarterOverlaps ==
    [jobs |-> [b1 |-> Overlap(1, 1), b2 |-> Overlap(1, 0)],
     set |-> [b1 |-> Overlap(1, 1)], reviews |-> [b1 |-> Overlap(2, 0)]]
Quarters(which) == INSTANCE BookingJobs WITH
    Bookings <- QuarterBookings[which], Posts <- QuarterPosts[which], Reviewed <- OpinionOf,
    Administered <- QuarterSet[which], MaxRuns <- QuarterRuns[which],
    Overlaps <- QuarterOverlaps[which],
    status <- jStatus

(* Two requests for one booking, one at another's site, an administrator's.*)
MCDoorOpens == [o \in DoorOpenings |-> IF o = "d4" THEN NoBooking ELSE "b1"]
MCDoorSite == [d \in EntranceDoors |-> IF d = "e1" THEN "b1" ELSE "b2"]
MCDoorAsks == [o \in DoorOpenings |-> IF o = "d3" THEN "e2" ELSE "e1"]
Entrances == INSTANCE Doors WITH
    Bookings <- DoorBookings, Openings <- DoorOpenings, Opens <- DoorOpens,
    NoBooking <- NoBooking, Doors <- EntranceDoors, DoorAt <- DoorSite, Asks <- DoorAsks,
    status <- hStatus

(* Two requests of a kind, one id the platform does not have.              *)
Listing == INSTANCE Features WITH
    Requests <- ListRequests, Rules <- ListRules, Policies <- ListPolicies,
    Features <- ListFeatures, Unknown <- ListUnknown,
    rows <- fRows, seen <- fSeen, pc <- fPc

(* Types of the one country that touch, that leave a gap, and one alone;   *)
(* those of the other share their sizes, lie across them and around them;  *)
(* areas on and between all their bounds.                                  *)
Between(c, from, to) == [country |-> c, from |-> 4 * from, to |-> 4 * to]
MCSizeTables ==
    {{Between("sg", 1, 2), Between("sg", 3, 4), Between("th", 1, 2), Between("th", 3, 4)},
     {Between("sg", 1, 2), Between("sg", 3, 3), Between("sg", 6, 8), Between("th", 2, 4)},
     {Between("sg", 2, 3), Between("th", 1, 1), Between("th", 4, 5)}}
Sizing == INSTANCE SpaceTypes WITH
    Sides <- SizeSides, Areas <- SizeAreas, Countries <- SizeCountries,
    StoreCountry <- SizeStore, Tables <- SizeTables

(* Two sites of one store and one of the next.                             *)
MCVisitStores == <<"storehub", "jwd">>
MCVisitStoreOf == [s \in VisitSites |-> IF s = "s3" THEN "jwd" ELSE "storehub"]
Visits == INSTANCE SiteSync WITH
    Stores <- VisitStores, Sites <- VisitSites, StoreOf <- VisitStoreOf, MaxRuns <- VisitRuns,
    listed <- thirds, rows <- theirs, pc <- sPc, seen <- sSeen, todo <- sTodo,
    flawed <- sFlawed, runs <- sRuns

(* The job's account and two more.                                         *)
People == INSTANCE Accounts WITH
    Addresses <- LoginAddresses, Phones <- LoginPhones, Profiles <- LoginProfiles,
    MaxAccounts <- LoginAccounts

(* A client who walks through a list while rows come and go; he asks for   *)
(* nothing, for no rows or for two at a time.                              *)
MCLimits == {0 - 1, 0, 2}
Walk == INSTANCE Paging WITH
    Rows <- WalkRows, Tied <- WalkTied, Limits <- WalkLimits, Units <- WalkUnits,
    MaxChanges <- WalkChanges,
    list <- pList, rows <- pRows, shown <- pShown

(* A small and a large unit, a price that is rounded and a dearer one.     *)
Drive == INSTANCE Courier WITH
    Types <- DriveTypes, Prices <- DrivePrices, MoverFee <- DriveMover,
    MaxMovers <- DriveMovers, Percent <- DrivePercent, ServiceTax <- DriveTax,
    LastDay <- DriveLastDay,
    now <- cNow, price <- cPrice, quote <- cQuote, order <- cRow, resized <- retyped

(* A file of each kind; one resize of an image, one of something else.     *)
MCKind(u, f) ==
    CASE f = "f1" -> "image" [] f = "f2" -> "broken" [] f = "f3" -> "other"
      [] OTHER -> "unsupported"
MCSource(r) == <<"u1", IF r = "r1" THEN "f1" ELSE "f3">>
Images == INSTANCE Media WITH
    Uploads <- ImageUploads, Files <- ImageFiles, KindOf <- ImageKind,
    Resizes <- ImageResizes, SourceOf <- ImageSource, Pieces <- ImagePieces,
    MaxFaults <- ImageFaults,
    faults <- mFaults, unheard <- mUnheard

Mailings == INSTANCE Notices WITH
    Requests <- NoticeRequests, Customers <- NoticeCustomers, kind <- nKind, sending <- messages

-----------------------------------------------------------------------------
(* What the constants have to be                                           *)

(* A call is of one kind, and ends or pays for one booking on a day of the *)
(* calendar (terminations/termination.service.ts).                         *)
ASSUME EndingAssumption ==
    /\ EndCustomers \cap EndJobs = {} /\ EndPays \cap (EndCustomers \cup EndJobs) = {}
    /\ EndBookingOf \in [EndCustomers \cup EndJobs -> EndBookings]
    /\ EndNotice \in Nat /\ EndMonth \in Nat /\ EndLastDay \in Nat
    /\ EndMovesOut \in [EndBookings -> 1..Ending!Never]
    /\ NoDues \notin EndCustomers \cup EndJobs

(* The failures of a behaviour are counted (cron-job/refund-deposit).      *)
ASSUME DepositsAssumption == DepositFaults \in Nat

(* A run starts in the month of its hour (cron-job/create-payouts).        *)
ASSUME HostsAssumption ==
    /\ HostPeriod \in Nat \ {0} /\ HostJitter \in 0..(HostPeriod - 1)
    /\ HostLastTick \in Nat

(* A request is of one kind (orders/order.service.ts).                     *)
ASSUME OrdersAssumption ==
    /\ PickOrderPays \cap PickBookingPays = {} /\ NoOrder \notin PickOrders
    /\ PickOrders \cap (PickOrderPays \cup PickBookingPays) = {}
    /\ PickCancels \cap (PickOrders \cup PickOrderPays \cup PickBookingPays) = {}
    /\ IsFiniteSet(PickCancels)

(* A stay is open (0) or of some days, a promotion takes off a percentage  *)
(* or an amount, insurances cost something, months are those of the        *)
(* calendar, and a renewal is made two days early (config/app.config.ts    *)
(* 102).                                                                   *)
ASSUME PricingAssumption ==
    /\ PriceChoices \subseteq
          [stay : Nat, price : Nat, insurance : {0} \cup PriceInsurances, pickup : Nat,
           promo : [kind : {"FIXED", "PERCENTAGE", "TOTAL"}, value : Nat, cap : Nat,
                    indexed : BOOLEAN, months : Nat, minDays : Nat,
                    minPrice : {0 - 1} \cup Nat, until : {0 - 1} \cup Nat]]
    /\ PriceInsurances \subseteq Nat \ {0} /\ PriceBases \subseteq Nat
    /\ PriceMonths \in Seq(28..31) /\ Len(PriceMonths) > 1
    /\ PriceLead = 2
    /\ PriceSiteTax \in Nat /\ PriceInsuranceTax \in Nat /\ PriceServiceTax \in Nat

(* A voucher is added to a booking there is, and bookings are made one by  *)
(* one (bookings/booking.service.ts).                                      *)
ASSUME CouponsAssumption ==
    /\ CouponLimit \in Nat /\ IsFiniteSet(CouponBookers)
    /\ CouponBookingOf \in [CouponAdds -> CouponBookers]

(* A run leaves one space for a unit (cron-job/sitelink-stock-sync).        *)
ASSUME StockAssumption ==
    /\ StockMaxRows \in Nat /\ StockRuns \in Nat /\ StockChanges \in Nat
    /\ StockOffers # {} /\ Stock!Nothing \notin StockUnits \cup StockOffers
    /\ StockFirst \in [1..StockMaxRows -> StockUnits \cup {Stock!Nothing}]
    /\ \A i, j \in 1..StockMaxRows :
          i # j /\ StockFirst[i] = StockFirst[j] => StockFirst[i] = Stock!Nothing

(* A country has types, of which one is the largest, and their bounds are  *)
(* a whole unit apart; those of two countries may share sizes              *)
(* (platform/space-types, cron-job/sitelink-stock-sync 127-129).           *)
ASSUME SizesAssumption ==
    /\ SizeTables # {} /\ SizeSides \cup SizeAreas \subseteq Nat
    /\ SizeStore \in SizeCountries /\ Sizing!Nowhere \notin SizeCountries
    /\ \A T \in SizeTables :
          /\ \A t \in T :
                t.country \in SizeCountries /\ t.from \in Nat /\ t.to \in Nat /\ t.from <= t.to
          /\ \A c \in SizeCountries \cup {Sizing!Nowhere} :
                LET types == {t \in T : c \in {Sizing!Nowhere, t.country}} IN
                \E t \in types : \A s \in types : s.to <= t.to
          /\ \A s, t \in T :
                \/ s.country # t.country \/ s = t
                \/ s.to + Sizing!Unit <= t.from \/ t.to + Sizing!Unit <= s.from

(* There is a store (cron-job/sitelink-stock-sync).                        *)
ASSUME VisitsAssumption ==
    VisitStores \in Seq(STRING) \ {<<>>} /\ VisitRuns \in Nat

(* A change asks for one of the units (bookings/booking.service.ts).       *)
ASSUME MovesAssumption ==
    /\ MoveFrom \in MoveSpaces /\ \A c \in MoveRequests : MoveTarget(c) \in MoveSpaces
    /\ MoveMishaps \in Nat

(* Updates are numbered, and ask for one of the statuses or for none       *)
(* (sites/sites/site.service.ts).                                          *)
ASSUME SitesAssumption ==
    SiteUpdates \subseteq Nat \ {0} /\ SiteAsked \subseteq Review!SiteStatus

(* A request is of one kind, and may bring a card                          *)
(* (auth/users/user.service.ts, bookings/booking.service.ts).              *)
ASSUME CardsAssumption ==
    /\ CardBringing \subseteq CardProfiles \cup CardPays /\ CardProfiles \cap CardPays = {}
    /\ {"none", "first", "nobody"} \cap (CardProfiles \cup CardPays) = {}

(* There is an account to begin with, and an address or a number is not    *)
(* null (auth/users/user.model.ts).                                        *)
ASSUME AccountsAssumption ==
    "null" \notin LoginAddresses \cup LoginPhones /\ LoginAccounts \in Nat \ {0}

(* A reminder is due on a later day than the quotation, and a rejection    *)
(* after it (cron-job/quotations, quotations/quotation.service.ts).        *)
ASSUME QuotesAssumption ==
    /\ QuoteSpaces # {} /\ QuoteRuns \in Nat /\ QuoteRemind \in Nat \ {0}
    /\ \A which \in {"quotations", "reminders"} :
        QuoteKeep[which] \in Nat /\ QuoteLast[which] \in Nat
    /\ QuoteRemind < QuoteKeep["reminders"]

(* The reviews are of a booking of those there are; jobs run so often      *)
(* (reviews/review.service.ts, cron-job/cancel-bookings, active-bookings). *)
ASSUME OpinionsAssumption ==
    \A which \in {"jobs", "set", "reviews"} :
        /\ OpinionOf \in QuarterBookings[which] /\ IsFiniteSet(QuarterPosts[which])
        /\ QuarterSet[which] \subseteq QuarterBookings[which]
        /\ \A b \in QuarterBookings[which], c \in {"pay", "cancel"} :
              QuarterOverlaps[which][b][c] \in Nat
        /\ \A j \in {"cancel", "active"} : QuarterRuns[which][j] \in Nat

(* An administrator's requests are made one after the other                *)
(* (notifications/notifications.service.ts).                               *)
ASSUME NoticesAssumption ==
    NoticeRequests \subseteq Nat /\ IsFiniteSet(NoticeRequests) /\ IsFiniteSet(NoticeCustomers)

(* Customers are numbered as they arrive; a space has so many units        *)
(* (spaces/spaces/space.service.ts).                                       *)
ASSUME StaysAssumption ==
    /\ StayCustomers \subseteq Nat /\ IsFiniteSet(StayCustomers)
    /\ StayUnits \in Nat /\ StayLastDay \in Nat

(* The platform has finitely many features, rules and policies             *)
(* (platform/features, sites/site-rules, sites/site-policies).             *)
ASSUME ListingAssumption == IsFiniteSet(Listing!Ids)

(* The rows of a list are numbered in its order, so those of one key       *)
(* follow each other (shared/utils/index.ts 8-36).                         *)
ASSUME WalkAssumption ==
    /\ WalkRows \subseteq Nat /\ IsFiniteSet(WalkRows)
    /\ WalkTied \subseteq WalkRows
    /\ \A r \in WalkRows : (\E s, t \in WalkTied : s < r /\ r < t) => r \in WalkTied
    /\ WalkLimits \subseteq Int /\ WalkUnits \in Nat \ {0} /\ WalkChanges \in Nat

(* An image is read in pieces, of a file of an upload                      *)
(* (media/media.service.ts).                                               *)
ASSUME ImagesAssumption ==
    /\ ImagePieces \in Nat \ {0} /\ ImageFaults \in Nat
    /\ \A r \in ImageResizes : ImageSource(r) \in ImageUploads \X ImageFiles

(* What the courier asks, the commission and the tax                       *)
(* (logistics/logistics.service.ts).                                       *)
ASSUME DriveAssumption ==
    /\ DrivePrices \subseteq Nat /\ DriveMover \in Nat /\ DriveMovers \in Nat
    /\ DrivePercent \in Nat /\ DriveTax \in Nat /\ DriveLastDay \in Nat

-----------------------------------------------------------------------------
(* Initial states that differ only in a part that does not move are one,   *)
(* and so are those that differ in the name of a request: ListFirst is the *)
(* one that asks for most.                                                 *)
ServicesInit ==
    /\ part \in Parts
    /\ Init
    /\ Ending!Init
    /\ part # "terminations" => status = [b \in EndBookings |-> "ACTIVE"]
    /\ Deposits!Init
    /\ Hosts!Init
    /\ PickUps!Init
    /\ Moves!Init
    /\ Charges!Init
    /\ part # "pricing" => choice = CHOOSE c \in PriceChoices : TRUE
    /\ Coupons!Init
    /\ SignIns!Init
    /\ Review!Init
    /\ part # "sites" => site.status = "DRAFT"
    /\ Space!Init
    /\ Stock!Init
    /\ IF part = "reminders" THEN Quoting("reminders")!Init ELSE Quoting("quotations")!Init
    /\ part \notin {"quotations", "reminders"} =>
          price = [s \in QuoteSpaces |-> CHOOSE p \in QuotePrices : TRUE]
    /\ Wallet!Init
    /\ part # "cards" => user = "none"
    /\ CASE part = "reviews" -> Quarters("reviews")!Init
         [] part = "set"     -> Quarters("set")!Init
         [] OTHER            -> Quarters("jobs")!Init
    /\ Entrances!Init
    /\ IF part = "features"
       THEN \E k \in Listing!Kinds : kind = [r \in ListRequests |-> k]
       ELSE kind = [r \in ListRequests |-> "space"] /\ wanted = [r \in ListRequests |-> {}]
    /\ Listing!Init
    /\ \A r \in ListRequests : Cardinality(wanted[ListFirst]) >= Cardinality(wanted[r])
    /\ Sizing!Init
    /\ part # "types" => table = (CHOOSE T \in SizeTables : TRUE) /\ country = Sizing!Nowhere
    /\ Visits!Init
    /\ part # "sync" => thirds = {}
    /\ People!Init
    /\ Walk!Init
    /\ IF part = "paging" THEN Cardinality(pRows) >= 3
       ELSE pList = Walk!Spaces /\ pRows = {} /\ joined = [r \in WalkRows |-> 1] /\ page.limit = 0
    /\ Drive!Init
    /\ part # "courier" => type = (CHOOSE t \in DriveTypes : TRUE)
                             /\ cPrice = (CHOOSE p \in DrivePrices : TRUE)
    /\ Images!Init
    /\ Mailings!Init
    /\ part # "notices" => nKind = [r \in NoticeRequests |-> "SMS"]

ServicesNext ==
    /\ part' = part
    /\ IF part = "ids" THEN Next ELSE UNCHANGED vars
    /\ IF part = "terminations" THEN Ending!Next ELSE UNCHANGED endingVars
    /\ IF part = "deposits" THEN Deposits!Next ELSE UNCHANGED depositVars
    /\ IF part = "payouts" THEN Hosts!Next ELSE UNCHANGED hostVars
    /\ IF part = "orders" THEN PickUps!Next ELSE UNCHANGED pickUpVars
    /\ IF part = "unit" THEN Moves!Next ELSE UNCHANGED moveVars
    /\ IF part = "pricing" THEN Charges!Next ELSE UNCHANGED priceVars
    /\ IF part = "promotions" THEN Coupons!Next ELSE UNCHANGED couponVars
    /\ IF part = "sessions" THEN SignIns!Next ELSE UNCHANGED signInVars
    /\ IF part = "sites" THEN Review!Next ELSE UNCHANGED reviewVars
    /\ IF part = "space" THEN Space!Next ELSE UNCHANGED stayVars
    /\ IF part = "stock" THEN Stock!Next ELSE UNCHANGED stockVars
    /\ CASE part = "quotations" -> Quoting("quotations")!Next
         [] part = "reminders"  -> Quoting("reminders")!Next
         [] OTHER               -> UNCHANGED quoteVars
    /\ IF part = "cards" THEN Wallet!Next ELSE UNCHANGED cardVars
    /\ CASE part = "jobs"    -> Quarters("jobs")!Next
         [] part = "set"     -> Quarters("set")!Next
         [] part = "reviews" -> Quarters("reviews")!Next
         [] OTHER            -> UNCHANGED quarterVars
    /\ IF part = "doors" THEN Entrances!Next ELSE UNCHANGED doorVars
    /\ IF part = "features" THEN Listing!Next ELSE UNCHANGED listVars
    /\ IF part = "types" THEN Sizing!Next ELSE UNCHANGED typeVars
    /\ IF part = "sync" THEN Visits!Next ELSE UNCHANGED syncVars
    /\ IF part = "accounts" THEN People!Next ELSE UNCHANGED accountVars
    /\ IF part = "paging" THEN Walk!Next ELSE UNCHANGED pageVars
    /\ IF part = "courier" THEN Drive!Next ELSE UNCHANGED courierVars
    /\ IF part = "media" THEN Images!Next ELSE UNCHANGED mediaVars
    /\ IF part = "notices" THEN Mailings!Next ELSE UNCHANGED noticeVars

servicesVars ==
    <<part, vars, endingVars, depositVars, hostVars, pickUpVars, moveVars, priceVars,
      couponVars, signInVars, reviewVars, stayVars, stockVars, quoteVars, cardVars, quarterVars,
      doorVars, listVars, typeVars, syncVars, accountVars, pageVars, courierVars, mediaVars,
      noticeVars>>

ServicesSpec == ServicesInit /\ [][ServicesNext]_servicesVars

-----------------------------------------------------------------------------
(* What is checked of each component is stated, with its reasons, in the   *)
(* component's own module.                                                 *)

(* The variables of every component have the values the code gives them.   *)
TypesOK ==
    /\ part \in Parts /\ TypeOK
    /\ part = "terminations" => Ending!TypeOK
    /\ part = "deposits" => Deposits!TypeOK
    /\ part = "payouts" => Hosts!TypeOK
    /\ part = "orders" => PickUps!TypeOK
    /\ part = "unit" => Moves!TypeOK
    /\ part = "pricing" => Charges!TypeOK
    /\ part = "promotions" => Coupons!TypeOK
    /\ part = "sessions" => SignIns!TypeOK
    /\ part = "sites" => Review!TypeOK
    /\ part = "space" => Space!TypeOK
    /\ part = "stock" => Stock!TypeOK
    /\ part = "quotations" => Quoting("quotations")!TypeOK
    /\ part = "reminders" => Quoting("reminders")!TypeOK
    /\ part = "cards" => Wallet!TypeOK
    /\ part = "jobs" => Quarters("jobs")!TypeOK
    /\ part = "set" => Quarters("set")!TypeOK
    /\ part = "reviews" => Quarters("reviews")!TypeOK
    /\ part = "doors" => Entrances!TypeOK
    /\ part = "features" => Listing!TypeOK
    /\ part = "types" => Sizing!TypeOK
    /\ part = "sync" => Visits!TypeOK
    /\ part = "accounts" => People!TypeOK
    /\ part = "paging" => Walk!TypeOK
    /\ part = "courier" => Drive!TypeOK
    /\ part = "media" => Images!TypeOK
    /\ part = "notices" => Mailings!TypeOK

(* A termination that is SCHEDULED or TERMINATED owes nothing or its dues  *)
(* are paid, and dues that are paid stay PAID, but for an overlapping      *)
(* payment that failed (terminations/termination.service.ts 220-223,       *)
(* 343-366).                                                               *)
DuesSettled ==
    part = "terminations" => Ending!SettledBeforeScheduled /\ Ending!PaidStaysPaid

(* A deposit has one refund row, however often runs are killed or          *)
(* repeated, and a booking that is not listed again has had its deposit    *)
(* back (cron-job/refund-deposit/refund-deposit.cron.ts 48-173).           *)
DepositSettledOnce ==
    part = "deposits" => Deposits!DepositBookedOnce /\ Deposits!MarkedIsSettled

(* A renewal is paid out once (cron-job/create-payouts).                   *)
PaidOutOnce == part = "payouts" => Hosts!PaidOutOnce

(* A CONFIRMED order has a payment, a PENDING one none, and cancelling     *)
(* gives a payment back at most once (orders/order.service.ts 308-487);    *)
(* and an order costs what was quoted (logistics/logistics.service.ts).    *)
OrdersPaidOnce ==
    /\ part = "orders" => PickUps!PaidIffConfirmed /\ PickUps!RefundedOnce
    /\ part = "courier" => Drive!QuoteIsHonoured

(* The deposit held is that of the unit, and was paid                      *)
(* (bookings/booking.service.ts 1985-2400).                                *)
UnitIsPaidFor == part = "unit" => Moves!UnitIsPaidFor

(* A change of unit gives the old deposit back, as the comment above it    *)
(* says (bookings/booking.service.ts 1971).                                *)
OldDepositGivenBack == part = "unit" => Moves!OldDepositGivenBack

(* What is quoted, projected or scheduled is what is charged               *)
(* (bookings/booking.service.ts 224-338, renewals/renewal.service.ts       *)
(* 127-250, 279-487), and a discount is not more than the rent, where the  *)
(* code keeps to that (both promotion services, 543 and 328).              *)
QuoteIsCharged ==
    part = "pricing" =>
        /\ Charges!QuoteIsCharged /\ Charges!ProjectionIsCharged
        /\ Charges!TaxRowsAddUp /\ Charges!ScheduleIsCharged
        /\ Charges!InvoiceAddsUp /\ Charges!DiscountWithinRent

(* One ACTIVE voucher to a code, one voucher to a booking, and a limit     *)
(* that is passed by no more than the bookings made at once                *)
(* (promotions/promotion/promotion.service.ts 402-409, 560-585).           *)
VouchersHold == part = "promotions" => Coupons!VouchersUnique /\ Coupons!LimitKept

(* One account, one session on a platform, one use of a password           *)
(* (auth/refresh_token/refresh-token.service.ts 96, auth.resolver.ts 139), *)
(* and whoever signs in gets an account of his (auth/users/user.service.ts *)
(* 64-330).                                                                *)
SignInsAreSingle ==
    /\ part = "sessions" => SignIns!SignInsAreSingle
    /\ part = "accounts" => People!AccountsHold

(* What customers see of a site was reviewed (sites/sites/site.service.ts  *)
(* 501-689).                                                               *)
ListedAsReviewed == part = "sites" => Review!ListedAsReviewed

(* A space has no more bookings in a night than units, whoever looked      *)
(* first (spaces/spaces/space.service.ts 524-586).                         *)
NotOverbooked == part = "space" => Space!NotOverbooked

(* Sites and spaces follow the provider's, and the index the spaces        *)
(* (cron-job/sitelink-stock-sync/sitelink-sync.cron.ts), and a space is of *)
(* the type of its size, whoever wrote it                                  *)
(* (platform/space-types/space-type.service.ts 109-150).                   *)
SpacesFollow ==
    /\ part = "stock" => Stock!SpacesFollow /\ Stock!IndexFollows
    /\ part = "sync" => Visits!SitesFollow
    /\ part = "types" => Sizing!TypeFitsSize

(* What is asked for and answered is what is there: the features, rules    *)
(* and policies of a site, a space or a booking (sites/site-features,      *)
(* sites/site-rules, sites/site-policies, spaces/space-features,           *)
(* bookings/booking-space-features, bookings/booking-site-features), the   *)
(* pages of a list (page_info of every findAll) and the images uploaded or *)
(* resized (media/media.service.ts).                                       *)
ListsAsAsked ==
    /\ part = "features" => Listing!AnsweredTruly /\ Listing!FeaturesAsAsked
    /\ part = "paging" => Walk!WalkIsWhole
    /\ part = "media" => Images!ImagesAreWhole

(* A quotation's price is for one booking, and it is not rejected before   *)
(* its customer was reminded, who is then told once                        *)
(* (quotations/quotation.service.ts 424-513, cron-job/quotations,          *)
(* bookings/booking.service.ts 896-914).                                   *)
QuotationsHold ==
    /\ part = "quotations" =>
          /\ Quoting("quotations")!PriceIsKept
          /\ Quoting("quotations")!DeclinedIsRejected
    /\ part = "reminders" =>
          /\ Quoting("reminders")!PriceIsKept
          /\ Quoting("reminders")!RejectedWasReminded
          /\ Quoting("reminders")!DeclinedIsRejected

(* The card shown is the one Stripe charges (auth/users/user.service.ts    *)
(* 258-366, stripe/stripe.service.ts 45-134).                              *)
ShownIsCharged == part = "cards" => Wallet!ShownIsCharged

(* A customer is told once, and the truth, of what the jobs do, unless a   *)
(* request wrote over it what it had decided from an earlier reading       *)
(* (cron-job/cancel-bookings, cron-job/active-bookings,                    *)
(* bookings/booking.service.ts 1148-1152 and 1289-1292); a booking is      *)
(* asked for its review once and has one (reviews/review.service.ts        *)
(* 56-178); and what an administrator is told was sent was                 *)
(* (notifications/notifications.service.ts 24-53).                         *)
ToldOnce ==
    /\ part = "jobs" => Quarters("jobs")!ToldOnce /\ Quarters("jobs")!ReviewedOnce
    /\ part = "set" => Quarters("set")!ToldOnce /\ Quarters("set")!ReviewedOnce
    /\ part = "reviews" => Quarters("reviews")!ToldOnce /\ Quarters("reviews")!ReviewedOnce
    /\ part = "notices" => Mailings!SentIsSent

(* Doors turn for ACTIVE bookings of their site, and the history knows     *)
(* (sites/site-doors/site-door.service.ts 108-201).                        *)
DoorsAreLogged == part = "doors" => Entrances!DoorsAreLogged
=============================================================================
