---------------------------- MODULE ServicesProofs ----------------------------
(***************************************************************************)
(* The types of all components of MCServices, from the invariants of each. *)
(***************************************************************************)
EXTENDS JobProofs, CustomerProofs, UnitProofs, PricingProofs

-----------------------------------------------------------------------------
(* The short ids                                                           *)

LEMMA IdsFollow == ServicesSpec => Spec
<1>1. ServicesInit => Init
  BY DEF ServicesInit
<1>2. [ServicesNext]_servicesVars => [Next]_vars
  BY DEF ServicesNext, servicesVars
<1> QED
  BY <1>1, <1>2, PTL DEF ServicesSpec, Spec

(* A behaviour is of one component.                                        *)
LEMMA PartStays == ServicesSpec => [](part \in Parts)
<1>1. ServicesInit => part \in Parts
  BY DEF ServicesInit
<1>2. part \in Parts /\ [ServicesNext]_servicesVars => (part \in Parts)'
  BY DEF ServicesNext, servicesVars
<1> QED
  BY <1>1, <1>2, PTL DEF ServicesSpec

-----------------------------------------------------------------------------
(* The types                                                               *)

LEMMA PricesTypeOK == ASSUME PricesInv PROVE Charges!TypeOK
<1>1. renewal.month \in Charges!Months \cup {0} /\ renewal.last \in BOOLEAN
  <2>1. renewal.month \in 1..(PriceEnd - 1) \cup {0}
    BY DEF PricesInv, PricesQuoted, Charges!NoRenewal
  <2>2. renewal.last \in BOOLEAN
    BY DEF PricesInv, PricesTyped, RenewalRows
  <2> QED
    BY <2>1, <2>2, MonthsAre DEF PriceEnd, Charges!Months
<1>2. /\ taxes.site \in Int /\ taxes.insurance \in Nat
      /\ foretold.rent \in Int /\ foretold.total \in Int
  BY DEF PricesInv, PricesTyped
<1> QED
  BY <1>1, <1>2 DEF PricesInv, PricesTyped, Charges!TypeOK

(* The jobs that move money, and those that write to customers.            *)
JobsTyped ==
    /\ Ending!TypeOK /\ Deposits!TypeOK /\ Hosts!TypeOK /\ Mailings!TypeOK
    /\ part = "jobs" => Quarters("jobs")!TypeOK
    /\ part = "set" => Quarters("set")!TypeOK
    /\ part = "reviews" => Quarters("reviews")!TypeOK
    /\ part = "quotations" => Quoting("quotations")!TypeOK
    /\ part = "reminders" => Quoting("reminders")!TypeOK

(* A customer's cards, accounts, orders and vouchers, and his stay.        *)
CustomersTyped ==
    /\ PickUps!TypeOK /\ Drive!TypeOK /\ Coupons!TypeOK /\ SignIns!TypeOK
    /\ Wallet!TypeOK /\ People!TypeOK /\ Charges!TypeOK

(* Sites, spaces and what is listed of them.                               *)
PlacesTyped ==
    /\ Moves!TypeOK /\ Entrances!TypeOK /\ Review!TypeOK /\ Stock!TypeOK
    /\ Visits!TypeOK /\ Sizing!TypeOK /\ Space!TypeOK /\ Listing!TypeOK
    /\ Walk!TypeOK /\ Images!TypeOK

LEMMA JobsAreTyped == ServicesSpec => []JobsTyped
<1>1. ServicesSpec => []EndInv
  BY EndFollows, EndInvariant, PTL
<1>2. ASSUME EndInv, DepositsInv, DepositsCounted, HostsInv, NoticesInv,
             \A w \in QuarterParts : part = w => QuartersInv(w),
             \A w \in QuarterParts : part = w => QuartersCounted(w),
             \A w \in QuoteParts : part = w => QuotesInv(w),
             \A w \in QuoteParts : part = w => QuotesCounted(w)
      PROVE  JobsTyped
  <2>1. Ending!TypeOK /\ Deposits!TypeOK /\ Hosts!TypeOK /\ Mailings!TypeOK
    BY <1>2, DepositsTypeOK, MailingsTypeOK DEF EndInv, HostsInv
  <2>2. \A w \in QuarterParts : part = w => Quarters(w)!TypeOK
    BY <1>2, QuartersTypeOK
  <2>3. \A w \in QuoteParts : part = w => Quoting(w)!TypeOK
    BY <1>2, QuotesTypeOK
  <2>4. /\ part = "jobs" => Quarters("jobs")!TypeOK
        /\ part = "set" => Quarters("set")!TypeOK
        /\ part = "reviews" => Quarters("reviews")!TypeOK
    BY <2>2 DEF QuarterParts
  <2>5. /\ part = "quotations" => Quoting("quotations")!TypeOK
        /\ part = "reminders" => Quoting("reminders")!TypeOK
    BY <2>3 DEF QuoteParts
  <2> QED
    BY <2>1, <2>4, <2>5 DEF JobsTyped
<1> QED
  BY <1>1, <1>2, DepositsInvariant, DepositsCountedInvariant, HostsInvariant, NoticesInvariant,
     QuartersInvariant, QuartersCountedInvariant, QuotesInvariant, QuotesCountedInvariant, PTL

LEMMA CustomersAreTyped == ServicesSpec => []CustomersTyped
<1>1. ServicesSpec => [](OrdersInv /\ OrdersKept) /\ [](DriveInv /\ DriveSettled)
  BY OrdersInvariant, OrdersKeep, DriveInvariant, DriveSettles, PTL
<1>2. ServicesSpec => []CouponsInv /\ []PricesInv
  BY CouponsFollow, CouponsInvariant, PriceFollows, PricesInvariant, PTL
<1>3. ServicesSpec => []SignInsInv /\ []CardsInv /\ []AccountsInv
  BY SignInsFollow, SignInsInvariant, CardsFollow, CardsInvariant, AccountsFollow,
     AccountsInvariant, PTL
<1>4. ASSUME OrdersInv, OrdersKept, DriveInv, DriveSettled, CouponsInv, PricesInv, SignInsInv,
             CardsInv, AccountsInv
      PROVE  CustomersTyped
  <2>1. PickUps!TypeOK /\ Drive!TypeOK /\ Charges!TypeOK
    BY <1>4, OrdersTypeOK, DriveTypeOK, PricesTypeOK
  <2>2. Coupons!TypeOK /\ SignIns!TypeOK /\ Wallet!TypeOK /\ People!TypeOK
    BY <1>4 DEF CouponsInv, SignInsInv, CardsInv, AccountsInv
  <2> QED
    BY <2>1, <2>2 DEF CustomersTyped
<1> QED
  BY <1>1, <1>2, <1>3, <1>4, PTL

LEMMA PlacesAreTyped == ServicesSpec => []PlacesTyped
<1>1. ServicesSpec => []MovesInv /\ []DoorsInv /\ []DoorsGo /\ []SitesInv
  BY MovesFollow, MovesInvariant, DoorsFollow, DoorsInvariant, DoorsGoOn, SitesFollow,
     SitesInvariant, PTL
<1>2. ServicesSpec => []StockInv /\ []ShopsInv /\ []SizesInv
  BY StockFollows, StockInvariant, ShopsFollow, ShopsInvariant, SizesFollow, SizesInvariant, PTL
<1>3. ServicesSpec => []StaysInv /\ []ListsInv /\ []WalkInv /\ []ImagesInv
  BY StaysFollow, StaysInvariant, ListsFollow, ListsInvariant, WalkFollows, WalkInvariant,
     ImagesFollow, ImagesInvariant, PTL
<1>4. ASSUME MovesInv, DoorsInv, DoorsGo, SitesInv, StockInv, ShopsInv, SizesInv, StaysInv,
             ListsInv, WalkInv, ImagesInv
      PROVE  PlacesTyped
  <2>1. Moves!TypeOK /\ Entrances!TypeOK /\ Review!TypeOK /\ Stock!TypeOK
    BY <1>4, DoorsTypeOK DEF MovesInv, SitesInv, StockInv
  <2>2. Visits!TypeOK /\ Sizing!TypeOK /\ Space!TypeOK
    BY <1>4 DEF ShopsInv, ShopsSafe, SizesInv, StaysInv
  <2>3. Listing!TypeOK /\ Walk!TypeOK /\ Images!TypeOK
    BY <1>4 DEF ListsInv, WalkInv, ImagesInv
  <2> QED
    BY <2>1, <2>2, <2>3 DEF PlacesTyped
<1> QED
  BY <1>1, <1>2, <1>3, <1>4, PTL

(* The variables of every component keep the values the code gives them:   *)
(* statuses are those of its enums, amounts and counters have their ranges *)
(* and every request, run and row is in one of the states of its handler   *)
(* (the models and services of every directory under src/src).             *)
THEOREM ServicesAreTyped == ServicesSpec => []TypesOK
<1>1. ServicesSpec => []TypeOK
  BY IdsFollow, CountersAreTyped, PTL
<1>2. part \in Parts /\ TypeOK /\ JobsTyped /\ CustomersTyped /\ PlacesTyped => TypesOK
  BY DEF JobsTyped, CustomersTyped, PlacesTyped, TypesOK
<1> QED
  BY <1>1, <1>2, PartStays, JobsAreTyped, CustomersAreTyped, PlacesAreTyped, PTL
=============================================================================
