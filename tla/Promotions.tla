------------------------------ MODULE Promotions ------------------------------
(***************************************************************************)
(* Voucher promotions: administrators create and edit them                 *)
(* (promotions/promotion/promotion.service.ts), bookings use them          *)
(* (bookings/booking.service.ts, bookings/promotions) and a redeem row is  *)
(* written when a booking is paid (promotions/redeem).                     *)
(*                                                                         *)
(* Every check reads committed rows and its write follows later: that a    *)
(* code is free, that the limit is not reached, that a booking carries no  *)
(* voucher yet.                                                            *)
(***************************************************************************)
EXTENDS Integers, FiniteSets

CONSTANTS
    Vouchers,       \* promotions of format VOUCHER
    Codes,
    Limit,          \* promotions.max, of each voucher
    Alone,          \* the vouchers with allow_double_discount = false
    Edits,          \* createPromotion and updatePromotion requests
    Bookers,        \* bookings, each made by one request
    Adds,           \* addPromotionsToBooking requests
    BookingOf       \* [Adds -> Bookers]

NoCode == "none"
Statuses == {"DRAFT", "ACTIVE", "IN_ACTIVE", "FINISH"}

VARIABLES
    promo,          \* [Vouchers -> [status, code]]: the rows; status "NONE": no row
    edit,           \* [Edits -> [pc, voucher, status, code]]
    booker,         \* [Bookers -> "idle", "priced", "reserved", "paid", "gone"]
    uses,           \* [Bookers -> Vouchers or none]: the voucher the price counts on
    copies,         \* [Bookers -> SUBSET Vouchers]: booking promotions, committed
    redeemed,       \* [Vouchers -> SUBSET Bookers]: redeem rows
    adding,         \* [Adds -> [pc, voucher]]
    loose,          \* vouchers last written without the check of their code
    wrote,          \* [Vouchers -> the request that wrote it last]
    met,            \* pairs of requests that ran at the same time
    peak            \* [Vouchers -> Nat]: most bookings that held it unpaid at once

promoVars == <<promo, edit, booker, uses, copies, redeemed, adding, loose, wrote, met, peak>>

Nothing == "nothing"

TypeOK ==
    /\ promo \in [Vouchers -> [status: Statuses \cup {"NONE"}, code: Codes \cup {NoCode}]]
    /\ edit \in [Edits -> [pc: {"idle", "started", "checked", "done"},
                           voucher: Vouchers \cup {Nothing},
                           status: Statuses \cup {Nothing}, code: Codes \cup {NoCode}]]
    /\ booker \in [Bookers -> {"idle", "priced", "reserved", "paid", "gone"}]
    /\ uses \in [Bookers -> Vouchers \cup {Nothing}]
    /\ copies \in [Bookers -> SUBSET Vouchers]
    /\ redeemed \in [Vouchers -> SUBSET Bookers]
    /\ adding \in [Adds -> [pc: {"idle", "read", "done"}, voucher: Vouchers \cup {Nothing}]]
    /\ loose \subseteq Vouchers
    /\ wrote \in [Vouchers -> Edits \cup {Nothing}]
    /\ met \subseteq (Edits \cup Adds) \X (Edits \cup Adds)
    /\ peak \in [Vouchers -> 0..Cardinality(Bookers)]

Init ==
    /\ promo = [v \in Vouchers |-> [status |-> "NONE", code |-> NoCode]]
    /\ edit = [e \in Edits |-> [pc |-> "idle", voucher |-> Nothing, status |-> Nothing,
                                code |-> NoCode]]
    /\ booker = [b \in Bookers |-> "idle"] /\ uses = [b \in Bookers |-> Nothing]
    /\ copies = [b \in Bookers |-> {}]
    /\ redeemed = [v \in Vouchers |-> {}]
    /\ adding = [a \in Adds |-> [pc |-> "idle", voucher |-> Nothing]]
    /\ loose = {} /\ wrote = [v \in Vouchers |-> Nothing] /\ met = {}
    /\ peak = [v \in Vouchers |-> 0]

Meets(r, others) == met' = met \cup ({r} \X others) \cup (others \X {r})

-----------------------------------------------------------------------------
(* Administrators                                                          *)

EditsUnderWay == {e \in Edits : edit[e].pc \in {"started", "checked"}}

(* A payload names a status or leaves it out (Nothing).                    *)
StartEdit(e, v, s, k) ==
    /\ edit[e].pc = "idle"
    /\ edit' = [edit EXCEPT ![e] = [pc |-> "started", voucher |-> v, status |-> s, code |-> k]]
    /\ Meets(e, EditsUnderWay)
    /\ UNCHANGED <<promo, booker, uses, copies, redeemed, adding, loose, wrote, peak>>

Taken(k, v) == \E w \in Vouchers \ {v} : promo[w] = [status |-> "ACTIVE", code |-> k]

(* checkDuplicateCode, only when the payload says ACTIVE.                  *)
CheckCode(e) ==
    /\ edit[e].pc = "started"
    /\ edit' = [edit EXCEPT ![e].pc =
          IF edit[e].status = "ACTIVE" /\ Taken(edit[e].code, edit[e].voucher)
          THEN "done" ELSE "checked"]
    /\ UNCHANGED <<promo, booker, uses, copies, redeemed, adding, loose, wrote, met, peak>>

(* The rows and COMMIT.  A status left out is DRAFT for a new row, and as  *)
(* it was for an old one.                                                  *)
Written(e) ==
    LET old == promo[edit[e].voucher].status IN
    [status |-> IF edit[e].status # Nothing THEN edit[e].status
                ELSE IF old = "NONE" THEN "DRAFT" ELSE old,
     code |-> edit[e].code]

WritePromotion(e) ==
    /\ edit[e].pc = "checked"
    /\ LET v == edit[e].voucher IN
       /\ promo' = [promo EXCEPT ![v] = Written(e)]
       /\ loose' = IF edit[e].status = Nothing THEN loose \cup {v} ELSE loose \ {v}
       /\ wrote' = [wrote EXCEPT ![v] = e]
    /\ edit' = [edit EXCEPT ![e].pc = "done"]
    /\ UNCHANGED <<booker, uses, copies, redeemed, adding, met, peak>>

EditFails(e) ==
    /\ edit[e].pc = "checked"
    /\ edit' = [edit EXCEPT ![e].pc = "done"]
    /\ UNCHANGED <<promo, booker, uses, copies, redeemed, adding, loose, wrote, met, peak>>

-----------------------------------------------------------------------------
(* Bookings                                                                *)

(* getPromotionAmount: the ACTIVE vouchers with the code.  One that allows *)
(* no other is taken alone; of several the last one found is the booking's.*)
Found(k) == {v \in Vouchers : promo[v] = [status |-> "ACTIVE", code |-> k]}
Filtered(S) == IF S \cap Alone = {} THEN S ELSE S \cap Alone
(* A limit compared with <=.                                               *)
NotUsedUp_OneMore(v) == Cardinality(redeemed[v]) <= Limit

NotUsedUp(v) == Cardinality(redeemed[v]) < Limit
Applicable(k) == {v \in Filtered(Found(k)) : NotUsedUp(v)}

Price(b, k) ==
    /\ booker[b] = "idle"
    /\ \E v \in Applicable(k) : uses' = [uses EXCEPT ![b] = v]
    /\ booker' = [booker EXCEPT ![b] = "priced"]
    /\ LET held == {c \in Bookers : uses[c] = uses'[b] /\ booker[c] \in {"priced", "reserved"}}
           n == Cardinality(held) + 1 IN
       peak' = [peak EXCEPT ![uses'[b]] = IF n > @ THEN n ELSE @]
    /\ UNCHANGED <<promo, edit, copies, redeemed, adding, loose, wrote, met>>

(* The promotion is copied, with what it asks and gives, and COMMIT.       *)
Reserve(b) ==
    /\ booker[b] = "priced"
    /\ copies' = [copies EXCEPT ![b] = @ \cup {uses[b]}]
    /\ booker' = [booker EXCEPT ![b] = "reserved"]
    /\ UNCHANGED <<promo, edit, uses, redeemed, adding, loose, wrote, met, peak>>

(* The booking is not made, or not paid in time.                           *)
GiveUp(b) ==
    /\ booker[b] \in {"priced", "reserved"}
    /\ booker' = [booker EXCEPT ![b] = "gone"]
    /\ UNCHANGED <<promo, edit, uses, copies, redeemed, adding, loose, wrote, met, peak>>

(* payBooking writes the redeem row and does not look at the limit again.  *)
Redeem(b) ==
    /\ booker[b] = "reserved"
    /\ redeemed' = [redeemed EXCEPT ![uses[b]] = @ \cup {b}]
    /\ booker' = [booker EXCEPT ![b] = "paid"]
    /\ UNCHANGED <<promo, edit, uses, copies, adding, loose, wrote, met, peak>>

-----------------------------------------------------------------------------
(* addPromotionsToBooking, to a booking that is paid                       *)

AddsUnderWay(b) == {a \in Adds : adding[a].pc = "read" /\ BookingOf[a] = b}

(* The same without the look at the booking's promotions.                  *)
AddReads_Again(a, k) ==
    /\ adding[a].pc = "idle" /\ booker[BookingOf[a]] = "paid"
    /\ \E v \in Applicable(k) : adding' = [adding EXCEPT ![a] = [pc |-> "read", voucher |-> v]]
    /\ Meets(a, AddsUnderWay(BookingOf[a]))
    /\ UNCHANGED <<promo, edit, booker, uses, copies, redeemed, loose, wrote, peak>>

AddReads(a, k) ==
    LET b == BookingOf[a] IN
    /\ adding[a].pc = "idle" /\ booker[b] = "paid"
    /\ copies[b] = {}
    /\ \E v \in Applicable(k) : adding' = [adding EXCEPT ![a] = [pc |-> "read", voucher |-> v]]
    /\ Meets(a, AddsUnderWay(b))
    /\ UNCHANGED <<promo, edit, booker, uses, copies, redeemed, loose, wrote, peak>>

AddWrites(a) ==
    /\ adding[a].pc = "read"
    /\ copies' = [copies EXCEPT ![BookingOf[a]] = @ \cup {adding[a].voucher}]
    /\ adding' = [adding EXCEPT ![a].pc = "done"]
    /\ UNCHANGED <<promo, edit, booker, uses, redeemed, loose, wrote, met, peak>>

(* A booking made and paid without a voucher.                              *)
BookPlainly(b) ==
    /\ booker[b] = "idle"
    /\ booker' = [booker EXCEPT ![b] = "paid"]
    /\ UNCHANGED <<promo, edit, uses, copies, redeemed, adding, loose, wrote, met, peak>>

Next ==
    \/ \E e \in Edits :
          \/ \E v \in Vouchers, s \in {"ACTIVE", "IN_ACTIVE", Nothing}, k \in Codes :
                StartEdit(e, v, s, k)
          \/ CheckCode(e) \/ WritePromotion(e) \/ EditFails(e)
    \/ \E b \in Bookers :
          \/ \E k \in Codes : Price(b, k)
          \/ Reserve(b) \/ GiveUp(b) \/ Redeem(b) \/ BookPlainly(b)
    \/ \E a \in Adds : (\E k \in Codes : AddReads(a, k)) \/ AddWrites(a)

Spec == Init /\ [][Next]_promoVars

-----------------------------------------------------------------------------
(* "Code cannot be duplicate with ACTIVE status" (promotion.service.ts     *)
(* 561), or a booking gets the discount twice: two ACTIVE vouchers have    *)
(* one code only if their last writers ran at the same time, or one of     *)
(* them named no status, so that no check was made (213-221).  And a       *)
(* booking carries two vouchers only if two addPromotionsToBooking         *)
(* requests ran at the same time (booking.service.ts 2433-2440).           *)
VouchersUnique ==
    /\ \A v, w \in Vouchers :
          v # w /\ promo[v].status = "ACTIVE" /\ promo[w] = promo[v] =>
              v \in loose \/ w \in loose \/ <<wrote[v], wrote[w]>> \in met
    /\ \A b \in Bookers :
          Cardinality(copies[b]) <= 1 \/
          \E a, c \in Adds : <<a, c>> \in met /\ BookingOf[a] = b /\ BookingOf[c] = b

(* A voucher is redeemed no more often than its limit allows, but for the  *)
(* bookings that held it unpaid at the same time: the limit is compared    *)
(* with redeem rows, which are written when a booking is paid (promotion.  *)
(* service.ts 402-409, booking.service.ts 1238-1247).                      *)
LimitKept ==
    \A v \in Vouchers :
        redeemed[v] # {} => Cardinality(redeemed[v]) <= Limit - 1 + peak[v]
=============================================================================
