------------------------------ MODULE Availability ------------------------------
(***************************************************************************)
(* Whether a unit of a space is free, where the stock is the platform's    *)
(* own (stock_management_type SND): no row counts the free units; a search *)
(* counts the bookings that stand in its way (spaces/spaces/space.service. *)
(* ts), and create (bookings/booking.service.ts) does not look again.      *)
(*                                                                         *)
(* One space.  Customers book what a search has offered them, each once,   *)
(* some time after it.  Time is in days; a booking lasts from the day it   *)
(* moves in to the day it moves out, and one may move in on the day        *)
(* another moves out.                                                      *)
(***************************************************************************)
EXTENDS Integers, FiniteSets, SequencesExt

CONSTANTS
    Customers,      \* numbered in the order they arrive
    Total,          \* total_units
    LastDay,        \* bound on the dates
    FakeEnd         \* when a stay without a move-out date is taken to end

Days == 0..LastDay
Open == LastDay + 1         \* no move-out date; after every date

VARIABLES
    ask,            \* [Customers -> "idle", "offered", "held", "gone"]
    stay,           \* [Customers -> [in, out]]: what was offered, then booked
    openly,         \* the customers who searched without a move-out date
    met             \* pairs of customers who were between search and booking at once

stayVars == <<ask, stay, openly, met>>

NoStay == [in |-> 0, out |-> 0]

TypeOK ==
    /\ ask \in [Customers -> {"idle", "offered", "held", "gone"}]
    /\ stay \in [Customers -> [in : Days, out : Days \cup {Open}]]
    /\ openly \subseteq Customers
    /\ met \subseteq Customers \X Customers

Init ==
    /\ ask = [c \in Customers |-> "idle"]
    /\ stay = [c \in Customers |-> NoStay]
    /\ openly = {} /\ met = {}

Held == {c \in Customers : ask[c] = "held"}

(* In the way on a day.                                                    *)
Covers(c, d) == stay[c].in <= d /\ stay[c].out >= d

(* The same without the bookings that begin and end in between.            *)
ActiveBookings_AtTheEnds(in, out) ==
    {c \in Held : Covers(c, in) \/ (out # Open /\ Covers(c, out))}

(* getActiveBookingsWhere: bookings RESERVED, CONFIRMED or ACTIVE in the   *)
(* way on the first day, on the last, or in between; on the first alone    *)
(* when the search names no last day.                                      *)
ActiveBookings(in, out) ==
    {c \in Held :
        \/ Covers(c, in)
        \/ out # Open /\ (Covers(c, out) \/ (stay[c].in > in /\ stay[c].out < out))}

(* getStock, of a search that starts on the day after the move-in.         *)
Stock(in, out) == Total - Cardinality(ActiveBookings(in + 1, out))

-----------------------------------------------------------------------------
(* getLastStockAvailableDate                                               *)

(* mergeBookingsOfSpace puts a booking and the one that begins after it in *)
(* one: they can have the same unit.  It goes once along the list, which   *)
(* gets shorter under it.                                                  *)
MergeAt(timeline, i) ==
    IF i < Len(timeline) /\ timeline[i].end < timeline[i + 1].start
    THEN RemoveAt([timeline EXCEPT ![i].end = timeline[i + 1].end], i + 1)
    ELSE timeline

Timeline ==
    LET before(c, e) == stay[c].in < stay[e].in \/ (stay[c].in = stay[e].in /\ c < e)
        sorted == SetToSortSeq(Held, before) IN
    [i \in 1..Len(sorted) |->
        [start |-> stay[sorted[i]].in,
         end   |-> IF stay[sorted[i]].out = Open THEN FakeEnd ELSE stay[sorted[i]].out]]

MergedBookings == FoldLeft(MergeAt, Timeline, [i \in 1..(Len(Timeline) - 1) |-> i])

(* The day to which a unit is said to be free: no day when some unit has   *)
(* no booking, or when no booking begins after the move-in.                *)
AvailableUntil(in) ==
    LET later == SelectSeq(MergedBookings, LAMBDA b : b.start > in) IN
    IF Total > Len(MergedBookings) \/ later = <<>> THEN Open ELSE Last(later).start - 1

-----------------------------------------------------------------------------

Deciding == {c \in Customers : ask[c] = "offered"}

(* The spaces with stock are offered; without a move-out date, up to the   *)
(* day that is shown.                                                      *)
Search(c, in, out) ==
    /\ ask[c] = "idle" /\ \A e \in Customers : e < c => ask[e] # "idle"
    /\ Stock(in, out) > 0
    /\ \E end \in IF out # Open THEN {out}
                  ELSE IF AvailableUntil(in) = Open THEN {Open}
                  ELSE {d \in Days : in < d /\ d <= AvailableUntil(in)} :
          stay' = [stay EXCEPT ![c] = [in |-> in, out |-> end]]
    /\ openly' = IF out = Open THEN openly \cup {c} ELSE openly
    /\ ask' = [ask EXCEPT ![c] = "offered"]
    /\ met' = met \cup ({c} \X Deciding) \cup (Deciding \X {c})

(* create and its COMMIT.                                                  *)
Book(c) ==
    /\ ask[c] = "offered"
    /\ ask' = [ask EXCEPT ![c] = "held"]
    /\ UNCHANGED <<stay, openly, met>>

(* The customer leaves, or create fails; or the booking is CANCELLED,      *)
(* TERMINATED or COMPLETED.  Nothing of it counts any more.                *)
Goes(c) ==
    /\ ask[c] \in {"offered", "held"}
    /\ ask' = [ask EXCEPT ![c] = "gone"]
    /\ stay' = [stay EXCEPT ![c] = NoStay]
    /\ openly' = openly \ {c}
    /\ met' = {p \in met : c \notin {p[1], p[2]}}

Next ==
    \E c \in Customers :
        \/ \E in \in 0..(LastDay - 1), out \in Days \cup {Open} :
              out > in /\ Search(c, in, out)
        \/ Book(c) \/ Goes(c)

Spec == Init /\ [][Next]_stayVars

-----------------------------------------------------------------------------
(* Who sleeps in the space in the night after a day.                       *)
InTheNightOf(d) == {c \in Held : stay[c].in <= d /\ d < stay[c].out}

(* No night has more bookings than the space has units, among customers    *)
(* who book what a search offered them: the three cases of the search      *)
(* (space.service.ts 537-569) leave no booking out that is in the way.     *)
(* Not so when two customers were looking at the same time, for nothing is *)
(* set aside for a search and create does not look (booking.service.ts     *)
(* 807-1116); and not after the first night of a search without a move-out *)
(* date, which looks at that night alone (571-584) and shows, for what     *)
(* comes later, the start of the last merged booking instead of the first  *)
(* day on which all units are taken (448-461).                             *)
NotOverbooked ==
    \A d \in Days :
        LET guests == InTheNightOf(d) IN
        \/ Cardinality(guests) <= Total
        \/ \E c, e \in guests : <<c, e>> \in met
        \/ \E c \in guests \cap openly : stay[c].in < d
=============================================================================
