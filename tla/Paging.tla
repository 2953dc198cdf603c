-------------------------------- MODULE Paging --------------------------------
(***************************************************************************)
(* The lists the API serves page by page, and a client who walks through   *)
(* one: asks for a page, and for the next as long as page_info.has_more    *)
(* says so.  A page is two queries, findAndCountAll's COUNT and its        *)
(* SELECT, and rows come and go before, between and after them.            *)
(*                                                                         *)
(* The lists differ in what their SELECT is ordered by, in what LIMIT and  *)
(* OFFSET run over and in what is counted; filters are left out, a row is  *)
(* one that matches.  Rows are numbered in the order of the list.          *)
(***************************************************************************)
EXTENDS Integers, FiniteSets, Sequences, SequencesExt, FiniteSetsExt

CONSTANTS
    Rows,           \* the rows there may be, numbers
    Tied,           \* those the column of a sort leaves in no order
    Limits,         \* what a client may ask; negative: nothing
    Units,          \* the units a space has
    MaxChanges      \* rows that come or go during a walk

None == 0 - 1

VARIABLES
    list,           \* the list that is walked through
    rows,           \* the rows there are
    joined,         \* [Rows -> 1..]: the joined rows each has in a SELECT with includes
    page,           \* the page asked for: [limit, skip]
    total, edges,   \* what COUNT and SELECT answered, {} of a set each, or {}
    shown,          \* [Rows -> 0..2]: on how many pages a row was seen, two or more
    ended,          \* has_more was FALSE
    moved           \* rows that came or went since the walk began

pagingVars == <<list, rows, joined, page, total, edges, shown, ended, moved>>

-----------------------------------------------------------------------------
(* The lists                                                               *)

(* order: by what the rows are; window: what LIMIT and OFFSET run over;    *)
(* counts: what COUNT counts.                                              *)
List(order, window, counts) == [order |-> order, window |-> window, counts |-> counts]

Bookings == List("nothing", "rows", "rows")
Services == List("nothing", "rows", "rows")
SpaceCategories == List("nothing", "rows", "joined")
FeatureCategories == List("column", "rows", "joined")
Promotions == List("column", "rows", "joined")
Banks == List("column", "rows", "rows")
PropertyTypes == List("column", "rows", "rows")
Insurances == List("column", "rows", "rows")
SiteDoors == List("column", "rows", "rows")
Transactions == List("column", "rows", "rows")
Sites == List("column", "rows", "rows")
SpaceTypes == List("column", "or the largest", "rows")
Spaces == List("id", "joined", "rows")
SortedSpaces == List("column", "joined", "rows")
SpacesWithUnits == List("id", "kept", "kept")
Countries == List("nothing", "all", "rows")

Lists ==
    {Bookings, Services, SpaceCategories, FeatureCategories, Promotions, Banks, PropertyTypes,
     Insurances, SiteDoors, Transactions, Sites, SpaceTypes, Spaces, SortedSpaces,
     SpacesWithUnits, Countries}

-----------------------------------------------------------------------------
(* initPagination: five rows from the first, unless asked otherwise.       *)
InitPagination(limit, skip) ==
    [limit |-> IF limit < 0 THEN 5 ELSE limit, skip |-> IF skip < 0 THEN 0 ELSE skip]

(* A page that is full is taken for the last.                              *)
HasMore_OneShort(count, p) == count > p.skip + p.limit + 1

HasMore(count, p) == count > p.skip + p.limit

(* Rows of one key are in no order, and in another one in the next SELECT. *)
Key(r) ==
    CASE list.order = "id"      -> r
      [] list.order = "column"  -> IF r \in Tied THEN Min(Tied) ELSE r
      [] list.order = "nothing" -> 0

Orders(set) == {s \in SetToSeqs(set) : \A i, j \in DOMAIN s : i < j => Key(s[i]) <= Key(s[j])}

Window(s) ==
    LET last == page.skip + page.limit IN
    ToSet(SubSeq(s, page.skip + 1, IF last < Len(s) THEN last ELSE Len(s)))

(* subQuery: false: a space once for each of its joined rows.              *)
Joined(s) == FlattenSeq([i \in DOMAIN s |-> [n \in 1..joined[s[i]] |-> s[i]]])

(* getStock, of a space whose joined rows are its bookings.                *)
Stock(r) == IF joined[r] > Units THEN 0 ELSE Units - joined[r]
Kept == {r \in rows : Stock(r) > 0}

-----------------------------------------------------------------------------

TypeOK ==
    /\ list \in Lists
    /\ rows \subseteq Rows /\ moved \subseteq Rows
    /\ joined \in [Rows -> Nat \ {0}]
    /\ page \in [limit : Nat, skip : Nat]
    /\ \A t \in total : t \in Nat
    /\ edges \subseteq SUBSET Rows
    /\ Cardinality(total) <= 1 /\ Cardinality(edges) <= 1
    /\ shown \in [Rows -> 0..2]
    /\ ended \in BOOLEAN

Init ==
    /\ list \in Lists
    /\ rows \in SUBSET Rows
    /\ \/ joined = [r \in Rows |-> 1]
       \/ /\ list.window \in {"joined", "kept"} \/ list.counts = "joined"
          /\ joined = [r \in Rows |-> IF r = Min(Rows) THEN Units ELSE 1]
    /\ \E l \in Limits : page = InitPagination(l, None)
    /\ total = {} /\ edges = {}
    /\ shown = [r \in Rows |-> 0]
    /\ ended = FALSE
    /\ moved = {}

(* What COUNT finds.  Whether joined rows of an include that is not        *)
(* required are counted too is Sequelize's affair.                         *)
Count ==
    /\ ~ended /\ total = {} /\ list.counts # "kept"
    /\ \/ total' = {Cardinality(rows)}
       \/ list.counts = "joined" /\ total' = {Len(Joined(SetToSeq(rows)))}
    /\ UNCHANGED <<list, rows, joined, page, edges, shown, ended, moved>>

Select ==
    /\ ~ended /\ edges = {} /\ list.window = "rows"
    /\ \E s \in Orders(rows) : edges' = {Window(s)}
    /\ UNCHANGED <<list, rows, joined, page, total, shown, ended, moved>>

(* Without a type that matches, or none left: getBySize, and a count of 1. *)
SelectOrLargest ==
    /\ ~ended /\ edges = {} /\ total # {} /\ list.window = "or the largest"
    /\ \E s \in Orders(rows) :
          IF Window(s) = {}
          THEN /\ \E r \in Rows : edges' = {{r}}
               /\ total' = {1}
          ELSE /\ edges' = {Window(s)}
               /\ UNCHANGED total
    /\ UNCHANGED <<list, rows, joined, page, shown, ended, moved>>

SelectJoined ==
    /\ ~ended /\ edges = {} /\ list.window = "joined"
    /\ \E s \in Orders(rows) : edges' = {Window(Joined(s))}
    /\ UNCHANGED <<list, rows, joined, page, total, shown, ended, moved>>

(* No LIMIT: the spaces with a unit left are counted and cut out here.     *)
SelectKept ==
    /\ ~ended /\ edges = {} /\ list.window = "kept"
    /\ \E s \in Orders(Kept) : edges' = {Window(s)}
    /\ total' = {Cardinality(Kept)}
    /\ UNCHANGED <<list, rows, joined, page, shown, ended, moved>>

SelectAll ==
    /\ ~ended /\ edges = {} /\ list.window = "all"
    /\ edges' = {rows}
    /\ UNCHANGED <<list, rows, joined, page, total, shown, ended, moved>>

(* The page reaches the client, who asks for the next if there is one.  No *)
(* page follows one of no rows at all.                                     *)
Answer ==
    /\ total # {} /\ edges # {}
    /\ \E t \in total, e \in edges :
          /\ shown' = [r \in Rows |-> IF r \in e /\ shown[r] < 2 THEN shown[r] + 1 ELSE shown[r]]
          /\ ended' = (page.limit = 0 \/ ~HasMore(t, page))
    /\ page' = [page EXCEPT !.skip = IF ended' THEN @ ELSE @ + page.limit]
    /\ total' = {} /\ edges' = {}
    /\ UNCHANGED <<list, rows, joined, moved>>

(* Somebody adds a row or deletes one.                                     *)
Move(r) ==
    /\ ~ended /\ Cardinality(moved) < MaxChanges
    /\ rows' = IF r \in rows THEN rows \ {r} ELSE rows \cup {r}
    /\ moved' = moved \cup {r}
    /\ UNCHANGED <<list, joined, page, total, edges, shown, ended>>

Next ==
    \/ Count \/ Select \/ SelectOrLargest \/ SelectJoined \/ SelectKept \/ SelectAll \/ Answer
    \/ \E r \in Rows : Move(r)

Spec == Init /\ [][Next]_pagingVars

-----------------------------------------------------------------------------
(* A walk from the first page to the last shows every row once (the        *)
(* page_info of every findAll; shared/utils/index.ts 8-36), wherever the   *)
(* others come or go after it in the order, if its own place is certain:   *)
(* no row shares its key, none before it came or went, LIMIT does not run  *)
(* over joined rows of which one before it has several (space.service.ts   *)
(* 252-259), and the page is not made up (space-type.service.ts 88-93).    *)
(* A list without ORDER BY, as booking.service.ts 612-617, promises none   *)
(* of it, and that of the countries is whole on every page.                *)
InPlace(r) ==
    /\ \A s \in rows \cup moved : Key(s) = Key(r) => s = r
    /\ \A s \in moved : s > r
    /\ list.window = "joined" => \A s \in rows \cup moved : s <= r => joined[s] = 1
    /\ list.window = "kept" => r \in Kept
    /\ list.window = "or the largest" => moved = {}

WalkIsWhole ==
    ended /\ page.limit > 0 /\ list.window # "all" =>
        \A r \in rows : InPlace(r) => shown[r] = 1
=============================================================================
