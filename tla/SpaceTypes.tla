------------------------------ MODULE SpaceTypes ------------------------------
(***************************************************************************)
(* The size of a space and the type that goes with it.  A host creates a   *)
(* space or changes its sides (spaces/spaces/space.service.ts, .resolver), *)
(* and its type is looked up by its size among the types of its site's     *)
(* country, or of all countries while the site has no address              *)
(* (platform/space-types/space-type.service.ts); the job that copies a     *)
(* third party's stock (cron-job/sitelink-stock-sync/sitelink-sync.cron.ts)*)
(* looks it up in another way, among those of its store's country.         *)
(*                                                                         *)
(* Sides are in halves of the unit and sizes in quarters of it, so that a  *)
(* size may lie between two types, whose bounds are whole.                 *)
(***************************************************************************)
EXTENDS Integers

CONSTANTS
    Sides,          \* the widths and lengths in the instance, in halves
    Areas,          \* the areas a third party lists, in quarters
    Countries,
    StoreCountry,   \* that of the third party's store
    Tables          \* tables of types: sets of [country, from, to]

Unit == 4
Nowhere == "nowhere"
NoType == [country |-> Nowhere, from |-> 0, to |-> 0]
NoSide == 0

VARIABLES
    table,          \* the types of all countries
    country,        \* that of the site's address, Nowhere without one
    space,          \* [status, copied, width, length, size, type]
    writer,         \* who gave the type last: "nobody", "host" or "job"
    looked,         \* ghost: the country whose types it was chosen from, Nowhere for all
    readdressed,    \* ghost: the address was given or changed since
    halved          \* ghost: an update gave one side without the other

vars == <<table, country, space, writer, looked, readdressed, halved>>

AllTypes == (UNION Tables) \cup {NoType}

TypeOK ==
    /\ table \in Tables /\ country \in Countries \cup {Nowhere}
    /\ space \in [status: {"none", "DRAFT", "ACTIVE"}, copied: BOOLEAN, width: Nat,
                  length: Nat, size: Nat, type: AllTypes]
    /\ writer \in {"nobody", "host", "job"} /\ looked \in Countries \cup {Nowhere}
    /\ readdressed \in BOOLEAN /\ halved \in BOOLEAN

(* A host may make his site without an address; the job does (sitesService *)
(* .create, sitelink-sync.cron.ts 187-199).                                *)
Init ==
    /\ table \in Tables /\ country \in Countries \cup {Nowhere}
    /\ space = [status |-> "none", copied |-> FALSE, width |-> NoSide, length |-> NoSide,
                size |-> 0, type |-> NoType]
    /\ writer = "nobody" /\ looked = Nowhere /\ readdressed = FALSE /\ halved = FALSE

-----------------------------------------------------------------------------
(* The lookups                                                             *)

Fits(t, size) == t.from <= size /\ size <= t.to

(* The types a lookup chooses from: without a country, of all of them.     *)
TypesOf(c) == {t \in table : c \in {Nowhere, t.country}}
Fitting(size, c) == {t \in TypesOf(c) : Fits(t, size)}

Largest(types) == {t \in types : \A s \in types : s.to <= t.to}
First(types) == CHOOSE t \in types : \A s \in types : t.from <= s.from
Last(types) == CHOOSE t \in types : \A s \in types : s.from <= t.from

(* A slip: a lookup that leaves its country out.                           *)
BySize_Anywhere(size, c) ==
    IF Fitting(size, Nowhere) # {} THEN Fitting(size, Nowhere) ELSE Largest(table)

(* getBySize: any type the size fits, or else any of the largest, be the   *)
(* size above all types or between two or below them all.                  *)
BySize(size, c) ==
    IF Fitting(size, c) # {} THEN Fitting(size, c) ELSE Largest(TypesOf(c))

(* A slip: an area at the bound plus one is still of the type.             *)
ByArea_Inclusive(area) ==
    LET types == TypesOf(StoreCountry)
        close == {t \in types : t.from <= area /\ area <= t.to + Unit} IN
    IF close # {} THEN First(close)
    ELSE IF area > Last(types).to THEN Last(types) ELSE NoType

(* The job's own: the first type whose upper bound plus one the area does  *)
(* not reach, the last one for what is larger, and none for the rest.      *)
ByArea(area) ==
    LET types == TypesOf(StoreCountry)
        close == {t \in types : t.from <= area /\ area < t.to + Unit} IN
    IF close # {} THEN First(close)
    ELSE IF area > Last(types).to THEN Last(types) ELSE NoType

-----------------------------------------------------------------------------
(* The type is given by a lookup of c's types.                             *)
Typed(who, c) == writer' = who /\ looked' = c /\ readdressed' = FALSE

(* SiteService.update: the address of a site, its first or another.        *)
Locate(c) ==
    /\ country # c
    /\ country' = c
    /\ readdressed' = (space.status # "none")
    /\ UNCHANGED <<table, space, writer, looked, halved>>

(* createSpace: the new space is a DRAFT.                                  *)
CreateByHost(w, l) ==
    /\ space.status = "none"
    /\ \E t \in BySize(w * l, country) :
          space' = [status |-> "DRAFT", copied |-> FALSE, width |-> w, length |-> l,
                    size |-> w * l, type |-> t]
    /\ Typed("host", country)
    /\ UNCHANGED <<table, country, halved>>

(* The job lists at once what it creates; without a type of its own the    *)
(* space gets one by its sides, here of width one.                         *)
CreateByJob(a) ==
    /\ space.status = "none"
    /\ LET own == ByArea(a) # NoType IN
       /\ \E t \in IF own THEN {ByArea(a)} ELSE BySize(a, country) :
             space' = [status |-> "ACTIVE", copied |-> TRUE, width |-> 1, length |-> a,
                       size |-> a, type |-> t]
       /\ IF own THEN Typed("job", StoreCountry) ELSE Typed("host", country)
    /\ UNCHANGED <<table, country, halved>>

(* The space of an area, one the job made, is found by its size.           *)
UpdateByJob ==
    /\ space.copied /\ space.size \in Areas
    /\ space' = [space EXCEPT !.status = "ACTIVE", !.width = 1, !.length = space.size,
                              !.type = ByArea(space.size)]
    /\ Typed("job", StoreCountry)
    /\ halved' = FALSE
    /\ UNCHANGED <<table, country>>

(* "Host cannot change dimensions when status is active": the resolver     *)
(* looks at the width, not at the length.                                  *)
MayResize(w, l) ==
    space.status = "ACTIVE" => w \in {NoSide, space.width}

(* A size and a type are computed only if both sides are given; a side     *)
(* that is given is written all the same.                                  *)
Resized(w, l) == w # NoSide /\ l # NoSide

Rewritten(w, l, t) ==
    [space EXCEPT !.width  = IF w # NoSide THEN w ELSE @,
                  !.length = IF l # NoSide THEN l ELSE @,
                  !.size   = IF Resized(w, l) THEN w * l ELSE @,
                  !.type   = t]

UpdateByHost(w, l) ==
    /\ space.status # "none" /\ MayResize(w, l)
    /\ \E t \in IF Resized(w, l) THEN BySize(w * l, country) ELSE {space.type} :
          space' = Rewritten(w, l, t)
    /\ IF Resized(w, l) THEN Typed("host", country)
       ELSE UNCHANGED <<writer, looked, readdressed>>
    /\ halved' = ((halved \/ w # NoSide \/ l # NoSide) /\ ~Resized(w, l))
    /\ UNCHANGED <<table, country>>

Next ==
    \/ \E c \in Countries : Locate(c)
    \/ \E w, l \in Sides : CreateByHost(w, l)
    \/ \E a \in Areas : CreateByJob(a)
    \/ UpdateByJob
    \/ \E w, l \in Sides \cup {NoSide} : UpdateByHost(w, l)

Spec == Init /\ [][Next]_vars

-----------------------------------------------------------------------------
(* The two lookups agree on every size that fits a type and on every size  *)
(* above them all, whoever wrote last and in whatever order, of the types  *)
(* of the country they look in.  That is the site's, but for a site whose  *)
(* address was given or changed since, or one the job's store has in       *)
(* another country; without an address the host's looks in all of them,    *)
(* and the type, of whichever country, still fits the size                 *)
(* (space-type.service.ts 109-150, space.service.ts 606-613, 688-696).     *)
(* A space's size is that of its sides but after an update that gave one   *)
(* of them (space.service.ts 690); and no type is the largest but for a    *)
(* size that fits it, is above all types, or that a host gave, between two *)
(* types or below them all, where the comment at space-type.service.ts 134 *)
(* says larger than the largest.                                           *)
TypeFitsSize ==
    space.status # "none" =>
       LET types == TypesOf(looked) IN
       /\ space.type \in types \cup {NoType}
       /\ (\E t \in types : Fits(t, space.size)) => Fits(space.type, space.size)
       /\ (\A t \in types : t.to < space.size) => space.type \in Largest(types)
       /\ space.type \in Largest(types) => space.size >= space.type.from \/ writer = "host"
       /\ country # Nowhere /\ space.type.country \notin {country, Nowhere} =>
             readdressed \/ (writer = "job" /\ country # StoreCountry)
       /\ ~halved => space.size = space.width * space.length
=============================================================================
