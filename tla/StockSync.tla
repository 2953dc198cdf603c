------------------------------- MODULE StockSync -------------------------------
(***************************************************************************)
(* The spaces of a site whose stock a third party keeps: the job that      *)
(* copies the provider's units every quarter of an hour (cron-job/         *)
(* sitelink-stock-sync/sitelink-sync.cron.ts), hosts that update or delete *)
(* their spaces (spaces/spaces/space.service.ts), and the message by which *)
(* each change makes the search index read the site again                  *)
(* (shared/db.hooks.ts).                                                   *)
(*                                                                         *)
(* A unit is a type and an area; the job finds the space of a unit by its  *)
(* type and its size, the area rounded to two decimals when the space was  *)
(* created.                                                                *)
(***************************************************************************)
EXTENDS Integers, FiniteSets

CONSTANTS
    Units,          \* what the provider may offer
    TypeOf,         \* [Units -> type]
    Inexact,        \* the units whose area has more than two decimals
    Offers,         \* the values stock and price of a unit take together
    First,          \* [1..MaxRows -> unit]: the spaces an earlier run has left
    MaxRows,        \* spaces in an instance
    MaxRuns,        \* runs of the job
    MaxChanges      \* changes by the provider, and by the host

Nothing == "nothing"
Offer == Offers \cup {Nothing}
NoRow == [unit |-> Nothing, status |-> "NONE", stock |-> Nothing, price |-> Nothing]

VARIABLES
    offered,        \* [Units -> Offer]: what the provider lists now
    rows,           \* [1..MaxRows -> [unit, status, stock, price]]: spaces and prices
    run,            \* [pc, seen, had, types, units]: the job
    flawed,         \* ghost: a step of this run failed
    missed,         \* ghost: units that a run did not find
    edit,           \* [pc, row, unit, stock, price]: a host's updateSpace
    reshaped,       \* ghost: units whose size a host gave to a space of another
    touched,        \* ghost: a host wrote a space since the run began
    queued, fresh,  \* a message waits for the index; the index shows the spaces
    early,          \* ghost: the index last read while a transaction was open
    untold,         \* ghost: a change since then that no message told of
    runs, changes   \* counts, for the bounds

index == <<queued, fresh, early, untold>>
stockVars == <<offered, rows, run, flawed, missed, edit, reshaped, touched, index, runs, changes>>

Row == [unit: Units \cup {Nothing}, status: {"NONE", "ACTIVE", "ARCHIVED", "DELETED"},
        stock: Offer, price: Offer]

TypeOK ==
    /\ offered \in [Units -> Offer]
    /\ rows \in [1..MaxRows -> Row]
    /\ run \in [pc: {"off", "type", "unit", "commit", "push", "over"}, seen: [Units -> Offer],
                had: [1..MaxRows -> Row], types: SUBSET {TypeOf[u] : u \in Units},
                units: SUBSET Units]
    /\ flawed \in BOOLEAN /\ missed \subseteq Units /\ reshaped \subseteq Units
    /\ edit \in [pc: {"idle", "open"}, row: 0..MaxRows, unit: Units \cup {Nothing},
                 stock: Offer, price: Offer]
    /\ touched \in BOOLEAN /\ queued \in BOOLEAN /\ fresh \in BOOLEAN
    /\ early \in BOOLEAN /\ untold \in BOOLEAN
    /\ runs \in 0..MaxRuns /\ changes \in 0..MaxChanges

Off == [pc |-> "off", seen |-> [u \in Units |-> Nothing], had |-> [i \in 1..MaxRows |-> NoRow],
        types |-> {}, units |-> {}]
NoEdit == [pc |-> "idle", row |-> 0, unit |-> Nothing, stock |-> Nothing, price |-> Nothing]

Init ==
    /\ LET o == CHOOSE x \in Offers : TRUE IN
       /\ offered = [u \in Units |-> o]
       /\ rows = [i \in 1..MaxRows |->
                    IF First[i] # Nothing
                    THEN [unit |-> First[i], status |-> "ACTIVE", stock |-> o, price |-> o]
                    ELSE NoRow]
    /\ run = Off /\ flawed = FALSE /\ missed = {} /\ edit = NoEdit /\ reshaped = {}
    /\ touched = FALSE /\ queued = FALSE /\ fresh = TRUE /\ early = FALSE /\ untold = FALSE
    /\ runs = 0 /\ changes = 0

SeenUnits == {u \in Units : run.seen[u] # Nothing}
Live(i) == rows[i].status = "ACTIVE"

(* Between its UPDATE and its COMMIT a host's request has the row's lock.  *)
Locked(i) == edit.pc = "open" /\ edit.row = i

(* A write that is its own transaction, and its message, which leaves      *)
(* after it and may not be taken.                                          *)
Shown(told) ==
    /\ queued' = (queued \/ told) /\ fresh' = (fresh /\ rows' = rows)
    /\ untold' = (~queued' /\ (untold \/ rows' # rows))
    /\ early' = early

(* A message ahead of the COMMIT, or of no change at all; and the COMMIT.  *)
Told == queued' = TRUE /\ untold' = FALSE /\ UNCHANGED <<fresh, early>>
ShownUnread == fresh' = FALSE /\ UNCHANGED <<queued, early, untold>>

-----------------------------------------------------------------------------
(* The provider and the index                                              *)

ProviderChanges(u, o) ==
    /\ changes < MaxChanges /\ offered[u] # o
    /\ offered' = [offered EXCEPT ![u] = o]
    /\ changes' = changes + 1
    /\ UNCHANGED <<rows, run, flawed, missed, edit, reshaped, touched, index, runs>>

Uncommitted == edit.pc = "open" \/ run.pc = "commit"

(* The index reads the site's spaces again.                                *)
IndexReads ==
    /\ queued
    /\ queued' = FALSE /\ fresh' = TRUE /\ early' = Uncommitted /\ untold' = FALSE
    /\ UNCHANGED <<offered, rows, run, flawed, missed, edit, reshaped, touched, runs, changes>>

(* Another job has all ACTIVE sites read again (cron-job/es-stock-sync).   *)
ResyncIndex ==
    /\ Told
    /\ UNCHANGED <<offered, rows, run, flawed, missed, edit, reshaped, touched, runs, changes>>

-----------------------------------------------------------------------------
(* The job                                                                 *)

(* The site's spaces that are not archived and the provider's units.  A    *)
(* new run takes the place of one that is not over, which is killed.       *)
StartRun ==
    /\ runs < MaxRuns
    /\ LET types == {TypeOf[u] : u \in {v \in Units : offered[v] # Nothing}} IN
       run' = [pc |-> IF types = {} THEN "push" ELSE "type", seen |-> offered,
               had |-> [i \in 1..MaxRows |-> IF Live(i) THEN rows[i] ELSE NoRow],
               types |-> types, units |-> {}]
    /\ missed' = missed \cup {u \in Units : offered[u] = Nothing}
    /\ flawed' = FALSE /\ touched' = FALSE /\ runs' = runs + 1
    /\ UNCHANGED <<offered, rows, edit, reshaped, index, changes>>

(* The same with the areas rounded, as the sizes are.                      *)
Stale_Rounded(i, type) ==
    /\ run.had[i].unit # Nothing /\ TypeOf[run.had[i].unit] = type
    /\ run.had[i].unit \notin SeenUnits

(* The spaces of a type whose size is none of the areas listed for it: a   *)
(* size is never an area with more decimals.                               *)
Stale(i, type) ==
    /\ run.had[i].unit # Nothing /\ TypeOf[run.had[i].unit] = type
    /\ run.had[i].unit \notin SeenUnits \ Inexact

ThisType == CHOOSE type \in run.types : TRUE
OnToUnits ==
    run' = [run EXCEPT !.pc = "unit", !.types = @ \ {ThisType},
                       !.units = {u \in SeenUnits : TypeOf[u] = ThisType}]

(* One UPDATE for all of them; a message that is not taken is logged like  *)
(* an UPDATE that fails.                                                   *)
ArchiveType(told) ==
    LET gone == {i \in 1..MaxRows : Stale(i, ThisType)} IN
    /\ run.pc = "type" /\ run.types # {} /\ \A i \in gone : ~Locked(i)
    /\ rows' = [i \in 1..MaxRows |-> IF i \in gone /\ rows[i].status # "DELETED"
                                     THEN [rows[i] EXCEPT !.status = "ARCHIVED"] ELSE rows[i]]
    /\ OnToUnits
    /\ flawed' = (flawed \/ (~told /\ gone # {}))
    /\ Shown(told /\ gone # {})
    /\ UNCHANGED <<offered, missed, edit, reshaped, touched, runs, changes>>

ArchiveFails ==
    /\ run.pc = "type" /\ run.types # {}
    /\ OnToUnits
    /\ flawed' = TRUE
    /\ UNCHANGED <<offered, rows, missed, edit, reshaped, touched, index, runs, changes>>

ThisUnit == CHOOSE u \in run.units : TRUE
OnToNext ==
    LET left == run.units \ {ThisUnit} IN
    run' = [run EXCEPT !.units = left,
                       !.pc = IF left # {} THEN "unit"
                              ELSE IF run.types # {} THEN "type" ELSE "push"]

(* The spaces that may be found for a unit: of several the last the        *)
(* database returned, in no order.                                         *)
Matches(u) == {i \in 1..MaxRows : run.had[i].unit = u /\ u \notin Inexact}
FreeRows == {i \in 1..MaxRows : rows[i] = NoRow}

(* spaceService.create: the message leaves with the INSERT.                *)
InsertSpace ==
    /\ run.pc = "unit" /\ Matches(ThisUnit) = {} /\ FreeRows # {}
    /\ run' = [run EXCEPT !.pc = "commit"]
    /\ Told
    /\ UNCHANGED <<offered, rows, flawed, missed, edit, reshaped, touched, runs, changes>>

CommitSpace ==
    /\ run.pc = "commit"
    /\ LET i == CHOOSE j \in FreeRows : TRUE
           offer == run.seen[ThisUnit] IN
       rows' = [rows EXCEPT ![i] = [unit |-> ThisUnit, status |-> "ACTIVE", stock |-> offer,
                                    price |-> offer]]
    /\ OnToNext /\ ShownUnread
    /\ UNCHANGED <<offered, flawed, missed, edit, reshaped, touched, runs, changes>>

(* The unit is skipped and the run goes on.                                *)
CreateFails ==
    /\ run.pc = "commit" \/ (run.pc = "unit" /\ Matches(ThisUnit) = {})
    /\ OnToNext /\ flawed' = TRUE
    /\ UNCHANGED <<offered, rows, missed, edit, reshaped, touched, index, runs, changes>>

(* space.save writes the columns that differ from what the run read, and   *)
(* tells the index only if there are any; the price is written whatever it *)
(* is and tells nobody; each may fail without the other.                   *)
UpdateSpace(i, saved, priced, told) ==
    /\ run.pc = "unit" /\ i \in Matches(ThisUnit) /\ ~Locked(i)
    /\ LET offer == run.seen[ThisUnit]
           wrote == saved /\ run.had[i].stock # offer IN
       /\ rows' = [rows EXCEPT ![i].stock = IF wrote THEN offer ELSE @,
                               ![i].price = IF priced THEN offer ELSE @]
       /\ flawed' = (flawed \/ ~saved \/ ~priced \/ (wrote /\ ~told))
       /\ Shown(wrote /\ told)
    /\ OnToNext
    /\ UNCHANGED <<offered, missed, edit, reshaped, touched, runs, changes>>

(* The message for every site at the end of a run.                         *)
PushSite ==
    /\ run.pc = "push"
    /\ run' = [run EXCEPT !.pc = "over", !.had = Off.had]
    /\ Told
    /\ UNCHANGED <<offered, rows, flawed, missed, edit, reshaped, touched, runs, changes>>

PushFails ==
    /\ run.pc = "push"
    /\ run' = [run EXCEPT !.pc = "over", !.had = Off.had]
    /\ flawed' = TRUE
    /\ UNCHANGED <<offered, rows, missed, edit, reshaped, touched, index, runs, changes>>

-----------------------------------------------------------------------------
(* The host                                                                *)

(* updateSpace, of any space, up to its UPDATE: units in stock and price,  *)
(* if they are given, and with both sides a size, which for all that the   *)
(* job knows is that of a unit of the type.                                *)
OpenEdit(i, u, s, p) ==
    /\ edit.pc = "idle" /\ changes < MaxChanges
    /\ rows[i].status \in {"ACTIVE", "ARCHIVED"} /\ TypeOf[u] = TypeOf[rows[i].unit]
    /\ edit' = [pc |-> "open", row |-> i, unit |-> u, stock |-> s, price |-> p]
    /\ changes' = changes + 1
    /\ Told
    /\ UNCHANGED <<offered, rows, run, flawed, missed, reshaped, touched, runs>>

CommitEdit ==
    /\ edit.pc = "open"
    /\ rows' = [rows EXCEPT ![edit.row].unit = edit.unit,
                            ![edit.row].stock = IF edit.stock # Nothing THEN edit.stock ELSE @,
                            ![edit.row].price = IF edit.price # Nothing THEN edit.price ELSE @]
    /\ reshaped' = reshaped \cup ({edit.unit} \ {rows[edit.row].unit})
    /\ edit' = NoEdit /\ touched' = TRUE /\ ShownUnread
    /\ UNCHANGED <<offered, run, flawed, missed, runs, changes>>

EditFails ==
    /\ edit.pc = "open"
    /\ edit' = NoEdit
    /\ UNCHANGED <<offered, rows, run, flawed, missed, reshaped, touched, index, runs, changes>>

(* A space that is not ACTIVE may be deleted.                              *)
DeleteSpace(i, told) ==
    /\ rows[i].status = "ARCHIVED" /\ ~Locked(i)
    /\ rows' = [rows EXCEPT ![i] = [NoRow EXCEPT !.status = "DELETED"]]
    /\ touched' = TRUE /\ Shown(told)
    /\ UNCHANGED <<offered, run, flawed, missed, edit, reshaped, runs, changes>>

Next ==
    \/ \E u \in Units, o \in Offer : ProviderChanges(u, o)
    \/ IndexReads \/ ResyncIndex
    \/ StartRun \/ ArchiveFails \/ InsertSpace \/ CommitSpace \/ CreateFails
    \/ PushSite \/ PushFails
    \/ \E told \in BOOLEAN : ArchiveType(told)
    \/ \E i \in 1..MaxRows :
          \/ \E saved, priced, told \in BOOLEAN : UpdateSpace(i, saved, priced, told)
          \/ \E u \in Units, s, p \in Offer : OpenEdit(i, u, s, p)
          \/ \E told \in BOOLEAN : DeleteSpace(i, told)
    \/ CommitEdit \/ EditFails

Spec == Init /\ [][Next]_stockVars

-----------------------------------------------------------------------------
(* After a run of which no step failed, and if no host wrote meanwhile,    *)
(* each unit the provider listed has one space that is for sale, with its  *)
(* stock and its price, whatever runs were killed or failed before, unless *)
(* a host had given another space its size; every other space is of a type *)
(* the provider lists no unit of, and stays for sale (263, 278-288).  A    *)
(* space is archived only if its unit was missing once, or has an area     *)
(* whose rounding hides it (282, 338), or its size is a host's.            *)
SpacesFollow ==
    /\ run.pc = "over" /\ ~flawed /\ ~touched =>
          /\ \A u \in SeenUnits \ reshaped :
                \E i \in 1..MaxRows :
                   /\ {j \in 1..MaxRows : Live(j) /\ rows[j].unit = u} = {i}
                   /\ rows[i].stock = run.seen[u] /\ rows[i].price = run.seen[u]
          /\ \A i \in 1..MaxRows :
                Live(i) => \/ rows[i].unit \in SeenUnits
                           \/ \A u \in SeenUnits : TypeOf[u] # TypeOf[rows[i].unit]
    /\ \A i \in 1..MaxRows :
          rows[i].status = "ARCHIVED" => rows[i].unit \in missed \cup Inexact \cup reshaped

(* The index is behind the spaces with no message on its way only if it    *)
(* read them before the COMMIT of a change it was told of (db.hooks.ts     *)
(* 31-75), or was told of a change by nobody; and a run of which no step   *)
(* failed leaves no such change, though its prices tell nobody (384).      *)
IndexFollows ==
    /\ ~fresh /\ ~queued => early \/ untold
    /\ run.pc = "over" /\ ~flawed /\ ~touched => ~untold
=============================================================================
