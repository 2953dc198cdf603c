-------------------------------- MODULE SiteSync --------------------------------
(***************************************************************************)
(* The frame of the job that copies third parties' stock, around what      *)
(* StockSync does within a site (cron-job/sitelink-stock-sync/             *)
(* sitelink-sync.cron.ts 39-237, 412-456): for each store in turn it logs  *)
(* in, lists the store's sites, creates those that have no row yet, logs   *)
(* in again and reads the units of each, and tells the index of all.       *)
(*                                                                         *)
(* A run is started every quarter of an hour and takes the place of one    *)
(* that is not over, which is killed.  What fails for a store leaves the   *)
(* next one alone, what fails for a site the next site.                    *)
(***************************************************************************)
EXTENDS Integers, FiniteSets, Sequences

CONSTANTS
    Stores,         \* a sequence: the stores in the order of the job
    Sites,          \* the third parties' sites, each of one store
    StoreOf,        \* [Sites -> store]
    MaxRuns         \* runs of the job

VARIABLES
    listed,         \* the sites the stores list now
    rows,           \* [Sites -> Nat]: our rows with the third party's id
    pc,             \* where the run is
    store,          \* the index in Stores of the store the run is at
    seen,           \* the sites the stores listed to this run
    todo,           \* sites to create, and then sites to visit
    all,            \* sites of this store the run has a row of
    visited,        \* ghost: sites whose units this run read
    flawed,         \* ghost: something failed in this run
    runs            \* count, for the bound

vars == <<listed, rows, pc, store, seen, todo, all, visited, flawed, runs>>

TypeOK ==
    /\ listed \subseteq Sites /\ rows \in [Sites -> Nat]
    /\ pc \in {"off", "login", "lists", "create", "made", "visit", "push", "over"}
    /\ store \in 1..Len(Stores)
    /\ seen \cup todo \cup all \cup visited \subseteq Sites
    /\ flawed \in BOOLEAN /\ runs \in 0..MaxRuns

Init ==
    /\ listed \in SUBSET Sites /\ rows = [s \in Sites |-> 0]
    /\ pc = "off" /\ store = 1 /\ seen = {} /\ todo = {} /\ all = {}
    /\ visited = {} /\ flawed = FALSE /\ runs = 0

-----------------------------------------------------------------------------
(* A third party opens a site, or closes it.                               *)
Lists(s) ==
    /\ listed' = IF s \in listed THEN listed \ {s} ELSE listed \cup {s}
    /\ UNCHANGED <<rows, pc, store, seen, todo, all, visited, flawed, runs>>

StartRun ==
    /\ runs < MaxRuns
    /\ runs' = runs + 1
    /\ pc' = "login" /\ store' = 1 /\ seen' = {} /\ todo' = {} /\ all' = {}
    /\ visited' = {} /\ flawed' = FALSE
    /\ UNCHANGED <<listed, rows>>

(* The next store, or the end of the process.                              *)
NextStore ==
    /\ pc' = IF store < Len(Stores) THEN "login" ELSE "over"
    /\ store' = IF store < Len(Stores) THEN store + 1 ELSE store
    /\ todo' = {} /\ all' = {}

Login ==
    /\ pc = "login" /\ pc' = "lists"
    /\ UNCHANGED <<listed, rows, store, seen, todo, all, visited, flawed, runs>>

(* The sites of the store, ours with their ids, and the difference.  The   *)
(* user and the property type that new sites need are there.               *)
Missing(s) == rows[s] = 0

ReadLists ==
    /\ pc = "lists"
    /\ LET found == {s \in listed : StoreOf[s] = Stores[store]} IN
       /\ seen' = seen \cup found
       /\ all' = {s \in found : ~Missing(s)}
       /\ todo' = {s \in found : Missing(s)}
    /\ pc' = "create"
    /\ UNCHANGED <<listed, rows, store, visited, flawed, runs>>

(* No login, no list, no user, no property type, or a message that is not  *)
(* taken: the store is given up.                                           *)
StoreFails ==
    /\ pc \in {"login", "lists", "push"}
    /\ NextStore
    /\ flawed' = TRUE
    /\ UNCHANGED <<listed, rows, seen, visited, runs>>

ThisSite == CHOOSE s \in todo : TRUE

(* siteService.create, whose COMMIT is a step before its answer.           *)
CreateSite ==
    /\ pc = "create" /\ todo # {}
    /\ rows' = [rows EXCEPT ![ThisSite] = @ + 1]
    /\ pc' = "made"
    /\ UNCHANGED <<listed, store, seen, todo, all, visited, flawed, runs>>

Made ==
    /\ pc = "made"
    /\ all' = all \cup {ThisSite} /\ todo' = todo \ {ThisSite}
    /\ pc' = "create"
    /\ UNCHANGED <<listed, rows, store, seen, visited, flawed, runs>>

(* The create fails before its COMMIT or after it: the run goes on without *)
(* the site.                                                               *)
CreateFails ==
    /\ pc = "made" \/ (pc = "create" /\ todo # {})
    /\ todo' = todo \ {ThisSite}
    /\ pc' = "create" /\ flawed' = TRUE
    /\ UNCHANGED <<listed, rows, store, seen, all, visited, runs>>

StartVisits ==
    /\ pc = "create" /\ todo = {}
    /\ pc' = "visit" /\ todo' = all
    /\ UNCHANGED <<listed, rows, store, seen, all, visited, flawed, runs>>

(* Log in again, read our spaces and their units, and do what StockSync    *)
(* does with them.                                                         *)
VisitSite ==
    /\ pc = "visit" /\ todo # {}
    /\ todo' = todo \ {ThisSite} /\ visited' = visited \cup {ThisSite}
    /\ UNCHANGED <<listed, rows, pc, store, seen, all, flawed, runs>>

VisitFails ==
    /\ pc = "visit" /\ todo # {}
    /\ todo' = todo \ {ThisSite} /\ flawed' = TRUE
    /\ UNCHANGED <<listed, rows, pc, store, seen, all, visited, runs>>

EndVisits ==
    /\ pc = "visit" /\ todo = {} /\ pc' = "push"
    /\ UNCHANGED <<listed, rows, store, seen, todo, all, visited, flawed, runs>>

PushSites ==
    /\ pc = "push"
    /\ NextStore
    /\ UNCHANGED <<listed, rows, seen, visited, flawed, runs>>

Next ==
    \/ \E s \in Sites : Lists(s)
    \/ StartRun \/ Login \/ ReadLists \/ StoreFails
    \/ CreateSite \/ Made \/ CreateFails \/ StartVisits
    \/ VisitSite \/ VisitFails \/ EndVisits \/ PushSites

Spec == Init /\ [][Next]_vars

-----------------------------------------------------------------------------
(* A third party's site has one row of ours, however many runs were killed *)
(* between the COMMIT of a site and its answer, or failed after it: the    *)
(* next run finds it by its id (113, 165-171).  And a run without a        *)
(* failure has read the units of every site the stores listed to it, new   *)
(* ones included, and of no other: a site that a store no longer lists     *)
(* keeps its spaces as they are (113, 216).                                *)
SitesFollow ==
    /\ \A s \in Sites : rows[s] <= 1
    /\ visited \subseteq {s \in seen : rows[s] = 1}
    /\ pc = "over" /\ ~flawed => seen = visited
=============================================================================
