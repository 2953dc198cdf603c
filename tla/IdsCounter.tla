----------------------------- MODULE IdsCounter -----------------------------
(***************************************************************************)
(* The short-id generator: src/src/ids_counter/ids_counter.service.ts.     *)
(*                                                                         *)
(* Every booking, order, transaction and invoice gets a human readable id  *)
(* from one counter row per type.  createUpdateCounter first runs an       *)
(* UPDATE ... SET last_id = last_id + 1 RETURNING * and only when that     *)
(* returned no row inserts one with last_id = 1.  The two statements are   *)
(* two awaits outside any transaction, so concurrent first callers may     *)
(* both find no row; the unique index on "type" lets one INSERT through    *)
(* and the other caller gets an error.  A caller may die or drop the id it *)
(* was given at any point: ids are never handed back.                      *)
(***************************************************************************)
EXTENDS Integers

CONSTANTS
    Callers,    \* calls of generate...Id, each made once
    CallType,   \* the counter each call is for: [Callers -> Types]
    Base        \* what getLongId adds for NODE_ENV (700000, 800000, 900000)

Types == {"BOOKING", "ORDER", "TRANSACTION", "INVOICE"}

ASSUME CallsAssumption == CallType \in [Callers -> Types]
ASSUME BaseAssumption == Base \in Nat

VARIABLES
    row,    \* the ids_counter table: last_id of each type, 0 when there is no row
    pc,     \* where each call is
    given   \* the last_id each finished call computed its id from

vars == <<row, pc, given>>

-----------------------------------------------------------------------------
Prefix(type) ==
    CASE type = "BOOKING"     -> ""
      [] type = "ORDER"       -> "OR_"
      [] type = "TRANSACTION" -> "TR_"
      [] type = "INVOICE"     -> "SND-"

(* The id a call returns: an invoice number starts at 100000 in every      *)
(* environment, the others at the base of the environment.                 *)
Offset(type) == IF type = "INVOICE" THEN 100000 ELSE Base

GetLongId(n, type) == [prefix |-> Prefix(type), number |-> Offset(type) + n]

LongId(c) == GetLongId(given[c], CallType[c])

-----------------------------------------------------------------------------
Init ==
    /\ row = [type \in Types |-> 0]
    /\ pc = [c \in Callers |-> "start"]
    /\ given = [c \in Callers |-> 0]

(* An increment that writes back what it read before adding.               *)
Bumped_Stale(n) == n

(* An increment with the wrong sign.                                       *)
Bumped_Down(n) == n - 1

(* The increment is one UPDATE: reading and writing last_id are atomic.    *)
Bumped(n) == n + 1

Increment(c) ==
    /\ pc[c] = "start"
    /\ row[CallType[c]] > 0
    /\ row' = [row EXCEPT ![CallType[c]] = Bumped(@)]
    /\ given' = [given EXCEPT ![c] = Bumped(row[CallType[c]])]
    /\ pc' = [pc EXCEPT ![c] = "done"]

FindsNoRow(c) ==
    /\ pc[c] = "start"
    /\ row[CallType[c]] = 0
    /\ pc' = [pc EXCEPT ![c] = "inserting"]
    /\ UNCHANGED <<row, given>>

(* The same INSERT without the unique index: it always goes through.       *)
RowAbsent_NoUniqueIndex(type) == row[type] \in Nat

(* What the unique index on "type" demands of an INSERT.                   *)
RowAbsent(type) == row[type] = 0

InsertFirst(c) ==
    /\ pc[c] = "inserting"
    /\ RowAbsent(CallType[c])
    /\ row' = [row EXCEPT ![CallType[c]] = 1]
    /\ given' = [given EXCEPT ![c] = 1]
    /\ pc' = [pc EXCEPT ![c] = "done"]

InsertRejected(c) ==
    /\ pc[c] = "inserting"
    /\ ~RowAbsent(CallType[c])
    /\ pc' = [pc EXCEPT ![c] = "failed"]
    /\ UNCHANGED <<row, given>>

(* The database is unreachable, or the process ends: the call returns no   *)
(* id.  The UPDATE may have been applied, in which case a number is lost.  *)
CallLost(c) ==
    /\ pc[c] \in {"start", "inserting"}
    /\ pc' = [pc EXCEPT ![c] = "failed"]
    /\ \/ UNCHANGED row
       \/ /\ pc[c] = "start"
          /\ row[CallType[c]] > 0
          /\ row' = [row EXCEPT ![CallType[c]] = Bumped(@)]
       \/ /\ pc[c] = "inserting"
          /\ RowAbsent(CallType[c])
          /\ row' = [row EXCEPT ![CallType[c]] = 1]
    /\ UNCHANGED given

Next ==
    \E c \in Callers :
        \/ Increment(c)
        \/ FindsNoRow(c)
        \/ InsertFirst(c)
        \/ InsertRejected(c)
        \/ CallLost(c)

Spec == Init /\ [][Next]_vars

-----------------------------------------------------------------------------
TypeOK ==
    /\ row \in [Types -> Nat]
    /\ pc \in [Callers -> {"start", "inserting", "done", "failed"}]
    /\ given \in [Callers -> Nat]
    /\ \A c \in Callers : pc[c] = "done" => given[c] > 0

(* No id is ever given out twice: two calls that returned one, for the     *)
(* same counter or for different ones, returned different ids.  (getLongId *)
(* and createUpdateCounter, ids_counter.service.ts:66-111.)                *)
UniqueIds ==
    \A c, d \in Callers :
        /\ pc[c] = "done"
        /\ pc[d] = "done"
        /\ c # d
        => LongId(c) # LongId(d)

(* Every number that was given is covered by the stored counter, and no    *)
(* two calls share one: what makes UniqueIds inductive.                    *)
GivenBelowRow ==
    \A c \in Callers :
        pc[c] = "done" => given[c] \in 1..row[CallType[c]]

(* The last_id of a type never goes back, so a number lost with a call is  *)
(* skipped, never given again (ids_counter.service.ts:70-73).              *)
NeverReused ==
    [][\A c \in Callers :
          pc[c] # "done" /\ pc'[c] = "done"
          => /\ given'[c] > row[CallType[c]]
             /\ row'[CallType[c]] = given'[c]]_vars
=============================================================================
