------------------------------- MODULE Features -------------------------------
(***************************************************************************)
(* The lists a row carries along: the features, rules and policies of a    *)
(* site, the features of a space, and what a booking copies of both.  All  *)
(* are kept by an upsert that reads the rows there are, inserts those that *)
(* are missing and deletes those nobody asked for, inside the transaction  *)
(* of its caller:                                                          *)
(*                                                                         *)
(*   sites/sites/site.service.ts         create, update                    *)
(*   spaces/spaces/space.service.ts      create, update                    *)
(*   bookings/booking.service.ts         create                            *)
(*                                                                         *)
(* The rows are read outside the transaction.  The upserts of a site wait  *)
(* for their INSERTs; those of a space and of a booking push the array of  *)
(* promises as one element (space-feature.service.ts 51), so that nobody   *)
(* waits for an INSERT: PostgreSQL has then aborted the transaction and    *)
(* answers its COMMIT with a ROLLBACK that is no error.                    *)
(***************************************************************************)
EXTENDS FiniteSets

CONSTANTS
    Requests,       \* the calls
    Rules, Policies, Features,      \* ids a caller may ask for
    Unknown                         \* those of them the platform does not have

Kinds == {"site", "new site", "space", "new space", "copy"}
Ids == Rules \cup Policies \cup Features

VARIABLES
    kind,           \* what each request is
    lists,          \* the lists each was given: an update may leave some out
    wanted,         \* what each asks for in them
    rows,           \* committed rows [of, id, by]
    seen,           \* the features each request read
    put,            \* rows each has inserted and not committed
    gone,           \* rows each has deleted and not committed
    aborted,        \* requests whose transaction PostgreSQL has aborted
    pc,             \* "idle", "read", "written", "saved", "committed", "ok", "error"
    applied,        \* ghost: requests whose rows were committed
    late,           \* ghost: requests whose error came after their COMMIT
    last,           \* ghost: the features last committed for an entity
    overlapped      \* ghost: entities two requests changed at once

asked == <<kind, lists, wanted>>
vars == <<asked, rows, seen, put, gone, aborted, pc, applied, late, last, overlapped>>

(* A request for a site or space that is there is about the same row as    *)
(* the others; what is created is new.                                     *)
Entity(r) == IF kind[r] \in {"site", "space"} THEN kind[r] ELSE r
Entities == {"site", "space"} \cup Requests
Row == [of: Entities, id: Ids, by: Requests]

TypeOK ==
    /\ kind \in [Requests -> Kinds] /\ wanted \in [Requests -> SUBSET Ids]
    /\ lists \in [Requests -> SUBSET {Rules, Policies, Features}]
    /\ rows \subseteq Row
    /\ seen \in [Requests -> SUBSET Ids]
    /\ \A r \in Requests : put[r] \subseteq Row /\ gone[r] \subseteq Row
    /\ pc \in [Requests -> {"idle", "read", "written", "saved", "committed", "ok", "error"}]
    /\ aborted \cup applied \cup late \subseteq Requests
    /\ last \in [Entities -> SUBSET Ids]
    /\ overlapped \subseteq Entities

(* A site is created with all lists and updated with some, a space and a   *)
(* booking have features only; what a booking copies the platform has.     *)
Listed(k) ==
    CASE k = "site"     -> SUBSET {Rules, Policies, Features} \ {{}}
      [] k = "new site" -> {{Rules, Policies, Features}}
      [] OTHER          -> {{Features}}

Init ==
    /\ kind \in [Requests -> Kinds]
    /\ lists \in [Requests -> SUBSET {Rules, Policies, Features}]
    /\ \A r \in Requests : lists[r] \in Listed(kind[r])
    /\ wanted \in [Requests -> SUBSET Ids]
    /\ \A r \in Requests : wanted[r] \subseteq UNION lists[r]
    /\ \A r \in Requests : kind[r] = "copy" => wanted[r] \cap Unknown = {}
    /\ rows = {}
    /\ seen = [r \in Requests |-> {}]
    /\ put = [r \in Requests |-> {}]
    /\ gone = [r \in Requests |-> {}]
    /\ aborted = {}
    /\ pc = [r \in Requests |-> "idle"]
    /\ applied = {}
    /\ late = {}
    /\ last = [e \in Entities |-> {}]
    /\ overlapped = {}

-----------------------------------------------------------------------------
Running(r) == pc[r] \in {"read", "written", "saved"}

RowsOf(e) == {row \in rows : row.of = e}
FeaturesOf(e) == {row.id : row \in RowsOf(e)}

(* What is not there is inserted, what was not asked for is deleted, list  *)
(* by list and by a service each.                                          *)
Inserted(r, list) == IF list \in lists[r] THEN (wanted[r] \cap list) \ seen[r] ELSE {}
RulesInserted(r) == Inserted(r, Rules)
PoliciesInserted(r) == Inserted(r, Policies)
FeaturesInserted(r) == Inserted(r, Features)
Missing(r) == RulesInserted(r) \cup PoliciesInserted(r) \cup FeaturesInserted(r)
Unwanted(r) ==
    {row \in RowsOf(Entity(r)) : row.id \in (UNION lists[r]) \ wanted[r]}

(* A slip: the upserts of a site are written as those of a space.          *)
InsertsAwaited_Never(r) == FALSE

(* Whether the upsert waits for its INSERTs: those of a site do.           *)
InsertsAwaited(r) == kind[r] \in {"site", "new site"}

Refused(r) == Missing(r) \cap Unknown # {}

(* findAll() has no transaction: it sees what is committed.  Whoever else  *)
(* is changing the entity overlaps.                                        *)
Read(r) ==
    /\ pc[r] = "idle"
    /\ seen' = [seen EXCEPT ![r] = FeaturesOf(Entity(r))]
    /\ pc' = [pc EXCEPT ![r] = "read"]
    /\ overlapped' =
          IF \E s \in Requests \ {r} : Entity(s) = Entity(r) /\ Running(s)
          THEN overlapped \cup {Entity(r)} ELSE overlapped
    /\ UNCHANGED <<asked, rows, put, gone, aborted, applied, late, last>>

(* The DELETE waits for another request that deletes the same rows.        *)
MayDelete(r) ==
    \A s \in Requests \ {r} : gone[s] \cap Unwanted(r) = {}

Write(r) ==
    /\ pc[r] = "read" /\ ~Refused(r) /\ MayDelete(r)
    /\ put' = [put EXCEPT ![r] =
          {[of |-> Entity(r), id |-> i, by |-> r] : i \in Missing(r)}]
    /\ gone' = [gone EXCEPT ![r] = Unwanted(r)]
    /\ pc' = [pc EXCEPT ![r] = "written"]
    /\ UNCHANGED <<asked, rows, seen, aborted, applied, late, last, overlapped>>

(* An INSERT is refused, and the caller hears of it: it was waited for, or *)
(* it failed before the DELETE, which then fails too.                      *)
WriteRefused(r) ==
    /\ pc[r] = "read" /\ Refused(r)
    /\ pc' = [pc EXCEPT ![r] = "error"]
    /\ UNCHANGED <<asked, rows, seen, put, gone, aborted, applied, late, last, overlapped>>

(* An INSERT is refused after the DELETE, and nobody hears of it.          *)
WriteAborted(r) ==
    /\ pc[r] = "read" /\ Refused(r) /\ ~InsertsAwaited(r) /\ MayDelete(r)
    /\ aborted' = aborted \cup {r}
    /\ pc' = [pc EXCEPT ![r] = "written"]
    /\ UNCHANGED <<asked, rows, seen, put, gone, applied, late, last, overlapped>>

-----------------------------------------------------------------------------
(* What each caller does with the lists.                                   *)

Upsert(r) == Read(r) \/ Write(r) \/ WriteRefused(r) \/ WriteAborted(r)

(* SiteService.create and update: the lists together, and COMMIT.          *)
CreateSite(r) == kind[r] = "new site" /\ Upsert(r)
UpdateSite(r) == kind[r] = "site" /\ Upsert(r)

CreateSpace(r) == kind[r] = "new space" /\ Upsert(r)

(* SpaceService.update still writes the space: in an aborted transaction   *)
(* that is an error.  The space's row is locked until the transaction      *)
(* ends.                                                                   *)
SaveSpace(r) ==
    /\ pc[r] = "written"
    /\ IF r \in aborted
       THEN pc' = [pc EXCEPT ![r] = "error"]
       ELSE /\ \A s \in Requests \ {r} : Entity(s) = Entity(r) => pc[s] # "saved"
            /\ pc' = [pc EXCEPT ![r] = "saved"]
    /\ put' = [put EXCEPT ![r] = IF r \in aborted THEN {} ELSE @]
    /\ gone' = [gone EXCEPT ![r] = IF r \in aborted THEN {} ELSE @]
    /\ UNCHANGED <<asked, rows, seen, aborted, applied, late, last, overlapped>>

UpdateSpace(r) == kind[r] = "space" /\ (Upsert(r) \/ SaveSpace(r))

(* BookingService.create copies the features of the space and the site.    *)
CopyToBooking(r) == kind[r] = "copy" /\ Upsert(r)

(* The COMMIT of an aborted transaction is answered, and changes nothing.  *)
Committed(r) == r \notin aborted

Commit(r) ==
    /\ pc[r] = (IF kind[r] = "space" THEN "saved" ELSE "written")
    /\ pc' = [pc EXCEPT ![r] = "committed"]
    /\ IF Committed(r)
       THEN /\ rows' = (rows \ gone[r]) \cup put[r]
            /\ applied' = applied \cup {r}
            /\ last' = [last EXCEPT ![Entity(r)] = (@ \ UNION lists[r]) \cup wanted[r]]
       ELSE UNCHANGED <<rows, applied, last>>
    /\ put' = [put EXCEPT ![r] = {}]
    /\ gone' = [gone EXCEPT ![r] = {}]
    /\ UNCHANGED <<asked, seen, aborted, late, overlapped>>

(* After COMMIT, still inside the try of a space and a site, rows are read *)
(* for the answer: a new space that was never committed is not found, and  *)
(* a read may fail.  The catch then rolls a finished transaction back,     *)
(* which throws, and the caller is told of a failure.                      *)
Found(r) == kind[r] = "new space" => r \notin aborted

Answer(r) ==
    /\ pc[r] = "committed" /\ Found(r)
    /\ pc' = [pc EXCEPT ![r] = "ok"]
    /\ UNCHANGED <<asked, rows, seen, put, gone, aborted, applied, late, last, overlapped>>

AnswerFails(r) ==
    /\ pc[r] = "committed"
    /\ kind[r] # "copy"
    /\ pc' = [pc EXCEPT ![r] = "error"]
    /\ late' = late \cup {r}
    /\ UNCHANGED <<asked, rows, seen, put, gone, aborted, applied, last, overlapped>>

Next ==
    \E r \in Requests :
       \/ CreateSite(r) \/ UpdateSite(r) \/ CreateSpace(r) \/ UpdateSpace(r)
       \/ CopyToBooking(r)
       \/ Commit(r) \/ Answer(r) \/ AnswerFails(r)

Spec == Init /\ [][Next]_vars

-----------------------------------------------------------------------------
(* The code relied on by name.                                             *)

(* Whoever is told of a success has his rows committed, though nobody      *)
(* waited for the INSERTs of a space (space-feature.service.ts 51): a      *)
(* refused one is heard of by the UPDATE after it (space.service.ts 700)   *)
(* or by reading the new space again (648).  Whoever is told of an error   *)
(* left nothing, unless the error came after COMMIT.                       *)
AnsweredTruly ==
    \A r \in Requests :
       /\ pc[r] = "ok" => r \in applied
       /\ pc[r] = "error" /\ r \in applied => r \in late

(* An entity has the features last asked for, each once, unless two        *)
(* requests changed it at once: nothing in the tables keeps a feature from *)
(* being there twice (space-feature.service.ts 31-45).                     *)
FeaturesAsAsked ==
    \A e \in Entities \ overlapped :
       /\ FeaturesOf(e) = last[e]
       /\ Cardinality(RowsOf(e)) = Cardinality(last[e])
=============================================================================
