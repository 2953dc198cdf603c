---------------------------------- MODULE Sites ----------------------------------
(***************************************************************************)
(* A site and its review (sites/sites/site.service.ts): a host names and   *)
(* describes it, an administrator looks at what the host wrote and lists   *)
(* it, and a host may unlist it and list it again.  The first address also *)
(* gives the site the default taxes of its country.  Its description and   *)
(* floor go unreviewed and are left out: content is the rest.              *)
(*                                                                         *)
(* An update reads the site, checks what it read, and writes later, in its *)
(* transaction, only the columns that differ from what it read.            *)
(***************************************************************************)
EXTENDS Integers

CONSTANTS
    Updates,        \* updateSite requests, numbered in the order they arrive
    Asked           \* statuses a payload names in the instance

SiteStatus == {"DRAFT", "REJECTED", "READY_TO_REVIEW", "ACTIVE", "INACTIVE"}
Unasked == "none"
Edits == {"nothing", "name", "address"}     \* images are edited like a name

VARIABLES
    site,           \* [status, content, taxes]: content is the update that wrote it,
                    \* 0 for what the site was created with; taxes counts its sets
    update,         \* [Updates -> [pc, admin, status, edits, saw, content, taxed]]
    approved,       \* contents an administrator has listed
    rested,         \* contents the site was INACTIVE with for a time
    listed,         \* the update that wrote the status last
    met             \* pairs of updates that ran at the same time

siteVars == <<site, update, approved, rested, listed, met>>

TypeOK ==
    /\ site \in [status: SiteStatus, content: Updates \cup {0}, taxes: Nat]
    /\ update \in [Updates -> [pc: {"idle", "read", "done"}, admin: BOOLEAN,
                               status: Asked \cup {Unasked}, edits: Edits,
                               saw: SiteStatus \cup {Unasked},
                               content: Updates \cup {0}, taxed: BOOLEAN]]
    /\ approved \subseteq Updates \cup {0} /\ rested \subseteq Updates \cup {0}
    /\ listed \in Updates \cup {0}
    /\ met \subseteq Updates \X Updates

(* What is left of an update that is over.                                 *)
Over(edits) == [pc |-> "done", admin |-> FALSE, status |-> Unasked, edits |-> edits,
                saw |-> Unasked, content |-> 0, taxed |-> FALSE]

(* createSite leaves a DRAFT, the stock synchronisation an INACTIVE site;  *)
(* neither assigns taxes.                                                  *)
Init ==
    /\ \E s \in {"DRAFT", "INACTIVE"} :
          /\ site = [status |-> s, content |-> 0, taxes |-> 0]
          /\ rested = IF s = "INACTIVE" THEN {0} ELSE {}
    /\ update = [u \in Updates |-> [Over("nothing") EXCEPT !.pc = "idle"]]
    /\ approved = {} /\ listed = 0 /\ met = {}

UnderWay == {u \in Updates : update[u].pc = "read"}

(* A host asks for three of the statuses, and for ACTIVE of an INACTIVE    *)
(* site only.                                                              *)
Allowed(admin, s, saw) ==
    \/ admin
    \/ s \in {Unasked, "INACTIVE", "READY_TO_REVIEW"}
    \/ s = "ACTIVE" /\ saw = "INACTIVE"

(* findByPk, the checks, and the look at the site's taxes.                 *)
Read(u, admin, s, edits) ==
    /\ update[u].pc = "idle" /\ \A v \in Updates : v < u => update[v].pc # "idle"
    /\ Allowed(admin, s, site.status)
    /\ update' = [update EXCEPT ![u] =
          [pc |-> "read", admin |-> admin, status |-> s, edits |-> edits,
           saw |-> site.status, content |-> site.content, taxed |-> site.taxes > 0]]
    /\ met' = met \cup ({u} \X UnderWay) \cup (UnderWay \X {u})
    /\ UNCHANGED <<site, approved, rested, listed>>

(* The status asked for, and only then the review.                         *)
Wanted_AskedFirst(q) ==
    IF q.status # Unasked THEN q.status
    ELSE IF q.edits # "nothing" THEN "READY_TO_REVIEW" ELSE q.saw

(* A new name, image or address goes to review, whatever else was asked    *)
(* and whoever asks.                                                       *)
Wanted(q) ==
    IF q.edits # "nothing" THEN "READY_TO_REVIEW"
    ELSE IF q.status # Unasked THEN q.status ELSE q.saw

(* site.save and COMMIT.                                                   *)
Write(u) ==
    LET q == update[u]
        writes == Wanted(q) # q.saw IN
    /\ q.pc = "read"
    /\ site' = [status  |-> IF writes THEN Wanted(q) ELSE site.status,
                content |-> IF q.edits # "nothing" THEN u ELSE site.content,
                taxes   |-> IF q.edits = "address" /\ ~q.taxed THEN site.taxes + 1
                            ELSE site.taxes]
    /\ listed' = IF writes THEN u ELSE listed
    /\ approved' = IF writes /\ q.admin /\ Wanted(q) = "ACTIVE"
                   THEN approved \cup {q.content} ELSE approved
    /\ rested' = IF site'.status = "INACTIVE" THEN rested \cup {site'.content} ELSE rested
    /\ update' = [update EXCEPT ![u] = Over(q.edits)]
    /\ UNCHANGED met

Fails(u) ==
    /\ update[u].pc = "read"
    /\ update' = [update EXCEPT ![u] = Over("nothing")]
    /\ UNCHANGED <<site, approved, rested, listed, met>>

Next ==
    \E u \in Updates :
       \/ \E admin \in BOOLEAN, s \in Asked \cup {Unasked}, edits \in Edits :
             Read(u, admin, s, edits)
       \/ Write(u) \/ Fails(u)

Spec == Init /\ [][Next]_siteVars

-----------------------------------------------------------------------------
(* A site is shown to customers with a name, images and an address that an *)
(* administrator has seen: a new one goes to review (552-609).  Otherwise  *)
(* the host made it INACTIVE and then ACTIVE again, which is not reviewed  *)
(* (535-544), or the update that wrote it and the one that listed the site *)
(* ran at the same time.  And a site has the taxes of its country once     *)
(* (719-755), unless two updates of its address ran at the same time.      *)
ListedAsReviewed ==
    /\ site.status = "ACTIVE" =>
          site.content \in approved \cup rested \/ <<site.content, listed>> \in met
    /\ site.taxes > 1 =>
          \E u, v \in Updates : <<u, v>> \in met
              /\ update[u].edits = "address" /\ update[v].edits = "address"
=============================================================================
