--------------------------------- MODULE Doors ---------------------------------
(***************************************************************************)
(* The doors a booking opens (sites/site-doors/site-door.service.ts): a    *)
(* request finds the booking, asks the controller at the site, and keeps   *)
(* what it answered in the door's history.                                 *)
(***************************************************************************)
CONSTANTS
    Bookings,
    Openings,       \* openDoor requests
    Opens,          \* [Openings -> Bookings \cup {NoBooking}]: the booking named
    NoBooking,      \* an administrator names none
    Doors, DoorAt,  \* [Doors -> Bookings]: the booking whose site the door is at
    Asks            \* [Openings -> Doors]: the door named

VARIABLES
    status,         \* [Bookings -> booking status], as other modules change it
    opening,        \* [Openings -> [pc, active]]; active: at the time it was looked up
    turned,         \* requests the controller has carried out
    history         \* history rows: <<request, action>>

doorVars == <<status, opening, turned, history>>

BookingStatus == {"CONFIRMED", "ACTIVE", "COMPLETED"}
DoorActionType == {"open", "closed"}
SiteDoorHistory == Openings \X DoorActionType

TypeOK ==
    /\ status \in [Bookings -> BookingStatus]
    /\ opening \in [Openings -> [pc: {"idle", "found", "open", "closed", "done", "failed"},
                                 active: BOOLEAN]]
    /\ turned \subseteq Openings
    /\ history \subseteq SiteDoorHistory

Init ==
    /\ status = [b \in Bookings |-> "CONFIRMED"]
    /\ opening = [o \in Openings |-> [pc |-> "idle", active |-> FALSE]]
    /\ turned = {} /\ history = {}

(* A booking begins, and ends.                                             *)
Goes(b) ==
    /\ status[b] # "COMPLETED"
    /\ status' = [status EXCEPT ![b] = IF @ = "CONFIRMED" THEN "ACTIVE" ELSE "COMPLETED"]
    /\ UNCHANGED <<opening, turned, history>>

(* A booking that was paid.                                                *)
MayOpen_Paid(o) ==
    \/ Opens[o] = NoBooking
    \/ status[Opens[o]] \in {"CONFIRMED", "ACTIVE"} /\ DoorAt[Asks[o]] = Opens[o]

(* An ACTIVE booking of the customer, and a door of its site; without a    *)
(* booking, any door.                                                      *)
MayOpen(o) ==
    \/ Opens[o] = NoBooking
    \/ status[Opens[o]] = "ACTIVE" /\ DoorAt[Asks[o]] = Opens[o]

FindDoor(o) ==
    /\ opening[o].pc = "idle"
    /\ opening' = [opening EXCEPT
          ![o] = [pc |-> IF MayOpen(o) THEN "found" ELSE "failed",
                  active |-> Opens[o] # NoBooking /\ status[Opens[o]] = "ACTIVE"]]
    /\ UNCHANGED <<status, turned, history>>

(* The controller opens the door, or closes it, or fails; its answer may   *)
(* be lost.                                                                *)
AskController(o) ==
    /\ opening[o].pc = "found"
    /\ \/ /\ turned' = turned \cup {o}
          /\ \E l \in DoorActionType \cup {"failed"} :
                opening' = [opening EXCEPT ![o].pc = l]
       \/ opening' = [opening EXCEPT ![o].pc = "failed"] /\ UNCHANGED turned
    /\ UNCHANGED <<status, history>>

(* The row names the booking: a request without one fails here, when the   *)
(* door is open.                                                           *)
LogOpening(o) ==
    /\ opening[o].pc \in DoorActionType
    /\ \/ /\ Opens[o] # NoBooking
          /\ history' = history \cup {<<o, opening[o].pc>>}
          /\ opening' = [opening EXCEPT ![o].pc = "done"]
       \/ opening' = [opening EXCEPT ![o].pc = "failed"] /\ UNCHANGED history
    /\ UNCHANGED <<status, turned>>

Next ==
    \/ \E b \in Bookings : Goes(b)
    \/ \E o \in Openings : FindDoor(o) \/ AskController(o) \/ LogOpening(o)

Spec == Init /\ [][Next]_doorVars

-----------------------------------------------------------------------------
(* A door turns only for an administrator, or for a booking that was       *)
(* ACTIVE when the request came, at its own site; who was told that it     *)
(* turned is in the history, and nobody who was not at it is               *)
(* (sites/site-doors/site-door.service.ts 108-201).                        *)
DoorsAreLogged ==
    /\ \A o \in turned :
          Opens[o] # NoBooking => opening[o].active /\ DoorAt[Asks[o]] = Opens[o]
    /\ \A o \in Openings :
          (opening[o].pc = "done") = (\E a \in DoorActionType : <<o, a>> \in history)
    /\ \A h \in history : h[1] \in turned
=============================================================================
