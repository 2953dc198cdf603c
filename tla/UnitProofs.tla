------------------------------ MODULE UnitProofs ------------------------------
(***************************************************************************)
(* Proofs about the unit of a booking: its change (UnitChange), its doors  *)
(* (Doors), the review of its site (Sites), and how the spaces of a third  *)
(* party's sites follow its stock (StockSync, SiteSync, SpaceTypes).       *)
(***************************************************************************)
EXTENDS MCServices, TLAPS

-----------------------------------------------------------------------------
(* The change of a unit                                                    *)

LEMMA MovesFollow == ServicesSpec => Moves!Spec
<1>1. ServicesInit => Moves!Init
  BY DEF ServicesInit
<1>2. [ServicesNext]_servicesVars => [Moves!Next]_(Moves!unitVars)
  BY DEF ServicesNext, servicesVars, moveVars, Moves!unitVars
<1> QED
  BY <1>1, <1>2, PTL DEF ServicesSpec, Moves!Spec

(* A request that goes on has paid a deposit that differs from the old.    *)
MovesPaid ==
    \A c \in MoveRequests : step[c] \in {"paid", "saved"} /\ Moves!NewDeposit(c) =>
        c \in held /\ c \in charged

(* The request brought the booking where it is, and its deposit is kept    *)
(* unless the request was undone after its COMMIT.                         *)
MovedBy(c) ==
    /\ MoveTarget(c) = unit /\ step[c] \in {"committed", "refunding", "done", "undo", "failed"}
    /\ Moves!NewDeposit(c) =>
          c \in entered /\ (c \in unsure \/ (c \in charged /\ step[c] \notin {"undo", "failed"}))

MovesSettled ==
    stale \/ /\ deposit = MovePrice(unit)
             /\ unit = MoveFrom \/ \E c \in MoveRequests : MovedBy(c)

MovesInv == Moves!TypeOK /\ MovesPaid /\ MovesSettled

LEMMA MovesInitially == Moves!Init => MovesInv
<1> SUFFICES ASSUME Moves!Init PROVE MovesInv
  OBVIOUS
<1> USE MovesAssumption DEF Moves!Init
<1>1. MovePrice(MoveFrom) \in Moves!Deposits
  BY DEF Moves!Deposits
<1>2. mishaps \in 0..MoveMishaps
  OBVIOUS
<1>3. Moves!TypeOK
  BY <1>1, <1>2 DEF Moves!TypeOK
<1>4. MovesPaid /\ MovesSettled
  BY DEF MovesPaid, MovesSettled
<1> QED
  BY <1>3, <1>4 DEF MovesInv

LEMMA MovesTypes ==
    ASSUME Moves!TypeOK, Moves!Next
    PROVE  Moves!TypeOK'
<1> USE MovesAssumption DEF Moves!TypeOK, Moves!Goto, Moves!Mishap, Moves!Applied, Moves!Deposits
<1> SUFFICES ASSUME NEW c \in MoveRequests,
                    \/ Moves!Begin(c) \/ Moves!KeepsDeposit(c) \/ Moves!PayDeposit(c)
                    \/ Moves!PayDepositFails(c) \/ Moves!RestOfMonthRefused(c) \/ Moves!Save(c)
                    \/ Moves!Commit(c) \/ Moves!CommitFails(c) \/ Moves!OpenSecond(c)
                    \/ Moves!OpenSecondFails(c) \/ Moves!RefundOld(c)
                    \/ Moves!RefundOldThrows(c) \/ Moves!Undo(c) \/ Moves!UndoFails(c)
             PROVE  Moves!TypeOK'
  BY DEF Moves!Next
<1>1. CASE Moves!Begin(c) \/ Moves!KeepsDeposit(c) \/ Moves!PayDeposit(c)
  BY <1>1 DEF Moves!Begin, Moves!KeepsDeposit, Moves!PayDeposit
<1>2. CASE Moves!PayDepositFails(c) \/ Moves!RestOfMonthRefused(c) \/ Moves!Save(c)
  BY <1>2 DEF Moves!PayDepositFails, Moves!RestOfMonthRefused, Moves!Save
<1>3. CASE Moves!Commit(c)
  BY <1>3 DEF Moves!Commit
<1>4. CASE Moves!CommitFails(c)
  <2>1. mishaps' \in 0..MoveMishaps
    BY <1>4 DEF Moves!CommitFails
  <2>2. saver' = Moves!Nobody /\ step' = [step EXCEPT ![c] = "undo"]
        /\ UNCHANGED <<seen, held, charged, gaveBack, open, lost>>
    BY <1>4 DEF Moves!CommitFails
  <2>3. CASE UNCHANGED <<unit, deposit, entered, stale, unsure>>
    BY <2>1, <2>2, <2>3
  <2>4. CASE Moves!Applied(c) /\ unsure' = unsure \cup {c}
    BY <2>1, <2>2, <2>4
  <2> QED
    BY <1>4, <2>3, <2>4 DEF Moves!CommitFails
<1>5. CASE Moves!OpenSecond(c) \/ Moves!OpenSecondFails(c) \/ Moves!Undo(c) \/ Moves!UndoFails(c)
  BY <1>5 DEF Moves!OpenSecond, Moves!OpenSecondFails, Moves!Undo, Moves!UndoFails
<1>6. CASE Moves!RefundOld(c) \/ Moves!RefundOldThrows(c)
  BY <1>6 DEF Moves!RefundOld, Moves!RefundOldThrows
<1> QED
  BY <1>1, <1>2, <1>3, <1>4, <1>5, <1>6

(* A request that did not move yet is not the one that moved the booking,  *)
(* and the steps of the others leave that one what it has.                 *)
LEMMA MovesKeep ==
    ASSUME MovesInv, NEW c \in MoveRequests, NEW x \in MoveRequests, MovedBy(x),
           seen'[x] = seen[x], unit' = unit, entered \subseteq entered',
           unsure \subseteq unsure', charged \ {c} \subseteq charged',
           x # c => step'[x] = step[x],
           x = c => /\ step'[c] \in {"refunding", "done", "undo", "failed"}
                    /\ \/ c \in unsure'
                       \/ step'[c] \notin {"undo", "failed"} /\ charged \subseteq charged'
                       \/ step[c] \in {"undo", "failed"}
    PROVE  MovedBy(x)'
<1>1. Moves!NewDeposit(x)' <=> Moves!NewDeposit(x)
  BY DEF Moves!NewDeposit
<1>2. CASE x # c
  BY <1>1, <1>2 DEF MovedBy
<1>3. CASE x = c
  BY <1>1, <1>3 DEF MovedBy
<1> QED
  BY <1>2, <1>3

LEMMA MovesSteps ==
    ASSUME MovesInv, Moves!Next, Moves!TypeOK'
    PROVE  MovesInv'
<1> USE DEF MovesInv
<1>1. PICK c \in MoveRequests :
          \/ Moves!Begin(c) \/ Moves!KeepsDeposit(c) \/ Moves!PayDeposit(c)
          \/ Moves!PayDepositFails(c) \/ Moves!RestOfMonthRefused(c) \/ Moves!Save(c)
          \/ Moves!Commit(c) \/ Moves!CommitFails(c) \/ Moves!OpenSecond(c)
          \/ Moves!OpenSecondFails(c) \/ Moves!RefundOld(c)
          \/ Moves!RefundOldThrows(c) \/ Moves!Undo(c) \/ Moves!UndoFails(c)
  BY DEF Moves!Next
<1> DEFINE Steps == {"opened", "paid", "saved", "committed", "refunding", "undo", "done",
                     "failed"}
           Kept == unit' = unit /\ deposit' = deposit /\ entered' = entered /\ stale' = stale
           Writes == Moves!Commit(c) \/ (Moves!CommitFails(c) /\ c \in unsure')
<1>2. \E l \in Steps : step' = [step EXCEPT ![c] = l]
  BY <1>1
     DEF Moves!Begin, Moves!KeepsDeposit, Moves!PayDeposit, Moves!PayDepositFails,
         Moves!RestOfMonthRefused, Moves!Save, Moves!Commit, Moves!CommitFails,
         Moves!OpenSecond, Moves!OpenSecondFails, Moves!RefundOld, Moves!RefundOldThrows,
         Moves!Undo, Moves!UndoFails, Moves!Goto
<1>3. PICK l \in Steps : step' = [step EXCEPT ![c] = l]
  BY <1>2
<1>4. step'[c] = l /\ \A x \in MoveRequests : x # c => step'[x] = step[x]
  BY <1>3 DEF Moves!TypeOK
<1>5. /\ held \subseteq held' /\ charged \ {c} \subseteq charged' /\ unsure \subseteq unsure'
      /\ \A x \in MoveRequests : x # c \/ step[c] # "idle" => seen'[x] = seen[x]
  <2>1. CASE Moves!Begin(c)
    BY <2>1 DEF Moves!Begin, Moves!TypeOK
  <2>2. CASE ~Moves!Begin(c)
    BY <1>1, <2>2
       DEF Moves!KeepsDeposit, Moves!PayDeposit, Moves!PayDepositFails,
           Moves!RestOfMonthRefused, Moves!Save, Moves!Commit, Moves!CommitFails,
           Moves!OpenSecond, Moves!OpenSecondFails, Moves!RefundOld,
           Moves!RefundOldThrows, Moves!Undo, Moves!UndoFails
  <2> QED
    BY <2>1, <2>2
(* What the request that moves goes through.                               *)
<1>6. /\ step[c] = "idle" => l = "opened" /\ Kept
      /\ l = "paid" => /\ Kept /\ seen' = seen
                       /\ step[c] = "opened"
                       /\ Moves!NewDeposit(c) => c \in held' /\ c \in charged'
      /\ l = "saved" => /\ Kept /\ seen' = seen /\ held' = held /\ charged' = charged
                        /\ step[c] = "paid"
      /\ l = "committed" => step[c] = "saved"
      /\ step[c] \in {"committed", "refunding", "undo", "done", "failed"} =>
            /\ Kept /\ l \in {"refunding", "undo", "done", "failed"}
            /\ l \in {"undo", "failed"} => c \in unsure' \/ step[c] = "undo"
            /\ l \in {"refunding", "done"} => charged' = charged
  <2>1. CASE Moves!Begin(c) \/ Moves!KeepsDeposit(c) \/ Moves!PayDeposit(c)
    <3>1. CASE Moves!Begin(c)
      BY <1>3, <1>4, <3>1 DEF Moves!Begin, Moves!Goto, Moves!TypeOK
    <3>2. CASE Moves!KeepsDeposit(c)
      BY <1>3, <1>4, <3>2 DEF Moves!KeepsDeposit, Moves!Goto, Moves!TypeOK
    <3>3. CASE Moves!PayDeposit(c)
      BY <1>3, <1>4, <3>3 DEF Moves!PayDeposit, Moves!Goto, Moves!TypeOK
    <3> QED
      BY <2>1, <3>1, <3>2, <3>3
  <2>2. CASE Moves!PayDepositFails(c) \/ Moves!RestOfMonthRefused(c) \/ Moves!Save(c)
    BY <1>3, <1>4, <2>2
       DEF Moves!PayDepositFails, Moves!RestOfMonthRefused, Moves!Save, Moves!Goto,
           Moves!TypeOK
  <2>3. CASE Moves!Commit(c) \/ Moves!CommitFails(c)
    <3>1. step[c] = "saved" /\ l \in {"committed", "undo"}
      BY <1>3, <1>4, <2>3 DEF Moves!Commit, Moves!CommitFails, Moves!Goto, Moves!TypeOK
    <3> QED
      BY <3>1
  <2>4. CASE \/ Moves!OpenSecond(c) \/ Moves!OpenSecondFails(c) \/ Moves!RefundOld(c)
             \/ Moves!RefundOldThrows(c)
    BY <1>3, <1>4, <2>4
       DEF Moves!OpenSecond, Moves!OpenSecondFails, Moves!RefundOld, Moves!RefundOldThrows,
           Moves!Goto, Moves!TypeOK
  <2>5. CASE Moves!Undo(c) \/ Moves!UndoFails(c)
    BY <1>3, <1>4, <2>5 DEF Moves!Undo, Moves!UndoFails, Moves!Goto, Moves!TypeOK
  <2> QED
    BY <1>1, <2>1, <2>2, <2>3, <2>4, <2>5
<1>7. MovesPaid'
  <2> SUFFICES ASSUME NEW x \in MoveRequests, step'[x] \in {"paid", "saved"},
                      Moves!NewDeposit(x)'
               PROVE  x \in held' /\ x \in charged'
    BY DEF MovesPaid
  <2>1. CASE x # c
    <3>1. step[x] \in {"paid", "saved"} /\ seen'[x] = seen[x]
      BY <1>4, <1>5, <2>1
    <3> QED
      BY <1>5, <2>1, <3>1 DEF MovesPaid, Moves!NewDeposit
  <2>2. CASE x = c
    BY <1>4, <1>6, <2>2 DEF MovesPaid, Moves!NewDeposit
  <2> QED
    BY <2>1, <2>2
<1>8. MovesSettled'
  <2>1. CASE Kept
    <3> SUFFICES ASSUME ~stale, unit # MoveFrom
                 PROVE  \E x \in MoveRequests : MovedBy(x)'
      BY <2>1 DEF MovesSettled
    <3>1. PICK x \in MoveRequests : MovedBy(x)
      BY DEF MovesSettled
    <3>2. x = c => step[c] \in {"committed", "refunding", "undo", "done", "failed"}
      BY <3>1 DEF MovedBy
    <3>3. MovedBy(x)'
      BY <1>4, <1>5, <1>6, <2>1, <3>1, <3>2, MovesKeep
    <3> QED
      BY <3>3
  <2>2. CASE Moves!Applied(c) /\ Writes
    <3>1. /\ step[c] = "saved" /\ l \in {"committed", "undo"} /\ seen' = seen
          /\ held' = held /\ charged' = charged /\ (l = "undo" => c \in unsure')
      BY <1>3, <1>4, <2>2 DEF Moves!Commit, Moves!CommitFails, Moves!Goto, Moves!TypeOK
    <3>2. stale' <=> stale \/ seen[c] # <<unit, deposit>>
      BY <2>2 DEF Moves!Applied
    <3>3. /\ unit' = MoveTarget(c)
          /\ deposit' = IF Moves!NewDeposit(c) THEN MovePrice(MoveTarget(c)) ELSE deposit
          /\ entered' = entered \cup ({c} \cap held)
      BY <2>2 DEF Moves!Applied
    <3> SUFFICES ASSUME ~stale' PROVE deposit' = MovePrice(unit') /\ MovedBy(c)'
      BY DEF MovesSettled
    <3>4. seen[c] = <<unit, deposit>>
      BY <3>2
    <3>5. Moves!NewDeposit(c) <=> deposit # MovePrice(MoveTarget(c))
      BY <3>4 DEF Moves!NewDeposit
    <3>6. Moves!NewDeposit(c)' <=> Moves!NewDeposit(c)
      BY <3>1 DEF Moves!NewDeposit
    <3>7. Moves!NewDeposit(c) => c \in held /\ c \in charged
      BY <3>1 DEF MovesPaid
    <3> QED
      BY <1>4, <3>1, <3>3, <3>5, <3>6, <3>7 DEF MovedBy
  <2>3. Kept \/ (Moves!Applied(c) /\ Writes)
    BY <1>1
       DEF Moves!Begin, Moves!KeepsDeposit, Moves!PayDeposit, Moves!PayDepositFails,
           Moves!RestOfMonthRefused, Moves!Save, Moves!Commit, Moves!CommitFails,
           Moves!OpenSecond, Moves!OpenSecondFails, Moves!RefundOld, Moves!RefundOldThrows,
           Moves!Undo, Moves!UndoFails
  <2> QED
    BY <2>1, <2>2, <2>3
<1> QED
  BY <1>7, <1>8

LEMMA MovesAtRest ==
    ASSUME MovesInv, UNCHANGED Moves!unitVars
    PROVE  MovesInv'
BY DEF MovesInv, MovesPaid, MovesSettled, MovedBy, Moves!NewDeposit, Moves!TypeOK,
       Moves!unitVars

(* Who moved a booking that nobody overwrote paid for where it is.         *)
THEOREM MovesInvariant == Moves!Spec => []MovesInv
<1>1. Moves!Init => MovesInv
  BY MovesInitially
<1>2. MovesInv /\ [Moves!Next]_(Moves!unitVars) => MovesInv'
  <2> SUFFICES ASSUME MovesInv, [Moves!Next]_(Moves!unitVars) PROVE MovesInv'
    OBVIOUS
  <2>1. CASE Moves!Next
    BY <2>1, MovesTypes, MovesSteps DEF MovesInv
  <2>2. CASE UNCHANGED Moves!unitVars
    BY <2>2, MovesAtRest
  <2> QED
    BY <2>1, <2>2
<1> QED
  BY <1>1, <1>2, PTL DEF Moves!Spec

(* The deposit held is the price of the unit, and who moved the booking    *)
(* there paid it (bookings/booking.service.ts 2107-2120, 2305-2308),       *)
(* however many requests, units and failures there are.                    *)
THEOREM UnitsArePaidFor == ServicesSpec => []UnitIsPaidFor
<1>1. MovesInv => UnitIsPaidFor
  BY DEF MovesInv, MovesSettled, MovedBy, UnitIsPaidFor, Moves!UnitIsPaidFor
<1> QED
  BY <1>1, MovesFollow, MovesInvariant, PTL

-----------------------------------------------------------------------------
(* The doors of a site                                                     *)

LEMMA DoorsFollow == ServicesSpec => Entrances!Spec
<1>1. ServicesInit => Entrances!Init
  BY DEF ServicesInit
<1>2. [ServicesNext]_servicesVars => [Entrances!Next]_(Entrances!doorVars)
  BY DEF ServicesNext, servicesVars, doorVars, Entrances!doorVars
<1> QED
  BY <1>1, <1>2, PTL DEF ServicesSpec, Entrances!Spec

(* The request may pass the door it asks for.                              *)
MayPass(o) ==
    DoorOpens[o] # NoBooking =>
        opening[o].active = TRUE /\ DoorSite[DoorAsks[o]] = DoorOpens[o]

DoorsTyped ==
    /\ opening \in [DoorOpenings -> [pc: {"idle", "found", "open", "closed", "done", "failed"},
                                     active: BOOLEAN]]
    /\ turned \subseteq DoorOpenings
    /\ history \subseteq DoorOpenings \X {"open", "closed"}

(* Only a request that was found to be allowed comes to the controller,    *)
(* and only one that heard from the controller comes to the history.       *)
DoorsPassed ==
    \A o \in DoorOpenings :
        /\ opening[o].pc \in {"found", "open", "closed", "done"} => MayPass(o)
        /\ opening[o].pc \in {"open", "closed", "done"} => o \in turned
        /\ o \in turned => opening[o].pc # "idle" /\ MayPass(o)

DoorsWritten ==
    \A o \in DoorOpenings :
        opening[o].pc = "done" <=> \E a \in {"open", "closed"} : <<o, a>> \in history

DoorsInv == DoorsTyped /\ DoorsPassed /\ DoorsWritten

LEMMA DoorsInitially == Entrances!Init => DoorsInv
BY DEF Entrances!Init, DoorsInv, DoorsTyped, DoorsPassed, DoorsWritten

LEMMA DoorsSteps ==
    ASSUME DoorsInv, Entrances!Next
    PROVE  DoorsInv'
<1> USE DEF DoorsInv, Entrances!DoorActionType
<1>1. CASE \E b \in DoorBookings : Entrances!Goes(b)
  BY <1>1 DEF Entrances!Goes, DoorsTyped, DoorsPassed, MayPass, DoorsWritten
<1>2. ASSUME NEW o \in DoorOpenings, Entrances!FindDoor(o) PROVE DoorsInv'
  <2> DEFINE may == Entrances!MayOpen(o)
             act == DoorOpens[o] # NoBooking /\ hStatus[DoorOpens[o]] = "ACTIVE"
  <2>1. /\ opening[o].pc = "idle" /\ turned' = turned /\ history' = history
        /\ opening' = [opening EXCEPT ![o] = [pc |-> IF may THEN "found" ELSE "failed",
                                              active |-> act]]
    BY <1>2 DEF Entrances!FindDoor
  <2>2. may /\ DoorOpens[o] # NoBooking => act /\ DoorSite[DoorAsks[o]] = DoorOpens[o]
    BY DEF Entrances!MayOpen
  <2>3. act \in BOOLEAN
    OBVIOUS
  <2>4. PICK p \in {"found", "failed"}, a \in BOOLEAN :
            /\ opening' = [opening EXCEPT ![o] = [pc |-> p, active |-> a]]
            /\ p = "found" /\ DoorOpens[o] # NoBooking =>
                  a /\ DoorSite[DoorAsks[o]] = DoorOpens[o]
    <3> HIDE DEF may, act
    <3>1. CASE may
      BY <2>1, <2>2, <2>3, <3>1
    <3>2. CASE ~may
      BY <2>1, <2>3, <3>2
    <3> QED
      BY <3>1, <3>2
  <2> HIDE DEF may, act
  <2>5. DoorsTyped'
    BY <2>1, <2>4 DEF DoorsTyped
  <2>6. /\ opening'[o].pc = p /\ (opening'[o].active <=> a)
        /\ \A x \in DoorOpenings : x # o => opening'[x] = opening[x]
    BY <2>4 DEF DoorsTyped
  <2>7. DoorsPassed'
    <3>1. p = "found" => MayPass(o)'
      BY <2>4, <2>6 DEF MayPass
    <3>2. o \notin turned
      BY <2>1 DEF DoorsPassed
    <3> QED
      BY <2>1, <2>6, <3>1, <3>2 DEF DoorsPassed, MayPass
  <2>8. DoorsWritten'
    BY <2>1, <2>6 DEF DoorsWritten
  <2> QED
    BY <2>5, <2>7, <2>8
<1>3. ASSUME NEW o \in DoorOpenings, Entrances!AskController(o) PROVE DoorsInv'
  <2>1. PICK p \in {"open", "closed", "failed"} :
            /\ opening' = [opening EXCEPT ![o].pc = p]
            /\ turned' = turned \cup {o} \/ (turned' = turned /\ p = "failed")
    BY <1>3 DEF Entrances!AskController
  <2>2. opening[o].pc = "found" /\ history' = history
    BY <1>3 DEF Entrances!AskController
  <2>3. DoorsTyped'
    BY <2>1, <2>2 DEF DoorsTyped
  <2>4. /\ opening'[o].pc = p /\ opening'[o].active = opening[o].active
        /\ \A x \in DoorOpenings : x # o => opening'[x] = opening[x]
    BY <2>1 DEF DoorsTyped
  <2>5. MayPass(o)'
    BY <2>2, <2>4 DEF DoorsPassed, MayPass
  <2>6. DoorsPassed'
    BY <2>1, <2>4, <2>5 DEF DoorsPassed, MayPass
  <2>7. DoorsWritten'
    BY <2>2, <2>4 DEF DoorsWritten
  <2> QED
    BY <2>3, <2>6, <2>7
<1>4. ASSUME NEW o \in DoorOpenings, Entrances!LogOpening(o) PROVE DoorsInv'
  <2>1. opening[o].pc \in {"open", "closed"} /\ turned' = turned
    BY <1>4 DEF Entrances!LogOpening
  <2>2. PICK p \in {"done", "failed"} :
            /\ opening' = [opening EXCEPT ![o].pc = p]
            /\ p = "done" => history' = history \cup {<<o, opening[o].pc>>}
            /\ p = "failed" => history' = history
    BY <1>4 DEF Entrances!LogOpening
  <2>3. DoorsTyped'
    BY <2>1, <2>2 DEF DoorsTyped
  <2>4. /\ opening'[o].pc = p /\ opening'[o].active = opening[o].active
        /\ \A x \in DoorOpenings : x # o => opening'[x] = opening[x]
    BY <2>2 DEF DoorsTyped
  <2>5. MayPass(o)' /\ o \in turned
    BY <2>1, <2>4 DEF DoorsPassed, MayPass
  <2>6. DoorsPassed'
    BY <2>1, <2>4, <2>5 DEF DoorsPassed, MayPass
  <2>7. DoorsWritten'
    <3>1. ~\E a \in {"open", "closed"} : <<o, a>> \in history
      BY <2>1 DEF DoorsWritten
    <3>2. ASSUME NEW x \in DoorOpenings, x # o
          PROVE  (\E a \in {"open", "closed"} : <<x, a>> \in history')
                 <=> \E a \in {"open", "closed"} : <<x, a>> \in history
      BY <2>2, <3>2
    <3>3. opening'[o].pc = "done" <=> \E a \in {"open", "closed"} : <<o, a>> \in history'
      BY <2>1, <2>2, <2>4, <3>1
    <3> QED
      BY <2>4, <3>2, <3>3 DEF DoorsWritten
  <2> QED
    BY <2>3, <2>6, <2>7
<1> QED
  BY <1>1, <1>2, <1>3, <1>4 DEF Entrances!Next

(* Who comes to the controller was allowed to, and who is in the history   *)
(* heard from it.                                                          *)
THEOREM DoorsInvariant == Entrances!Spec => []DoorsInv
<1>1. Entrances!Init => DoorsInv
  BY DoorsInitially
<1>2. DoorsInv /\ [Entrances!Next]_(Entrances!doorVars) => DoorsInv'
  <2> SUFFICES ASSUME DoorsInv, [Entrances!Next]_(Entrances!doorVars) PROVE DoorsInv'
    OBVIOUS
  <2>1. CASE Entrances!Next
    BY <2>1, DoorsSteps
  <2>2. CASE UNCHANGED Entrances!doorVars
    BY <2>2 DEF Entrances!doorVars, DoorsInv, DoorsTyped, DoorsPassed, DoorsWritten, MayPass
  <2> QED
    BY <2>1, <2>2
<1> QED
  BY <1>1, <1>2, PTL DEF Entrances!Spec

(* A door turns only for an administrator or an ACTIVE booking at its own  *)
(* site, who was told so is in the history, and nobody else is             *)
(* (sites/site-doors/site-door.service.ts 108-201).                        *)
THEOREM DoorsOpenAsLogged == ServicesSpec => []DoorsAreLogged
<1>1. DoorsInv => Entrances!DoorsAreLogged
  <2> SUFFICES ASSUME DoorsInv PROVE Entrances!DoorsAreLogged
    OBVIOUS
  <2> USE DEF DoorsInv, Entrances!DoorActionType
  <2>1. \A o \in turned : DoorOpens[o] # NoBooking =>
            opening[o].active /\ DoorSite[DoorAsks[o]] = DoorOpens[o]
    BY DEF DoorsTyped, DoorsPassed, MayPass
  <2>2. \A o \in DoorOpenings :
            (opening[o].pc = "done") = (\E a \in {"open", "closed"} : <<o, a>> \in history)
    BY DEF DoorsWritten
  <2>3. ASSUME NEW h \in history PROVE h[1] \in turned
    <3>1. PICK o \in DoorOpenings, a \in {"open", "closed"} : h = <<o, a>>
      BY DEF DoorsTyped
    <3>2. opening[o].pc = "done"
      BY <3>1 DEF DoorsWritten
    <3> QED
      BY <3>1, <3>2 DEF DoorsPassed
  <2> QED
    BY <2>1, <2>2, <2>3 DEF Entrances!DoorsAreLogged
<1>2. DoorsInv => DoorsAreLogged
  BY <1>1 DEF DoorsAreLogged
<1> QED
  BY <1>2, DoorsFollow, DoorsInvariant, PTL

(* A booking goes on from one of its statuses to another.                  *)
DoorsGo == hStatus \in [DoorBookings -> Entrances!BookingStatus]

LEMMA DoorsGoOn == Entrances!Spec => []DoorsGo
<1>1. Entrances!Init => DoorsGo
  BY DEF Entrances!Init, DoorsGo, Entrances!BookingStatus
<1>2. DoorsGo /\ [Entrances!Next]_(Entrances!doorVars) => DoorsGo'
  <2> SUFFICES ASSUME DoorsGo, [Entrances!Next]_(Entrances!doorVars) PROVE DoorsGo'
    OBVIOUS
  <2>1. ASSUME NEW b \in DoorBookings, Entrances!Goes(b) PROVE DoorsGo'
    BY <2>1 DEF Entrances!Goes, DoorsGo, Entrances!BookingStatus
  <2>2. UNCHANGED hStatus \/ \E b \in DoorBookings : Entrances!Goes(b)
    BY DEF Entrances!Next, Entrances!FindDoor, Entrances!AskController, Entrances!LogOpening,
           Entrances!doorVars
  <2> QED
    BY <2>1, <2>2 DEF DoorsGo
<1> QED
  BY <1>1, <1>2, PTL DEF Entrances!Spec

LEMMA DoorsTypeOK == ASSUME DoorsInv, DoorsGo PROVE Entrances!TypeOK
BY DEF DoorsInv, DoorsTyped, DoorsGo, Entrances!TypeOK, Entrances!SiteDoorHistory,
       Entrances!DoorActionType

-----------------------------------------------------------------------------
(* The review of a site                                                    *)

LEMMA SitesFollow == ServicesSpec => Review!Spec
<1>1. ServicesInit => Review!Init
  BY DEF ServicesInit
<1>2. [ServicesNext]_servicesVars => [Review!Next]_(Review!siteVars)
  BY DEF ServicesNext, servicesVars, reviewVars, Review!siteVars
<1> QED
  BY <1>1, <1>2, PTL DEF ServicesSpec, Review!Spec

Reading(u) == update[u].pc = "read"
Moved(u) == update[u].pc = "done" /\ update[u].edits = "address"

(* Updates that are under way together have met.                           *)
SitesMet ==
    \A u, v \in SiteUpdates : u # v /\ Reading(u) /\ Reading(v) => <<u, v>> \in uMet

(* What an update saw is what is there, or another that it met wrote it;   *)
(* and what a host lists again was seen INACTIVE.                          *)
SitesSeen ==
    \A u \in SiteUpdates : Reading(u) =>
        /\ site.content = update[u].content \/ <<site.content, u>> \in uMet
        /\ site.status = update[u].saw \/ <<u, listed>> \in uMet
        /\ update[u].saw = "INACTIVE" => update[u].content \in rested
        /\ update[u].status = "ACTIVE" => update[u].admin \/ update[u].saw = "INACTIVE"
        /\ ~update[u].taxed /\ site.taxes > 0 =>
              \E v \in SiteUpdates : <<u, v>> \in uMet /\ Moved(v)

SitesShown ==
    /\ site.status = "ACTIVE" =>
          site.content \in approved \cup rested \/ <<site.content, listed>> \in uMet
    /\ site.status = "INACTIVE" => site.content \in rested

SitesTaxed ==
    site.taxes > 1 => \E u, v \in SiteUpdates : <<u, v>> \in uMet /\ Moved(u) /\ Moved(v)

SitesInv == Review!TypeOK /\ SitesMet /\ SitesSeen /\ SitesShown /\ SitesTaxed

LEMMA SitesInitially == Review!Init => SitesInv
<1> SUFFICES ASSUME Review!Init PROVE SitesInv
  OBVIOUS
<1>1. PICK s \in {"DRAFT", "INACTIVE"} :
          /\ site = [status |-> s, content |-> 0, taxes |-> 0]
          /\ rested = IF s = "INACTIVE" THEN {0} ELSE {}
  BY DEF Review!Init
<1>2. /\ update \in [SiteUpdates ->
             [pc: {"idle"}, admin: BOOLEAN, status: {"none"}, edits: {"nothing"},
              saw: {"none"}, content: {0}, taxed: BOOLEAN]]
      /\ \A u \in SiteUpdates : update[u].pc = "idle"
  <2> DEFINE Blank == [pc: {"idle"}, admin: BOOLEAN, status: {"none"}, edits: {"nothing"},
                       saw: {"none"}, content: {0}, taxed: BOOLEAN]
             over == Review!Over("nothing")
  <2>1. over \in [pc: {"done"}, admin: BOOLEAN, status: {"none"}, edits: {"nothing"},
                  saw: {"none"}, content: {0}, taxed: BOOLEAN]
    BY DEF Review!Over, Review!Unasked
  <2>2. update = [u \in SiteUpdates |-> [over EXCEPT !.pc = "idle"]]
    BY DEF Review!Init
  <2> HIDE DEF over
  <2>3. [over EXCEPT !.pc = "idle"] \in Blank
    BY <2>1
  <2>4. update \in [SiteUpdates -> Blank] /\ \A u \in SiteUpdates : update[u] \in Blank
    BY <2>2, <2>3
  <2> QED
    BY <2>4
<1>3. approved = {} /\ listed = 0 /\ uMet = {}
  BY DEF Review!Init
<1>4. Review!TypeOK
  BY <1>1, <1>2, <1>3 DEF Review!TypeOK, Review!SiteStatus, Review!Unasked, Review!Edits
<1>5. SitesMet /\ SitesSeen
  BY <1>2 DEF SitesMet, SitesSeen, Reading
<1>6. SitesShown /\ SitesTaxed
  BY <1>1 DEF SitesShown, SitesTaxed
<1> QED
  BY <1>4, <1>5, <1>6 DEF SitesInv

LEMMA SitesRead ==
    ASSUME SitesInv, NEW u \in SiteUpdates, NEW admin \in BOOLEAN,
           NEW s \in SiteAsked \cup {Review!Unasked}, NEW edits \in Review!Edits,
           Review!Read(u, admin, s, edits)
    PROVE  SitesInv'
<1> USE DEF SitesInv
<1> DEFINE hasTaxes == site.taxes > 0
<1>1. /\ update[u].pc = "idle" /\ site' = site /\ approved' = approved /\ rested' = rested
      /\ listed' = listed /\ Review!Allowed(admin, s, site.status)
      /\ uMet' = uMet \cup ({u} \X Review!UnderWay) \cup (Review!UnderWay \X {u})
      /\ update' = [update EXCEPT ![u] =
             [pc |-> "read", admin |-> admin, status |-> s, edits |-> edits,
              saw |-> site.status, content |-> site.content, taxed |-> hasTaxes]]
  BY DEF Review!Read
<1>2. Review!UnderWay \subseteq SiteUpdates
  BY DEF Review!UnderWay
<1>3. PICK t \in BOOLEAN :
          /\ update' = [update EXCEPT ![u] =
                 [pc |-> "read", admin |-> admin, status |-> s, edits |-> edits,
                  saw |-> site.status, content |-> site.content, taxed |-> t]]
          /\ t <=> site.taxes > 0
  <2>1. hasTaxes \in BOOLEAN /\ (hasTaxes <=> site.taxes > 0)
    OBVIOUS
  <2> HIDE DEF hasTaxes
  <2> QED
    BY <1>1, <2>1
<1>4. Review!TypeOK'
  BY <1>1, <1>2, <1>3 DEF Review!TypeOK
<1>5. /\ update'[u].pc = "read" /\ (update'[u].admin <=> admin) /\ update'[u].status = s
      /\ update'[u].saw = site.status /\ update'[u].content = site.content
      /\ (update'[u].taxed <=> site.taxes > 0)
      /\ \A v \in SiteUpdates : v # u => update'[v] = update[v]
  BY <1>3 DEF Review!TypeOK
<1>6. uMet \subseteq uMet'
  BY <1>1
<1>7. SitesMet'
  <2>1. \A v \in SiteUpdates : v # u /\ Reading(v)' =>
            <<u, v>> \in uMet' /\ <<v, u>> \in uMet'
    BY <1>1, <1>5 DEF Reading, Review!UnderWay
  <2> QED
    BY <1>5, <1>6, <2>1 DEF SitesMet, Reading
<1>8. \A v \in SiteUpdates : Moved(v) => Moved(v)'
  BY <1>1, <1>5 DEF Moved
<1>9. SitesSeen'
  <2> DEFINE Seen(v) ==
        /\ site.content = update[v].content \/ <<site.content, v>> \in uMet
        /\ site.status = update[v].saw \/ <<v, listed>> \in uMet
        /\ update[v].saw = "INACTIVE" => update[v].content \in rested
        /\ update[v].status = "ACTIVE" => update[v].admin \/ update[v].saw = "INACTIVE"
        /\ ~update[v].taxed /\ site.taxes > 0 =>
              \E x \in SiteUpdates : <<v, x>> \in uMet /\ Moved(x)
  <2>1. ASSUME NEW v \in SiteUpdates, v # u, Reading(v)' PROVE Seen(v)'
    <3>1. update'[v] = update[v] /\ Reading(v)
      BY <1>5, <2>1 DEF Reading
    <3>2. Seen(v)
      BY <3>1 DEF SitesSeen
    <3>3. /\ site'.content = update'[v].content \/ <<site'.content, v>> \in uMet'
          /\ site'.status = update'[v].saw \/ <<v, listed'>> \in uMet'
      BY <1>1, <1>6, <3>1, <3>2
    <3>4. /\ update'[v].saw = "INACTIVE" => update'[v].content \in rested'
          /\ update'[v].status = "ACTIVE" => update'[v].admin \/ update'[v].saw = "INACTIVE"
      BY <1>1, <3>1, <3>2
    <3>5. ~update'[v].taxed /\ site'.taxes > 0 =>
              \E x \in SiteUpdates : <<v, x>> \in uMet' /\ Moved(x)'
      BY <1>1, <1>6, <1>8, <3>1, <3>2
    <3> QED
      BY <3>3, <3>4, <3>5
  <2>2. Seen(u)'
    <3>1. site.status = "INACTIVE" => site.content \in rested
      BY DEF SitesShown
    <3>2. s = "ACTIVE" => admin \/ site.status = "INACTIVE"
      BY <1>1 DEF Review!Allowed, Review!Unasked
    <3> QED
      BY <1>1, <1>5, <3>1, <3>2
  <2> QED
    BY <2>1, <2>2 DEF SitesSeen
<1>10. SitesShown' /\ SitesTaxed'
  BY <1>1, <1>6, <1>8 DEF SitesShown, SitesTaxed
<1> QED
  BY <1>4, <1>7, <1>9, <1>10

LEMMA SitesFails ==
    ASSUME SitesInv, NEW u \in SiteUpdates, Review!Fails(u)
    PROVE  SitesInv'
<1> USE DEF SitesInv
<1>1. /\ update[u].pc = "read" /\ site' = site /\ approved' = approved /\ rested' = rested
      /\ listed' = listed /\ uMet' = uMet
      /\ update' = [update EXCEPT ![u] =
             [pc |-> "done", admin |-> FALSE, status |-> "none", edits |-> "nothing",
              saw |-> "none", content |-> 0, taxed |-> FALSE]]
  BY DEF Review!Fails, Review!Over, Review!Unasked
<1>2. Review!TypeOK'
  BY <1>1 DEF Review!TypeOK, Review!Unasked, Review!Edits
<1>3. /\ update'[u].pc = "done"
      /\ \A v \in SiteUpdates : v # u => update'[v] = update[v]
  BY <1>1 DEF Review!TypeOK
<1>4. \A v \in SiteUpdates : Moved(v) => Moved(v)'
  BY <1>1, <1>3 DEF Moved
<1>5. SitesMet'
  BY <1>1, <1>3 DEF SitesMet, Reading
<1>6. SitesSeen'
  BY <1>1, <1>3, <1>4 DEF SitesSeen, Reading
<1>7. SitesShown' /\ SitesTaxed'
  BY <1>1, <1>4 DEF SitesShown, SitesTaxed
<1> QED
  BY <1>2, <1>5, <1>6, <1>7

LEMMA SitesWrite ==
    ASSUME SitesInv, NEW u \in SiteUpdates, Review!Write(u)
    PROVE  SitesInv'
<1> USE SitesAssumption DEF SitesInv
<1> DEFINE q == update[u]
           w == Review!Wanted(q)
           writes == w # q.saw
           adds == q.edits = "address" /\ ~q.taxed
<1>1. /\ q.pc = "read" /\ uMet' = uMet
      /\ site' = [status  |-> IF writes THEN w ELSE site.status,
                  content |-> IF q.edits # "nothing" THEN u ELSE site.content,
                  taxes   |-> IF adds THEN site.taxes + 1 ELSE site.taxes]
      /\ listed' = IF writes THEN u ELSE listed
      /\ approved' = IF writes /\ q.admin /\ w = "ACTIVE"
                     THEN approved \cup {q.content} ELSE approved
      /\ rested' = IF site'.status = "INACTIVE" THEN rested \cup {site'.content} ELSE rested
      /\ update' = [update EXCEPT ![u] =
             [pc |-> "done", admin |-> FALSE, status |-> "none", edits |-> q.edits,
              saw |-> "none", content |-> 0, taxed |-> FALSE]]
  BY DEF Review!Write, Review!Over, Review!Unasked
<1>2. /\ q.edits # "nothing" => w = "READY_TO_REVIEW"
      /\ q.edits = "nothing" /\ q.status # "none" => w = q.status
      /\ q.edits = "nothing" /\ q.status = "none" => w = q.saw
  <2>1. CASE q.edits # "nothing"
    BY <2>1 DEF Review!Wanted
  <2>2. CASE q.edits = "nothing" /\ q.status # "none"
    BY <2>2 DEF Review!Wanted, Review!Unasked
  <2>3. CASE q.edits = "nothing" /\ q.status = "none"
    BY <2>3 DEF Review!Wanted, Review!Unasked
  <2> QED
    BY <2>1, <2>2, <2>3
<1>3. writes => w \in Review!SiteStatus
  BY <1>2 DEF Review!TypeOK, Review!Unasked, Review!SiteStatus
<1> HIDE DEF w
<1>4. /\ site'.status = IF writes THEN w ELSE site.status
      /\ site'.content = IF q.edits # "nothing" THEN u ELSE site.content
      /\ site'.taxes = IF adds THEN site.taxes + 1 ELSE site.taxes
  BY <1>1
<1>5. /\ update'[u].pc = "done" /\ update'[u].edits = q.edits
      /\ \A v \in SiteUpdates : v # u => update'[v] = update[v]
  BY <1>1 DEF Review!TypeOK
<1>6. Review!TypeOK'
  <2>1. site' \in [status: Review!SiteStatus, content: SiteUpdates \cup {0}, taxes: Nat]
    <3>1. site.status \in Review!SiteStatus /\ site.content \in SiteUpdates \cup {0}
          /\ site.taxes \in Nat
      BY DEF Review!TypeOK
    <3>2. site'.status \in Review!SiteStatus
      BY <1>3, <1>4, <3>1
    <3>3. site'.content \in SiteUpdates \cup {0} /\ site'.taxes \in Nat
      BY <1>4, <3>1
    <3>4. site' = [status |-> site'.status, content |-> site'.content, taxes |-> site'.taxes]
      BY <1>1
    <3> QED
      BY <3>2, <3>3, <3>4
  <2>2. update' \in [SiteUpdates -> [pc: {"idle", "read", "done"}, admin: BOOLEAN,
                                     status: SiteAsked \cup {"none"}, edits: Review!Edits,
                                     saw: Review!SiteStatus \cup {"none"},
                                     content: SiteUpdates \cup {0}, taxed: BOOLEAN]]
    BY <1>1 DEF Review!TypeOK, Review!Unasked
  <2>3. q.content \in SiteUpdates \cup {0}
    BY DEF Review!TypeOK
  <2>4. /\ approved' \subseteq SiteUpdates \cup {0} /\ rested' \subseteq SiteUpdates \cup {0}
        /\ listed' \in SiteUpdates \cup {0}
    BY <1>1, <2>1, <2>3 DEF Review!TypeOK
  <2> QED
    BY <1>1, <2>1, <2>2, <2>4 DEF Review!TypeOK, Review!Unasked
<1>7. SitesMet'
  BY <1>1, <1>5 DEF SitesMet, Reading
<1>8. \A v \in SiteUpdates : Moved(v) => Moved(v)'
  BY <1>1, <1>5 DEF Moved
<1>9. adds => Moved(u)'
  BY <1>5 DEF Moved
<1>10. site.taxes \in Nat /\ approved \subseteq approved' /\ rested \subseteq rested'
  BY <1>1 DEF Review!TypeOK
<1>11. SitesSeen'
  <2> SUFFICES ASSUME NEW v \in SiteUpdates, Reading(v)'
               PROVE  /\ site'.content = update'[v].content \/ <<site'.content, v>> \in uMet'
                      /\ site'.status = update'[v].saw \/ <<v, listed'>> \in uMet'
                      /\ update'[v].saw = "INACTIVE" => update'[v].content \in rested'
                      /\ update'[v].status = "ACTIVE" =>
                            update'[v].admin \/ update'[v].saw = "INACTIVE"
                      /\ ~update'[v].taxed /\ site'.taxes > 0 =>
                            \E x \in SiteUpdates : <<v, x>> \in uMet' /\ Moved(x)'
    BY DEF SitesSeen
  <2>1. v # u /\ update'[v] = update[v] /\ Reading(v)
    BY <1>5 DEF Reading
  <2>2. <<v, u>> \in uMet' /\ <<u, v>> \in uMet'
    BY <1>1, <2>1 DEF SitesMet, Reading
  <2>3. site'.content = update'[v].content \/ <<site'.content, v>> \in uMet'
    BY <1>1, <1>4, <2>1, <2>2 DEF SitesSeen
  <2>4. site'.status = update'[v].saw \/ <<v, listed'>> \in uMet'
    BY <1>1, <1>4, <2>1, <2>2 DEF SitesSeen
  <2>5. /\ update'[v].saw = "INACTIVE" => update'[v].content \in rested'
        /\ update'[v].status = "ACTIVE" => update'[v].admin \/ update'[v].saw = "INACTIVE"
    BY <1>10, <2>1 DEF SitesSeen
  <2>6. ASSUME ~update'[v].taxed, site'.taxes > 0
        PROVE  \E x \in SiteUpdates : <<v, x>> \in uMet' /\ Moved(x)'
    <3>1. CASE adds
      BY <1>9, <2>2, <3>1
    <3>2. CASE ~adds
      BY <1>1, <1>4, <1>8, <2>1, <2>6, <3>2 DEF SitesSeen
    <3> QED
      BY <3>1, <3>2
  <2> QED
    BY <2>3, <2>4, <2>5, <2>6
<1>12. SitesShown'
  <2>1. ASSUME site'.status = "ACTIVE"
        PROVE  site'.content \in approved' \cup rested' \/ <<site'.content, listed'>> \in uMet'
    <3>1. CASE writes
      <4>1. q.edits = "nothing" /\ q.status = "ACTIVE" /\ w = "ACTIVE"
        BY <1>2, <1>4, <2>1, <3>1
      <4>2. q.content \in approved' \cup rested'
        <5>1. q.admin \/ q.saw = "INACTIVE"
          BY <1>1, <4>1 DEF SitesSeen, Reading
        <5>2. q.admin => q.content \in approved'
          BY <1>1, <3>1, <4>1
        <5>3. q.saw = "INACTIVE" => q.content \in rested'
          BY <1>1, <1>10 DEF SitesSeen, Reading
        <5> QED
          BY <5>1, <5>2, <5>3
      <4>3. site.content = q.content \/ <<site.content, u>> \in uMet
        BY <1>1 DEF SitesSeen, Reading
      <4> QED
        BY <1>1, <1>4, <3>1, <4>1, <4>2, <4>3
    <3>2. CASE ~writes
      <4>1. site.status = "ACTIVE" /\ listed' = listed
        BY <1>1, <1>4, <2>1, <3>2
      <4>2. CASE q.edits = "nothing"
        BY <1>1, <1>4, <1>10, <4>1, <4>2 DEF SitesShown
      <4>3. CASE q.edits # "nothing"
        <5>1. q.saw = "READY_TO_REVIEW"
          BY <1>2, <3>2, <4>3
        <5>2. <<u, listed>> \in uMet
          BY <1>1, <4>1, <5>1 DEF SitesSeen, Reading
        <5> QED
          BY <1>1, <1>4, <4>1, <4>3, <5>2
      <4> QED
        BY <4>2, <4>3
    <3> QED
      BY <3>1, <3>2
  <2>2. site'.status = "INACTIVE" => site'.content \in rested'
    BY <1>1
  <2> QED
    BY <2>1, <2>2 DEF SitesShown
<1>13. SitesTaxed'
  <2> SUFFICES ASSUME site'.taxes > 1
               PROVE  \E x, y \in SiteUpdates : <<x, y>> \in uMet' /\ Moved(x)' /\ Moved(y)'
    BY DEF SitesTaxed
  <2>1. CASE adds
    <3>1. site.taxes > 0 /\ ~q.taxed
      BY <1>4, <1>10, <2>1
    <3>2. PICK v \in SiteUpdates : <<u, v>> \in uMet /\ Moved(v)
      BY <1>1, <3>1 DEF SitesSeen, Reading
    <3> QED
      BY <1>1, <1>8, <1>9, <2>1, <3>2
  <2>2. CASE ~adds
    <3>1. PICK x, y \in SiteUpdates : <<x, y>> \in uMet /\ Moved(x) /\ Moved(y)
      BY <1>4, <2>2 DEF SitesTaxed
    <3> QED
      BY <1>1, <1>8, <3>1
  <2> QED
    BY <2>1, <2>2
<1> QED
  BY <1>6, <1>7, <1>11, <1>12, <1>13

(* What an update saw is what it finds, unless it met who changed it.      *)
THEOREM SitesInvariant == Review!Spec => []SitesInv
<1>1. Review!Init => SitesInv
  BY SitesInitially
<1>2. SitesInv /\ [Review!Next]_(Review!siteVars) => SitesInv'
  <2> SUFFICES ASSUME SitesInv, [Review!Next]_(Review!siteVars) PROVE SitesInv'
    OBVIOUS
  <2>1. CASE Review!Next
    <3>1. PICK u \in SiteUpdates :
              \/ \E admin \in BOOLEAN, s \in SiteAsked \cup {Review!Unasked},
                    edits \in Review!Edits : Review!Read(u, admin, s, edits)
              \/ Review!Write(u) \/ Review!Fails(u)
      BY <2>1 DEF Review!Next
    <3> QED
      BY <3>1, SitesRead, SitesWrite, SitesFails
  <2>2. CASE UNCHANGED Review!siteVars
    BY <2>2, ZenonT(40)
       DEF Review!siteVars, SitesInv, Review!TypeOK, SitesMet, SitesSeen, SitesShown,
           SitesTaxed, Reading, Moved
  <2> QED
    BY <2>1, <2>2
<1> QED
  BY <1>1, <1>2, PTL DEF Review!Spec

(* A site shown to customers has a content an administrator has listed, or *)
(* one the host unlisted and listed again, unless two updates ran at the   *)
(* same time; and one set of taxes (sites/sites/site.service.ts 501-755).  *)
THEOREM SitesAreListedAsReviewed == ServicesSpec => []ListedAsReviewed
<1>1. SitesInv => ListedAsReviewed
  BY DEF SitesInv, SitesShown, SitesTaxed, Moved, Review!ListedAsReviewed, ListedAsReviewed
<1> QED
  BY <1>1, SitesFollow, SitesInvariant, PTL
-----------------------------------------------------------------------------
(* The spaces of the stock                                                 *)

StockIds == 1..StockMaxRows

(* The units a run has still to come to.                                   *)
StockLeft == run.units \cup {u \in Stock!SeenUnits : StockTypeOf[u] \in run.types}

(* What a row is of, also to a run that read it; an archived one was       *)
(* missing, or is not what a run makes of it.                              *)
StockRowsAre ==
    /\ \A i \in StockIds :
          /\ kRows[i].status \in {"ACTIVE", "ARCHIVED"} => kRows[i].unit \in StockUnits
          /\ kRows[i].status = "ARCHIVED" =>
                kRows[i].unit \in missed \cup StockInexact \cup reshaped
          /\ run.had[i].unit # Stock!Nothing =>
                /\ kRows[i].status # "NONE"
                /\ kRows[i].status \in {"ACTIVE", "ARCHIVED"} =>
                      kRows[i].unit = run.had[i].unit \/ kRows[i].unit \in reshaped
    /\ kEdit.pc = "open" =>
          /\ kEdit.row \in StockIds /\ kEdit.unit \in StockUnits
          /\ kRows[kEdit.row].status \in {"ACTIVE", "ARCHIVED"}

(* A run goes through the units of one type after the other.               *)
StockRunGoes ==
    /\ run.units \subseteq Stock!SeenUnits
    /\ run.pc \in {"unit", "commit"} <=> run.units # {}
    /\ run.pc \notin {"type", "unit", "commit"} => run.types = {}
    /\ \A t \in run.types : \E u \in Stock!SeenUnits : StockTypeOf[u] = t
    /\ \A u \in run.units : StockTypeOf[u] \notin run.types
    /\ run.pc # "off" => \A u \in StockUnits \ Stock!SeenUnits : u \in missed
    /\ run.pc = "commit" => Stock!FreeRows # {} /\ Stock!Matches(Stock!ThisUnit) = {}

(* A unit has one space for sale, which a run that has not come to the     *)
(* unit knows, unless the job does not find it or a host resized it.       *)
StockAlone ==
    \A i, j \in StockIds :
       i # j /\ Stock!Live(i) /\ Stock!Live(j) /\ kRows[i].unit = kRows[j].unit =>
          kRows[i].unit \in StockInexact \cup reshaped
StockKnown ==
    \A i \in StockIds :
       Stock!Live(i) /\ kRows[i].unit \in StockLeft \ (StockInexact \cup reshaped) =>
          run.had[i].unit = kRows[i].unit

(* The run has still to come to unit u, and will find its spaces.          *)
StockAhead(u) == StockTypeOf[u] \in run.types \/ u \in run.units \ StockInexact

(* What a run without a failure has done, and what it has left as it was.  *)
StockDone(u) ==
    \E i \in StockIds :
       /\ \A j \in StockIds : Stock!Live(j) /\ kRows[j].unit = u <=> j = i
       /\ kRows[i].stock = run.seen[u] /\ kRows[i].price = run.seen[u]
StockClean ==
    ~flawed /\ ~touched =>
       /\ \A u \in Stock!SeenUnits \ (StockLeft \cup reshaped) : StockDone(u)
       /\ \A i \in StockIds :
             /\ run.had[i].unit # Stock!Nothing /\ StockAhead(run.had[i].unit) =>
                   kRows[i] = run.had[i] /\ Stock!Live(i)
             /\ Stock!Live(i) /\ StockAhead(kRows[i].unit) => kRows[i] = run.had[i]
             /\ Stock!Live(i) => kRows[i].unit \notin run.units \cap StockInexact
             /\ Stock!Live(i) =>
                   \/ kRows[i].unit \in Stock!SeenUnits
                   \/ StockTypeOf[kRows[i].unit] \in run.types
                   \/ \A u \in Stock!SeenUnits : StockTypeOf[u] # StockTypeOf[kRows[i].unit]

(* A message is ahead of the COMMIT it tells of.                           *)
StockTold ==
    /\ Stock!Uncommitted /\ ~queued => early
    /\ Stock!IndexFollows

StockInv == Stock!TypeOK /\ StockRowsAre /\ StockRunGoes /\ StockAlone /\ StockKnown /\ StockClean
            /\ StockTold

LEMMA StockFollows == ServicesSpec => Stock!Spec
<1>1. ServicesInit => Stock!Init
  BY DEF ServicesInit
<1>2. [ServicesNext]_servicesVars => [Stock!Next]_(Stock!stockVars)
  BY DEF ServicesNext, servicesVars, stockVars, Stock!stockVars, Stock!index
<1> QED
  BY <1>1, <1>2, PTL DEF ServicesSpec, Stock!Spec

LEMMA StockInitially == Stock!Init => StockInv
<1> SUFFICES ASSUME Stock!Init PROVE StockInv
  OBVIOUS
<1> USE StockAssumption DEF StockIds
<1>1. PICK o \in StockOffers :
         /\ offered = [u \in StockUnits |-> o]
         /\ kRows = [i \in StockIds |->
                       IF StockFirst[i] # Stock!Nothing
                       THEN [unit |-> StockFirst[i], status |-> "ACTIVE", stock |-> o, price |-> o]
                       ELSE Stock!NoRow]
  BY DEF Stock!Init
<1>2. /\ run = Stock!Off /\ kEdit = Stock!NoEdit /\ ~touched /\ fresh /\ ~untold
      /\ missed = {} /\ reshaped = {}
  BY DEF Stock!Init
<1>3. Stock!SeenUnits = {} /\ StockLeft = {}
  BY <1>2 DEF Stock!SeenUnits, Stock!Off, StockLeft
<1>4. Stock!TypeOK
  <2>1. kRows \in [StockIds -> Stock!Row]
    BY <1>1 DEF Stock!Row, Stock!NoRow, Stock!Offer, Stock!Nothing
  <2>2. /\ run.pc = "off" /\ run.seen \in [StockUnits -> Stock!Offer]
        /\ run.had \in [StockIds -> Stock!Row] /\ run.types = {} /\ run.units = {}
        /\ run = [pc |-> run.pc, seen |-> run.seen, had |-> run.had, types |-> run.types,
                  units |-> run.units]
    BY <1>2 DEF Stock!Off, Stock!Row, Stock!NoRow, Stock!Offer
  <2>3. kEdit \in [pc: {"idle", "open"}, row: 0..StockMaxRows,
                   unit: StockUnits \cup {Stock!Nothing}, stock: Stock!Offer, price: Stock!Offer]
    BY <1>2 DEF Stock!NoEdit, Stock!Offer
  <2>4. run \in [pc: {"off", "type", "unit", "commit", "push", "over"},
                seen: [StockUnits -> Stock!Offer], had: [StockIds -> Stock!Row],
                types: SUBSET {StockTypeOf[u] : u \in StockUnits}, units: SUBSET StockUnits]
    BY <2>2
  <2>5. offered \in [StockUnits -> Stock!Offer]
    BY <1>1 DEF Stock!Offer
  <2>6. runs \in 0..StockRuns /\ changes \in 0..StockChanges
    BY DEF Stock!Init
  <2>7. /\ flawed \in BOOLEAN /\ touched \in BOOLEAN /\ queued \in BOOLEAN
        /\ fresh \in BOOLEAN /\ early \in BOOLEAN /\ untold \in BOOLEAN
        /\ missed \subseteq StockUnits /\ reshaped \subseteq StockUnits
    BY DEF Stock!Init
  <2> QED
    BY <1>2, <2>1, <2>3, <2>4, <2>5, <2>6, <2>7 DEF Stock!TypeOK
<1>5. StockRowsAre
  BY <1>1, <1>2 DEF StockRowsAre, Stock!Off, Stock!NoRow, Stock!NoEdit
<1>6. StockRunGoes
  BY <1>2, <1>3 DEF StockRunGoes, Stock!Off
<1>7. StockAlone
  BY <1>1 DEF StockAlone, Stock!Live, Stock!NoRow
<1>8. StockKnown
  BY <1>3 DEF StockKnown
<1>9. StockClean
  BY <1>2, <1>3 DEF StockClean, StockAhead, Stock!Off, Stock!NoRow
<1>10. StockTold
  BY <1>2 DEF StockTold, Stock!Uncommitted, Stock!IndexFollows, Stock!Off, Stock!NoEdit
<1> QED
  BY <1>4, <1>5, <1>6, <1>7, <1>8, <1>9, <1>10 DEF StockInv

(* What a run is made of.                                                  *)
LEMMA StockRunTyped ==
    ASSUME Stock!TypeOK
    PROVE  /\ run.seen \in [StockUnits -> Stock!Offer] /\ run.had \in [StockIds -> Stock!Row]
           /\ run.types \subseteq {StockTypeOf[u] : u \in StockUnits}
           /\ run.units \subseteq StockUnits
           /\ run = [pc |-> run.pc, seen |-> run.seen, had |-> run.had, types |-> run.types,
                     units |-> run.units]
BY DEF Stock!TypeOK, StockIds

LEMMA StockChosen ==
    /\ run.units # {} => Stock!ThisUnit \in run.units
    /\ run.types # {} => Stock!ThisType \in run.types
BY DEF Stock!ThisUnit, Stock!ThisType

(* The run takes up a type.                                                *)
LEMMA StockToUnits ==
    ASSUME Stock!TypeOK, StockRunGoes, run.pc = "type", run.types # {}, Stock!OnToUnits,
           missed' = missed
    PROVE  /\ run'.pc = "unit" /\ run'.seen = run.seen /\ run'.had = run.had
           /\ Stock!ThisType \in run.types /\ run.units = {}
           /\ run'.types = run.types \ {Stock!ThisType}
           /\ run'.units = {u \in Stock!SeenUnits : StockTypeOf[u] = Stock!ThisType}
           /\ Stock!SeenUnits' = Stock!SeenUnits /\ StockLeft' = StockLeft
           /\ run' \in [pc: {"unit"}, seen: [StockUnits -> Stock!Offer],
                        had: [StockIds -> Stock!Row],
                        types: SUBSET {StockTypeOf[u] : u \in StockUnits},
                        units: SUBSET StockUnits]
           /\ StockRunGoes'
<1>1. Stock!ThisType \in run.types /\ run.units = {}
  BY StockChosen DEF StockRunGoes
<1>2. /\ run'.pc = "unit" /\ run'.seen = run.seen /\ run'.had = run.had
      /\ run'.types = run.types \ {Stock!ThisType}
      /\ run'.units = {u \in Stock!SeenUnits : StockTypeOf[u] = Stock!ThisType}
      /\ run' = [pc |-> run'.pc, seen |-> run'.seen, had |-> run'.had, types |-> run'.types,
                 units |-> run'.units]
  BY StockRunTyped DEF Stock!OnToUnits
<1>3. Stock!SeenUnits' = Stock!SeenUnits
  BY <1>2 DEF Stock!SeenUnits
<1>4. StockLeft' = StockLeft
  BY <1>1, <1>2, <1>3 DEF StockLeft
<1>5. run' \in [pc: {"unit"}, seen: [StockUnits -> Stock!Offer], had: [StockIds -> Stock!Row],
                types: SUBSET {StockTypeOf[u] : u \in StockUnits}, units: SUBSET StockUnits]
  BY <1>2, StockRunTyped DEF Stock!SeenUnits
<1>6. StockRunGoes'
  BY <1>1, <1>2, <1>3 DEF StockRunGoes
<1> QED
  BY <1>1, <1>2, <1>3, <1>4, <1>5, <1>6

(* The run is done with a unit.                                            *)
LEMMA StockToNext ==
    ASSUME Stock!TypeOK, StockRunGoes, run.pc \in {"unit", "commit"}, Stock!OnToNext,
           missed' = missed
    PROVE  /\ run'.pc \in {"type", "unit", "push"} /\ run'.seen = run.seen /\ run'.had = run.had
           /\ Stock!ThisUnit \in run.units
           /\ run'.types = run.types /\ run'.units = run.units \ {Stock!ThisUnit}
           /\ Stock!SeenUnits' = Stock!SeenUnits
           /\ StockLeft' = StockLeft \ {Stock!ThisUnit}
           /\ run' \in [pc: {"type", "unit", "push"}, seen: [StockUnits -> Stock!Offer],
                        had: [StockIds -> Stock!Row],
                        types: SUBSET {StockTypeOf[u] : u \in StockUnits},
                        units: SUBSET StockUnits]
           /\ StockRunGoes'
<1>1. Stock!ThisUnit \in run.units /\ Stock!ThisUnit \in Stock!SeenUnits
      /\ StockTypeOf[Stock!ThisUnit] \notin run.types
  BY StockChosen DEF StockRunGoes
<1>2. /\ run'.pc = IF run.units \ {Stock!ThisUnit} # {} THEN "unit"
                   ELSE IF run.types # {} THEN "type" ELSE "push"
      /\ run'.seen = run.seen /\ run'.had = run.had
      /\ run'.types = run.types /\ run'.units = run.units \ {Stock!ThisUnit}
      /\ run' = [pc |-> run'.pc, seen |-> run'.seen, had |-> run'.had, types |-> run'.types,
                 units |-> run'.units]
  BY StockRunTyped DEF Stock!OnToNext
<1>3. Stock!SeenUnits' = Stock!SeenUnits
  BY <1>2 DEF Stock!SeenUnits
<1>4. StockLeft' = StockLeft \ {Stock!ThisUnit}
  BY <1>1, <1>2, <1>3 DEF StockLeft
<1>5. run' \in [pc: {"type", "unit", "push"}, seen: [StockUnits -> Stock!Offer],
                had: [StockIds -> Stock!Row],
                types: SUBSET {StockTypeOf[u] : u \in StockUnits}, units: SUBSET StockUnits]
  BY <1>2, StockRunTyped
<1>6. StockRunGoes'
  BY <1>1, <1>2, <1>3 DEF StockRunGoes
<1> QED
  BY <1>1, <1>2, <1>3, <1>4, <1>5, <1>6

(* Neither the spaces nor the run changes.                                 *)
LEMMA StockStays ==
    ASSUME StockInv, UNCHANGED <<kRows, run, flawed, missed, reshaped, touched>>,
           kEdit'.pc = "open" =>
              /\ kEdit'.row \in StockIds /\ kEdit'.unit \in StockUnits
              /\ kRows[kEdit'.row].status \in {"ACTIVE", "ARCHIVED"}
    PROVE  StockRowsAre' /\ StockRunGoes' /\ StockAlone' /\ StockKnown' /\ StockClean'
<1>1. Stock!SeenUnits' = Stock!SeenUnits /\ StockLeft' = StockLeft
  BY DEF Stock!SeenUnits, StockLeft
<1>2. StockRowsAre'
  BY DEF StockInv, StockRowsAre
<1>3. StockRunGoes'
  BY <1>1 DEF StockInv, StockRunGoes, Stock!FreeRows, Stock!Matches, Stock!ThisUnit
<1>4. StockAlone' /\ StockKnown'
  BY <1>1 DEF StockInv, StockAlone, StockKnown, Stock!Live
<1>5. StockClean'
  BY <1>1 DEF StockInv, StockClean, StockDone, StockAhead, Stock!Live
<1> QED
  BY <1>2, <1>3, <1>4, <1>5

(* A run begins: it knows every space that is for sale.                    *)
LEMMA StockBegun ==
    ASSUME StockInv, Stock!StartRun
    PROVE  Stock!TypeOK' /\ StockRowsAre' /\ StockRunGoes' /\ StockAlone' /\ StockKnown'
           /\ StockClean'
<1> USE StockAssumption DEF StockIds
<1> DEFINE offers == {v \in StockUnits : offered[v] # Stock!Nothing}
           types == {StockTypeOf[u] : u \in offers}
<1>1. /\ run'.pc = IF types = {} THEN "push" ELSE "type"
      /\ run'.seen = offered /\ run'.types = types /\ run'.units = {}
      /\ run'.had = [i \in StockIds |-> IF Stock!Live(i) THEN kRows[i] ELSE Stock!NoRow]
      /\ run' = [pc |-> run'.pc, seen |-> run'.seen, had |-> run'.had, types |-> run'.types,
                 units |-> run'.units]
  BY DEF Stock!StartRun
<1>2. /\ missed' = missed \cup {u \in StockUnits : offered[u] = Stock!Nothing}
      /\ runs < StockRuns /\ runs' = runs + 1 /\ flawed' = FALSE /\ touched' = FALSE
      /\ UNCHANGED <<offered, kRows, kEdit, reshaped, queued, fresh, early, untold, changes>>
  BY DEF Stock!StartRun, Stock!index
<1>3. Stock!SeenUnits' = offers
  BY <1>1 DEF Stock!SeenUnits
<1>4. StockLeft' = offers
  BY <1>1, <1>3 DEF StockLeft
<1>5. Stock!TypeOK'
  <2>1. run'.had \in [StockIds -> Stock!Row]
    BY <1>1 DEF StockInv, Stock!TypeOK, Stock!Row, Stock!NoRow, Stock!Offer
  <2>2. run' \in [pc: {"off", "type", "unit", "commit", "push", "over"},
                  seen: [StockUnits -> Stock!Offer], had: [StockIds -> Stock!Row],
                  types: SUBSET {StockTypeOf[u] : u \in StockUnits}, units: SUBSET StockUnits]
    BY <1>1, <2>1, ZenonT(40) DEF StockInv, Stock!TypeOK
  <2>3. runs' \in 0..StockRuns
    BY <1>2 DEF StockInv, Stock!TypeOK
  <2> QED
    BY <1>2, <2>2, <2>3 DEF StockInv, Stock!TypeOK
<1>6. StockRowsAre'
  BY <1>1, <1>2 DEF StockInv, StockRowsAre, Stock!Live, Stock!NoRow
<1>7. StockRunGoes'
  BY <1>1, <1>2, <1>3 DEF StockRunGoes
<1>8. StockAlone' /\ StockKnown'
  BY <1>1, <1>2, <1>4 DEF StockInv, StockAlone, StockKnown, Stock!Live
<1>9. StockClean'
  <2>1. \A i \in StockIds : Stock!Live(i)' => run'.had[i] = kRows'[i]
    BY <1>1, <1>2 DEF Stock!Live
  <2>2. \A i \in StockIds : run'.had[i].unit # Stock!Nothing => Stock!Live(i)'
    BY <1>1, <1>2 DEF Stock!Live, Stock!NoRow
  <2>3. \A i \in StockIds : Stock!Live(i)' =>
           \/ kRows'[i].unit \in offers \/ StockTypeOf[kRows'[i].unit] \in types
           \/ \A u \in offers : StockTypeOf[u] # StockTypeOf[kRows'[i].unit]
    OBVIOUS
  <2> QED
    BY <1>1, <1>3, <1>4, <2>1, <2>2, <2>3 DEF StockClean
<1> QED
  BY <1>5, <1>6, <1>7, <1>8, <1>9

(* The spaces of a type that are not found any more are archived, or the   *)
(* attempt fails.                                                          *)
LEMMA StockArchived ==
    ASSUME StockInv, NEW heard \in BOOLEAN, Stock!ArchiveType(heard)
    PROVE  Stock!TypeOK' /\ StockRowsAre' /\ StockRunGoes' /\ StockAlone' /\ StockKnown'
           /\ StockClean'
<1> USE StockAssumption DEF StockIds
<1> DEFINE sort == Stock!ThisType
           vanished == {i \in StockIds : Stock!Stale(i, sort)}
<1>1. /\ run.pc = "type" /\ run.types # {} /\ Stock!OnToUnits
      /\ UNCHANGED <<offered, missed, kEdit, reshaped, touched, runs, changes>>
      /\ flawed' = (flawed \/ (~heard /\ vanished # {}))
  BY DEF Stock!ArchiveType
<1>2. kRows' = [i \in StockIds |-> IF i \in vanished /\ kRows[i].status # "DELETED"
                                  THEN [kRows[i] EXCEPT !.status = "ARCHIVED"] ELSE kRows[i]]
  BY DEF Stock!ArchiveType
<1>3. kRows \in [StockIds -> Stock!Row]
  BY DEF StockInv, Stock!TypeOK
<1>4. /\ run'.seen = run.seen /\ run'.had = run.had /\ sort \in run.types /\ run.units = {}
      /\ run'.types = run.types \ {sort}
      /\ run'.units = {u \in Stock!SeenUnits : StockTypeOf[u] = sort}
      /\ Stock!SeenUnits' = Stock!SeenUnits /\ StockLeft' = StockLeft
      /\ run' \in [pc: {"unit"}, seen: [StockUnits -> Stock!Offer],
                   had: [StockIds -> Stock!Row],
                   types: SUBSET {StockTypeOf[u] : u \in StockUnits}, units: SUBSET StockUnits]
      /\ StockRunGoes'
  BY <1>1, StockToUnits DEF StockInv
<1>5. \A i \in StockIds :
         /\ kRows'[i].unit = kRows[i].unit /\ kRows'[i].stock = kRows[i].stock
         /\ kRows'[i].price = kRows[i].price /\ kRows'[i] \in Stock!Row
         /\ kRows'[i].status = IF i \in vanished /\ kRows[i].status # "DELETED" THEN "ARCHIVED"
                               ELSE kRows[i].status
         /\ i \notin vanished => kRows'[i] = kRows[i]
  BY <1>2, <1>3 DEF Stock!Row
<1>6. \A i \in StockIds : i \in vanished <=>
         /\ run.had[i].unit # Stock!Nothing /\ StockTypeOf[run.had[i].unit] = sort
         /\ run.had[i].unit \notin Stock!SeenUnits \ StockInexact
  BY DEF Stock!Stale
<1>7. Stock!TypeOK'
  <2>1. kRows' \in [StockIds -> Stock!Row]
    BY <1>2, <1>5
  <2>2. queued' \in BOOLEAN /\ fresh' \in BOOLEAN /\ untold' \in BOOLEAN /\ early' = early
    BY DEF Stock!ArchiveType, Stock!Shown, StockInv, Stock!TypeOK
  <2>3. flawed' \in BOOLEAN
    BY <1>1
  <2> QED
    BY <1>1, <1>4, <2>1, <2>2, <2>3 DEF StockInv, Stock!TypeOK
<1>8. StockRowsAre'
  <2>1. ASSUME NEW i \in StockIds, i \in vanished, kRows[i].status # "DELETED"
        PROVE  /\ kRows[i].unit \in StockUnits
               /\ kRows[i].unit \in missed \cup StockInexact \cup reshaped
    <3>1. kRows[i].status \in {"ACTIVE", "ARCHIVED"}
      BY <1>3, <1>6, <2>1 DEF StockInv, StockRowsAre, Stock!Row
    <3>2. run.had[i].unit \in StockUnits
      BY <1>6, <2>1, StockRunTyped DEF StockInv, Stock!Row
    <3>3. run.had[i].unit \in missed \cup StockInexact
      BY <1>1, <1>6, <2>1, <3>2 DEF StockInv, StockRunGoes
    <3> QED
      BY <1>6, <2>1, <3>1, <3>3 DEF StockInv, StockRowsAre
  <2>2. ASSUME NEW i \in StockIds
        PROVE  /\ kRows'[i].status \in {"ACTIVE", "ARCHIVED"} => kRows'[i].unit \in StockUnits
               /\ kRows'[i].status = "ARCHIVED" =>
                     kRows'[i].unit \in missed \cup StockInexact \cup reshaped
               /\ run.had[i].unit # Stock!Nothing =>
                     /\ kRows'[i].status # "NONE"
                     /\ kRows'[i].status \in {"ACTIVE", "ARCHIVED"} =>
                           kRows'[i].unit = run.had[i].unit \/ kRows'[i].unit \in reshaped
    <3> HIDE DEF vanished
    <3>1. CASE i \in vanished /\ kRows[i].status # "DELETED"
      <4>1. run.had[i].unit # Stock!Nothing /\ kRows[i].status \in {"ACTIVE", "ARCHIVED"}
        BY <1>3, <1>6, <3>1 DEF StockInv, StockRowsAre, Stock!Row
      <4> QED
        BY <1>5, <2>1, <3>1, <4>1 DEF StockInv, StockRowsAre
    <3>2. CASE ~(i \in vanished /\ kRows[i].status # "DELETED")
      BY <1>5, <3>2 DEF StockInv, StockRowsAre
    <3> QED
      BY <3>1, <3>2
  <2>3. kEdit'.pc = "open" => /\ kEdit'.row \in StockIds /\ kEdit'.unit \in StockUnits
                             /\ kRows'[kEdit'.row].status \in {"ACTIVE", "ARCHIVED"}
    BY <1>1, <1>5 DEF StockInv, StockRowsAre
  <2> QED
    BY <1>1, <1>4, <2>2, <2>3 DEF StockRowsAre
<1>9. \A i \in StockIds :
         Stock!Live(i)' => Stock!Live(i) /\ i \notin vanished /\ kRows'[i] = kRows[i]
  BY <1>5 DEF Stock!Live
<1>10. StockAlone' /\ StockKnown'
  BY <1>1, <1>4, <1>5, <1>9 DEF StockInv, StockAlone, StockKnown
<1>11. StockClean'
  <2> SUFFICES ASSUME ~flawed', ~touched'
               PROVE  StockClean'
    BY DEF StockClean
  <2>1. ~flawed /\ ~touched
    BY <1>1
  <2>2. ASSUME NEW u \in Stock!SeenUnits \ (StockLeft \cup reshaped)
        PROVE  StockDone(u)'
    <3>1. PICK i \in StockIds :
             /\ \A j \in StockIds : Stock!Live(j) /\ kRows[j].unit = u <=> j = i
             /\ kRows[i].stock = run.seen[u] /\ kRows[i].price = run.seen[u]
      BY <2>1, <2>2 DEF StockInv, StockClean, StockDone
    <3>2. StockTypeOf[u] # sort
      BY <1>4, <2>2 DEF StockLeft
    <3>3. i \notin vanished
      <4> SUFFICES ASSUME i \in vanished PROVE FALSE
        OBVIOUS
      <4>1. StockAhead(run.had[i].unit) /\ run.had[i].unit # Stock!Nothing
        BY <1>4, <1>6 DEF StockAhead
      <4>2. kRows[i] = run.had[i]
        BY <2>1, <4>1 DEF StockInv, StockClean
      <4> QED
        BY <1>6, <3>1, <3>2, <4>2
    <3>4. \A j \in StockIds : Stock!Live(j)' /\ kRows'[j].unit = u <=> j = i
      BY <1>5, <1>9, <3>1, <3>3 DEF Stock!Live
    <3> QED
      BY <1>4, <1>5, <3>1, <3>4 DEF StockDone
  <2> DEFINE ahead(v) == StockTypeOf[v] \in run'.types \/ v \in run'.units \ StockInexact
  <2>3. \A v : ahead(v) =>
           StockAhead(v) /\ ~(StockTypeOf[v] = sort /\ v \notin Stock!SeenUnits \ StockInexact)
    BY <1>4 DEF StockAhead
  <2>4. ASSUME NEW i \in StockIds
        PROVE  /\ run'.had[i].unit # Stock!Nothing /\ ahead(run'.had[i].unit) =>
                     kRows'[i] = run'.had[i] /\ Stock!Live(i)'
               /\ Stock!Live(i)' /\ ahead(kRows'[i].unit) => kRows'[i] = run'.had[i]
    <3> HIDE DEF ahead
    <3>1. /\ run.had[i].unit # Stock!Nothing /\ StockAhead(run.had[i].unit) =>
                kRows[i] = run.had[i] /\ Stock!Live(i)
          /\ Stock!Live(i) /\ StockAhead(kRows[i].unit) => kRows[i] = run.had[i]
      BY <2>1 DEF StockInv, StockClean
    <3>2. run'.had[i] = run.had[i]
      BY <1>4
    <3>3. ASSUME run.had[i].unit # Stock!Nothing, ahead(run.had[i].unit)
          PROVE  kRows'[i] = run.had[i] /\ Stock!Live(i)'
      <4>1. StockAhead(run.had[i].unit) /\ i \notin vanished
        BY <1>6, <2>3, <3>3
      <4> QED
        BY <1>5, <3>1, <3>3, <4>1 DEF Stock!Live
    <3>4. ASSUME Stock!Live(i)', ahead(kRows'[i].unit)
          PROVE  kRows'[i] = run.had[i]
      <4>1. kRows'[i] = kRows[i] /\ Stock!Live(i)
        BY <1>9, <3>4
      <4>2. StockAhead(kRows[i].unit)
        BY <2>3, <3>4, <4>1
      <4> QED
        BY <3>1, <4>1, <4>2
    <3> QED
      BY <3>2, <3>3, <3>4
  <2>5. ASSUME NEW i \in StockIds, Stock!Live(i)'
        PROVE  /\ kRows'[i].unit \notin run'.units \cap StockInexact
               /\ \/ kRows'[i].unit \in Stock!SeenUnits
                  \/ StockTypeOf[kRows'[i].unit] \in run'.types
                  \/ \A u \in Stock!SeenUnits : StockTypeOf[u] # StockTypeOf[kRows'[i].unit]
    <3>1. Stock!Live(i) /\ i \notin vanished /\ kRows'[i] = kRows[i]
      BY <1>9, <2>5
    <3>2. kRows[i].unit \in StockUnits
      BY <3>1 DEF StockInv, StockRowsAre, Stock!Live
    <3>3. CASE StockTypeOf[kRows[i].unit] = sort
      <4>1. kRows[i] = run.had[i]
        BY <1>4, <2>1, <3>1, <3>3 DEF StockInv, StockClean, StockAhead
      <4>2. kRows[i].unit \in Stock!SeenUnits \ StockInexact
        BY <1>6, <3>1, <3>2, <3>3, <4>1, StockAssumption
      <4> QED
        BY <3>1, <4>2
    <3>4. CASE StockTypeOf[kRows[i].unit] # sort
      BY <1>4, <2>1, <3>1, <3>4 DEF StockInv, StockClean
    <3> QED
      BY <3>3, <3>4
  <2> QED
    BY <1>1, <1>4, <2>2, <2>4, <2>5 DEF StockClean, StockAhead
<1> QED
  BY <1>4, <1>7, <1>8, <1>10, <1>11

LEMMA StockNotArchived ==
    ASSUME StockInv, Stock!ArchiveFails
    PROVE  Stock!TypeOK' /\ StockRowsAre' /\ StockRunGoes' /\ StockAlone' /\ StockKnown'
           /\ StockClean'
<1>1. /\ run.pc = "type" /\ run.types # {} /\ Stock!OnToUnits /\ flawed' = TRUE
      /\ UNCHANGED <<offered, kRows, missed, kEdit, reshaped, touched, queued, fresh, early,
                     untold, runs, changes>>
  BY DEF Stock!ArchiveFails, Stock!index
<1>2. /\ run'.seen = run.seen /\ run'.had = run.had
      /\ Stock!SeenUnits' = Stock!SeenUnits /\ StockLeft' = StockLeft
      /\ run' \in [pc: {"unit"}, seen: [StockUnits -> Stock!Offer],
                   had: [StockIds -> Stock!Row],
                   types: SUBSET {StockTypeOf[u] : u \in StockUnits}, units: SUBSET StockUnits]
      /\ StockRunGoes'
  BY <1>1, StockToUnits DEF StockInv
<1>3. Stock!TypeOK'
  BY <1>1, <1>2 DEF StockInv, Stock!TypeOK, StockIds
<1>4. StockRowsAre'
  BY <1>1, <1>2 DEF StockInv, StockRowsAre
<1>5. StockAlone' /\ StockKnown'
  BY <1>1, <1>2 DEF StockInv, StockAlone, StockKnown, Stock!Live
<1>6. StockClean'
  BY <1>1 DEF StockClean
<1> QED
  BY <1>2, <1>3, <1>4, <1>5, <1>6

(* A unit without a space gets one.                                        *)
LEMMA StockInserted ==
    ASSUME StockInv, Stock!InsertSpace
    PROVE  Stock!TypeOK' /\ StockRowsAre' /\ StockRunGoes' /\ StockAlone' /\ StockKnown'
           /\ StockClean'
<1>1. /\ run.pc = "unit" /\ Stock!Matches(Stock!ThisUnit) = {} /\ Stock!FreeRows # {}
      /\ UNCHANGED <<offered, kRows, flawed, missed, kEdit, reshaped, touched, runs, changes>>
      /\ queued' = TRUE /\ untold' = FALSE /\ UNCHANGED <<fresh, early>>
  BY DEF Stock!InsertSpace, Stock!Told
<1>2. /\ run'.pc = "commit" /\ run'.seen = run.seen /\ run'.had = run.had
      /\ run'.types = run.types /\ run'.units = run.units
      /\ run' = [pc |-> run'.pc, seen |-> run'.seen, had |-> run'.had, types |-> run'.types,
                 units |-> run'.units]
  BY StockRunTyped DEF Stock!InsertSpace, StockInv
<1>3. Stock!SeenUnits' = Stock!SeenUnits /\ StockLeft' = StockLeft
      /\ Stock!ThisUnit' = Stock!ThisUnit
  BY <1>2 DEF Stock!SeenUnits, StockLeft, Stock!ThisUnit
<1>4. Stock!Matches(Stock!ThisUnit)' = Stock!Matches(Stock!ThisUnit)
      /\ Stock!FreeRows' = Stock!FreeRows
  BY <1>1, <1>2, <1>3 DEF Stock!Matches, Stock!FreeRows
<1>5. Stock!TypeOK'
  <2>1. run' \in [pc: {"off", "type", "unit", "commit", "push", "over"},
                  seen: [StockUnits -> Stock!Offer], had: [StockIds -> Stock!Row],
                  types: SUBSET {StockTypeOf[u] : u \in StockUnits}, units: SUBSET StockUnits]
    BY <1>2, StockRunTyped DEF StockInv
  <2> QED
    BY <1>1, <2>1 DEF StockInv, Stock!TypeOK, StockIds
<1>6. StockRowsAre'
  BY <1>1, <1>2 DEF StockInv, StockRowsAre
<1>7. StockRunGoes'
  <2>1. run.units # {}
    BY <1>1 DEF StockInv, StockRunGoes
  <2> QED
    BY <1>1, <1>2, <1>3, <1>4, <2>1 DEF StockInv, StockRunGoes
<1>8. StockAlone' /\ StockKnown'
  BY <1>1, <1>2, <1>3 DEF StockInv, StockAlone, StockKnown, Stock!Live
<1>9. StockClean'
  BY <1>1, <1>2, <1>3 DEF StockInv, StockClean, StockDone, StockAhead, Stock!Live
<1> QED
  BY <1>5, <1>6, <1>7, <1>8, <1>9

LEMMA StockSkipped ==
    ASSUME StockInv, Stock!CreateFails
    PROVE  Stock!TypeOK' /\ StockRowsAre' /\ StockRunGoes' /\ StockAlone' /\ StockKnown'
           /\ StockClean'
<1>1. /\ run.pc \in {"unit", "commit"} /\ Stock!OnToNext /\ flawed' = TRUE
      /\ UNCHANGED <<offered, kRows, missed, kEdit, reshaped, touched, queued, fresh, early,
                     untold, runs, changes>>
  BY DEF Stock!CreateFails, Stock!index
<1>2. /\ run'.seen = run.seen /\ run'.had = run.had
      /\ StockLeft' = StockLeft \ {Stock!ThisUnit}
      /\ run' \in [pc: {"type", "unit", "push"}, seen: [StockUnits -> Stock!Offer],
                   had: [StockIds -> Stock!Row],
                   types: SUBSET {StockTypeOf[u] : u \in StockUnits}, units: SUBSET StockUnits]
      /\ StockRunGoes'
  BY <1>1, StockToNext DEF StockInv
<1>3. Stock!TypeOK'
  BY <1>1, <1>2 DEF StockInv, Stock!TypeOK, StockIds
<1>4. StockRowsAre'
  BY <1>1, <1>2 DEF StockInv, StockRowsAre
<1>5. StockAlone' /\ StockKnown'
  BY <1>1, <1>2 DEF StockInv, StockAlone, StockKnown, Stock!Live
<1>6. StockClean'
  BY <1>1 DEF StockClean
<1> QED
  BY <1>2, <1>3, <1>4, <1>5, <1>6

LEMMA StockCommitted ==
    ASSUME StockInv, Stock!CommitSpace
    PROVE  Stock!TypeOK' /\ StockRowsAre' /\ StockRunGoes' /\ StockAlone' /\ StockKnown'
           /\ StockClean'
<1> USE StockAssumption DEF StockIds
<1> DEFINE u == Stock!ThisUnit
<1>1. /\ run.pc = "commit" /\ Stock!OnToNext
      /\ UNCHANGED <<offered, flawed, missed, kEdit, reshaped, touched, runs, changes>>
      /\ fresh' = FALSE /\ UNCHANGED <<queued, early, untold>>
  BY DEF Stock!CommitSpace, Stock!ShownUnread
<1>2. /\ run'.seen = run.seen /\ run'.had = run.had /\ u \in run.units
      /\ run'.types = run.types /\ run'.units = run.units \ {u}
      /\ Stock!SeenUnits' = Stock!SeenUnits /\ StockLeft' = StockLeft \ {u}
      /\ run' \in [pc: {"type", "unit", "push"}, seen: [StockUnits -> Stock!Offer],
                   had: [StockIds -> Stock!Row],
                   types: SUBSET {StockTypeOf[v] : v \in StockUnits}, units: SUBSET StockUnits]
      /\ StockRunGoes'
  BY <1>1, StockToNext DEF StockInv
<1>3. u \in StockUnits /\ u \in Stock!SeenUnits /\ u # Stock!Nothing
      /\ StockTypeOf[u] \notin run.types /\ run.seen[u] \in Stock!Offer
      /\ Stock!Matches(u) = {}
  BY <1>1, <1>2, StockRunTyped DEF StockInv, StockRunGoes
<1>4. PICK k \in StockIds :
         /\ kRows[k] = Stock!NoRow
         /\ kRows' = [kRows EXCEPT ![k] = [unit |-> u, status |-> "ACTIVE",
                                           stock |-> run.seen[u], price |-> run.seen[u]]]
  <2>1. Stock!FreeRows # {}
    BY <1>1 DEF StockInv, StockRunGoes
  <2>2. (CHOOSE j \in Stock!FreeRows : TRUE) \in Stock!FreeRows
    BY <2>1
  <2> QED
    BY <2>2 DEF Stock!CommitSpace, Stock!FreeRows
<1>5. kRows \in [StockIds -> Stock!Row]
  BY DEF StockInv, Stock!TypeOK
<1>6. /\ kRows'[k] = [unit |-> u, status |-> "ACTIVE", stock |-> run.seen[u],
                      price |-> run.seen[u]]
      /\ \A i \in StockIds : i # k => kRows'[i] = kRows[i]
      /\ ~Stock!Live(k) /\ Stock!Live(k)' /\ run.had[k].unit = Stock!Nothing
      /\ \A i \in StockIds : i # k => (Stock!Live(i)' <=> Stock!Live(i))
  BY <1>4, <1>5 DEF Stock!Live, Stock!NoRow, StockInv, StockRowsAre
<1> HIDE DEF u
<1>7. Stock!TypeOK'
  <2>1. kRows' \in [StockIds -> Stock!Row]
    BY <1>3, <1>4, <1>5 DEF Stock!Row
  <2> QED
    BY <1>1, <1>2, <2>1 DEF StockInv, Stock!TypeOK
<1>8. StockRowsAre'
  <2>1. \A i \in StockIds :
           /\ kRows'[i].status \in {"ACTIVE", "ARCHIVED"} => kRows'[i].unit \in StockUnits
           /\ kRows'[i].status = "ARCHIVED" =>
                 kRows'[i].unit \in missed \cup StockInexact \cup reshaped
           /\ run.had[i].unit # Stock!Nothing =>
                 /\ kRows'[i].status # "NONE"
                 /\ kRows'[i].status \in {"ACTIVE", "ARCHIVED"} =>
                       kRows'[i].unit = run.had[i].unit \/ kRows'[i].unit \in reshaped
    BY <1>3, <1>6 DEF StockInv, StockRowsAre
  <2>2. kEdit.pc = "open" => kEdit.row # k
    BY <1>4 DEF StockInv, StockRowsAre, Stock!NoRow
  <2>3. kEdit'.pc = "open" => /\ kEdit'.row \in StockIds /\ kEdit'.unit \in StockUnits
                             /\ kRows'[kEdit'.row].status \in {"ACTIVE", "ARCHIVED"}
    BY <1>1, <1>6, <2>2 DEF StockInv, StockRowsAre
  <2> QED
    BY <1>1, <1>2, <2>1, <2>3 DEF StockRowsAre
<1>9. ASSUME NEW i \in StockIds, Stock!Live(i), kRows[i].unit = u
      PROVE  u \in StockInexact \cup reshaped
  <2>1. u \in StockLeft
    BY <1>2 DEF StockLeft
  <2>2. run.had[i].unit # u \/ u \in StockInexact
    BY <1>3 DEF Stock!Matches
  <2> QED
    BY <1>9, <2>1, <2>2 DEF StockInv, StockKnown
<1>10. StockAlone'
  BY <1>1, <1>6, <1>9 DEF StockInv, StockAlone
<1>11. StockKnown'
  BY <1>1, <1>2, <1>6 DEF StockInv, StockKnown
<1>12. StockClean'
  <2> SUFFICES ASSUME ~flawed', ~touched'
               PROVE  StockClean'
    BY DEF StockClean
  <2>1. ~flawed /\ ~touched
    BY <1>1
  <2>2. ASSUME NEW v \in Stock!SeenUnits, v \notin (StockLeft \ {u}) \cup reshaped
        PROVE  StockDone(v)'
    <3>1. CASE v = u
      <4>1. ~\E i \in StockIds : Stock!Live(i) /\ kRows[i].unit = u
        <5> SUFFICES ASSUME NEW i \in StockIds, Stock!Live(i), kRows[i].unit = u PROVE FALSE
          OBVIOUS
        <5>1. u \in StockInexact
          BY <1>9, <2>2, <3>1
        <5> QED
          BY <1>2, <2>1, <5>1 DEF StockInv, StockClean
      <4>2. \A j \in StockIds : Stock!Live(j)' /\ kRows'[j].unit = v <=> j = k
        BY <1>6, <3>1, <4>1
      <4> QED
        BY <1>2, <1>6, <3>1, <4>2 DEF StockDone
    <3>2. CASE v # u
      <4>1. StockDone(v)
        BY <2>1, <2>2, <3>2 DEF StockInv, StockClean
      <4>2. PICK i \in StockIds :
               /\ \A j \in StockIds : Stock!Live(j) /\ kRows[j].unit = v <=> j = i
               /\ kRows[i].stock = run.seen[v] /\ kRows[i].price = run.seen[v]
        BY <4>1 DEF StockDone
      <4>3. i # k /\ \A j \in StockIds : Stock!Live(j)' /\ kRows'[j].unit = v <=> j = i
        BY <1>6, <3>2, <4>2
      <4> QED
        BY <1>2, <1>6, <4>2, <4>3 DEF StockDone
    <3> QED
      BY <3>1, <3>2
  <2> DEFINE ahead(v) == StockTypeOf[v] \in run'.types \/ v \in run'.units \ StockInexact
  <2>3. \A v : ahead(v) => StockAhead(v) /\ v # u
    BY <1>2, <1>3 DEF StockAhead
  <2> HIDE DEF ahead
  <2>4. ASSUME NEW i \in StockIds
        PROVE  /\ run'.had[i].unit # Stock!Nothing /\ ahead(run'.had[i].unit) =>
                     kRows'[i] = run'.had[i] /\ Stock!Live(i)'
               /\ Stock!Live(i)' /\ ahead(kRows'[i].unit) => kRows'[i] = run'.had[i]
    BY <1>2, <1>6, <2>1, <2>3 DEF StockInv, StockClean
  <2>5. ASSUME NEW i \in StockIds, Stock!Live(i)'
        PROVE  /\ kRows'[i].unit \notin run'.units \cap StockInexact
               /\ \/ kRows'[i].unit \in Stock!SeenUnits
                  \/ StockTypeOf[kRows'[i].unit] \in run'.types
                  \/ \A v \in Stock!SeenUnits : StockTypeOf[v] # StockTypeOf[kRows'[i].unit]
    <3>1. CASE i = k
      BY <1>2, <1>3, <1>6, <3>1
    <3>2. CASE i # k
      BY <1>2, <1>6, <2>1, <2>5, <3>2 DEF StockInv, StockClean
    <3> QED
      BY <3>1, <3>2
  <2> QED
    BY <1>1, <1>2, <2>2, <2>4, <2>5 DEF StockClean, StockAhead, ahead
<1> QED
  BY <1>2, <1>7, <1>8, <1>10, <1>11, <1>12

(* The space of a unit is written.                                         *)
LEMMA StockUpdated ==
    ASSUME StockInv, NEW i \in StockIds, NEW saved \in BOOLEAN, NEW priced \in BOOLEAN,
           NEW heard \in BOOLEAN, Stock!UpdateSpace(i, saved, priced, heard)
    PROVE  Stock!TypeOK' /\ StockRowsAre' /\ StockRunGoes' /\ StockAlone' /\ StockKnown'
           /\ StockClean'
<1> USE StockAssumption DEF StockIds
<1> DEFINE u == Stock!ThisUnit
           writes == saved /\ run.had[i].stock # run.seen[u]
<1>1. /\ run.pc = "unit" /\ Stock!OnToNext /\ i \in Stock!Matches(u)
      /\ UNCHANGED <<offered, missed, kEdit, reshaped, touched, runs, changes>>
      /\ flawed' = (flawed \/ ~saved \/ ~priced \/ (writes /\ ~heard))
      /\ kRows' = [kRows EXCEPT ![i].stock = IF writes THEN run.seen[u] ELSE @,
                               ![i].price = IF priced THEN run.seen[u] ELSE @]
  BY DEF Stock!UpdateSpace
<1>2. /\ run'.seen = run.seen /\ run'.had = run.had /\ u \in run.units
      /\ run'.types = run.types /\ run'.units = run.units \ {u}
      /\ Stock!SeenUnits' = Stock!SeenUnits /\ StockLeft' = StockLeft \ {u}
      /\ run' \in [pc: {"type", "unit", "push"}, seen: [StockUnits -> Stock!Offer],
                   had: [StockIds -> Stock!Row],
                   types: SUBSET {StockTypeOf[v] : v \in StockUnits}, units: SUBSET StockUnits]
      /\ StockRunGoes'
  BY <1>1, StockToNext DEF StockInv
<1>3. /\ u \in StockUnits /\ u \in Stock!SeenUnits /\ u # Stock!Nothing
      /\ StockTypeOf[u] \notin run.types /\ run.seen[u] \in Stock!Offer
      /\ run.had[i].unit = u /\ u \notin StockInexact
  BY <1>1, <1>2, StockRunTyped DEF StockInv, StockRunGoes, Stock!Matches
<1>4. kRows \in [StockIds -> Stock!Row]
  BY DEF StockInv, Stock!TypeOK
<1>5. kRows' \in [StockIds -> Stock!Row]
  <2>1. PICK s \in Stock!Offer, p \in Stock!Offer :
           kRows' = [kRows EXCEPT ![i].stock = s, ![i].price = p]
    BY <1>1, <1>3, <1>4 DEF Stock!Row
  <2> QED
    BY <1>4, <2>1, ZenonT(40) DEF Stock!Row
<1>6. /\ kRows'[i].stock = IF writes THEN run.seen[u] ELSE kRows[i].stock
      /\ kRows'[i].price = IF priced THEN run.seen[u] ELSE kRows[i].price
      /\ \A j \in StockIds :
            /\ kRows'[j].unit = kRows[j].unit /\ kRows'[j].status = kRows[j].status
            /\ j # i => kRows'[j] = kRows[j]
            /\ Stock!Live(j)' <=> Stock!Live(j)
  BY <1>1, <1>4 DEF Stock!Row, Stock!Live
<1> HIDE DEF u
<1>11. \A j \in StockIds : /\ kRows'[j].unit = kRows[j].unit /\ kRows'[j].status = kRows[j].status
                           /\ Stock!Live(j)' <=> Stock!Live(j)
  BY <1>6
<1>7. Stock!TypeOK'
  <2>1. queued' \in BOOLEAN /\ fresh' \in BOOLEAN /\ untold' \in BOOLEAN /\ early' = early
    BY DEF Stock!UpdateSpace, Stock!Shown, StockInv, Stock!TypeOK
  <2>2. flawed' \in BOOLEAN
    BY <1>1
  <2> QED
    BY <1>1, <1>2, <1>5, <2>1, <2>2 DEF StockInv, Stock!TypeOK
<1>8. StockRowsAre'
  <2>1. UNCHANGED <<missed, kEdit, reshaped>> /\ run'.had = run.had
    BY <1>1, <1>2
  <2> QED
    BY <1>11, <2>1 DEF StockInv, StockRowsAre
<1>9. StockAlone' /\ StockKnown'
  <2>1. reshaped' = reshaped /\ run'.had = run.had /\ StockLeft' \subseteq StockLeft
    BY <1>1, <1>2
  <2>2. StockAlone'
    BY <1>11, <2>1 DEF StockInv, StockAlone
  <2> QED
    BY <1>11, <2>1, <2>2 DEF StockInv, StockKnown
<1>10. StockClean'
  <2> SUFFICES ASSUME ~flawed', ~touched'
               PROVE  StockClean'
    BY DEF StockClean
  <2>1. ~flawed /\ ~touched /\ saved /\ priced
    BY <1>1
  <2>2. kRows[i] = run.had[i] /\ Stock!Live(i) /\ kRows[i].unit = u
    BY <1>2, <1>3, <2>1 DEF StockInv, StockClean, StockAhead
  <2>3. kRows'[i].stock = run.seen[u] /\ kRows'[i].price = run.seen[u]
    BY <1>6, <2>1, <2>2
  <2>4. ASSUME NEW v \in Stock!SeenUnits, v \notin (StockLeft \ {u}) \cup reshaped
        PROVE  StockDone(v)'
    <3>1. CASE v = u
      <4>1. \A j \in StockIds : Stock!Live(j)' /\ kRows'[j].unit = v <=> j = i
        BY <1>3, <1>6, <2>2, <2>4, <3>1 DEF StockInv, StockAlone
      <4> QED
        BY <1>2, <2>3, <3>1, <4>1 DEF StockDone
    <3>2. CASE v # u
      <4>1. StockDone(v)
        BY <2>1, <2>4, <3>2 DEF StockInv, StockClean
      <4>2. PICK k \in StockIds :
               /\ \A j \in StockIds : Stock!Live(j) /\ kRows[j].unit = v <=> j = k
               /\ kRows[k].stock = run.seen[v] /\ kRows[k].price = run.seen[v]
        BY <4>1 DEF StockDone
      <4>3. i # k /\ \A j \in StockIds : Stock!Live(j)' /\ kRows'[j].unit = v <=> j = k
        BY <1>6, <2>2, <3>2, <4>2
      <4> QED
        BY <1>2, <1>6, <4>2, <4>3 DEF StockDone
    <3> QED
      BY <3>1, <3>2
  <2> DEFINE ahead(v) == StockTypeOf[v] \in run'.types \/ v \in run'.units \ StockInexact
  <2>5. \A v : ahead(v) => StockAhead(v) /\ v # u
    BY <1>2, <1>3 DEF StockAhead
  <2> HIDE DEF ahead
  <2>6. ASSUME NEW j \in StockIds
        PROVE  /\ run'.had[j].unit # Stock!Nothing /\ ahead(run'.had[j].unit) =>
                     kRows'[j] = run'.had[j] /\ Stock!Live(j)'
               /\ Stock!Live(j)' /\ ahead(kRows'[j].unit) => kRows'[j] = run'.had[j]
    <3>1. CASE j = i
      BY <1>2, <1>3, <1>6, <2>2, <2>5, <3>1
    <3>2. CASE j # i
      BY <1>2, <1>6, <2>1, <2>5, <3>2 DEF StockInv, StockClean
    <3> QED
      BY <3>1, <3>2
  <2>7. ASSUME NEW j \in StockIds, Stock!Live(j)'
        PROVE  /\ kRows'[j].unit \notin run'.units \cap StockInexact
               /\ \/ kRows'[j].unit \in Stock!SeenUnits
                  \/ StockTypeOf[kRows'[j].unit] \in run'.types
                  \/ \A v \in Stock!SeenUnits : StockTypeOf[v] # StockTypeOf[kRows'[j].unit]
    BY <1>2, <1>6, <2>1, <2>7 DEF StockInv, StockClean
  <2> QED
    BY <1>1, <1>2, <2>4, <2>6, <2>7 DEF StockClean, StockAhead, ahead
<1> QED
  BY <1>2, <1>7, <1>8, <1>9, <1>10

(* The run ends, with its message or without.                              *)
LEMMA StockEnded ==
    ASSUME StockInv, Stock!PushSite \/ Stock!PushFails
    PROVE  Stock!TypeOK' /\ StockRowsAre' /\ StockRunGoes' /\ StockAlone' /\ StockKnown'
           /\ StockClean'
<1>1. /\ run.pc = "push" /\ flawed' \in BOOLEAN /\ (flawed => flawed')
      /\ UNCHANGED <<offered, kRows, missed, kEdit, reshaped, touched, fresh, early, runs, changes>>
      /\ queued' \in {queued, TRUE} /\ untold' \in {untold, FALSE}
  BY DEF Stock!PushSite, Stock!PushFails, Stock!Told, Stock!index, StockInv, Stock!TypeOK
<1>2. run.units = {} /\ run.types = {}
  BY <1>1 DEF StockInv, StockRunGoes
<1>3. /\ run'.pc = "over" /\ run'.seen = run.seen /\ run'.units = {} /\ run'.types = {}
      /\ run'.had = [j \in StockIds |-> Stock!NoRow]
      /\ run' = [pc |-> run'.pc, seen |-> run'.seen, had |-> run'.had, types |-> run'.types,
                 units |-> run'.units]
  BY <1>2, StockRunTyped DEF Stock!PushSite, Stock!PushFails, Stock!Off, StockInv, StockIds
<1>4. Stock!SeenUnits' = Stock!SeenUnits /\ StockLeft' = {} /\ StockLeft = {}
  BY <1>2, <1>3 DEF Stock!SeenUnits, StockLeft
<1>5. Stock!TypeOK'
  <2>1. run'.had \in [StockIds -> Stock!Row]
    BY <1>3 DEF Stock!Row, Stock!NoRow, Stock!Offer
  <2>2. run' \in [pc: {"off", "type", "unit", "commit", "push", "over"},
                  seen: [StockUnits -> Stock!Offer], had: [StockIds -> Stock!Row],
                  types: SUBSET {StockTypeOf[v] : v \in StockUnits}, units: SUBSET StockUnits]
    BY <1>3, <2>1, StockRunTyped DEF StockInv
  <2> QED
    BY <1>1, <2>2 DEF StockInv, Stock!TypeOK, StockIds
<1>6. StockRowsAre'
  BY <1>1, <1>3 DEF StockInv, StockRowsAre, Stock!NoRow
<1>7. StockRunGoes'
  BY <1>1, <1>3, <1>4 DEF StockInv, StockRunGoes
<1>8. StockAlone' /\ StockKnown'
  BY <1>1, <1>3, <1>4 DEF StockInv, StockAlone, StockKnown, Stock!Live
<1>9. StockClean'
  <2> SUFFICES ASSUME ~flawed', ~touched'
               PROVE  StockClean'
    BY DEF StockClean
  <2>1. ~flawed /\ ~touched
    BY <1>1
  <2>2. \A j \in StockIds : (Stock!Live(j)' <=> Stock!Live(j)) /\ kRows'[j] = kRows[j]
    BY <1>1 DEF Stock!Live
  <2>3. \A u \in Stock!SeenUnits \ reshaped : StockDone(u)'
    <3>1. \A u \in Stock!SeenUnits \ reshaped : StockDone(u)
      BY <1>4, <2>1 DEF StockInv, StockClean
    <3> QED
      BY <1>3, <2>2, <3>1 DEF StockDone
  <2>4. \A j \in StockIds : Stock!Live(j)' =>
           \/ kRows'[j].unit \in Stock!SeenUnits
           \/ \A u \in Stock!SeenUnits : StockTypeOf[u] # StockTypeOf[kRows'[j].unit]
    BY <1>2, <2>1, <2>2 DEF StockInv, StockClean
  <2>5. \A v : ~(StockTypeOf[v] \in run'.types \/ v \in run'.units \ StockInexact)
    BY <1>3
  <2>6. reshaped' = reshaped
    BY <1>1
  <2> QED
    BY <1>3, <1>4, <2>3, <2>4, <2>5, <2>6 DEF StockClean, StockAhead
<1> QED
  BY <1>5, <1>6, <1>7, <1>8, <1>9

(* A host's update is committed.                                           *)
LEMMA StockEdited ==
    ASSUME StockInv, Stock!CommitEdit
    PROVE  Stock!TypeOK' /\ StockRowsAre' /\ StockRunGoes' /\ StockAlone' /\ StockKnown'
           /\ StockClean'
<1> USE StockAssumption DEF StockIds
<1> DEFINE k == kEdit.row
<1>1. /\ kEdit.pc = "open" /\ k \in StockIds /\ kEdit.unit \in StockUnits
      /\ kRows[k].status \in {"ACTIVE", "ARCHIVED"}
      /\ kEdit.stock \in Stock!Offer /\ kEdit.price \in Stock!Offer
  BY DEF Stock!CommitEdit, StockInv, StockRowsAre, Stock!TypeOK
<1>2. /\ kRows' = [kRows EXCEPT ![k].unit = kEdit.unit,
                               ![k].stock = IF kEdit.stock # Stock!Nothing THEN kEdit.stock ELSE @,
                               ![k].price = IF kEdit.price # Stock!Nothing THEN kEdit.price ELSE @]
      /\ reshaped' = reshaped \cup ({kEdit.unit} \ {kRows[k].unit})
      /\ kEdit' = Stock!NoEdit /\ touched' = TRUE /\ fresh' = FALSE
      /\ UNCHANGED <<queued, early, untold, offered, run, flawed, missed, runs, changes>>
  BY DEF Stock!CommitEdit, Stock!ShownUnread
<1>3. kRows \in [StockIds -> Stock!Row]
  BY DEF StockInv, Stock!TypeOK
<1>4. kRows' \in [StockIds -> Stock!Row]
  BY <1>1, <1>2, <1>3, SMTT(30) DEF Stock!Row
<1>5. /\ \A j \in StockIds :
            /\ kRows'[j].status = kRows[j].status /\ (Stock!Live(j)' <=> Stock!Live(j))
            /\ j # k => kRows'[j] = kRows[j]
      /\ kRows'[k].unit = kEdit.unit
      /\ kRows'[k].unit = kRows[k].unit \/ kRows'[k].unit \in reshaped'
      /\ reshaped \subseteq reshaped'
  BY <1>1, <1>2, <1>3 DEF Stock!Row, Stock!Live
<1>6. Stock!SeenUnits' = Stock!SeenUnits /\ StockLeft' = StockLeft
      /\ Stock!ThisUnit' = Stock!ThisUnit
  BY <1>2 DEF Stock!SeenUnits, StockLeft, Stock!ThisUnit
<1> HIDE DEF k
<1>7. Stock!TypeOK'
  <2>1. kEdit' \in [pc: {"idle", "open"}, row: 0..StockMaxRows,
                    unit: StockUnits \cup {Stock!Nothing}, stock: Stock!Offer,
                    price: Stock!Offer]
    BY <1>2 DEF Stock!NoEdit, Stock!Offer
  <2>2. reshaped' \subseteq StockUnits
    BY <1>1, <1>2 DEF StockInv, Stock!TypeOK
  <2> QED
    BY <1>2, <1>4, <2>1, <2>2 DEF StockInv, Stock!TypeOK
<1>8. StockRowsAre'
  <2>1. ASSUME NEW j \in StockIds
        PROVE  /\ kRows'[j].status \in {"ACTIVE", "ARCHIVED"} => kRows'[j].unit \in StockUnits
               /\ kRows'[j].status = "ARCHIVED" =>
                     kRows'[j].unit \in missed \cup StockInexact \cup reshaped'
               /\ run.had[j].unit # Stock!Nothing =>
                     /\ kRows'[j].status # "NONE"
                     /\ kRows'[j].status \in {"ACTIVE", "ARCHIVED"} =>
                           kRows'[j].unit = run.had[j].unit \/ kRows'[j].unit \in reshaped'
    <3>1. CASE j = k
      BY <1>1, <1>5, <3>1 DEF StockInv, StockRowsAre
    <3>2. CASE j # k
      BY <1>5, <3>2 DEF StockInv, StockRowsAre
    <3> QED
      BY <3>1, <3>2
  <2> QED
    BY <1>2, <2>1 DEF StockRowsAre, Stock!NoEdit
<1>9. StockRunGoes'
  <2>1. Stock!FreeRows' = Stock!FreeRows
    <3>1. kRows[k] # Stock!NoRow /\ kRows'[k] # Stock!NoRow
      BY <1>1, <1>5 DEF Stock!NoRow
    <3> QED
      BY <1>5, <3>1 DEF Stock!FreeRows
  <2>2. Stock!Matches(Stock!ThisUnit)' = Stock!Matches(Stock!ThisUnit)
    BY <1>2, <1>6 DEF Stock!Matches
  <2> QED
    BY <1>2, <1>6, <2>1, <2>2 DEF StockInv, StockRunGoes
<1>10. \A j \in StockIds : kRows'[j].unit = kRows[j].unit \/ kRows'[j].unit \in reshaped'
  BY <1>5
<1>11. StockAlone' /\ StockKnown'
  <2>1. ASSUME NEW a \in StockIds, NEW b \in StockIds, a # b, Stock!Live(a)', Stock!Live(b)',
               kRows'[a].unit = kRows'[b].unit
        PROVE  kRows'[a].unit \in StockInexact \cup reshaped'
    <3>1. Stock!Live(a) /\ Stock!Live(b)
      BY <1>5, <2>1
    <3>2. CASE kRows'[a].unit = kRows[a].unit /\ kRows'[b].unit = kRows[b].unit
      BY <1>5, <2>1, <3>1, <3>2 DEF StockInv, StockAlone
    <3> QED
      BY <1>10, <2>1, <3>2
  <2>2. ASSUME NEW a \in StockIds, Stock!Live(a)',
               kRows'[a].unit \in StockLeft \ (StockInexact \cup reshaped')
        PROVE  run.had[a].unit = kRows'[a].unit
    <3>1. Stock!Live(a) /\ kRows'[a].unit = kRows[a].unit
      BY <1>5, <1>10, <2>2
    <3> QED
      BY <1>5, <2>2, <3>1 DEF StockInv, StockKnown
  <2>3. StockAlone'
    BY <2>1 DEF StockAlone
  <2> QED
    BY <1>2, <1>6, <2>2, <2>3 DEF StockKnown
<1>12. StockClean'
  BY <1>2 DEF StockClean
<1> QED
  BY <1>7, <1>8, <1>9, <1>11, <1>12

LEMMA StockDeleted ==
    ASSUME StockInv, NEW k \in StockIds, NEW heard \in BOOLEAN, Stock!DeleteSpace(k, heard)
    PROVE  Stock!TypeOK' /\ StockRowsAre' /\ StockRunGoes' /\ StockAlone' /\ StockKnown'
           /\ StockClean'
<1> USE StockAssumption DEF StockIds
<1>1. /\ kRows[k].status = "ARCHIVED" /\ ~Stock!Locked(k) /\ touched' = TRUE
      /\ kRows' = [kRows EXCEPT ![k] = [Stock!NoRow EXCEPT !.status = "DELETED"]]
      /\ UNCHANGED <<offered, run, flawed, missed, kEdit, reshaped, runs, changes>>
      /\ queued' \in BOOLEAN /\ fresh' \in BOOLEAN /\ untold' \in BOOLEAN /\ early' = early
  BY DEF Stock!DeleteSpace, Stock!Shown, StockInv, Stock!TypeOK
<1>2. kRows \in [StockIds -> Stock!Row]
  BY DEF StockInv, Stock!TypeOK
<1>3. /\ kRows'[k].status = "DELETED" /\ kRows'[k] \in Stock!Row
      /\ \A j \in StockIds : j # k => kRows'[j] = kRows[j]
      /\ \A j \in StockIds : Stock!Live(j)' => j # k /\ Stock!Live(j)
  BY <1>1, <1>2 DEF Stock!NoRow, Stock!Live, Stock!Row, Stock!Offer
<1>4. Stock!SeenUnits' = Stock!SeenUnits /\ StockLeft' = StockLeft
      /\ Stock!ThisUnit' = Stock!ThisUnit
  BY <1>1 DEF Stock!SeenUnits, StockLeft, Stock!ThisUnit
<1>5. Stock!TypeOK'
  <2>1. kRows' \in [StockIds -> Stock!Row]
    BY <1>1, <1>2, <1>3
  <2> QED
    BY <1>1, <2>1 DEF StockInv, Stock!TypeOK
<1>6. StockRowsAre'
  BY <1>1, <1>3 DEF StockInv, StockRowsAre, Stock!Locked
<1>7. StockRunGoes'
  <2>1. Stock!FreeRows' = Stock!FreeRows
    <3>1. kRows[k] # Stock!NoRow /\ kRows'[k] # Stock!NoRow
      BY <1>1, <1>3 DEF Stock!NoRow
    <3> QED
      BY <1>3, <3>1 DEF Stock!FreeRows
  <2>2. Stock!Matches(Stock!ThisUnit)' = Stock!Matches(Stock!ThisUnit)
    BY <1>1, <1>4 DEF Stock!Matches
  <2> QED
    BY <1>1, <1>4, <2>1, <2>2 DEF StockInv, StockRunGoes
<1>8. StockAlone' /\ StockKnown'
  BY <1>1, <1>3, <1>4 DEF StockInv, StockAlone, StockKnown
<1>9. StockClean'
  BY <1>1 DEF StockClean
<1> QED
  BY <1>5, <1>6, <1>7, <1>8, <1>9

(* A provider, the index and a host who only asks change no space.         *)
LEMMA StockLeftAlone ==
    ASSUME StockInv,
           \/ \E u \in StockUnits, o \in Stock!Offer : Stock!ProviderChanges(u, o)
           \/ Stock!IndexReads \/ Stock!ResyncIndex \/ Stock!EditFails
           \/ \E i \in StockIds, u \in StockUnits, s, p \in Stock!Offer :
                 Stock!OpenEdit(i, u, s, p)
    PROVE  Stock!TypeOK' /\ StockRowsAre' /\ StockRunGoes' /\ StockAlone' /\ StockKnown'
           /\ StockClean'
<1> USE StockAssumption DEF StockIds
<1>1. CASE \E u \in StockUnits, o \in Stock!Offer : Stock!ProviderChanges(u, o)
  <2>1. PICK u \in StockUnits, o \in Stock!Offer : Stock!ProviderChanges(u, o)
    BY <1>1
  <2>2. /\ UNCHANGED <<kRows, run, flawed, missed, kEdit, reshaped, touched, runs, queued, fresh,
                      early, untold>>
        /\ offered' = [offered EXCEPT ![u] = o] /\ changes < StockChanges /\ changes' = changes + 1
    BY <2>1 DEF Stock!ProviderChanges, Stock!index
  <2>3. Stock!TypeOK'
    <3>1. changes' \in 0..StockChanges
      BY <2>2 DEF StockInv, Stock!TypeOK
    <3>2. offered' \in [StockUnits -> Stock!Offer]
      BY <2>2 DEF StockInv, Stock!TypeOK
    <3> QED
      BY <2>2, <3>1, <3>2 DEF StockInv, Stock!TypeOK
  <2> QED
    BY <2>2, <2>3, StockStays DEF StockInv, StockRowsAre
<1>2. CASE Stock!IndexReads \/ Stock!ResyncIndex \/ Stock!EditFails
  <2>1. /\ UNCHANGED <<offered, kRows, run, flawed, missed, reshaped, touched, runs, changes>>
        /\ kEdit' = kEdit \/ kEdit' = Stock!NoEdit
        /\ queued' \in BOOLEAN /\ fresh' \in BOOLEAN /\ early' \in BOOLEAN /\ untold' \in BOOLEAN
    BY <1>2 DEF Stock!IndexReads, Stock!ResyncIndex, Stock!EditFails, Stock!Told, Stock!index,
                Stock!Uncommitted, StockInv, Stock!TypeOK
  <2>2. Stock!TypeOK'
    BY <2>1 DEF StockInv, Stock!TypeOK, Stock!NoEdit, Stock!Offer
  <2> QED
    BY <2>1, <2>2, StockStays DEF StockInv, StockRowsAre, Stock!NoEdit
<1>3. CASE \E i \in StockIds, u \in StockUnits, s, p \in Stock!Offer : Stock!OpenEdit(i, u, s, p)
  <2>1. PICK i \in StockIds, u \in StockUnits, s \in Stock!Offer, p \in Stock!Offer :
           Stock!OpenEdit(i, u, s, p)
    BY <1>3
  <2>2. /\ kRows[i].status \in {"ACTIVE", "ARCHIVED"}
        /\ kEdit' = [pc |-> "open", row |-> i, unit |-> u, stock |-> s, price |-> p]
        /\ UNCHANGED <<offered, kRows, run, flawed, missed, reshaped, touched, runs, fresh, early>>
        /\ queued' = TRUE /\ untold' = FALSE
        /\ changes < StockChanges /\ changes' = changes + 1
    BY <2>1 DEF Stock!OpenEdit, Stock!Told
  <2>3. Stock!TypeOK'
    <3>1. changes' \in 0..StockChanges
      BY <2>2 DEF StockInv, Stock!TypeOK
    <3>2. kEdit' \in [pc: {"idle", "open"}, row: 0..StockMaxRows,
                      unit: StockUnits \cup {Stock!Nothing}, stock: Stock!Offer,
                      price: Stock!Offer]
      BY <2>2
    <3> QED
      BY <2>2, <3>1, <3>2 DEF StockInv, Stock!TypeOK
  <2> QED
    BY <2>2, <2>3, StockStays
<1> QED
  BY <1>1, <1>2, <1>3

(* The index is told before each COMMIT, or the change is untold.          *)
LEMMA StockTells ==
    ASSUME StockInv, Stock!Next
    PROVE  StockTold'
<1> USE DEF StockInv, StockTold, Stock!IndexFollows, Stock!Uncommitted
<1>1. CASE Stock!IndexReads \/ Stock!ResyncIndex \/ Stock!InsertSpace
  BY <1>1 DEF Stock!IndexReads, Stock!ResyncIndex, Stock!InsertSpace, Stock!Told
<1>2. CASE Stock!CommitSpace
  BY <1>2 DEF Stock!CommitSpace, Stock!ShownUnread, Stock!OnToNext
<1>3. CASE Stock!CommitEdit
  BY <1>3 DEF Stock!CommitEdit, Stock!ShownUnread, Stock!NoEdit
<1>4. CASE Stock!PushSite \/ Stock!PushFails
  BY <1>4, StockRunTyped DEF Stock!PushSite, Stock!PushFails, Stock!Told, Stock!index
<1>5. CASE Stock!StartRun
  BY <1>5 DEF Stock!StartRun, Stock!index
<1>6. CASE Stock!ArchiveFails \/ Stock!CreateFails
  <2>1. run'.pc \in {"unit", "type", "push"}
    BY <1>6, StockRunTyped DEF Stock!ArchiveFails, Stock!CreateFails, Stock!OnToUnits,
                               Stock!OnToNext
  <2> QED
    BY <1>6, <2>1 DEF Stock!ArchiveFails, Stock!CreateFails, Stock!index
<1>7. CASE Stock!EditFails
  BY <1>7 DEF Stock!EditFails, Stock!index, Stock!NoEdit
<1>8. ASSUME NEW u \in StockUnits, NEW o \in Stock!Offer, Stock!ProviderChanges(u, o)
      PROVE  StockTold'
  BY <1>8 DEF Stock!ProviderChanges, Stock!index
<1>9. ASSUME NEW heard \in BOOLEAN, Stock!ArchiveType(heard)
      PROVE  StockTold'
  <2>1. run'.pc = "unit" /\ kEdit' = kEdit
    BY <1>9, StockRunTyped DEF Stock!ArchiveType, Stock!OnToUnits
  <2> QED
    BY <1>9, <2>1 DEF Stock!ArchiveType, Stock!Shown
<1>10. ASSUME NEW i \in StockIds, NEW saved \in BOOLEAN, NEW priced \in BOOLEAN,
              NEW heard \in BOOLEAN, Stock!UpdateSpace(i, saved, priced, heard)
       PROVE  StockTold'
  <2>1. run'.pc \in {"unit", "type", "push"} /\ kEdit' = kEdit
    BY <1>10, StockRunTyped DEF Stock!UpdateSpace, Stock!OnToNext
  <2>2. queued => queued'
    BY <1>10 DEF Stock!UpdateSpace, Stock!Shown
  <2> QED
    BY <1>10, <2>1, <2>2 DEF Stock!UpdateSpace, Stock!Shown
<1>11. ASSUME NEW i \in StockIds, NEW u \in StockUnits, NEW s \in Stock!Offer,
              NEW p \in Stock!Offer, Stock!OpenEdit(i, u, s, p)
       PROVE  StockTold'
  BY <1>11 DEF Stock!OpenEdit, Stock!Told
<1>12. ASSUME NEW i \in StockIds, NEW heard \in BOOLEAN, Stock!DeleteSpace(i, heard)
       PROVE  StockTold'
  BY <1>12 DEF Stock!DeleteSpace, Stock!Shown
<1> QED
  BY <1>1, <1>2, <1>3, <1>4, <1>5, <1>6, <1>7, <1>8, <1>9, <1>10, <1>11, <1>12
     DEF Stock!Next, StockIds

THEOREM StockInvariant == Stock!Spec => []StockInv
<1>1. StockInv /\ [Stock!Next]_(Stock!stockVars) => StockInv'
  <2> SUFFICES ASSUME StockInv, [Stock!Next]_(Stock!stockVars) PROVE StockInv'
    OBVIOUS
  <2>1. CASE Stock!Next
    <3>1. /\ Stock!TypeOK' /\ StockRowsAre' /\ StockRunGoes' /\ StockAlone' /\ StockKnown'
          /\ StockClean'
      BY <2>1, StockLeftAlone, StockBegun, StockArchived, StockNotArchived, StockInserted,
         StockCommitted, StockSkipped, StockUpdated, StockEnded, StockEdited, StockDeleted
         DEF Stock!Next, StockIds
    <3> QED
      BY <2>1, <3>1, StockTells DEF StockInv
  <2>2. CASE UNCHANGED Stock!stockVars
    <3>1. UNCHANGED <<offered, kRows, run, flawed, missed, kEdit, reshaped, touched, queued,
                      fresh, early, untold, runs, changes>>
      BY <2>2 DEF Stock!stockVars, Stock!index
    <3>2. StockRowsAre' /\ StockRunGoes' /\ StockAlone' /\ StockKnown' /\ StockClean'
      BY <3>1, StockStays DEF StockInv, StockRowsAre
    <3>3. Stock!TypeOK' /\ StockTold'
      BY <3>1 DEF StockInv, Stock!TypeOK, StockTold, Stock!IndexFollows, Stock!Uncommitted
    <3> QED
      BY <3>2, <3>3 DEF StockInv
  <2> QED
    BY <2>1, <2>2
<1> QED
  BY <1>1, StockInitially, PTL DEF Stock!Spec

LEMMA StockIsFollowed == StockInv => Stock!SpacesFollow /\ Stock!IndexFollows
<1> SUFFICES ASSUME StockInv PROVE Stock!SpacesFollow /\ Stock!IndexFollows
  OBVIOUS
<1> USE DEF StockIds
<1>1. ASSUME run.pc = "over", ~flawed, ~touched
      PROVE  /\ \A u \in Stock!SeenUnits \ reshaped :
                   \E i \in StockIds :
                      /\ {j \in StockIds : Stock!Live(j) /\ kRows[j].unit = u} = {i}
                      /\ kRows[i].stock = run.seen[u] /\ kRows[i].price = run.seen[u]
             /\ \A i \in StockIds :
                   Stock!Live(i) =>
                      \/ kRows[i].unit \in Stock!SeenUnits
                      \/ \A u \in Stock!SeenUnits : StockTypeOf[u] # StockTypeOf[kRows[i].unit]
  <2>1. run.types = {} /\ StockLeft = {}
    BY <1>1 DEF StockInv, StockRunGoes, StockLeft
  <2>2. ASSUME NEW u \in Stock!SeenUnits \ reshaped
        PROVE  \E i \in StockIds :
                  /\ {j \in StockIds : Stock!Live(j) /\ kRows[j].unit = u} = {i}
                  /\ kRows[i].stock = run.seen[u] /\ kRows[i].price = run.seen[u]
    <3>1. PICK i \in StockIds :
             /\ \A j \in StockIds : Stock!Live(j) /\ kRows[j].unit = u <=> j = i
             /\ kRows[i].stock = run.seen[u] /\ kRows[i].price = run.seen[u]
      BY <1>1, <2>1 DEF StockInv, StockClean, StockDone
    <3>2. {j \in StockIds : Stock!Live(j) /\ kRows[j].unit = u} = {i}
      BY <3>1
    <3> QED
      BY <3>1, <3>2
  <2> QED
    BY <1>1, <2>1, <2>2 DEF StockInv, StockClean
<1>2. Stock!SpacesFollow
  BY <1>1 DEF Stock!SpacesFollow, StockInv, StockRowsAre
<1> QED
  BY <1>2 DEF StockInv, StockTold

-----------------------------------------------------------------------------
(* The visits to the sites                                                 *)

(* A site's row, and the sites that a run read or will read, are its own.  *)
ShopsSafe ==
    /\ Visits!TypeOK
    /\ \A s \in VisitSites : theirs[s] <= 1
    /\ visited \subseteq {s \in sSeen : theirs[s] = 1}
    /\ all \subseteq {s \in sSeen : theirs[s] = 1}

(* A run creates what it missed, and visits what it has a row of.          *)
ShopsGo ==
    /\ sTodo \subseteq sSeen
    /\ sPc = "create" => \A s \in sTodo : theirs[s] = 0
    /\ sPc = "made" =>
          /\ Visits!ThisSite \in sTodo /\ theirs[Visits!ThisSite] = 1
          /\ \A s \in sTodo \ {Visits!ThisSite} : theirs[s] = 0
    /\ sPc = "visit" => sTodo \subseteq all

(* What a run without a failure has seen it has read or has still to read. *)
ShopsWhole ==
    ~sFlawed =>
       /\ sPc \in {"login", "lists", "push", "over"} => sSeen \subseteq visited
       /\ sPc \in {"create", "made"} => sSeen \subseteq visited \cup all \cup sTodo
       /\ sPc = "visit" => sSeen \subseteq visited \cup sTodo

ShopsInv == ShopsSafe /\ ShopsGo /\ ShopsWhole

LEMMA ShopsInitially == Visits!Init => ShopsInv
<1> SUFFICES ASSUME Visits!Init PROVE ShopsInv
  OBVIOUS
<1>1. Len(VisitStores) \in Nat \ {0} /\ VisitRuns \in Nat
  BY VisitsAssumption
<1>2. theirs \in [VisitSites -> Nat] /\ \A s \in VisitSites : theirs[s] = 0
  BY DEF Visits!Init
<1>3. Visits!TypeOK
  <2>1. store \in 1..Len(VisitStores) /\ sRuns \in 0..VisitRuns
    BY <1>1 DEF Visits!Init
  <2>2. sSeen \cup sTodo \cup all \cup visited = {} /\ thirds \subseteq VisitSites
    BY DEF Visits!Init
  <2>3. sPc = "off" /\ sFlawed = FALSE
    BY DEF Visits!Init
  <2> QED
    BY <1>2, <2>1, <2>2, <2>3 DEF Visits!TypeOK
<1>4. ShopsSafe /\ ShopsGo /\ ShopsWhole
  BY <1>2, <1>3 DEF Visits!Init, ShopsSafe, ShopsGo, ShopsWhole
<1> QED
  BY <1>4 DEF ShopsInv

(* A run creates at most one row for a site, and reads what it has seen.   *)
THEOREM ShopsInvariant == Visits!Spec => []ShopsInv
<1>1. ShopsInv /\ [Visits!Next]_(Visits!vars) => ShopsInv'
  <2> SUFFICES ASSUME ShopsInv, [Visits!Next]_(Visits!vars) PROVE ShopsInv'
    OBVIOUS
  <2> USE DEF ShopsInv, ShopsSafe, ShopsGo, ShopsWhole, Visits!TypeOK
  <2>1. Len(VisitStores) \in Nat \ {0} /\ VisitRuns \in Nat
    BY VisitsAssumption
  <2>2. sTodo # {} => Visits!ThisSite \in sTodo
    BY DEF Visits!ThisSite
  <2>3. ASSUME NEW s \in VisitSites, Visits!Lists(s) PROVE ShopsInv'
    BY <2>3 DEF Visits!Lists, Visits!ThisSite
  <2>4. CASE Visits!StartRun
    <3>1. /\ sPc' = "login" /\ store' = 1 /\ sSeen' = {} /\ sTodo' = {} /\ all' = {}
          /\ visited' = {} /\ sFlawed' = FALSE /\ UNCHANGED <<thirds, theirs>>
          /\ sRuns' \in 0..VisitRuns
      BY <2>1, <2>4 DEF Visits!StartRun
    <3>2. Visits!TypeOK'
      <4>1. store' \in 1..Len(VisitStores)
        BY <2>1, <3>1
      <4>2. thirds' \subseteq VisitSites /\ theirs' \in [VisitSites -> Nat]
        BY <3>1
      <4> QED
        BY <3>1, <4>1, <4>2
    <3> QED
      BY <3>1, <3>2
  <2>5. CASE Visits!Login
    BY <2>5 DEF Visits!Login
  <2>6. CASE Visits!ReadLists
    <3>1. \A s \in VisitSites : theirs[s] \in {0, 1}
      OBVIOUS
    <3> QED
      BY <2>6, <3>1 DEF Visits!ReadLists, Visits!Missing
  <2>7. CASE Visits!StoreFails
    BY <2>1, <2>7 DEF Visits!StoreFails, Visits!NextStore
  <2>8. CASE Visits!CreateSite
    <3>1. /\ Visits!ThisSite \in sTodo /\ theirs[Visits!ThisSite] = 0
          /\ theirs' = [theirs EXCEPT ![Visits!ThisSite] = @ + 1]
      BY <2>2, <2>8 DEF Visits!CreateSite
    <3>2. UNCHANGED Visits!ThisSite
      BY <2>8 DEF Visits!CreateSite, Visits!ThisSite
    <3>3. theirs' = [theirs EXCEPT ![Visits!ThisSite] = 1]
      BY <3>1
    <3>4. \A s \in VisitSites : theirs[s] = 1 => theirs'[s] = 1
      BY <3>1, <3>3
    <3> QED
      BY <2>8, <3>1, <3>2, <3>3, <3>4 DEF Visits!CreateSite
  <2>9. CASE Visits!Made
    BY <2>9 DEF Visits!Made
  <2>10. CASE Visits!CreateFails
    BY <2>10 DEF Visits!CreateFails
  <2>11. CASE Visits!StartVisits
    BY <2>11 DEF Visits!StartVisits
  <2>12. CASE Visits!VisitSite
    BY <2>2, <2>12 DEF Visits!VisitSite
  <2>13. CASE Visits!VisitFails
    BY <2>13 DEF Visits!VisitFails
  <2>14. CASE Visits!EndVisits
    BY <2>14 DEF Visits!EndVisits
  <2>15. CASE Visits!PushSites
    BY <2>1, <2>15 DEF Visits!PushSites, Visits!NextStore
  <2>16. CASE UNCHANGED Visits!vars
    BY <2>16 DEF Visits!vars, Visits!ThisSite
  <2> QED
    BY <2>3, <2>4, <2>5, <2>6, <2>7, <2>8, <2>9, <2>10, <2>11, <2>12, <2>13, <2>14, <2>15, <2>16
       DEF Visits!Next
<1> QED
  BY <1>1, ShopsInitially, PTL DEF Visits!Spec

LEMMA ShopsAreFollowed == ShopsInv => Visits!SitesFollow
<1> QED
  BY DEF ShopsInv, ShopsSafe, ShopsWhole, Visits!TypeOK, Visits!SitesFollow

-----------------------------------------------------------------------------
(* The types of the spaces' sizes                                          *)

SizesInv == Sizing!TypeOK /\ Sizing!TypeFitsSize

(* A lookup's types have a largest; the bounds of those of one country lie *)
(* apart, those of two countries need not.                                 *)
LEMMA TypesAreApart ==
    ASSUME Sizing!TypeOK
    PROVE  /\ \A t \in table :
                 /\ t.from \in Nat /\ t.to \in Nat /\ t.from <= t.to
                 /\ t # Sizing!NoType /\ t.country \in SizeCountries
           /\ \A s, t \in Sizing!TypesOf(SizeStore) :
                 s = t \/ s.to + Sizing!Unit <= t.from \/ t.to + Sizing!Unit <= s.from
           /\ \A c \in SizeCountries \cup {Sizing!Nowhere} :
                 /\ Sizing!TypesOf(c) \subseteq table
                 /\ Sizing!Largest(Sizing!TypesOf(c)) # {}
<1>1. /\ table \in SizeTables /\ SizeStore \in SizeCountries
      /\ Sizing!Nowhere \notin SizeCountries
      /\ \A t \in table :
            t.country \in SizeCountries /\ t.from \in Nat /\ t.to \in Nat /\ t.from <= t.to
      /\ \A s, t \in table :
            \/ s.country # t.country \/ s = t
            \/ s.to + Sizing!Unit <= t.from \/ t.to + Sizing!Unit <= s.from
  BY SizesAssumption DEF Sizing!TypeOK
<1>2. \A t \in table : t # Sizing!NoType
  BY <1>1 DEF Sizing!NoType
<1>3. \A s, t \in Sizing!TypesOf(SizeStore) :
         s = t \/ s.to + Sizing!Unit <= t.from \/ t.to + Sizing!Unit <= s.from
  BY <1>1 DEF Sizing!TypesOf
<1>4. ASSUME NEW c \in SizeCountries \cup {Sizing!Nowhere}
      PROVE  Sizing!Largest(Sizing!TypesOf(c)) # {}
  <2>1. \E t \in Sizing!TypesOf(c) : \A s \in Sizing!TypesOf(c) : s.to <= t.to
    BY <1>1, SizesAssumption DEF Sizing!TypesOf
  <2> QED
    BY <2>1 DEF Sizing!Largest
<1>5. \A c \in SizeCountries \cup {Sizing!Nowhere} : Sizing!TypesOf(c) \subseteq table
  BY DEF Sizing!TypesOf
<1> QED
  BY <1>1, <1>2, <1>3, <1>4, <1>5

(* What a type chosen for a size from the types of c is.                   *)
Chosen(t, size, c) ==
    /\ (\E u \in Sizing!TypesOf(c) : Sizing!Fits(u, size)) => Sizing!Fits(t, size)
    /\ (\A u \in Sizing!TypesOf(c) : u.to < size) => t \in Sizing!Largest(Sizing!TypesOf(c))

(* The host's lookup gives a type the size fits, and a largest above all.  *)
LEMMA BySizeFits ==
    ASSUME Sizing!TypeOK, NEW size \in Nat, NEW c \in SizeCountries \cup {Sizing!Nowhere},
           NEW t \in Sizing!BySize(size, c)
    PROVE  t \in Sizing!TypesOf(c) /\ Chosen(t, size, c)
<1>1. Sizing!Fitting(size, c) # {} => t \in Sizing!TypesOf(c) /\ Sizing!Fits(t, size)
  BY DEF Sizing!BySize, Sizing!Fitting
<1>2. Sizing!Fitting(size, c) = {} => t \in Sizing!Largest(Sizing!TypesOf(c))
  BY DEF Sizing!BySize
<1>3. Sizing!Fitting(size, c) = {} <=> ~\E u \in Sizing!TypesOf(c) : Sizing!Fits(u, size)
  BY DEF Sizing!Fitting
<1>4. (\A u \in Sizing!TypesOf(c) : u.to < size) => Sizing!Fitting(size, c) = {}
  <2>1. \A u \in Sizing!TypesOf(c) : u.from \in Nat /\ u.to \in Nat
    BY TypesAreApart
  <2> QED
    BY <2>1 DEF Sizing!Fitting, Sizing!Fits
<1>5. Sizing!Largest(Sizing!TypesOf(c)) \subseteq Sizing!TypesOf(c)
  BY DEF Sizing!Largest
<1> QED
  BY <1>1, <1>2, <1>3, <1>4, <1>5 DEF Chosen

(* So does the job's, which has no type for a size between two.            *)
LEMMA ByAreaFits ==
    ASSUME Sizing!TypeOK, NEW area \in Nat
    PROVE  /\ Sizing!ByArea(area) \in Sizing!TypesOf(SizeStore) \cup {Sizing!NoType}
           /\ Chosen(Sizing!ByArea(area), area, SizeStore)
           /\ Sizing!ByArea(area) \in Sizing!Largest(Sizing!TypesOf(SizeStore)) =>
                 area >= Sizing!ByArea(area).from
<1> DEFINE types == Sizing!TypesOf(SizeStore)
           biggest == Sizing!Last(types)
           close == {t \in types : t.from <= area /\ area < t.to + Sizing!Unit}
           chosen == Sizing!ByArea(area)
<1>1. /\ \A t \in types :
            t.from \in Nat /\ t.to \in Nat /\ t.from <= t.to /\ t # Sizing!NoType
      /\ \A s, t \in types :
            s = t \/ s.to + Sizing!Unit <= t.from \/ t.to + Sizing!Unit <= s.from
      /\ \E t \in types : \A s \in types : s.to <= t.to
  <2>1. SizeStore \in SizeCountries /\ types \subseteq table /\ Sizing!Largest(types) # {}
    BY SizesAssumption, TypesAreApart
  <2> QED
    BY <2>1, TypesAreApart DEF Sizing!Largest
<1>2. chosen = IF close # {} THEN Sizing!First(close)
               ELSE IF area > biggest.to THEN biggest ELSE Sizing!NoType
  BY DEF Sizing!ByArea
<1>3. biggest \in types /\ biggest \in Sizing!Largest(types) /\ \A t \in types : t.to <= biggest.to
  <2>1. PICK t \in types : \A s \in types : s.to <= t.to
    BY <1>1
  <2>2. \A s \in types : s.from <= t.from
    BY <1>1, <2>1 DEF Sizing!Unit
  <2>3. biggest \in types /\ \A s \in types : s.from <= biggest.from
    BY <2>2 DEF Sizing!Last
  <2>4. biggest = t
    BY <1>1, <2>1, <2>3 DEF Sizing!Unit
  <2> QED
    BY <2>1, <2>3, <2>4 DEF Sizing!Largest
<1> HIDE DEF types, biggest, chosen
<1>4. \A s, t \in close : s = t
  BY <1>1 DEF Sizing!Unit
<1>5. close # {} => Sizing!First(close) \in close
  <2> SUFFICES ASSUME NEW t \in close PROVE Sizing!First(close) \in close
    OBVIOUS
  <2>1. t \in close /\ \A s \in close : t.from <= s.from
    BY <1>1, <1>4
  <2> QED
    BY <2>1 DEF Sizing!First
<1>6. chosen \in types \cup {Sizing!NoType}
  BY <1>2, <1>3, <1>5
<1>7. ASSUME NEW t \in types, Sizing!Fits(t, area) PROVE Sizing!Fits(chosen, area)
  <2>1. t \in close
    BY <1>1, <1>7 DEF Sizing!Fits, Sizing!Unit
  <2> QED
    BY <1>2, <1>4, <1>5, <1>7, <2>1
<1>8. (\A t \in types : t.to < area) => chosen \in Sizing!Largest(types)
  <2> SUFFICES ASSUME \A t \in types : t.to < area PROVE chosen \in Sizing!Largest(types)
    OBVIOUS
  <2>1. close \subseteq {biggest}
    BY <1>1, <1>3 DEF Sizing!Unit
  <2> QED
    BY <1>1, <1>2, <1>3, <1>5, <2>1
<1>9. chosen # Sizing!NoType => area >= chosen.from
  <2>1. CASE close # {}
    BY <1>1, <1>2, <1>5, <2>1
  <2>2. CASE close = {}
    BY <1>1, <1>2, <1>3, <2>2
  <2> QED
    BY <2>1, <2>2
<1>10. chosen \in Sizing!Largest(types) => chosen # Sizing!NoType
  BY <1>1 DEF Sizing!Largest
<1> QED
  BY <1>6, <1>7, <1>8, <1>9, <1>10 DEF chosen, types, Chosen

LEMMA SizesInitially == Sizing!Init => SizesInv
<1> SUFFICES ASSUME Sizing!Init PROVE SizesInv
  OBVIOUS
<1>1. Sizing!TypeOK
  <2>1. Sizing!NoType \in Sizing!AllTypes /\ Sizing!NoSide \in Nat
    BY DEF Sizing!AllTypes, Sizing!NoSide
  <2>2. space \in [status: {"none", "DRAFT", "ACTIVE"}, copied: BOOLEAN, width: Nat,
                   length: Nat, size: Nat, type: Sizing!AllTypes]
    BY <2>1 DEF Sizing!Init
  <2> QED
    BY <2>2 DEF Sizing!Init, Sizing!TypeOK
<1> QED
  BY <1>1 DEF Sizing!Init, Sizing!TypeFitsSize, SizesInv

(* What a lookup makes of the space, whichever it is.                      *)
LEMMA SizesKept ==
    ASSUME Sizing!TypeOK, UNCHANGED <<table, country>>,
           NEW who \in {"host", "job"}, NEW c \in SizeCountries \cup {Sizing!Nowhere},
           Sizing!Typed(who, c),
           who = "host" => c = country,
           who = "job" => c = SizeStore,
           space'.status \in {"none", "DRAFT", "ACTIVE"}, space'.size \in Nat,
           space' \in [status: {"none", "DRAFT", "ACTIVE"}, copied: BOOLEAN, width: Nat,
                       length: Nat, size: Nat,
                       type: Sizing!TypesOf(c) \cup {Sizing!NoType}],
           halved' \in BOOLEAN,
           Chosen(space'.type, space'.size, c),
           space'.type \in Sizing!Largest(Sizing!TypesOf(c)) =>
              who = "host" \/ space'.size >= space'.type.from,
           ~halved' => space'.size = space'.width * space'.length
    PROVE  SizesInv'
<1>1. writer' = who /\ looked' = c /\ readdressed' = FALSE
  BY DEF Sizing!Typed
<1>2. \A d : Sizing!TypesOf(d)' = Sizing!TypesOf(d)
  BY DEF Sizing!TypesOf
<1>3. Sizing!TypeOK'
  <2>1. Sizing!TypesOf(c) \cup {Sizing!NoType} \subseteq Sizing!AllTypes
    BY TypesAreApart DEF Sizing!TypeOK, Sizing!AllTypes
  <2>2. space' \in [status: {"none", "DRAFT", "ACTIVE"}, copied: BOOLEAN, width: Nat,
                    length: Nat, size: Nat, type: Sizing!AllTypes]
    BY <2>1
  <2> QED
    BY <1>1, <2>2 DEF Sizing!TypeOK, Sizing!AllTypes
<1>4. space'.type \in Sizing!TypesOf(c) \cup {Sizing!NoType}
  OBVIOUS
<1>5. country # Sizing!Nowhere /\ space'.type.country \notin {country, Sizing!Nowhere} =>
         who = "job" /\ country # SizeStore
  <2> SUFFICES ASSUME country # Sizing!Nowhere,
                      space'.type.country \notin {country, Sizing!Nowhere}
               PROVE  who = "job" /\ country # SizeStore
    OBVIOUS
  <2>1. space'.type # Sizing!NoType
    BY DEF Sizing!NoType
  <2>2. space'.type \in Sizing!TypesOf(c)
    BY <1>4, <2>1
  <2>3. c # country
    BY <2>2 DEF Sizing!TypesOf
  <2> QED
    BY <2>3
<1>6. Sizing!TypeFitsSize'
  BY <1>1, <1>2, <1>4, <1>5 DEF Sizing!TypeFitsSize, Sizing!Fits, Sizing!Largest, Chosen
<1> QED
  BY <1>3, <1>6 DEF SizesInv

(* The type of a space is one of its size, whoever wrote it.               *)
THEOREM SizesInvariant == Sizing!Spec => []SizesInv
<1>1. SizesInv /\ [Sizing!Next]_(Sizing!vars) => SizesInv'
  <2> SUFFICES ASSUME SizesInv, [Sizing!Next]_(Sizing!vars) PROVE SizesInv'
    OBVIOUS
  <2>1. /\ Sizing!TypeOK /\ SizeSides \cup SizeAreas \subseteq Nat
        /\ SizeStore \in SizeCountries
        /\ space.width \in Nat /\ space.length \in Nat /\ space.size \in Nat
        /\ space.status \in {"none", "DRAFT", "ACTIVE"} /\ space.copied \in BOOLEAN
        /\ country \in SizeCountries \cup {Sizing!Nowhere}
        /\ writer \in {"nobody", "host", "job"} /\ halved \in BOOLEAN
    BY SizesAssumption DEF SizesInv, Sizing!TypeOK
  <2>2. \A w, l \in Nat : w * l \in Nat
    OBVIOUS
  <2>3. ASSUME NEW w \in SizeSides, NEW l \in SizeSides, Sizing!CreateByHost(w, l)
        PROVE  SizesInv'
    <3>1. w \in Nat /\ l \in Nat /\ w * l \in Nat
      BY <2>1, <2>2
    <3>2. PICK t \in Sizing!BySize(w * l, country) :
             space' = [status |-> "DRAFT", copied |-> FALSE, width |-> w, length |-> l,
                       size |-> w * l, type |-> t]
      BY <2>3 DEF Sizing!CreateByHost
    <3>3. t \in Sizing!TypesOf(country) /\ Chosen(t, w * l, country)
      BY <2>1, <3>1, BySizeFits
    <3>4. Sizing!Typed("host", country) /\ UNCHANGED <<table, country, halved>>
      BY <2>3 DEF Sizing!CreateByHost
    <3> QED
      BY <2>1, <3>1, <3>2, <3>3, <3>4, SizesKept
  <2>4. ASSUME NEW a \in SizeAreas, Sizing!CreateByJob(a) PROVE SizesInv'
    <3>1. a \in Nat /\ 1 * a = a
      BY <2>1
    <3>2. UNCHANGED <<table, country, halved>>
      BY <2>4 DEF Sizing!CreateByJob
    <3>3. CASE Sizing!ByArea(a) # Sizing!NoType
      <4>1. /\ space' = [status |-> "ACTIVE", copied |-> TRUE, width |-> 1, length |-> a,
                         size |-> a, type |-> Sizing!ByArea(a)]
            /\ Sizing!Typed("job", SizeStore)
        BY <2>4, <3>3 DEF Sizing!CreateByJob
      <4> QED
        BY <2>1, <3>1, <3>2, <4>1, ByAreaFits, SizesKept
    <3>4. CASE Sizing!ByArea(a) = Sizing!NoType
      <4>1. PICK t \in Sizing!BySize(a, country) :
               space' = [status |-> "ACTIVE", copied |-> TRUE, width |-> 1, length |-> a,
                         size |-> a, type |-> t]
        BY <2>4, <3>4 DEF Sizing!CreateByJob
      <4>2. t \in Sizing!TypesOf(country) /\ Chosen(t, a, country)
        BY <2>1, <3>1, BySizeFits
      <4>3. Sizing!Typed("host", country)
        BY <2>4, <3>4 DEF Sizing!CreateByJob
      <4> QED
        BY <2>1, <3>1, <3>2, <4>1, <4>2, <4>3, SizesKept
    <3> QED
      BY <3>3, <3>4
  <2>5. CASE Sizing!UpdateByJob
    <3>1. space.size \in Nat /\ 1 * space.size = space.size
      BY <2>1
    <3>2. /\ space' = [status |-> "ACTIVE", copied |-> space.copied, width |-> 1,
                       length |-> space.size, size |-> space.size,
                       type |-> Sizing!ByArea(space.size)]
          /\ Sizing!Typed("job", SizeStore) /\ halved' = FALSE /\ UNCHANGED <<table, country>>
      BY <2>1, <2>5 DEF Sizing!UpdateByJob, Sizing!TypeOK
    <3> QED
      BY <2>1, <3>1, <3>2, ByAreaFits, SizesKept
  <2>6. ASSUME NEW w \in SizeSides \cup {Sizing!NoSide}, NEW l \in SizeSides \cup {Sizing!NoSide},
               Sizing!UpdateByHost(w, l)
        PROVE  SizesInv'
    <3>1. w \in Nat /\ l \in Nat /\ w * l \in Nat
      BY <2>1, <2>2 DEF Sizing!NoSide
    <3>2. CASE Sizing!Resized(w, l)
      <4>1. PICK t \in Sizing!BySize(w * l, country) : space' = Sizing!Rewritten(w, l, t)
        BY <2>6, <3>2 DEF Sizing!UpdateByHost
      <4>2. Sizing!Typed("host", country) /\ halved' = FALSE /\ UNCHANGED <<table, country>>
        BY <2>6, <3>2 DEF Sizing!UpdateByHost
      <4>3. space' = [status |-> space.status, copied |-> space.copied, width |-> w,
                      length |-> l, size |-> w * l, type |-> t]
        BY <2>1, <3>2, <4>1 DEF Sizing!Rewritten, Sizing!Resized, Sizing!TypeOK
      <4>4. t \in Sizing!TypesOf(country) /\ Chosen(t, w * l, country)
        BY <2>1, <3>1, BySizeFits
      <4> QED
        BY <2>1, <3>1, <4>2, <4>3, <4>4, SizesKept
    <3>3. CASE ~Sizing!Resized(w, l)
      <4>0. space' = Sizing!Rewritten(w, l, space.type)
        BY <2>6, <3>3 DEF Sizing!UpdateByHost
      <4>1. /\ space'.status = space.status /\ space'.size = space.size
            /\ space'.type = space.type /\ space'.width \in Nat /\ space'.length \in Nat
            /\ UNCHANGED <<table, country, writer, looked, readdressed>>
            /\ halved' = (halved \/ w # Sizing!NoSide \/ l # Sizing!NoSide)
            /\ w = Sizing!NoSide => space'.width = space.width
            /\ l = Sizing!NoSide => space'.length = space.length
        BY <2>1, <2>6, <3>1, <3>3, <4>0
           DEF Sizing!UpdateByHost, Sizing!Rewritten, Sizing!TypeOK
      <4>2. space' \in [status: {"none", "DRAFT", "ACTIVE"}, copied: BOOLEAN, width: Nat,
                        length: Nat, size: Nat, type: Sizing!AllTypes]
        BY <2>1, <3>1, <3>3, <4>0 DEF Sizing!Rewritten, Sizing!TypeOK
      <4>3. Sizing!TypeOK'
        BY <2>1, <4>1, <4>2 DEF Sizing!TypeOK, Sizing!AllTypes
      <4>4. ~halved' =>
               ~halved /\ space'.width = space.width /\ space'.length = space.length
        BY <2>1, <4>1
      <4>5. Sizing!TypeFitsSize'
        BY <4>1, <4>4 DEF SizesInv, Sizing!TypeFitsSize, Sizing!Fits, Sizing!Largest,
                          Sizing!TypesOf
      <4> QED
        BY <4>3, <4>5 DEF SizesInv
    <3> QED
      BY <3>2, <3>3
  <2>7. ASSUME NEW c \in SizeCountries, Sizing!Locate(c) PROVE SizesInv'
    <3>1. /\ country' = c /\ readdressed' = (space.status # "none")
          /\ UNCHANGED <<table, space, writer, looked, halved>>
      BY <2>7 DEF Sizing!Locate
    <3>2. Sizing!TypeOK'
      BY <2>1, <3>1 DEF Sizing!TypeOK, Sizing!AllTypes
    <3>3. Sizing!TypeFitsSize'
      BY <3>1 DEF SizesInv, Sizing!TypeFitsSize, Sizing!Fits, Sizing!Largest, Sizing!TypesOf
    <3> QED
      BY <3>2, <3>3 DEF SizesInv
  <2>8. CASE UNCHANGED Sizing!vars
    BY <2>8 DEF Sizing!vars, SizesInv, Sizing!TypeOK, Sizing!AllTypes, Sizing!TypeFitsSize,
                Sizing!Fits, Sizing!Largest, Sizing!TypesOf
  <2> QED
    BY <2>3, <2>4, <2>5, <2>6, <2>7, <2>8 DEF Sizing!Next
<1> QED
  BY <1>1, SizesInitially, PTL DEF Sizing!Spec

LEMMA ShopsFollow == ServicesSpec => Visits!Spec
<1>1. ServicesInit => Visits!Init
  BY DEF ServicesInit
<1>2. [ServicesNext]_servicesVars => [Visits!Next]_(Visits!vars)
  BY DEF ServicesNext, servicesVars, syncVars, Visits!vars
<1> QED
  BY <1>1, <1>2, PTL DEF ServicesSpec, Visits!Spec

LEMMA SizesFollow == ServicesSpec => Sizing!Spec
<1>1. ServicesInit => Sizing!Init
  BY DEF ServicesInit
<1>2. [ServicesNext]_servicesVars => [Sizing!Next]_(Sizing!vars)
  BY DEF ServicesNext, servicesVars, typeVars, Sizing!vars
<1> QED
  BY <1>1, <1>2, PTL DEF ServicesSpec, Sizing!Spec

(* The spaces of third parties' sites follow their units, a unit having    *)
(* one, and the index the spaces; a site has one row and every listed one  *)
(* is read by a run without a failure                                      *)
(* (cron-job/sitelink-stock-sync/sitelink-sync.cron.ts); and a space is of *)
(* the type of its size among those of its site's country, or of any       *)
(* country's that fits it while the site has no address                    *)
(* (platform/space-types/space-type.service.ts 109-150).                   *)
THEOREM SpacesFollowTheirStock == ServicesSpec => []SpacesFollow
<1>1. StockInv /\ ShopsInv /\ SizesInv => SpacesFollow
  BY StockIsFollowed, ShopsAreFollowed DEF SizesInv, SpacesFollow
<1> QED
  BY <1>1, StockFollows, ShopsFollow, SizesFollow, StockInvariant, ShopsInvariant, SizesInvariant,
     PTL
=============================================================================
