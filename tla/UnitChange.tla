------------------------------ MODULE UnitChange ------------------------------
(***************************************************************************)
(* An administrator moves a booking to another unit of the same site:      *)
(* changeBookingUnit and payUnitChangeAmount of                            *)
(* bookings/booking.service.ts.                                            *)
(*                                                                         *)
(* The new deposit is charged inside the transaction that then moves the   *)
(* booking; the old one is given back after its COMMIT, in a second        *)
(* transaction.  Several requests may change one booking, all of them      *)
(* reading it before their transactions.                                   *)
(***************************************************************************)
EXTENDS Integers, FiniteSets

CONSTANTS
    Changes,        \* changeBookingUnit requests with apply = true
    Spaces,
    FirstSpace,     \* the unit the booking starts in
    Price(_),       \* base price per month of a space
    Target(_),      \* the unit a request asks for
    Immediate,      \* the requests with apply_immidiately, before the month's end
    MaxMishaps      \* bound on the failures of a behaviour

VARIABLES
    unit,           \* booking.space_id
    deposit,        \* booking.deposited_amount, which is also base_amount
    step,           \* [Changes -> ...]
    seen,           \* [Changes -> the booking's <<unit, deposit>> as read]
    held,           \* requests whose variable depositCharge is set
    charged,        \* requests whose charge Stripe has made and not given back
    entered,        \* requests whose transactions row is committed
    gaveBack,       \* requests whose refund of the old deposit reached Stripe
    open,           \* requests whose second transaction was never ended
    saver,          \* the request that holds the booking's row lock, if any
    mishaps,
    lost,           \* charges made that no catch knows of, or could give back
    unsure,         \* requests that failed after their COMMIT was applied
    stale           \* a request moved a booking that was not as it had read it

unitVars == <<unit, deposit, step, seen, held, charged, entered, gaveBack, open, saver,
              mishaps, lost, unsure, stale>>

Nobody == "nobody"
Deposits == {Price(s) : s \in Spaces}

TypeOK ==
    /\ unit \in Spaces /\ deposit \in Deposits
    /\ step \in [Changes -> {"idle", "opened", "paid", "saved", "committed", "refunding",
                             "undo", "done", "failed"}]
    /\ seen \in [Changes -> Spaces \X Deposits]
    /\ \A S \in {held, charged, entered, gaveBack, open, lost, unsure} : S \subseteq Changes
    /\ saver \in Changes \cup {Nobody}
    /\ mishaps \in 0..MaxMishaps
    /\ stale \in BOOLEAN

Init ==
    /\ unit = FirstSpace /\ deposit = Price(FirstSpace)
    /\ step = [c \in Changes |-> "idle"]
    /\ seen = [c \in Changes |-> <<FirstSpace, Price(FirstSpace)>>]
    /\ held = {} /\ charged = {} /\ entered = {} /\ gaveBack = {} /\ open = {}
    /\ saver = Nobody /\ mishaps = 0 /\ lost = {} /\ unsure = {} /\ stale = FALSE

Goto(c, s) == step' = [step EXCEPT ![c] = s]
Mishap == mishaps < MaxMishaps /\ mishaps' = mishaps + 1

(* The booking is read and checked, and the transaction opened.            *)
Begin(c) ==
    /\ step[c] = "idle"
    /\ Target(c) # unit
    /\ seen' = [seen EXCEPT ![c] = <<unit, deposit>>]
    /\ Goto(c, "opened")
    /\ UNCHANGED <<unit, deposit, held, charged, entered, gaveBack, open, saver, mishaps,
                   lost, unsure, stale>>

NewDeposit(c) == seen[c][2] # Price(Target(c))

KeepsDeposit(c) ==
    /\ step[c] = "opened" /\ ~NewDeposit(c)
    /\ Goto(c, "paid")
    /\ UNCHANGED <<unit, deposit, seen, held, charged, entered, gaveBack, open, saver,
                   mishaps, lost, unsure, stale>>

(* payUnitChangeAmount: the charge, then its transactions row.             *)
PayDeposit(c) ==
    /\ step[c] = "opened" /\ NewDeposit(c)
    /\ charged' = charged \cup {c}
    /\ held' = held \cup {c}
    /\ Goto(c, "paid")
    /\ UNCHANGED <<unit, deposit, seen, entered, gaveBack, open, saver, mishaps, lost,
                   unsure, stale>>

(* The card is declined; or the answer is lost, or the row cannot be       *)
(* written: then depositCharge is never set, and the charge is lost.       *)
PayDepositFails(c) ==
    /\ step[c] = "opened" /\ NewDeposit(c) /\ Mishap
    /\ \/ UNCHANGED <<charged, lost>>
       \/ charged' = charged \cup {c} /\ lost' = lost \cup {c}
    /\ Goto(c, "undo")
    /\ UNCHANGED <<unit, deposit, seen, held, entered, gaveBack, open, saver, unsure, stale>>

(* The renewal of the rest of the month gets its next date from the date   *)
(* of the last one, for which null is handed over: an invalid date, which  *)
(* PostgreSQL does not take.  Nothing after it is ever reached.            *)
RestOfMonthRefused(c) ==
    /\ step[c] = "paid" /\ c \in Immediate
    /\ Goto(c, "undo")
    /\ UNCHANGED <<unit, deposit, seen, held, charged, entered, gaveBack, open, saver,
                   mishaps, lost, unsure, stale>>

Save(c) ==
    /\ step[c] = "paid" /\ c \notin Immediate
    /\ saver = Nobody
    /\ saver' = c
    /\ Goto(c, "saved")
    /\ UNCHANGED <<unit, deposit, seen, held, charged, entered, gaveBack, open, mishaps,
                   lost, unsure, stale>>

(* The unit alone is written.                                              *)
Applied_UnitOnly(c) ==
    /\ unit' = Target(c)
    /\ deposit' = deposit
    /\ entered' = entered \cup ({c} \cap held)
    /\ stale' = (stale \/ seen[c] # <<unit, deposit>>)

(* save() writes the columns that differ from the row as it was read: the  *)
(* deposit stands when the two units cost the same.                        *)
Applied(c) ==
    /\ unit' = Target(c)
    /\ deposit' = IF NewDeposit(c) THEN Price(Target(c)) ELSE deposit
    /\ entered' = entered \cup ({c} \cap held)
    /\ stale' = (stale \/ seen[c] # <<unit, deposit>>)

Commit(c) ==
    /\ step[c] = "saved"
    /\ Applied(c)
    /\ saver' = Nobody
    /\ Goto(c, "committed")
    /\ UNCHANGED <<seen, held, charged, gaveBack, open, mishaps, lost, unsure>>

(* An UPDATE or the COMMIT fails; the COMMIT may be applied all the same.  *)
CommitFails(c) ==
    /\ step[c] = "saved" /\ Mishap
    /\ saver' = Nobody
    /\ Goto(c, "undo")
    /\ \/ UNCHANGED <<unit, deposit, entered, stale, unsure>>
       \/ Applied(c) /\ unsure' = unsure \cup {c}
    /\ UNCHANGED <<seen, held, charged, gaveBack, open, lost>>

OpenSecond(c) ==
    /\ step[c] = "committed"
    /\ Goto(c, "refunding")
    /\ open' = open \cup {c}
    /\ UNCHANGED <<unit, deposit, seen, held, charged, entered, gaveBack, saver, mishaps,
                   lost, unsure, stale>>

(* The catch of the first transaction is reached, though it has committed. *)
OpenSecondFails(c) ==
    /\ step[c] = "committed" /\ Mishap
    /\ Goto(c, "undo")
    /\ unsure' = unsure \cup {c}
    /\ UNCHANGED <<unit, deposit, seen, held, charged, entered, gaveBack, open, saver, lost,
                   stale>>

(* What is handed to RefundService.refund: neither a charge nor a currency. *)
RefundPayload(c) ==
    IF NewDeposit(c) THEN {"bookingId", "amount", "type", "penaltyPercent"} ELSE {}

(* The call of Stripe needs both; without them an error is thrown, caught  *)
(* in refund() and answered by null.                                       *)
ReachesStripe(fields) == {"chargeId", "currency"} \subseteq fields

(* Nobody ends the second transaction when all went well.                  *)
RefundOld(c) ==
    /\ step[c] = "refunding"
    /\ gaveBack' = gaveBack \cup {d \in {c} : ReachesStripe(RefundPayload(d))}
    /\ Goto(c, "done")
    /\ UNCHANGED <<unit, deposit, seen, held, charged, entered, open, saver, mishaps, lost,
                   unsure, stale>>

(* A row of the refund cannot be written: this error is thrown, and the    *)
(* second transaction rolled back.  The caller is told of a success.       *)
RefundOldThrows(c) ==
    /\ step[c] = "refunding" /\ Mishap
    /\ open' = open \ {c}
    /\ Goto(c, "done")
    /\ UNCHANGED <<unit, deposit, seen, held, charged, entered, gaveBack, saver, lost,
                   unsure, stale>>

(* The catch gives back the charge whose variable is set.                  *)
Undo(c) ==
    /\ step[c] = "undo"
    /\ charged' = charged \ ({c} \cap held)
    /\ Goto(c, "failed")
    /\ UNCHANGED <<unit, deposit, seen, held, entered, gaveBack, open, saver, mishaps, lost,
                   unsure, stale>>

(* Stripe refuses: the error is logged.                                    *)
UndoFails(c) ==
    /\ step[c] = "undo" /\ c \in held /\ Mishap
    /\ lost' = lost \cup {c}
    /\ Goto(c, "failed")
    /\ UNCHANGED <<unit, deposit, seen, held, charged, entered, gaveBack, open, saver,
                   unsure, stale>>

Next ==
    \E c \in Changes :
        \/ Begin(c) \/ KeepsDeposit(c) \/ PayDeposit(c) \/ PayDepositFails(c)
        \/ RestOfMonthRefused(c) \/ Save(c) \/ Commit(c) \/ CommitFails(c)
        \/ OpenSecond(c) \/ OpenSecondFails(c) \/ RefundOld(c) \/ RefundOldThrows(c)
        \/ Undo(c) \/ UndoFails(c)

Spec == Init /\ [][Next]_unitVars

-----------------------------------------------------------------------------
(* The booking's deposit is the price of its unit, and who moved it there  *)
(* paid that deposit and was not given it back (booking.service.ts         *)
(* 2107-2120, 2305-2308).  Not so when two requests overlapped, each       *)
(* saving what it had read, or when a request failed after its COMMIT,     *)
(* whose catch gives the charge back (2373-2381).                          *)
UnitIsPaidFor ==
    stale \/ /\ deposit = Price(unit)
             /\ unit = FirstSpace \/ \E c \in Changes :
                   /\ Target(c) = unit
                   /\ NewDeposit(c) => c \in entered /\ c \in charged \cup unsure

(* A unit that was changed gives the old deposit back.  The comment above  *)
(* changeBookingUnit: "It will refund old deposit and charge new deposit"  *)
(* (booking.service.ts 1971).                                              *)
OldDepositGivenBack ==
    \A c \in Changes : step[c] = "done" /\ NewDeposit(c) /\ mishaps = 0 => c \in gaveBack
=============================================================================
