---------------------------- MODULE DepositRefunds ----------------------------
(***************************************************************************)
(* The daily job that gives deposits and unused days back                  *)
(* (cron-job/refund-deposit/refund-deposit.cron.ts) with refund() in its   *)
(* own transaction (refunds/refund.service.ts).                            *)
(*                                                                         *)
(* A run first marks the bookings whose deposit an earlier run gave back   *)
(* (is_deposit_refunded), then lists the completed ones without a mark and *)
(* refunds them one after the other, the deposit and the unused days of a  *)
(* booking at the same time.  Promise.all answers at the first failure, so *)
(* the run goes on while the updates or refunds it started are still under *)
(* way.  One run exists at a time (the schedule replaces the one before);  *)
(* a run may be killed at any step.                                        *)
(***************************************************************************)
EXTENDS Integers, FiniteSets

CONSTANTS
    Bookings,
    Unused,         \* the bookings whose termination has unused days to refund
    MaxFaults       \* bound on the failures, kills included, of a behaviour

Kinds == {"deposit", "unused"}

(* getRefundPayloadFromBooking: unused days only from an amount of 1 on.   *)
Owed(b) == {"deposit"} \cup IF b \in Unused THEN {"unused"} ELSE {}

VARIABLES
    due,            \* bookings COMPLETED whose termination is 14 days old
    marked,         \* bookings with is_deposit_refunded
    rows,           \* [Bookings -> [Kinds -> Nat]]: committed rows of refunds
    back,           \* [Bookings -> [Kinds -> Nat]]: refunds Stripe has made
    stage,          \* of the run: "idle", "marking", "refunding"
    marking,        \* bookings whose UPDATE is under way
    hasty,          \* an UPDATE of the run has failed: it no longer waits
    todo,           \* bookings listed and not yet handled
    at,             \* the booking the run waits for, if any
    task,           \* [Bookings -> [Kinds -> ...]]: the refunds of the run
    faults,         \* failures so far
    astray,         \* [Bookings -> [Kinds -> Nat]]: refunds made, and no row
    failed,         \* pairs whose refund has failed once
    remarked        \* a run went on to its list without all its marks

run == <<stage, marking, hasty, todo, at, task>>
depositVars == <<due, marked, rows, back, run, faults, astray, failed, remarked>>

None == "none"
Counts == [Bookings -> [Kinds -> 0..(MaxFaults + 2)]]
Tasks == {"off", "opened", "refunded", "resolved", "threw"}

TypeOK ==
    /\ due \subseteq Bookings /\ marked \subseteq Bookings
    /\ rows \in Counts /\ back \in Counts /\ astray \in Counts
    /\ stage \in {"idle", "marking", "refunding"}
    /\ marking \subseteq Bookings /\ todo \subseteq Bookings
    /\ hasty \in BOOLEAN /\ remarked \in BOOLEAN
    /\ at \in Bookings \cup {None}
    /\ task \in [Bookings -> [Kinds -> Tasks]]
    /\ faults \in 0..MaxFaults
    /\ failed \subseteq Bookings \X Kinds

Zero == [b \in Bookings |-> [k \in Kinds |-> 0]]
NoTask == [b \in Bookings |-> [k \in Kinds |-> "off"]]

Init ==
    /\ due = {} /\ marked = {} /\ failed = {}
    /\ rows = Zero /\ back = Zero /\ astray = Zero
    /\ stage = "idle" /\ marking = {} /\ todo = {} /\ at = None
    /\ hasty = FALSE /\ remarked = FALSE
    /\ task = NoTask
    /\ faults = 0

Fault == faults < MaxFaults /\ faults' = faults + 1

(* What every run leaves behind when it ends.                              *)
RunEnds ==
    /\ stage' = "idle" /\ marking' = {} /\ hasty' = FALSE /\ todo' = {} /\ at' = None
    /\ task' = NoTask

(* The status job and the calendar.                                        *)
BecomesDue(b) ==
    /\ b \notin due
    /\ due' = due \cup {b}
    /\ UNCHANGED <<marked, rows, back, run, faults, astray, failed, remarked>>

-----------------------------------------------------------------------------
(* The marks                                                               *)

(* A run that goes straight to its list.                                   *)
RunStarts_NoMarks ==
    /\ stage = "idle"
    /\ stage' = "marking"
    /\ UNCHANGED <<due, marked, rows, back, marking, hasty, todo, at, task, faults, astray,
                   failed, remarked>>

(* A run that marks what it is about to refund.                            *)
RunStarts_MarksFirst ==
    /\ stage = "idle"
    /\ stage' = "marking"
    /\ marking' = due \ marked
    /\ UNCHANGED <<due, marked, rows, back, hasty, todo, at, task, faults, astray,
                   failed, remarked>>

RunStarts ==
    /\ stage = "idle"
    /\ stage' = "marking"
    /\ marking' = {b \in Bookings \ marked : rows[b].deposit > 0}
    /\ UNCHANGED <<due, marked, rows, back, hasty, todo, at, task, faults, astray,
                   failed, remarked>>

(* The first query fails: its result is undefined and the loop throws.     *)
FirstListFails ==
    /\ stage = "idle" /\ Fault
    /\ UNCHANGED <<due, marked, rows, back, run, astray, failed, remarked>>

Mark(b) ==
    /\ b \in marking
    /\ marking' = marking \ {b}
    /\ marked' = marked \cup {b}
    /\ UNCHANGED <<due, rows, back, stage, hasty, todo, at, task, faults, astray, failed,
                   remarked>>

MarkFails(b) ==
    /\ b \in marking /\ Fault
    /\ marking' = marking \ {b}
    /\ hasty' = (hasty \/ stage = "marking")
    /\ UNCHANGED <<due, marked, rows, back, stage, todo, at, task, astray, failed, remarked>>

(* The list of bookings to refund; a run that finds none, or cannot list   *)
(* them, returns.                                                          *)
ListDue ==
    /\ stage = "marking" /\ (marking = {} \/ hasty)
    /\ todo' = due \ marked
    /\ stage' = "refunding"
    /\ hasty' = FALSE
    /\ remarked' = (remarked \/ hasty)
    /\ UNCHANGED <<due, marked, rows, back, marking, at, task, faults, astray, failed>>

-----------------------------------------------------------------------------
(* The refunds                                                             *)

(* A task may be left from the booking before when that one threw.         *)
BeginBooking(b) ==
    /\ stage = "refunding" /\ at = None /\ b \in todo
    /\ todo' = todo \ {b}
    /\ at' = b
    /\ task' = [task EXCEPT ![b] =
                   [k \in Kinds |-> IF k \in Owed(b) THEN "opened" ELSE "off"]]
    /\ UNCHANGED <<due, marked, rows, back, stage, marking, hasty, faults, astray, failed,
                   remarked>>

TaskTo(b, k, s) == task' = [task EXCEPT ![b][k] = s]

(* The row, the card, the short ids or the transactions row fail: these    *)
(* are outside the try, refund() throws and leaves its transaction open.   *)
RefundThrows(b, k) ==
    /\ task[b][k] = "opened" /\ Fault
    /\ TaskTo(b, k, "threw")
    /\ failed' = failed \cup {<<b, k>>}
    /\ UNCHANGED <<due, marked, rows, back, stage, marking, hasty, todo, at, astray, remarked>>

RefundMade(b, k) ==
    /\ task[b][k] = "opened"
    /\ back' = [back EXCEPT ![b][k] = @ + 1]
    /\ TaskTo(b, k, "refunded")
    /\ UNCHANGED <<due, marked, rows, stage, marking, hasty, todo, at, faults, astray,
                   failed, remarked>>

(* Stripe refuses, or its answer is lost: rollback, and null is returned.  *)
RefundRefused(b, k) ==
    /\ task[b][k] = "opened" /\ Fault
    /\ TaskTo(b, k, "resolved")
    /\ failed' = failed \cup {<<b, k>>}
    /\ \/ UNCHANGED <<back, astray>>
       \/ /\ back' = [back EXCEPT ![b][k] = @ + 1]
          /\ astray' = [astray EXCEPT ![b][k] = @ + 1]
    /\ UNCHANGED <<due, marked, rows, stage, marking, hasty, todo, at, remarked>>

RefundCommit(b, k) ==
    /\ task[b][k] = "refunded"
    /\ rows' = [rows EXCEPT ![b][k] = @ + 1]
    /\ TaskTo(b, k, "resolved")
    /\ UNCHANGED <<due, marked, back, stage, marking, hasty, todo, at, faults, astray,
                   failed, remarked>>

(* The last UPDATE fails (rollback, null) or COMMIT does: a transaction    *)
(* that was told to commit cannot be rolled back, so refund() throws; the  *)
(* row may be there all the same.                                          *)
RefundCommitFails(b, k) ==
    /\ task[b][k] = "refunded" /\ Fault
    /\ failed' = failed \cup {<<b, k>>}
    /\ \/ /\ \E s \in {"resolved", "threw"} : TaskTo(b, k, s)
          /\ astray' = [astray EXCEPT ![b][k] = @ + 1]
          /\ UNCHANGED rows
       \/ /\ TaskTo(b, k, "threw")
          /\ rows' = [rows EXCEPT ![b][k] = @ + 1]
          /\ UNCHANGED astray
    /\ UNCHANGED <<due, marked, back, stage, marking, hasty, todo, at, remarked>>

(* Promise.all has an answer: every refund resolved, or one threw.         *)
Answered(b) ==
    \/ \E k \in Owed(b) : task[b][k] = "threw"
    \/ \A k \in Owed(b) : task[b][k] = "resolved"

NextBooking ==
    /\ at # None /\ Answered(at)
    /\ at' = None
    /\ UNCHANGED <<due, marked, rows, back, stage, marking, hasty, todo, task, faults,
                   astray, failed, remarked>>

AtRest(b) == \A k \in Kinds : task[b][k] \in {"off", "resolved", "threw"}

(* The end of the loop; what is under way is still awaited by the process. *)
RunClosed ==
    /\ stage = "refunding" /\ at = None /\ todo = {}
    /\ marking = {} /\ \A b \in Bookings : AtRest(b)
    /\ RunEnds
    /\ UNCHANGED <<due, marked, rows, back, faults, astray, failed, remarked>>

(* The process is killed, or its list query failed and it returned.        *)
RunKilled ==
    /\ stage # "idle" /\ Fault
    /\ RunEnds
    /\ astray' = [b \in Bookings |-> [k \in Kinds |->
          astray[b][k] + IF task[b][k] = "refunded" THEN 1 ELSE 0]]
    /\ failed' = failed \cup {e \in Bookings \X Kinds : ~(task[e[1]][e[2]] \in
                                                           {"off", "resolved"})}
    /\ UNCHANGED <<due, marked, rows, back, remarked>>

RunSteps ==
    \/ RunStarts \/ ListDue \/ NextBooking \/ RunClosed
    \/ \E b \in Bookings : Mark(b) \/ BeginBooking(b)
    \/ \E b \in Bookings, k \in Kinds : RefundMade(b, k) \/ RefundCommit(b, k)

Next ==
    \/ RunSteps \/ FirstListFails \/ RunKilled
    \/ \E b \in Bookings : BecomesDue(b) \/ MarkFails(b)
    \/ \E b \in Bookings, k \in Kinds :
          RefundThrows(b, k) \/ RefundRefused(b, k) \/ RefundCommitFails(b, k)

Spec == Init /\ [][Next]_depositVars

-----------------------------------------------------------------------------
(* A deposit has one refund row, however often runs are killed, repeated   *)
(* or refused: each run marks what the one before gave back before it      *)
(* lists anything.  Not so once an UPDATE of the marks has failed: the run *)
(* goes on all the same (65-68), and gives a deposit back again.           *)
DepositBookedOnce ==
    remarked \/ \A b \in Bookings : rows[b].deposit <= 1

(* A booking that is marked, and so never listed again, had its deposit    *)
(* given back, and its unused days too unless their refund failed once: it *)
(* is not tried again when the deposit's went through (150-171).           *)
MarkedIsSettled ==
    \A b \in marked :
        /\ rows[b].deposit > 0
        /\ b \in Unused => rows[b].unused > 0 \/ <<b, "unused">> \in failed

=============================================================================
