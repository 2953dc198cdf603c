-------------------------------- MODULE Payouts --------------------------------
(***************************************************************************)
(* What hosts are paid: the monthly job that makes a payout of every       *)
(* renewal paid in the last month (cron-job/create-payouts/                *)
(* create-payouts.cron.ts) and the administrator who pays them             *)
(* (payouts/payout.service.ts).                                            *)
(*                                                                         *)
(* Nothing records which month a run has paid out: a run takes the month   *)
(* before its own clock.  Time is counted in ticks, Period of them to a    *)
(* month; a run starts up to Jitter ticks after its hour, and is started   *)
(* again when its process fails (restartPolicy OnFailure).                 *)
(***************************************************************************)
EXTENDS Integers, FiniteSets

CONSTANTS
    Renewals,
    Period,
    Jitter,
    LastTick        \* bound on the clock

Unpaid == LastTick + 1

VARIABLES
    now,
    paidAt,         \* [Renewals -> 0..Unpaid]: renewal_paid_date, status PAID
    payouts,        \* [Renewals -> Nat]: PENDING rows of payouts
    settled,        \* [Renewals -> Nat]: PAID rows of payouts
    stage,          \* of the job: "off", "waiting" (its month's run is to come), "paying"
    todo,           \* the renewals the run has listed and not yet handled
    again,          \* the run is to be started again
    repeated,       \* some run was started again
    failed          \* renewals whose payout could not be created

job == <<stage, todo, again>>
payoutVars == <<now, paidAt, payouts, settled, job, repeated, failed>>

TypeOK ==
    /\ now \in 0..LastTick
    /\ paidAt \in [Renewals -> 0..Unpaid]
    /\ payouts \in [Renewals -> Nat] /\ settled \in [Renewals -> Nat]
    /\ stage \in {"off", "waiting", "paying"}
    /\ todo \subseteq Renewals /\ failed \subseteq Renewals
    /\ again \in BOOLEAN /\ repeated \in BOOLEAN

Init ==
    /\ now = 0
    /\ paidAt = [r \in Renewals |-> Unpaid]
    /\ payouts = [r \in Renewals |-> 0] /\ settled = [r \in Renewals |-> 0]
    /\ stage = "off" /\ todo = {} /\ again = FALSE
    /\ repeated = FALSE /\ failed = {}

(* A payment of a renewal goes through.                                    *)
RenewalPaid(r) ==
    /\ paidAt[r] = Unpaid
    /\ paidAt' = [paidAt EXCEPT ![r] = now]
    /\ UNCHANGED <<now, payouts, settled, job, repeated, failed>>

(* The clock does not leave a run behind that is due; a run is done before *)
(* the next one is.                                                        *)
Tick ==
    /\ now < LastTick
    /\ stage = "waiting" => (now + 1) % Period \in 1..Jitter
    /\ stage = "paying" \/ again => (now + 1) % Period # 0
    /\ now' = now + 1
    /\ stage' = IF (now + 1) % Period = 0 THEN "waiting" ELSE stage
    /\ UNCHANGED <<paidAt, payouts, settled, todo, again, repeated, failed>>

(* A window that reaches further back than the last run.                   *)
PaidLastMonth_Longer == {r \in Renewals : paidAt[r] >= now - Period - 1 /\ paidAt[r] < now}

(* getByPaidDate(now - 1 month, now): from the start, before the end.      *)
PaidLastMonth == {r \in Renewals : paidAt[r] >= now - Period /\ paidAt[r] < now}

RunStarts ==
    /\ stage = "waiting"
    /\ todo' = PaidLastMonth
    /\ stage' = "paying"
    /\ UNCHANGED <<now, paidAt, payouts, settled, again, repeated, failed>>

(* The payload and its transaction, renewal by renewal.                    *)
CreatePayout(r) ==
    /\ stage = "paying" /\ r \in todo
    /\ payouts' = [payouts EXCEPT ![r] = @ + 1]
    /\ todo' = todo \ {r}
    /\ UNCHANGED <<now, paidAt, settled, stage, again, repeated, failed>>

(* INSERT or COMMIT fails: rolled back, and the run goes on.               *)
CreateFails(r) ==
    /\ stage = "paying" /\ r \in todo
    /\ failed' = failed \cup {r}
    /\ todo' = todo \ {r}
    /\ UNCHANGED <<now, paidAt, payouts, settled, stage, again, repeated>>

RunEnds ==
    /\ stage = "paying" /\ todo = {}
    /\ stage' = "off"
    /\ UNCHANGED <<now, paidAt, payouts, settled, todo, again, repeated, failed>>

(* The process is killed and, in this model, once per behaviour started    *)
(* again, with the clock it then finds.                                    *)
RunKilled ==
    /\ stage = "paying" /\ ~repeated
    /\ stage' = "off" /\ todo' = {} /\ again' = TRUE /\ repeated' = TRUE
    /\ UNCHANGED <<now, paidAt, payouts, settled, failed>>

RunStartsAgain ==
    /\ again
    /\ again' = FALSE
    /\ todo' = PaidLastMonth
    /\ stage' = "paying"
    /\ UNCHANGED <<now, paidAt, payouts, settled, repeated, failed>>

(* updatePayout: PENDING is refused.  Whether the payout is PAID already   *)
(* is not looked at, and the UPDATE stands when the message then throws.   *)
UpdatePayout(r) ==
    /\ payouts[r] > 0
    /\ payouts' = [payouts EXCEPT ![r] = @ - 1]
    /\ settled' = [settled EXCEPT ![r] = @ + 1]
    /\ UNCHANGED <<now, paidAt, job, repeated, failed>>

Next ==
    \/ Tick \/ RunStarts \/ RunEnds \/ RunKilled \/ RunStartsAgain
    \/ \E r \in Renewals : RenewalPaid(r) \/ CreatePayout(r) \/ CreateFails(r) \/ UpdatePayout(r)

Spec == Init /\ [][Next]_payoutVars

-----------------------------------------------------------------------------
(* Paid within Jitter of the hour of a run: in the month of two runs, or   *)
(* of none, as the runs happen to start.                                   *)
AtTheEdge(r) == paidAt[r] % Period < Jitter

MonthIsOver(r) ==
    LET end == (paidAt[r] \div Period + 1) * Period IN
    now > end + Jitter /\ stage = "off" /\ ~again

(* A renewal is paid out once, by the run after it was paid, PENDING or    *)
(* PAID: not twice, unless that run was repeated or the renewal was paid   *)
(* in the minutes around a run (create-payouts.cron.ts 38-42), and not     *)
(* never, unless its row could not be created, which no later run makes up *)
(* for (78-82).                                                            *)
PaidOutOnce ==
    \A r \in Renewals : paidAt[r] # Unpaid /\ ~AtTheEdge(r) =>
        /\ ~repeated => payouts[r] + settled[r] <= 1
        /\ MonthIsOver(r) /\ r \notin failed /\ ~repeated => payouts[r] + settled[r] = 1
=============================================================================
