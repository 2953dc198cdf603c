------------------------------ MODULE BookingJobs ------------------------------
(***************************************************************************)
(* What happens to bookings every quarter of an hour, and what customers   *)
(* hear of it: the job that cancels what was not paid in time              *)
(* (cron-job/cancel-bookings), and the one that makes bookings active,     *)
(* asks for their reviews and completes them (cron-job/active-bookings);   *)
(* and the reviews (reviews/review.service.ts), kept by an outside         *)
(* service.                                                                *)
(*                                                                         *)
(* A run that is not over when the next is due is killed.  A request that  *)
(* pays for a booking, cancels it or sets its status reads the booking     *)
(* first and writes its row by id later, whatever the status has become;   *)
(* BookingPayment has the steps between and the money.                     *)
(***************************************************************************)
EXTENDS Naturals, FiniteSets

CONSTANTS
    Bookings,
    Posts,          \* reviews customers write, all of one booking
    Reviewed,       \* that booking
    Administered,   \* bookings an administrator sets the status of
    MaxRuns,        \* [job -> runs of it], for the bound
    Overlaps        \* [booking -> [call -> how many at once]]

VARIABLES
    status,         \* [Bookings -> booking status]
    elapsed,        \* [Bookings -> which of its moments are past]
    calls,          \* [Bookings -> ["pay", "cancel" -> requests under way]]
    undone,         \* <<booking, status>>: a request wrote over it and had not read it
    forced,         \* <<booking, status>>: a request set it over one it had not read
    job,            \* ["cancel", "active" -> [pc, rows, tell]]
    jobRuns,        \* how often each was started
    told,           \* [Bookings -> [status -> notices of it]]
    unheard,        \* <<booking, status>>: not told, for the run ended or the mail failed
    review,         \* [Bookings -> review_status]
    asked,          \* [Bookings -> orders sent to the review service]
    post,           \* [Posts -> progress of a review]
    published,      \* reviews the service has
    excused         \* the booking may be reviewed twice: posts overlapped, the mark of
                    \* one was lost, or written over

requestVars == <<calls, undone, forced>>
jobVars == <<status, elapsed, requestVars, job, jobRuns, told, unheard>>
reviewVars == <<review, asked, post, published, excused>>
bookingJobVars == <<jobVars, reviewVars>>

BookingStatus ==
    {"RESERVED", "CONFIRMED", "ACTIVE", "TERMINATED", "COMPLETED", "CANCELLED"}
ReviewStatus == {"NONE", "SCHEDULED", "REVIEWED"}
Moments == {"quarter", "moveIn", "moveOut"}
Calls == {"pay", "cancel"}
Jobs == {"cancel", "active"}
Heard == {"CANCELLED", "COMPLETED"}
Asserted == Heard \cup {"ACTIVE"}       \* told of, or asked about
Resumed == {"CONFIRMED", "COMPLETED"}   \* as the jobs need them

TypeOK ==
    /\ status \in [Bookings -> BookingStatus]
    /\ elapsed \in [Bookings -> SUBSET Moments]
    /\ calls \in [Bookings -> [Calls -> Nat]]
    /\ \A b \in Bookings, c \in Calls : calls[b][c] <= Overlaps[b][c]
    /\ undone \subseteq Bookings \X Asserted /\ forced \subseteq Bookings \X Resumed
    /\ job \in [Jobs -> [pc: {"off", "update", "orders", "find", "login", "send", "mark",
                               "complete", "tell"},
                         rows: SUBSET Bookings, tell: SUBSET Bookings]]
    /\ \A j \in Jobs : jobRuns[j] \in 0..MaxRuns[j]
    /\ told \in [Bookings -> [Heard -> Nat]]
    /\ unheard \subseteq Bookings \X Heard
    /\ review \in [Bookings -> ReviewStatus]
    /\ asked \in [Bookings -> 0..MaxRuns["active"]]
    /\ post \in [Posts -> {"idle", "read", "posted", "done", "failed"}]
    /\ published \in 0..Cardinality(Posts)
    /\ excused \in BOOLEAN

Off == [pc |-> "off", rows |-> {}, tell |-> {}]

Init ==
    /\ status = [b \in Bookings |-> "RESERVED"]
    /\ elapsed = [b \in Bookings |-> {}]
    /\ calls = [b \in Bookings |-> [c \in Calls |-> 0]] /\ undone = {} /\ forced = {}
    /\ job = [j \in Jobs |-> Off] /\ jobRuns = [j \in Jobs |-> 0]
    /\ told = [b \in Bookings |-> [s \in Heard |-> 0]] /\ unheard = {}
    /\ review = [b \in Bookings |-> "NONE"] /\ asked = [b \in Bookings |-> 0]
    /\ post = [p \in Posts |-> "idle"] /\ published = 0 /\ excused = FALSE

(* A booking for today has its move-in before its quarter of an hour is    *)
(* over.                                                                   *)
Pass(b, m) ==
    /\ m \notin elapsed[b]
    /\ m = "moveOut" => "moveIn" \in elapsed[b]
    /\ elapsed' = [elapsed EXCEPT ![b] = @ \cup {m}]
    /\ UNCHANGED <<status, requestVars, job, jobRuns, told, unheard, reviewVars>>

-----------------------------------------------------------------------------
(* The requests                                                            *)

(* A slip: the booking is given the status of its renewal.                 *)
Outcome_OfRenewal(c) == IF c = "pay" THEN "PAID" ELSE "CANCELLED"

Outcome(c) == IF c = "pay" THEN "CONFIRMED" ELSE "CANCELLED"

(* payBooking and cancelBooking read the booking, before they ask Stripe   *)
(* for anything.                                                           *)
MayBegin(b, c) ==
    IF c = "pay" THEN status[b] = "RESERVED"
    ELSE status[b] = "CONFIRMED" /\ "moveIn" \notin elapsed[b]

Admit(b, c) ==
    /\ MayBegin(b, c)
    /\ calls[b][c] < Overlaps[b][c]
    /\ calls' = [calls EXCEPT ![b][c] = @ + 1]
    /\ UNCHANGED <<status, elapsed, undone, forced, job, jobRuns, told, unheard, reviewVars>>

(* What a request writes it writes by id; expected is what it had read.    *)
Overwrites(b, expected, to) ==
    /\ status' = [status EXCEPT ![b] = to]
    /\ LET stale == IF status[b] \in {expected, to} THEN {} ELSE {b} IN
       /\ undone' = undone \cup (stale \X ({status[b]} \cap Asserted))
       /\ forced' = forced \cup (stale \X ({to} \cap Resumed))

(* It commits, or comes to nothing: the card is refused, a step fails, the *)
(* server ends.                                                            *)
Settle(b, c) ==
    /\ calls[b][c] > 0
    /\ calls' = [calls EXCEPT ![b][c] = @ - 1]
    /\ \/ Overwrites(b, IF c = "pay" THEN "RESERVED" ELSE "CONFIRMED", Outcome(c))
       \/ UNCHANGED <<status, undone, forced>>
    /\ UNCHANGED <<elapsed, job, jobRuns, told, unheard, reviewVars>>

PayBooking(b) == Admit(b, "pay") \/ Settle(b, "pay")
CancelBooking(b) == Admit(b, "cancel") \/ Settle(b, "cancel")

(* updateBooking of an administrator, who may set any status but those of  *)
(* a booking that is not over.                                             *)
SetStatus(b, to) ==
    /\ Overwrites(b, to, to)
    /\ UNCHANGED <<elapsed, calls, job, jobRuns, told, unheard, reviewVars>>

-----------------------------------------------------------------------------
(* The jobs                                                                *)

(* All that have the new status are found after the update.                *)
UpdatedRows_ByStatus(from, to, m) ==
    {b \in Bookings : status[b] \in {from, to} /\ m \in elapsed[b]}

(* updateBookingsStatus: one UPDATE, which returns the rows it changed.    *)
UpdatedRows(from, to, m) == {b \in Bookings : status[b] = from /\ m \in elapsed[b]}

Updated(from, to, m) ==
    status' = [b \in Bookings |-> IF status[b] = from /\ m \in elapsed[b] THEN to
                                  ELSE status[b]]

(* A new run takes the place of one that is not over, whose notices are    *)
(* lost: their rows are not found again.                                   *)
Unsaid(j) ==
    job[j].tell \X {IF j = "cancel" THEN "CANCELLED" ELSE "COMPLETED"}

StartJob(j) ==
    /\ jobRuns[j] < MaxRuns[j]
    /\ jobRuns' = [jobRuns EXCEPT ![j] = @ + 1]
    /\ job' = [job EXCEPT ![j] = [Off EXCEPT !.pc = "update"]]
    /\ unheard' = unheard \cup Unsaid(j)
    /\ UNCHANGED <<status, elapsed, requestVars, told, reviewVars>>

CancelOverdue ==
    /\ job["cancel"].pc = "update"
    /\ Updated("RESERVED", "CANCELLED", "quarter")
    /\ job' = [job EXCEPT !["cancel"] =
                 [Off EXCEPT !.pc = "orders",
                             !.tell = UpdatedRows("RESERVED", "CANCELLED", "quarter")]]
    /\ UNCHANGED <<elapsed, requestVars, jobRuns, told, unheard, reviewVars>>

(* The orders are cancelled before a customer is told anything; an error   *)
(* there, or in any step of this job, ends it.                             *)
CancelOrders ==
    /\ job["cancel"].pc = "orders"
    /\ job' = [job EXCEPT !["cancel"].pc = "tell"]
    /\ UNCHANGED <<status, elapsed, requestVars, jobRuns, told, unheard, reviewVars>>

(* An error is caught here, and nobody is asked for a review.              *)
Activate ==
    /\ job["active"].pc = "update"
    /\ \/ /\ Updated("CONFIRMED", "ACTIVE", "moveIn")
          /\ LET rows == UpdatedRows("CONFIRMED", "ACTIVE", "moveIn") IN
             job' = [job EXCEPT !["active"] =
                       [Off EXCEPT !.pc = IF rows = {} THEN "complete" ELSE "find",
                                   !.rows = rows]]
       \/ /\ job' = [job EXCEPT !["active"].pc = "complete"]
          /\ UNCHANGED status
    /\ UNCHANGED <<elapsed, requestVars, jobRuns, told, unheard, reviewVars>>

(* sendRequestReviewOrders: the bookings are read again, whatever their    *)
(* status; an error from here on leaves their review_status as it is.      *)
FindRows ==
    /\ job["active"].pc = "find"
    /\ \E next \in {"login", "complete"} : job' = [job EXCEPT !["active"].pc = next]
    /\ UNCHANGED <<status, elapsed, requestVars, jobRuns, told, unheard, reviewVars>>

(* Every run is a process of its own, without a token.                     *)
LogIn ==
    /\ job["active"].pc = "login"
    /\ \E next \in {"send", "complete"} : job' = [job EXCEPT !["active"].pc = next]
    /\ UNCHANGED <<status, elapsed, requestVars, jobRuns, told, unheard, reviewVars>>

(* createMassOrders: one call for all, whose answer may be lost; only an   *)
(* answer lets the bookings be marked.                                     *)
SendOrders ==
    LET rows == job["active"].rows
        Sent == asked' = [b \in Bookings |-> asked[b] + (IF b \in rows THEN 1 ELSE 0)]
    IN
    /\ job["active"].pc = "send"
    /\ \/ Sent /\ job' = [job EXCEPT !["active"].pc = "mark"]
       \/ (Sent \/ UNCHANGED asked) /\ job' = [job EXCEPT !["active"].pc = "complete"]
    /\ UNCHANGED <<status, elapsed, requestVars, jobRuns, told, unheard, review, post,
                   published, excused>>

(* updateReviewSchedule                                                    *)
Scheduled(rows) == [b \in Bookings |-> IF b \in rows THEN "SCHEDULED" ELSE review[b]]

(* Whatever their review_status has become; an error is only logged.       *)
MarkAsked ==
    LET rows == job["active"].rows IN
    /\ job["active"].pc = "mark"
    /\ \/ /\ review' = Scheduled(rows)
          /\ excused' = (excused \/ (Reviewed \in rows /\ published > 0))
       \/ UNCHANGED <<review, excused>>
    /\ job' = [job EXCEPT !["active"].pc = "complete"]
    /\ UNCHANGED <<status, elapsed, requestVars, jobRuns, told, unheard, asked, post,
                   published>>

Complete ==
    /\ job["active"].pc = "complete"
    /\ Updated("ACTIVE", "COMPLETED", "moveOut")
    /\ job' = [job EXCEPT !["active"] =
                 [Off EXCEPT !.pc = "tell",
                             !.tell = UpdatedRows("ACTIVE", "COMPLETED", "moveOut")]]
    /\ UNCHANGED <<elapsed, requestVars, jobRuns, told, unheard, reviewVars>>

(* The notices of one booking; a failed one is logged.                     *)
Tell(j, b, s) ==
    /\ job[j].pc = "tell" /\ b \in job[j].tell
    /\ job' = [job EXCEPT ![j].tell = @ \ {b}]
    /\ \/ told' = [told EXCEPT ![b][s] = @ + 1] /\ UNCHANGED unheard
       \/ unheard' = unheard \cup {<<b, s>>} /\ UNCHANGED told
    /\ UNCHANGED <<status, elapsed, requestVars, jobRuns, reviewVars>>

(* By SMS and mail, and the host by mail.                                  *)
TellCancelled(b) == Tell("cancel", b, "CANCELLED")

(* By SMS.                                                                 *)
TellCompleted(b) == Tell("active", b, "COMPLETED")

(* The run is over, or dies of an error or a lost pod: a customer that     *)
(* cannot be looked up ends it too.                                        *)
JobEnds(j) ==
    /\ job[j].pc # "off"
    /\ job' = [job EXCEPT ![j] = Off]
    /\ unheard' = unheard \cup Unsaid(j)
    /\ UNCHANGED <<status, elapsed, requestVars, jobRuns, told, reviewVars>>

-----------------------------------------------------------------------------
(* Reviews                                                                 *)

(* Any booking that waits for its review.                                  *)
MayReview_Unasked == review[Reviewed] \in ReviewStatus

(* A booking whose review is not known yet, asked for or not.              *)
MayReview == review[Reviewed] # "REVIEWED"

Writing == {p \in Posts : post[p] \in {"read", "posted"}}

(* create: the booking of the customer is read, whatever its status.       *)
ReadReview(p) ==
    /\ post[p] = "idle"
    /\ post' = [post EXCEPT ![p] = IF MayReview THEN "read" ELSE "failed"]
    /\ excused' = (excused \/ Writing # {})
    /\ UNCHANGED <<jobVars, review, asked, published>>

(* The service takes it, or not, or its answer is lost.                    *)
PostReview(p) ==
    /\ post[p] = "read"
    /\ \/ /\ published' = published + 1 /\ post' = [post EXCEPT ![p] = "posted"]
          /\ UNCHANGED excused
       \/ /\ published' = published + 1 /\ post' = [post EXCEPT ![p] = "failed"]
          /\ excused' = TRUE
       \/ /\ post' = [post EXCEPT ![p] = "failed"]
          /\ UNCHANGED <<published, excused>>
    /\ UNCHANGED <<jobVars, review, asked>>

(* markBookingAsReviewed                                                   *)
MarkReviewed(p) ==
    /\ post[p] = "posted"
    /\ \/ /\ review' = [review EXCEPT ![Reviewed] = "REVIEWED"]
          /\ post' = [post EXCEPT ![p] = "done"] /\ UNCHANGED excused
       \/ /\ post' = [post EXCEPT ![p] = "failed"] /\ excused' = TRUE
          /\ UNCHANGED review
    /\ UNCHANGED <<jobVars, asked, published>>

Next ==
    \/ \E b \in Bookings :
          \/ \E m \in Moments : Pass(b, m)
          \/ PayBooking(b) \/ CancelBooking(b)
          \/ b \in Administered /\ \E to \in {"TERMINATED", "COMPLETED", "CANCELLED"} :
                SetStatus(b, to)
          \/ TellCancelled(b) \/ TellCompleted(b)
    \/ \E j \in Jobs : StartJob(j) \/ JobEnds(j)
    \/ CancelOverdue \/ CancelOrders
    \/ Activate \/ FindRows \/ LogIn \/ SendOrders \/ MarkAsked \/ Complete
    \/ \E p \in Posts : ReadReview(p) \/ PostReview(p) \/ MarkReviewed(p)

Spec == Init /\ [][Next]_bookingJobVars

-----------------------------------------------------------------------------
(* A payment, begun while the booking was RESERVED, confirmed it when it no *)
(* longer was.                                                             *)
Revived(b) == <<b, "CONFIRMED">> \in forced

(* A customer is told of a cancellation at most once, and of the end of    *)
(* his stay, unless a late payment revived the booking; and the truth:     *)
(* that a booking was cancelled that is, or completed that is, or was      *)
(* until a payment, a cancellation or an administrator wrote over it by    *)
(* id.  Whoever is not told lost the notice with the run or the mail, has  *)
(* cancelled himself or had his booking completed by an administrator      *)
(* (cron-job/cancel-bookings/cancel-booking.cron.ts 46-160,                *)
(* cron-job/active-bookings/active-bookings.cron.ts 76-118;                *)
(* booking.service.ts 1148-1152 and 1289-1292, 1672-1690 and 1757-1761).   *)
ToldOnce ==
    \A b \in Bookings :
        /\ told[b]["CANCELLED"] <= 1
        /\ ~Revived(b) => told[b]["COMPLETED"] <= 1
        /\ \A s \in Heard :
              /\ told[b][s] > 0 => status[b] = s \/ <<b, s>> \in undone
              /\ told[b][s] > 0 /\ <<b, s>> \in unheard => s = "COMPLETED" /\ Revived(b)
        /\ status[b] = "COMPLETED" =>
              \/ told[b]["COMPLETED"] > 0 \/ <<b, "COMPLETED">> \in unheard
              \/ b \in job["active"].tell
              \/ <<b, "COMPLETED">> \in forced

(* A booking is sent to the review service once, unless a late payment     *)
(* revived it, and only after it began, whatever a request then wrote over *)
(* it; it has one review unless two were written at once or the mark of    *)
(* one was lost or overwritten (reviews/review.service.ts 56-99, 120-178;  *)
(* booking.service.ts 1426-1442).                                          *)
ReviewedOnce ==
    /\ \A b \in Bookings :
          /\ ~Revived(b) => asked[b] <= 1
          /\ asked[b] > 0 =>
                \/ status[b] \in {"ACTIVE", "COMPLETED"}
                \/ <<b, "ACTIVE">> \in undone \/ <<b, "COMPLETED">> \in undone
    /\ ~excused => published <= 1 /\ (review[Reviewed] = "REVIEWED" => published = 1)
=============================================================================
