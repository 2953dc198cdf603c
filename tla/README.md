# Space Next Door core API: specifications

TLA+ models of the booking back end in `src/src` (NestJS, Sequelize over PostgreSQL,
Stripe, cron jobs that run as processes of their own). TLC checks small instances; TLAPS
proves the safety properties for any number of bookings, requests, units, accounts and
faults, and for any prices, percents and calendar. Paths below are
relative to `src/src` unless they start with `cronjob/`; numbers after a path are lines.

## 1. The system

A customer reserves a storage space (booking RESERVED, first renewal UN_PAID), pays within
15 minutes (CONFIRMED), moves in (ACTIVE), is charged every month by a job, asks for
termination or reaches the move-out date (COMPLETED), and gets the deposit back. Pick-up
orders, quotations, promotions, insurance and taxes hang on the booking.

| Part | State it keeps | Operations | Talks to | What makes it correct |
|---|---|---|---|---|
| Bookings `bookings/booking.service.ts` | `bookings` row: status, dates, amounts, flags | create, payBooking, update, cancelBooking, changeBookingUnit, addPromotionsToBooking, updateBookingsStatus | every part below | a booking that holds a space is paid; no money is kept for nothing; status moves only as decided |
| Renewals `bookings/renewals` | `renewals` rows: status, period, amounts, last attempt | create, update, paymentSchedule | bookings, job, terminations | one row per month, charged once |
| Transactions `bookings/transactions` | `transactions` rows, one per charge or refund | create, update | writers of money | every charge has its row, or was given back |
| Refunds `refunds` | `refunds` rows | refund, in the caller's or its own transaction | Stripe | a row with a Stripe id stands for money given back |
| Stripe adapter `stripe` | none (Stripe's) | charge, refund, refundWithAmount, cards | Stripe | - |
| Orders `orders`, Logistics `logistics` | `orders` status, history; the courier's order | create, payOrder, cancelOrder, updateOrderStatus | GoGoX, Stripe, bookings | order, courier and payment agree |
| Quotations `quotations` | `quotations` status, items | create, updateQuotation, jobs | bookings | what is accepted is not rejected |
| Terminations `terminations` | `terminations` status, payment status | requestTermination, payTerminationDues, updateTerminationStatus | bookings, renewals, Stripe | one per booking; dues paid once |
| Promotions `promotions`, `bookings/promotions` | promotions, copies per booking, redeem rows | create, update, getPromotionAmount | bookings, job | limits, unique active codes |
| Taxes `applied-taxes` | `applied_taxes` rows | calculateTax, createAppliedTaxes, deleteByIds | bookings, orders, job | rows and amounts agree |
| Short ids `ids_counter` | one row per type | generate...Id | every writer of money | unique |
| Payouts `payouts` | `payouts` rows | create (job) | renewals | one per paid renewal |
| Sessions `auth` | refresh tokens, one-time passwords | login, refresh, logout | users | one session per platform |
| Cron jobs `cron-job/*` | none | cancel, active, pay-renewal, terminate, refund-deposit, quotation-reject, payouts, stock | all of the above | safe to kill and to run again (`concurrencyPolicy: Replace`, `restartPolicy: OnFailure`) |
| Pricing (`calculateCheckOutPrice`, `getRenewalPayload`, `paymentSchedule`, both promotion services, `invoices`) | amounts of bookings, renewals, orders | computed anew at each place | all writers of money | what is shown is what is charged |
| Customers and cards `auth/users` | `users`, `customers`, `providers` | login, social login, guests, updateProfile | Stripe, bookings | whoever signs in gets his own account; the card shown is the card charged |
| Sites `sites` | `sites` status, content, features, rules, policies; door history | create, update, approve, openDoor | spaces, queue, door controller | customers see what was reviewed; an opening is on record |
| Spaces `spaces` | `spaces`, `prices`, `space_features` | create, update, delete, search by dates and pages | bookings, queue, sync job | no night sold twice; lists are complete; the type fits the size |
| Stock sync `cron-job/sitelink-stock-sync`, `es-stock-sync` | sites and spaces with a third party's id | a run each quarter of an hour; a message per site | third parties, queue | our rows follow theirs, the index ours |
| Reviews, notices, quarter-hour jobs' mails `reviews`, `notifications`, `shared/notifications` | `review_status` | createReview, sendNotification | Yotpo, SMS, mail | told once, and the truth |
| Media `media` | objects in S3 | upload, resize | S3, sharp | what is answered as stored is stored, whole |
| Reference data (banks, countries, agreements, taxes, insurances) | rows edited one by one | CRUD, lists by page | - | a walk through the pages is whole |

How they interact: by method calls inside one server process, and through rows of one
database between processes. Every `await` is a point where other requests run. Nothing is
locked when a row is read (`findByPk` outside the transaction); an UPDATE inside the
transaction takes the row's lock until COMMIT. The `afterUpdate` hook of a booking
publishes it to RabbitMQ inside the transaction (`shared/db.hooks.ts` 77-130), and a
failure of it is a failure of the UPDATE.

What is hard: (a) checks made on rows read before the calls of Stripe; (b) error paths
that make calls of their own and can fail in turn; (c) transactions opened outside the
`try` that ends them; (d) lost answers of Stripe and of COMMIT; (e) jobs killed half way
and started again; (f) locks taken in different orders. `PROJECT.json` lists each place
("hazards") with the properties that watch it.

## 2. Modules

| Module | Models |
|---|---|
| `BookingLifecycle` | what the status of a booking promises: abstract, six lines of actions |
| `BookingPayment` | payBooking, cancelBooking with RefundService.refund, update (by customer and by administrator), the jobs that cancel, activate and complete bookings, expire orders and reject quotations, over row locks, Stripe, crashes and lost answers; implements `BookingLifecycle` |
| `MCBookingPayment`, `BookingPaymentProofs` | its instances for TLC, its theorems |
| `PayRenewals` | the daily job that charges monthly renewals, with its error paths, kills, repeats and the days that pass, against requestTermination |
| `MCPayRenewals`, `MCJobsLive`, `PayRenewalsProofs` | its instances for TLC, one beside `DepositRefunds`; its theorems |
| `IdsCounter` | the short-id generator |
| `Terminations` | requestTermination and payTerminationDues, by customers and by the daily job |
| `DepositRefunds` | the daily job that gives deposits and unused days back |
| `Payouts` | the monthly job that pays hosts |
| `Orders`, `Courier` | pick-up orders against the courier, Stripe and payBooking; what a pick-up costs |
| `UnitChange` | changeBookingUnit |
| `Pricing` | what a stay costs: quote, booking, insurance, order, schedule, projection, renewals, invoice |
| `Promotions` | vouchers: codes, limits, what bookings copy and redeem |
| `Quotations`, `BookingJobs` | quotations with their two jobs; what the quarter-hour jobs tell customers, and reviews |
| `Sessions`, `Accounts`, `Cards` | signing in at the same time; whose account a caller gets; which card is charged |
| `Sites`, `Features`, `Doors` | review of a site; the lists of sites, spaces and bookings; opening doors |
| `Availability`, `SpaceTypes`, `Paging` | stock by date; size and type of a space; pages of the lists |
| `SiteSync`, `StockSync` | the job that copies third parties' stock: stores and sites; the units of a site |
| `Media`, `Notices` | uploads and resizing; bulk messages |
| `MCServices` | all modules from `IdsCounter` on, side by side, for TLC |
| `JobProofs` | theorems about `Payouts`, `DepositRefunds`, `Terminations`, `BookingJobs`, `Notices` and `Quotations` |
| `UnitProofs` | theorems about `UnitChange`, `Doors`, `Sites`, `StockSync`, `SiteSync` and `SpaceTypes` |
| `CustomerProofs` | theorems about `Cards`, `Sessions`, `Accounts`, `Orders`, `Courier` and `Promotions` |
| `PricingProofs` | theorems about `Pricing` |
| `ListProofs` | theorems about `IdsCounter`, `Availability`, `Features`, `Media` and `Paging` |
| `ServicesProofs` | that the variables of all of them keep their types |

`MCServices` is an interleaving of parts of which each behaviour explores one (`part`): the
components it instantiates share no variable of their models, so one run can ask of each
what the others cannot disturb. Where components do share state they are in one module:
payment, cancellation, insurance, orders, quotations and jobs in `BookingPayment`; job and
termination in `PayRenewals`; order, courier, payBooking and cancel job in `Orders`;
profile and payment in `Cards`; host, job and index in `StockSync`; host, administrator and
booking in `Promotions`, `Quotations` and `Sites`. The invariants of `MCServices` are
conjunctions of properties that are stated, with the lines they are about, in the
component's module.

The components take their requests, rows and bounds from constants of
`MCServices`, which the configurations give values and the named assumptions (`OrdersAssumption`,
`CardsAssumption` and so on) keep to what the code justifies; the proof modules extend `MCServices`
and say nothing of those values. Two components have several instances, of one parametrised
`INSTANCE`: `Quoting("quotations")` several bookings of one quotation, `Quoting("reminders")` the
days a reminder needs; `Quarters("jobs")` the two jobs on two bookings, `Quarters("set")` a booking
that an administrator changes too, `Quarters("reviews")` the reviews of one booking.

### BookingPayment: state and steps

*Rows.* `status`, `renewal` (the first renewal's status), `order`, `quotation` are the
columns of the same name. `insurance` says which change of insurance the booking and its
renewal carry, `taxes` which changes own insurance tax rows; `payments` is the set of
payments whose transaction row is committed; `refund` is the row a cancellation wrote.
Amounts are counted in halves of the payment (`Full == 2`), enough for the three tiers of
cancelBooking (all, half, nothing).

*Transactions.* A variable of the group `rows` changes only at COMMIT, which is how READ
COMMITTED shows rows to others. Between the UPDATE and the end of its transaction a handler
holds `bookingLock` or `renewalLock`; other UPDATEs of that row wait. An SQL error frees
the locks (the server aborts the transaction), an error of anything else does not, until
ROLLBACK; a transaction nobody ends keeps them until `Crash`.

*Handlers.* `pc[r]` is where request r is. payBooking goes `idle -> opened` (PayAdmit: read
and check) `-> charged -> renewalWritten -> written -> succeeded`; an error leads to
`catchNoCharge` or `catchCharged` according to whether the variable `charge` was set, and
from there to `failed`, or `abandoned` when the error path itself throws. cancelBooking goes
`opened -> written -> refunded | refundFailed | aborted -> succeeded | failed`, and has no
catch, so an early error is `abandoned`. update opens its transaction before its checks, so
a rejected request is `abandoned` too. The map in `PROJECT.json` gives the lines of each.

*Stripe.* A charge is made, refused, or made with its answer lost (`"unheard"`). A refund is
refused, made, or made with its answer lost; Stripe itself refuses to give back more than is
left of a charge.

*Jobs.* `updateBookingsStatus` is one conditional UPDATE, so `MoveAll` changes all the
selected rows at once and waits until none is locked. The reject job is two steps: it lists,
then updates by id. `TimePasses` moves a booking past its milestones in any order the data
allows.

*Left out:* amounts beyond halves, mail, logs, the payment method. A request runs once; a
second call by a user is another request. Bookings start as create() leaves them.

### PayRenewals: state and steps

*Rows.* `rows[b]` is the list of a booking's renewals by id, each with the number of its month
(1 is the month from the move-in date), its status and its last_attempt_date in days from
move-in. `transactions[b][m]` counts the transactions rows of a month. The rows are changed
by this job alone, so what a run read at its start and what is stored differ only in
`is_termination_requested`, for which `todo` keeps what was read.

*A run.* `pc` goes `waiting -> starting` (NextRun, once a day) `-> choosing` (Read), then for
each booking `looking`: SkipRow or OpenRetry for each renewal, at the end of the list
NothingDue or OpenNew. A bill, old or `fresh`, goes `opened -> charged -> written`, and
Commit leads on. The catch of an old one is `refund -> undo -> note`, that of a new one
`record -> refund -> undo`. A call that throws in a catch, or outside any try, leaves the run
`stuck`: with Node 14 an unhandled rejection does not end the process, and only the next
day's run replaces it (`concurrencyPolicy: Replace`). A process that dies is `dead`, and
started again at once (Restart) or replaced.

*Money.* `kept[b][m]` counts the charges Stripe made for a month and did not give back;
`charged` says that the variable `charge` is set. `stray` and `unheard` are bookkeeping of the
model: charges that no process will ever book or give back (lost answers, kills, a refund
that failed), and COMMITs that were applied though commit() threw.

*Calendar.* Months of `MonthDays` days, all bookings from day 0; `DueDay` is `Lead` days
before the month (`createBefore`), and `HasNext` says when getRenewalPayload sets
next_renewal_date. A renewal tried exactly two days ago may be retried or skipped: `diff` is
taken in fractions of days, and two runs do not start at the same second.

*Terminations.* `RequestTermination` is requestTermination as one step; `dues` is the set of
renewals its amount counts. *Left out:* amounts and promotions (in `Pricing`), payouts (in `Payouts`), mail, and the bookings
that become COMPLETED, which had asked for termination before.

### IdsCounter

`row` is the table, `given` the number each call got. `Increment` is the single `UPDATE ...
RETURNING`, `FindsNoRow`/`InsertFirst`/`InsertRejected` the fallback with its unique index,
`CallLost` a call whose answer or process is lost, with or without the UPDATE applied.

### The components of MCServices

Common to all: a request is known by a constant, and what it creates by the request; the
value of `pc`, `stage` or `step` says after which `await` it stands; a read that is used later
is kept in a variable of its own (`plan`, `seen`, `saw`, `to`). A transaction nobody can
see into is one step at its COMMIT. Variables marked `ghost`, and `met`, `stirred`, `crossed`,
`astray`, `unheard` and the like, record what happened, so that a property can say *unless*:
the code has no lock against overlaps, and the properties say what holds when none
happened, and how far it can go when one did. Such exceptions are the code's behaviour, and each
names its lines.

- **Terminations.** `termination[r]` is the row request r created. RequestTermination is read
  (any requested yet?), compute, insert; the daily job lists bookings, requests for each, and pays.
  The dues are `none`, `small` (below 1) or `due`. *Property:* SCHEDULED or TERMINATED means
  nothing is owed or it is paid.
- **DepositRefunds.** `marking`/`todo`/`task` are the run's three loops; `Promise.all` goes on at
  the first failure while the other refunds are under way. *Properties:* one refund row for a
  deposit; a mark only after it; and it comes back.
- **Payouts.** The window is the month before the run's own clock, runs start up to `Jitter`
  late. *Property:* a renewal is paid out once, unless the run was repeated or the renewal was
  paid in the minutes around a run.
- **Orders.** The courier's order is placed before the row and called off before it. `Mapped` is
  the status taken over from the courier. *Properties:* CONFIRMED means paid once, PENDING
  unpaid; a cancellation returns a payment at most once.
- **Courier.** The price is asked twice; `dearer`, `resized` record what changed in between.
- **UnitChange.** `charged`, `entered`, `gaveBack` are the money of the three transactions.
  *Property:* the deposit held is that of the unit, and was paid, but for the exceptions named.
- **Pricing.** One customer goes from quote to the last renewal; amounts in hundredths with the
  code's roundings, months of the calendar's lengths. *Properties:* what is
  quoted is booked and charged; a schedule, a projection and an invoice show what is charged, each
  with the cases where the code differs; tax rows add up to the tax billed. A promotion is a fixed
  amount, a percentage or a total, for the first months or for one (`indexed`), with a cap, the
  days or the price a customer must buy, and a last day (`until`). `create` looks it up again after the
  quote, and the booking keeps a copy (`copied`), which the code looks at on the day a month is made:
  a month after its last day is charged without it, though the quote, a schedule or a projection
  had it. The properties say so (`Withdrawn`, `Lapsed`) and what is charged instead.
- **Promotions.** `promo` are vouchers, `copies` what a booking carries, `redeemed` rows. Checks
  read, writes follow. *Property:* one ACTIVE voucher to a code; the limit is passed by no more
  than the bookings made at once (`peak`).
- **Quotations.** Half days; `job` is what each of the two daily runs has left. *Properties:* a
  price for one booking; rejected after the reminder; told of it once.
- **BookingJobs.** A run finds rows, updates and tells, in this order; it may be killed between.
  payBooking and cancelBooking read the booking (`Admit`) and, after the calls of Stripe, write it by id
  whatever its status has become (`Settle`); so does an administrator (`SetStatus`). `undone` has
  the statuses that were written over so, `forced` the statuses that were set over one that had not
  been read. Reviews are written, published by Yotpo and marked. *Properties:* told once and the
  truth, of a status the booking has or had until a request wrote over it, and a
  completion twice only after a late payment brought a booking back (`Revived`); one review.
- **Sessions, Accounts.** find-then-create, delete-then-insert; addresses as written or in lower
  case, numbers that may be empty; the App Store's review signs in with a fixed password (`"review"`),
  for which no row is read. **Cards.** The card is replaced at Stripe in the middle of
  a transaction.
- **Sites.** An update reads, checks what it read and writes the columns that differ. *Property:*
  content customers see was approved, or rested INACTIVE, or an overlap wrote it.
- **Features.** An upsert reads rows outside the transaction, inserts and deletes within;
  `aborted` is PostgreSQL's failed transaction whose COMMIT answers ROLLBACK. *Properties:* an
  answer says what became of the request; the rows are those last asked for.
- **Doors.** Look up, controller, history. **Notices.** SMS one by one with Promise.all, mails
  with swallowed errors. **Media.** Streams whose errors nobody hears.
- **Availability.** The timeline of a search, merged as the code merges it; create does not
  look again. **SpaceTypes.** Sides in halves, sizes in quarters; by size among the types of the site's
  country, or of all countries while the site has no address, and by area among those of the job's
  store; `looked` is the country whose types were chosen from, `readdressed` that the address
  came later.
  **Paging.** COUNT and SELECT, sixteen lists by their order, window and count; a client that
  walks through one.
- **SiteSync.** Stores in turn, log in, list, create, visit. **StockSync.** `run` is what a run has
  read (`seen` units, `had` spaces) and has left; `edit` a host's update between UPDATE and
  COMMIT, which may give a space the size of another unit (`reshaped`); `queued`, `fresh` the index's
  message, which leaves ahead of a COMMIT, or not at all (`untold`: price writes tell
  nobody). *Properties:* a run without a failure leaves each unit one space with its stock and price;
  the index is behind only after a read ahead of a COMMIT or an untold change.

## 3. Runs

| Run | Instance | Shows |
|---|---|---|
| `payment` | 1 booking, 2 payments, 2 cancellations, jobs, crashes | the safety invariants |
| `change` | 1 booking with order and move-out date, 1 payment, 1 cancellation, 2 insurance changes | tax rows, locks, lock-order deadlock |
| `admin` | 1 quoted booking with order, 1 payment, 1 cancellation, 2 administrators | what goes with a payment, the refinement with administrators |
| `live` | 2 bookings, a payment, a cancellation and an insurance change of the first | liveness under fairness |
| `renewals` | 1 booking with move-out date, up to 4 months, 3 faults | months, rows, charges and transactions agree; no month after the end |
| `jobslive` | `MCJobsLive`: 2 bookings, 2 months, 1 fault; 2 deposits, 2 faults | a run tries all there is; what a failed run left, a later one bills; deposits come back |
| `services` | 27 parts of `MCServices`, one at a time: short ids, money, sites, spaces, quotations, doors, lists, media, sessions, accounts, cards, the quarter-hour jobs with two bookings, with an administrator and with reviews, bulk messages | 18 invariants |
| `unit` | 1 booking, 3 changes of unit | a violation: the old deposit is not given back (booking.service.ts 2123 against 1971) |
| `dues` | 1 booking, no faults | a violation: a renewal counted in a termination's dues is charged (pay-renewal.cron.ts 178 against 177) |
| `retry72` | 1 booking, no faults | a violation: a failed renewal is charged again after 48 hours (215 against 206) |
| `confirm` | 1 booking, 1 payment | a violation: a CANCELLED booking is confirmed (booking.service.ts 1289 against 1148-1152) |
| `insure` | 1 booking, 1 payment, 1 insurance change | a violation: a CONFIRMED booking gets an insurance (1602 against 1496-1502) |

*Bounds.* Every hazard in section 1 is between two handlers, or a handler and a job, that
touch one booking, so two of a kind and one of each other kind on one booking meet all of
them; two payments are needed for a loser that overwrites a winner, two cancellations for a
double refund, two insurance changes for taxes deleted under another's feet. A second
booking matters only to the job's bulk UPDATE, and is there in `live`. The theorems below
have no bounds. The renewal job handles one booking at a time and keeps nothing from one to
the next, so one booking shows what can happen to it; `jobslive` has a second one, for
what a failure of the first does to it. Three faults in a row are a lost COMMIT, a failing
error path and a kill; four months with a retry in between reach the last month before
move-out. Months of two days and leads of one or two keep retries and due dates close
together; the calendar stops at `LastDay`, the runs do not. `services`: the bounds of each part
stand with its instance in `MCServices`, with what they are chosen for: as many requests as its hazards need to overlap (two, three where a third may follow
two), runs enough for one to be killed and one to follow, faults enough for an error path to
fail; stays on both sides of each limit of 7, 30, 45 and 60 days, prices that do not divide;
promotions of each kind, whose last day is the day before a month is made, that day, or between
two; types of two countries that share sizes; a payment of each booking and a cancellation of one
under way while the jobs run, and while an administrator changes one, and two payments of the
booking that is reviewed, so that the late one may find it completed.
`payment` uses symmetry of the two payments and of the two cancellations;
`live` uses none. Deadlock is not checked: when every request has ended and every milestone
passed the system has nothing to do.

*Fairness* (`FairSpec`, run `live`). Weak fairness of each handler's own steps: an `await`
on the database or on Stripe ends, well or badly, because both clients have time-outs, and
a step that waits for a lock is not enabled until the lock is free. Weak fairness of
PostgreSQL's deadlock detector, and of the job that expires reservations, which is started
every 15 minutes (`cronjob/cancel-booking`). In `jobslive` it is
weak fairness of the `RunSteps` of `PayRenewals` and of `DepositRefunds`: Kubernetes starts a run of
each every day (`cronjob/pay-renewal`, `cronjob/refund-deposit-booking`) and its calls end. Of the
other parts of `MCServices` nothing is assumed. None is assumed of crashes or other faults, nor that an
abandoned transaction ends: the two liveness properties name that exception, which is what
the code does.

*What the violations mean.* In `confirm` and `insure` the check and the UPDATE are two steps with others in
between, and the UPDATE names the booking by id alone.
`dues` is the same over minutes: the flag is read before the Stripe calls of all the bookings
before. `retry72` is a number that differs from its comment. In `unit` the refund of the old deposit is asked for
without the charge to refund and without a currency, Stripe's answer becomes null and nobody looks. No run shows, because nothing
says otherwise, that a renewal which a second, declined payment marked FAILED
(booking.service.ts 1371) is charged again by the job: the initial states have such renewals.

## 4. Proofs

Every theorem is about all values of the constants that satisfy the named assumptions, so it
covers any number of bookings, requests, runs, faults and days. Each follows one pattern: an
inductive invariant, a lemma that it holds at first, a lemma per action (or per kind of action)
that keeps it, and the temporal step. TLC found the invariants hold, as invariants of a run,
before they were proved. For the components of `MCServices` a first lemma says that its behaviours
are, seen through the component's variables, behaviours of the component (`ServicesSpec =>
Hosts!Spec`, and for the parametrised instances that a step of the chosen `part` is a step of
it); the theorems state the properties that the run `services` checks.

**BookingPaymentProofs** proves each invariant the runs check and the refinement
`Spec => Lifecycle!LifecycleSpec`, from the assumptions `RequestsAssumption` (the kinds
of requests are disjoint, each names a booking), `BookingsAssumption` and, for the sums of
`NoUndueRefund` only, `CancelsAssumption` (finitely many cancellations).

None of these is inductive alone. `IInv` adds to `TypeOK`:

- `Holding`, `LocksAreHeld`: which states hold which row's lock, and that a lock's holder is
  in such a state. With them two handlers cannot be between UPDATE and COMMIT of one row.
- `ChargeSteps`: what `charge` and `back` are at each state of a payment, so that what is
  booked was charged and what is given back was not booked.
- `OrdersExist`, `Standing`: the rows that go with a paid booking, and the booking's status
  against its payments.
- `RefundFacts`, `RefundInv`: a cancellation's `source` is a committed payment and stays so.
- `InsuranceSteps`, `InsuranceInv`: which changes may have deleted whose tax rows.
- `RefundsOwed`: what was given back of a payment that went through is no more than its
  cancellations owed. Stripe asks no cancellation for what another was given back, so this is a
  sum over cancellations, a fold in the model: `SumsExist` gives the function the fold
  computes, `TermsOfSum` says that the sum grows with a term and with no other, and
  `DueTogether` that a term is at most the sum.

Each part has a lemma that every action keeps it, one step per action; `IInvHolds` puts them
together, each theorem follows from it. For the refinement a step of the model is an
`Admit`, `Settle`, `Drop` or `Move` of the lifecycle, or leaves its variables alone;
`admitted` is the set of requests between their check and their end.

**PayRenewalsProofs** proves each invariant the runs check. The two assumptions are
`BookingsAssumption` (ids are positive, the move-out dates are days) and
`CalendarAssumption`. Its `IInv` adds to `TypeOK`:

- `Shape`, `OldRow`: which of the run's variables are set where, and that the renewal billed
  again is the one `row` points to.
- `RowsInv`, `NewRow`: the months of a booking's renewals in order, at most one FAILED
  renewal of a month, and a new bill is for the month after the latest, or in its catch for
  that month itself when the COMMIT was applied unheard.
- `Ledger`, `ChargesBooked`: kept and unheard charges are the booked, the lost and the one in
  hand; a booked month has no FAILED renewal and is not yet to come, so it is never billed.
  That is why a month is paid once: with `transactions <= unheard + 1`, `MonthPaidOnce` is
  what remains of the equation.
- `TriedInv`: what a run has tried of the bookings it is done with.

How the rows change is one of four steps (`RowSteps`), how the money moves one of seven
(`MoneySteps`); each part of the invariant is then kept by each kind of step. `PaidIsBooked`
compares a Cardinality with a count: of the PAID rows of a month no step adds or takes more than
one, and lemmas about a set that gains one element carry the number along.

**JobProofs.**
- `PayoutsOnce` (a renewal is paid out once). The window of a run is a month by the clock, so the
  proof is about division: `DivMod`, `RemainderUnique` and `NextTick` say how hour and month go on
  with the clock. `HostsInv` says of each renewal whether it was paid before the hour at which
  the job was last due (`HadItsRun`), and that it is listed, paid out, failed or settled
  if and only if so; renewals paid `AtTheEdge` and repeated runs are the exceptions the property
  names. `HostsAssumption`: a run starts before the next is due.
- `DepositsSettledOnce` (one refund row for a deposit, a mark only after it). `DepositsInv` adds that
  a run's refunds are of bookings it has taken off its list, that what is listed or under way has no
  row, because a run marks what has one *before* it lists, and that the two refunds of a
  booking begin together. `DepositsCounted` goes with it: a refund made is booked, about to be, or
  astray, and each but one needs a failure before it, so what goes out is bounded by what failed.
- `DuesAreSettled` (SCHEDULED or TERMINATED: nothing owed, or paid). `EndInv` adds who pays for
  which termination: what is being paid is there, what is booked is past its writes, and what is
  about to be marked FAILED was given back. `EndingAssumption`: a request is of one kind and of a
  booking, move-out dates are days.
- `CustomersAreToldOnce`: `QuartersFresh` (only a late payment brings a booking back that was over, and
  none is RESERVED again), `QuartersTell` (whom a job has still to tell was neither told nor
  missed, and the status he is told of is the one the booking has or had until a request wrote
  over it), `QuartersAsk` (one request for a review, by
  the run that made the booking ACTIVE), `QuartersReview` (one review at a time, and what is
  published is marked), and for bulk messages that requests go in order and reach whom they list.
- `QuotesAreKept`: `QuotesNamed` (what a complete quotation offers does not change), `QuotesPriced` (a
  payment ends the offer, so bookings at its price met before; until stirred a booking costs what was
  shown), `QuotesDeclined` (told of a rejection once, and no run has it left), `QuotesReminded` (what is
  on its way to be rejected was reminded of on an earlier day, or overlooked). The last needs
  `QuoteRemind < QuoteKeep["reminders"]`: the reminder is due before the rejection.

**UnitProofs.** `UnitsArePaidFor`: `MovesPaid` and `MovesSettled` (unless overlapping requests made it
`stale`, the booking has the deposit of its unit, and the change that brought it there paid it).
`DoorsOpenAsLogged`: who comes to the controller was found allowed, and who comes to the history
heard from it. `SitesAreListedAsReviewed`: `SitesMet`, `SitesSeen` (what an update read is still
there, or one it met wrote it) and `SitesShown`, `SitesTaxed`.
`SpacesFollowTheirStock` is about three components.

- *StockSync*: a unit has one space for sale, and a run that has still to come to the unit knows it
  (`StockAlone`, `StockKnown`), or it would insert a second: that is why a run killed between INSERT
  and COMMIT does no harm. `StockClean` says what a run without a failure has done for the units
  behind it (`StockDone`) and left as it read for those ahead, `StockTold` that an index read while a
  transaction is open is marked so. `StockAssumption`: an earlier run left one space for a unit.
- *SiteSync*: what a run is about to create has no row (`ShopsGo`), what it has seen it has read or
  still to read (`ShopsWhole`). `VisitsAssumption`: there is a store.
- *SpaceTypes*: `BySizeFits` and `ByAreaFits` say that both lookups give a type a size fits and the
  largest above them all, of the types they choose from, be those of one country or of all.
  `SizesAssumption`: types of one country are a whole unit apart, those of two may share sizes, and
  one is the largest.

**CustomerProofs.** `CardShownIsCharged`: `CardsHeld` (who holds the row's lock), `CardsSet` (Stripe has a
card of every customer a row or request knows), `CardsAlone`, `CardsBrought` and `CardsKnown` (a
card that is brought alone is at Stripe, then in the row, and a roll-back returns to what was
read), `CardsShown`, `CardsNamed`. `SignInsAndAccountsAreSingle`: in `SignInsInv` whoever is about to
create met whoever created since he found none, the same for a session that is dropped and
saved, and a password that is used up does not come back; in `AccountsInv` the addresses that
neither the profile page nor a provider wrote are in lower case and single, and so are numbers.

`OrdersArePaidOnce` is about two components. *Orders*: `OrdersNamed` (an order without
a row is nobody's), `OrdersPaid` (CONFIRMED has a payment, PENDING none) and `OrdersCalledOff` (one
request at most is between the courier's cancellation and the refund, because the courier cancels
an order once; before it no payment was given back). *Courier*: `DriveQuoted` says that a quote covers
the price of today unless it rose, with lemmas that adding the commission and the tax keeps
order, for any percentages.

*Promotions* (`VouchersAreLimited`): `CouponsMet` and `CouponsChecked` (who is about to make a voucher ACTIVE
met whoever made another of its code so since the check), `CouponsCopied` (copies of overlapping
requests), and `CouponsLimited`, which counts the bookings that hold a voucher unpaid with those that redeemed it:
together at most the limit less one plus `peak`. `CouponsAssumption`: a finite number of bookings, and an addition
names one of them.

**PricingProofs.** `StaysCostAsQuoted`, for any stays, prices, insurances, percents and promotions of any kind and last day, and any
calendar of months of 28 to 31 days (`PricingAssumption`; `Lead` is 2, as `createBefore` is set).
- Arithmetic: `RoundsTo`, `RoundKeepsOrder`, `RoundWhole`, `TaxIs` (a tax keeps order, and changes sign
  with its amount), `DiscountsAre` (a discount grows by no more than the amount it is of, though it is
  rounded and capped, or it is a total's), `DaysCost` (what the roundings of a few days' rent can differ by).
- Calendar: `StartsExist`, `StartsGrow`, `WholeMonthsAre` say of the recursive function `StartOf` and of
  `WholeMonths` what the code's date library answers, by induction over the months (`UpTo`).
- `PricesInv`: types; `PricesQuoted` (which rows there are in each phase); `FirstMonth` (the first
  renewal and the booking in terms of rent, insurance, discount and the tax billed, which is at
  least what the tax rows show); `LaterMonth` (a later renewal follows from the base amount of its
  day). What is foretold needs that a stay which reaches a month reaches all before (`Lasts`).
- `FirstRentShown` and `LaterRentShown` compare the days the schedule shows with those that are
  charged, and `NetGrows` carries this through discount and tax; `ThreeLines` adds up the three lines
  of an invoice; `FirstDiscountWithin`, `LaterDiscountWithin` bound the discounts.
- A promotion that runs when a month is made ran at the month before (`RanBefore`): so a projection
  had the discount that is charged, unless it has lapsed since.

**ListProofs.**
- *Short ids* (`IdsAreUnique`): with `GivenBelowRow` (a number given is at most the stored counter) and
  that no two calls of one counter share a number, `UniqueIds` is inductive; that the four id
  spaces are disjoint is by their prefixes.
- *Availability* (`SpacesAreNotOverbooked`): `StaysCounted` says that the bookings in a customer's way that
  his search could count, those of earlier customers he did not meet, left a unit, and goes on
  doing so whoever leaves; `StaysOrder` that customers come one after the other. Of the bookings
  of a night the last customer's search counted all the others, unless two of them met.
  `StaysAssumption`: finitely many customers.
- `ListsAreAsAsked` is about three components. *Features*: `ListsPrepared` (a call has inserted what it
  missed and deleted only its own), `ListsAlone` and `ListsOnce` (where no calls overlap, one runs at a
  time on what it read, and a list has each id once), `ListsAnswered` (which transaction may be
  aborted unheard). *Media*: `FilesKept`, `StreamsWhole`, `CutByCrash` (what S3 has of a file, and that only the
  error of a stream cuts a request off). *Paging*: `WalksOn` says where a walk is with a row that
  stands at a certain `Place`, and `NothingMadeUp` that a page of space types is not the answer
  for want of rows; `OrderIs`, `PlacesStay` and `WindowOfRows` are about positions in the list, and
  `FlattenIs` about the query that repeats a space for each of its joined rows.
  `ListingAssumption` and `WalkAssumption`: finitely many features and rows, rows of one key follow
  each other; `ImagesAssumption`: an image has pieces.

**ServicesProofs** shows `TypesOK`, from the invariant of each component. Most have their `TypeOK` as a
conjunct; where a counter has a bound the proof is of that bound: the refunds of a deposit
(`DepositsCounted`), the runs of a job and the reviews published (`QuartersCounted`), the days of a
quotation (`QuotesCounted`), what a cancellation gives back (`OrdersKept`).

Induction is over numbers and of first order: `LeastNumber` (a set of numbers has a least)
gives `UpTo`, which a lemma uses with the set of numbers its claim holds of. A recursive function of
the models is reached by showing that the function exists and what it is at each number.

Four findings of the proofs about the models. The invariant of `StockSync` failed where its host did
what no payload can ask for: an update has no status, but may give a space another's size
(space.service.ts 690), and the job's price is an UPDATE no hook tells the queue of (price.service.ts);
the model now says so, and `SpacesFollow` names the sizes and `IndexFollows` the untold
changes. In `Sites`, `SpaceTypes` and `StockSync` guards of a
CASE overlapped: TLC takes the first that holds, TLA+ leaves the choice open and nothing could be
proved of it; they are nested IFs now, in the order of the code. And the free account of
`Accounts` was chosen as the least id, which nothing depends on; it is any free one.
And `DiscountWithinRent` did not follow for a stay of 29 days from the first of a February of 28:
the promotion is of the whole price, because the last day is a month after the first, and the rent
is of 29 days (promotions/promotion/promotion.service.ts 345-357 against bookings/booking.service.ts
301-303). No month of the run began with 28 days; one does now, TLC shows the case too, and the
property names it.

*Only model-checked.* `ReservationEnds`, `RequestsEnd`, `DueIsBilled`, `DepositComesBack`: liveness and
ENABLED are out of the prover's reach. What Sequelize, PostgreSQL and Stripe do is an assumption of
the models. `NeverReused` of `IdsCounter` is proved and not checked by a run of its own.

## 5. Not modelled

- What follows a change of unit for the rest of the month: the code always refuses it
  (booking.service.ts 2209: null is handed over for the date of the last renewal, the next date
  is invalid, and PostgreSQL does not take it).
- Agreements of sites, description and floor of a site; that the INSERTs of a site's default
  taxes are not awaited (site.service.ts 625), though Features has that pattern.
- The redirects of Google and Facebook and the fields their controllers keep between requests.
- The sync job's own upsert of features, without a transaction.
- sendReviewReminderEmail (nobody calls it); the customers of expired orders, whom the cancel job
  tells nothing; templates, layout and wording of mails and invoices.
- What a voucher takes off a quote or a renewal (`Promotions` has its limits and copies), and a
  renewal that is made later than the day it is due in `Pricing` (`PayRenewals` has the days).
- Role checks of resolvers: each is one comparison with the caller's role, before anything is read.
- The filters of lists: Sequelize translates them. Pages of reviews are Yotpo's.
- The external stock service (`shared/utils/stock-services.ts`), the consumers of the queue, the
  signing of tokens: other programs and libraries.
- The pool of 100 connections, which abandoned transactions drain: every abandoned transaction is
  in the models, a request that waits for a connection is not.
- Reference data edited one row at a time (banks, agreements, cities, features, insurances,
  taxes): one UPDATE each.

## 6. What is left to do

1. `ConnectionPool`: connections as a resource held while waiting, over the abandoned
   transactions of `BookingPayment`.
2. `BookingPayment` with `Terminations` and `UnitChange` on one booking: all three write its row.
