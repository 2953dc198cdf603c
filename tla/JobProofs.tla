------------------------------ MODULE JobProofs ------------------------------
(***************************************************************************)
(* Proofs about what runs by the calendar: the payouts of hosts (Payouts), *)
(* the deposits that come back (DepositRefunds), the dues of those who     *)
(* leave (Terminations), and what customers are told and asked: of their   *)
(* bookings and reviews (BookingJobs), of their quotations (Quotations),   *)
(* and by an administrator (Notices).                                      *)
(***************************************************************************)
EXTENDS MCServices, FiniteSetTheorems, TLAPS

-----------------------------------------------------------------------------
(* Division                                                                *)

(* Quotient and remainder, which the provers take apart no further.        *)
LEMMA DivMod ==
    ASSUME NEW x \in Nat, NEW P \in Nat \ {0}
    PROVE  x \div P \in Nat /\ x % P \in 0..(P - 1) /\ x = P * (x \div P) + (x % P)
OBVIOUS

LEMMA RemainderUnique ==
    ASSUME NEW P \in Nat \ {0}, NEW a \in Nat, NEW b \in Nat, NEW c \in 0..(P - 1),
           NEW d \in 0..(P - 1), P * a + c = P * b + d
    PROVE  c = d
OBVIOUS

(* The hour of a job comes round after the last tick of its month.         *)
LEMMA NextTick ==
    ASSUME NEW x \in Nat, NEW P \in Nat \ {0}
    PROVE  (x + 1) % P = IF x % P = P - 1 THEN 0 ELSE (x % P) + 1
<1> DEFINE a == x \div P  c == x % P  b == (x + 1) \div P  d == (x + 1) % P
<1>1. a \in Nat /\ c \in 0..(P - 1) /\ x = P * a + c
  BY DivMod
<1>2. x + 1 \in Nat
  OBVIOUS
<1>3. b \in Nat /\ d \in 0..(P - 1) /\ x + 1 = P * b + d
  BY <1>2, DivMod
<1> HIDE DEF a, b, c, d
<1>4. CASE c = P - 1
  <2>1. P * (a + 1) + 0 = P * b + d /\ a + 1 \in Nat /\ 0 \in 0..(P - 1)
    BY <1>1, <1>3, <1>4
  <2>2. d = 0
    BY <2>1, <1>3, RemainderUnique
  <2> QED
    BY <2>2, <1>4 DEF c, d
<1>5. CASE c # P - 1
  <2>1. P * a + (c + 1) = P * b + d /\ c + 1 \in 0..(P - 1)
    BY <1>1, <1>3, <1>5
  <2>2. d = c + 1
    BY <2>1, <1>1, <1>3, RemainderUnique
  <2> QED
    BY <2>2, <1>5 DEF c, d
<1> QED
  BY <1>4, <1>5

(* After the month of x, the last hour is after x.                         *)
LEMMA MonthAfter ==
    ASSUME NEW x \in Nat, NEW y \in Nat, NEW P \in Nat \ {0}, ((x \div P) + 1) * P <= y
    PROVE  x < y - (y % P)
<1> DEFINE a == x \div P  c == x % P  b == y \div P  d == y % P
<1>1. /\ a \in Nat /\ c \in 0..(P - 1) /\ x = P * a + c
      /\ b \in Nat /\ d \in 0..(P - 1) /\ y = P * b + d
  BY DivMod
<1>2. (a + 1) * P <= y
  OBVIOUS
<1> HIDE DEF a, b, c, d
<1>3. a + 1 <= b
  <2> SUFFICES ASSUME b <= a PROVE FALSE
    BY <1>1
  <2>1. P * b <= P * a
    BY <1>1
  <2> QED
    BY <2>1, <1>1, <1>2
<1>4. P * (a + 1) <= P * b
  BY <1>1, <1>3
<1> QED
  BY <1>1, <1>4 DEF d

-----------------------------------------------------------------------------
(* Payouts                                                                 *)

LEMMA HostsFollow == ServicesSpec => Hosts!Spec
<1>1. ServicesInit => Hosts!Init
  BY DEF ServicesInit
<1>2. [ServicesNext]_servicesVars => [Hosts!Next]_(Hosts!payoutVars)
  BY DEF ServicesNext, servicesVars, hostVars, Hosts!payoutVars, Hosts!job
<1> QED
  BY <1>1, <1>2, PTL DEF ServicesSpec, Hosts!Spec

(* The hour at which the job was last due.                                 *)
Hour == now - (now % HostPeriod)

(* A run is listed while it pays, starts near its hour, and is started     *)
(* again only after it was killed.                                         *)
HostsRun ==
    /\ pStage # "paying" => pTodo = {}
    /\ pStage = "waiting" => now % HostPeriod <= HostJitter
    /\ ~repeated => ~again

(* How far from its hour a renewal was paid, in this month and the last.   *)
HostsTime ==
    \A r \in HostRenewals : paidAt[r] # Hosts!Unpaid =>
        /\ paidAt[r] <= now
        /\ paidAt[r] >= Hour => paidAt[r] % HostPeriod = paidAt[r] - Hour
        /\ paidAt[r] >= Hour - HostPeriod /\ paidAt[r] < Hour =>
              paidAt[r] % HostPeriod = paidAt[r] - (Hour - HostPeriod)

Untouched(r) == payouts[r] = 0 /\ settled[r] = 0 /\ r \notin pFailed

(* The run after the month of the renewal has started, or its hour went by.*)
HadItsRun(r) ==
    paidAt[r] < Hour /\ ~(pStage = "waiting" /\ paidAt[r] >= Hour - HostPeriod)

HostsOnce ==
    ~repeated => \A r \in HostRenewals :
        /\ paidAt[r] = Hosts!Unpaid => Untouched(r) /\ r \notin pTodo
        /\ paidAt[r] # Hosts!Unpaid /\ ~Hosts!AtTheEdge(r) =>
            /\ r \in pTodo => Untouched(r) /\ paidAt[r] < Hour /\ paidAt[r] >= Hour - HostPeriod
            /\ payouts[r] + settled[r] <= 1
            /\ ~HadItsRun(r) => Untouched(r) /\ r \notin pTodo
            /\ HadItsRun(r) => r \in pTodo \/ r \in pFailed \/ payouts[r] + settled[r] = 1

HostsInv == Hosts!TypeOK /\ HostsRun /\ HostsTime /\ HostsOnce

LEMMA HostsInitially == Hosts!Init => HostsInv
<1> SUFFICES ASSUME Hosts!Init PROVE HostsInv
  OBVIOUS
<1> USE HostsAssumption DEF Hosts!Init, Hosts!Unpaid
<1>1. /\ now \in 0..HostLastTick /\ paidAt \in [HostRenewals -> 0..Hosts!Unpaid]
      /\ payouts \in [HostRenewals -> Nat] /\ settled \in [HostRenewals -> Nat]
  OBVIOUS
<1>2. Hosts!TypeOK
  BY <1>1 DEF Hosts!TypeOK
<1>3. HostsRun /\ HostsTime /\ HostsOnce
  BY DEF HostsRun, HostsTime, HostsOnce, Untouched
<1> QED
  BY <1>2, <1>3 DEF HostsInv

LEMMA HourIs ==
    ASSUME now \in Nat
    PROVE  Hour \in Nat /\ Hour <= now /\ now < Hour + HostPeriod /\ now % HostPeriod = now - Hour
<1>1. now % HostPeriod \in 0..(HostPeriod - 1) /\ now \div HostPeriod \in Nat
      /\ now = HostPeriod * (now \div HostPeriod) + (now % HostPeriod)
  BY HostsAssumption, DivMod
<1>2. HostPeriod * (now \div HostPeriod) \in Nat
  BY <1>1, HostsAssumption
<1> QED
  BY <1>1, <1>2, HostsAssumption DEF Hour

LEMMA HostsTypes ==
    ASSUME Hosts!TypeOK, Hosts!Next
    PROVE  Hosts!TypeOK'
<1> USE HostsAssumption DEF Hosts!TypeOK, Hosts!Unpaid, Hosts!job
<1>1. CASE Hosts!Tick
  BY <1>1 DEF Hosts!Tick
<1>2. CASE Hosts!RunStarts \/ Hosts!RunEnds \/ Hosts!RunKilled \/ Hosts!RunStartsAgain
  BY <1>2 DEF Hosts!RunStarts, Hosts!RunEnds, Hosts!RunKilled, Hosts!RunStartsAgain,
              Hosts!PaidLastMonth
<1>3. ASSUME NEW r \in HostRenewals,
             \/ Hosts!RenewalPaid(r) \/ Hosts!CreatePayout(r)
             \/ Hosts!CreateFails(r) \/ Hosts!UpdatePayout(r)
      PROVE  Hosts!TypeOK'
  BY <1>3 DEF Hosts!RenewalPaid, Hosts!CreatePayout, Hosts!CreateFails, Hosts!UpdatePayout
<1> QED
  BY <1>1, <1>2, <1>3 DEF Hosts!Next

(* A tick leaves the hour where it is, or brings the next one.             *)
LEMMA HourMoves ==
    ASSUME now \in Nat, now' = now + 1
    PROVE  Hour' = IF (now + 1) % HostPeriod = 0 THEN Hour + HostPeriod ELSE Hour
<1>1. now + 1 \in Nat /\ now' \in Nat
  OBVIOUS
<1>2. (now + 1) % HostPeriod = IF now % HostPeriod = HostPeriod - 1 THEN 0
                               ELSE (now % HostPeriod) + 1
  BY HostsAssumption, NextTick
<1>3. Hour \in Nat /\ now % HostPeriod = now - Hour
  BY HourIs
<1>4. Hour' = (now + 1) - ((now + 1) % HostPeriod)
  BY DEF Hour
<1> QED
  BY <1>2, <1>3, <1>4, HostsAssumption

LEMMA HostsTick ==
    ASSUME HostsInv, Hosts!TypeOK', Hosts!Tick
    PROVE  HostsInv'
<1>1. /\ now \in Nat /\ now' = now + 1 /\ now' \in Nat
      /\ HostPeriod \in Nat \ {0} /\ HostJitter \in 0..(HostPeriod - 1)
      /\ UNCHANGED <<paidAt, payouts, settled, pTodo, again, repeated, pFailed>>
      /\ paidAt \in [HostRenewals -> 0..Hosts!Unpaid] /\ Hosts!Unpaid \in Nat
  BY HostsAssumption DEF HostsInv, Hosts!TypeOK, Hosts!Tick, Hosts!Unpaid
<1>2. /\ Hour \in Nat /\ Hour <= now /\ now < Hour + HostPeriod
      /\ now % HostPeriod = now - Hour
  BY <1>1, HourIs
<1>3. /\ Hour' = IF (now + 1) % HostPeriod = 0 THEN Hour + HostPeriod ELSE Hour
      /\ (now + 1) % HostPeriod = IF now % HostPeriod = HostPeriod - 1 THEN 0
                                  ELSE (now % HostPeriod) + 1
  BY <1>1, HourMoves, NextTick
<1>4. HostsRun'
  BY <1>1, <1>2, <1>3 DEF HostsInv, HostsRun, Hosts!Tick
<1>5. HostsTime'
  BY <1>1, <1>2, <1>3 DEF HostsInv, HostsTime, Hosts!Unpaid
<1>6. HostsOnce'
  <2> SUFFICES ASSUME ~repeated, NEW r \in HostRenewals
               PROVE  /\ paidAt[r] = Hosts!Unpaid => Untouched(r)' /\ r \notin pTodo'
                      /\ paidAt[r] # Hosts!Unpaid /\ ~Hosts!AtTheEdge(r) =>
                          /\ r \in pTodo' => Untouched(r)' /\ paidAt[r] < Hour'
                                             /\ paidAt[r] >= Hour' - HostPeriod
                          /\ payouts'[r] + settled'[r] <= 1
                          /\ ~HadItsRun(r)' => Untouched(r)' /\ r \notin pTodo'
                          /\ HadItsRun(r)' => \/ r \in pTodo' \/ r \in pFailed'
                                              \/ payouts'[r] + settled'[r] = 1
    BY <1>1 DEF HostsOnce, Hosts!AtTheEdge, Hosts!Unpaid
  <2>1. paidAt[r] \in 0..Hosts!Unpaid
    BY <1>1
  <2>2. Untouched(r)' = Untouched(r) /\ payouts'[r] + settled'[r] = payouts[r] + settled[r]
    BY <1>1 DEF Untouched
  <2>3. /\ paidAt[r] = Hosts!Unpaid => Untouched(r) /\ r \notin pTodo
        /\ paidAt[r] # Hosts!Unpaid /\ ~Hosts!AtTheEdge(r) =>
            /\ r \in pTodo => Untouched(r) /\ paidAt[r] < Hour /\ paidAt[r] >= Hour - HostPeriod
            /\ payouts[r] + settled[r] <= 1
            /\ ~HadItsRun(r) => Untouched(r) /\ r \notin pTodo
            /\ HadItsRun(r) => r \in pTodo \/ r \in pFailed \/ payouts[r] + settled[r] = 1
    BY DEF HostsInv, HostsOnce
  <2>4. CASE (now + 1) % HostPeriod # 0
    BY <1>1, <1>2, <1>3, <2>1, <2>2, <2>3, <2>4 DEF HadItsRun, Hosts!Tick
  <2>5. CASE (now + 1) % HostPeriod = 0
    <3>1. pStage = "off" /\ pStage' = "waiting" /\ pTodo = {} /\ pTodo' = {}
      BY <1>1, <1>2, <1>3, <2>5 DEF Hosts!Tick, HostsInv, Hosts!TypeOK, HostsRun
    <3>2. paidAt[r] # Hosts!Unpaid => paidAt[r] <= now
      BY DEF HostsInv, HostsTime
    <3> QED
      BY <1>1, <1>2, <1>3, <2>1, <2>2, <2>3, <2>5, <3>1, <3>2 DEF HadItsRun
  <2> QED
    BY <2>4, <2>5
<1> QED
  BY <1>4, <1>5, <1>6 DEF HostsInv

(* A run lists, of the renewals that were not paid near an hour, those of  *)
(* the month before its hour, whenever it starts within Jitter of it.      *)
LEMMA RunLists ==
    ASSUME HostsInv, Hosts!RunStarts, NEW r \in HostRenewals, paidAt[r] # Hosts!Unpaid,
           ~Hosts!AtTheEdge(r)
    PROVE  r \in pTodo' <=> paidAt[r] < Hour /\ paidAt[r] >= Hour - HostPeriod
<1>1. /\ now \in Nat /\ HostPeriod \in Nat \ {0} /\ HostJitter \in 0..(HostPeriod - 1)
      /\ paidAt[r] \in Nat /\ paidAt[r] <= now
  BY HostsAssumption DEF HostsInv, Hosts!TypeOK, HostsTime, Hosts!Unpaid
<1>2. /\ Hour \in Nat /\ Hour <= now /\ now < Hour + HostPeriod
      /\ now % HostPeriod = now - Hour
  BY <1>1, HourIs
<1>3. now - Hour <= HostJitter
  BY <1>2 DEF HostsInv, HostsRun, Hosts!RunStarts
<1>4. /\ paidAt[r] >= Hour => paidAt[r] - Hour >= HostJitter
      /\ paidAt[r] >= Hour - HostPeriod /\ paidAt[r] < Hour =>
            paidAt[r] - (Hour - HostPeriod) >= HostJitter
  <2>1. /\ paidAt[r] >= Hour => paidAt[r] % HostPeriod = paidAt[r] - Hour
        /\ paidAt[r] >= Hour - HostPeriod /\ paidAt[r] < Hour =>
              paidAt[r] % HostPeriod = paidAt[r] - (Hour - HostPeriod)
    BY DEF HostsInv, HostsTime
  <2>2. ~(paidAt[r] % HostPeriod < HostJitter)
    BY DEF Hosts!AtTheEdge
  <2> QED
    BY <2>1, <2>2, <1>1, <1>2
<1>5. r \in pTodo' <=> paidAt[r] >= now - HostPeriod /\ paidAt[r] < now
  BY DEF Hosts!RunStarts, Hosts!PaidLastMonth
<1> QED
  BY <1>1, <1>2, <1>3, <1>4, <1>5

LEMMA HostsAtRest ==
    ASSUME HostsInv, Hosts!TypeOK', Hosts!Next, ~Hosts!Tick
    PROVE  HostsInv'
<1>1. /\ now \in Nat /\ now' = now /\ Hour' = Hour
      /\ HostPeriod \in Nat \ {0} /\ HostJitter \in 0..(HostPeriod - 1)
      /\ paidAt \in [HostRenewals -> 0..Hosts!Unpaid] /\ Hosts!Unpaid \in Nat
      /\ now < Hosts!Unpaid
      /\ payouts \in [HostRenewals -> Nat] /\ settled \in [HostRenewals -> Nat]
      /\ pTodo \subseteq HostRenewals
  BY HostsAssumption
     DEF HostsInv, Hosts!TypeOK, Hosts!Unpaid, Hour, Hosts!Next, Hosts!RunStarts,
         Hosts!RunEnds, Hosts!RunKilled, Hosts!RunStartsAgain, Hosts!RenewalPaid,
         Hosts!CreatePayout, Hosts!CreateFails, Hosts!UpdatePayout
<1>2. /\ Hour \in Nat /\ Hour <= now /\ now < Hour + HostPeriod
      /\ now % HostPeriod = now - Hour
  BY <1>1, HourIs
<1>3. HostsRun /\ HostsTime /\ HostsOnce
  BY DEF HostsInv
<1>4. CASE Hosts!RunStarts
  <2>1. /\ pStage = "waiting" /\ pStage' = "paying" /\ pTodo = {}
        /\ UNCHANGED <<now, paidAt, payouts, settled, again, repeated, pFailed>>
    BY <1>3, <1>4 DEF Hosts!RunStarts, HostsRun
  <2>2. HostsRun' /\ HostsTime'
    BY <1>1, <1>3, <2>1 DEF HostsRun, HostsTime, Hosts!Unpaid
  <2>3. ASSUME NEW r \in HostRenewals, paidAt[r] = Hosts!Unpaid
        PROVE  r \notin pTodo'
    BY <1>1, <2>3, <1>4 DEF Hosts!RunStarts, Hosts!PaidLastMonth
  <2>4. HostsOnce'
    BY <1>1, <1>3, <1>4, <2>1, <2>3, RunLists
       DEF HostsOnce, HadItsRun, Untouched, Hosts!AtTheEdge, Hosts!Unpaid
  <2> QED
    BY <2>2, <2>4 DEF HostsInv
<1>5. CASE Hosts!RunEnds
  <2>1. HostsRun' /\ HostsTime'
    BY <1>1, <1>3, <1>5 DEF HostsRun, HostsTime, Hosts!Unpaid, Hosts!RunEnds
  <2>2. HostsOnce'
    BY <1>1, <1>3, <1>5
       DEF HostsOnce, HadItsRun, Untouched, Hosts!AtTheEdge, Hosts!Unpaid, Hosts!RunEnds
  <2> QED
    BY <2>1, <2>2 DEF HostsInv
<1>6. CASE Hosts!RunKilled \/ Hosts!RunStartsAgain
  <2>1. repeated'
    BY <1>3, <1>6 DEF Hosts!RunKilled, Hosts!RunStartsAgain, HostsRun
  <2>2. HostsRun' /\ HostsTime'
    BY <1>1, <1>3, <1>6, <2>1
       DEF HostsRun, HostsTime, Hosts!Unpaid, Hosts!RunKilled, Hosts!RunStartsAgain
  <2> QED
    BY <2>1, <2>2 DEF HostsInv, HostsOnce
<1>7. ASSUME NEW x \in HostRenewals, Hosts!RenewalPaid(x)
      PROVE  HostsInv'
  <2>1. /\ paidAt[x] = Hosts!Unpaid /\ paidAt' = [paidAt EXCEPT ![x] = now]
        /\ UNCHANGED <<now, payouts, settled, pStage, pTodo, again, repeated, pFailed>>
    BY <1>7 DEF Hosts!RenewalPaid, Hosts!job
  <2>2. HostsRun' /\ HostsTime'
    BY <1>1, <1>2, <1>3, <2>1 DEF HostsRun, HostsTime, Hosts!Unpaid
  <2>3. HostsOnce'
    BY <1>1, <1>2, <1>3, <2>1
       DEF HostsOnce, HadItsRun, Untouched, Hosts!AtTheEdge, Hosts!Unpaid
  <2> QED
    BY <2>2, <2>3 DEF HostsInv
<1>8. ASSUME NEW x \in HostRenewals,
             Hosts!CreatePayout(x) \/ Hosts!CreateFails(x) \/ Hosts!UpdatePayout(x)
      PROVE  HostsInv'
  <2>1. UNCHANGED <<now, paidAt, pStage, again, repeated>> /\ pTodo' \subseteq pTodo
    BY <1>8 DEF Hosts!CreatePayout, Hosts!CreateFails, Hosts!UpdatePayout, Hosts!job
  <2>2. HostsRun' /\ HostsTime'
    BY <1>1, <1>3, <2>1 DEF HostsRun, HostsTime, Hosts!Unpaid
  <2>3. HostsOnce'
    BY <1>1, <1>3, <1>8, <2>1
       DEF HostsOnce, HadItsRun, Untouched, Hosts!AtTheEdge, Hosts!Unpaid, Hosts!CreatePayout,
           Hosts!CreateFails, Hosts!UpdatePayout, Hosts!job
  <2> QED
    BY <2>2, <2>3 DEF HostsInv
<1> QED
  BY <1>4, <1>5, <1>6, <1>7, <1>8 DEF Hosts!Next

(* The invariant of the payouts holds of every behaviour.                  *)
THEOREM HostsInvariant == ServicesSpec => []HostsInv
<1>1. Hosts!Init => HostsInv
  BY HostsInitially
<1>2. HostsInv /\ [Hosts!Next]_(Hosts!payoutVars) => HostsInv'
  <2> SUFFICES ASSUME HostsInv, [Hosts!Next]_(Hosts!payoutVars)
               PROVE  HostsInv'
    OBVIOUS
  <2>1. CASE Hosts!Next
    BY <2>1, HostsTypes, HostsTick, HostsAtRest DEF HostsInv
  <2>2. CASE UNCHANGED Hosts!payoutVars
    BY <2>2
       DEF HostsInv, HostsRun, HostsTime, HostsOnce, HadItsRun, Untouched, Hour,
           Hosts!AtTheEdge, Hosts!Unpaid, Hosts!TypeOK, Hosts!payoutVars, Hosts!job
  <2> QED
    BY <2>1, <2>2
<1> QED
  BY <1>1, <1>2, HostsFollow, PTL DEF Hosts!Spec

(* A renewal is paid out once (cron-job/create-payouts), whatever the      *)
(* renewals, the length of a month and how late a run may start in it.     *)
THEOREM PayoutsOnce == ServicesSpec => []PaidOutOnce
<1>1. HostsInv => PaidOutOnce
  <2> SUFFICES ASSUME HostsInv PROVE Hosts!PaidOutOnce
    BY DEF PaidOutOnce
  <2> SUFFICES ASSUME NEW r \in HostRenewals, paidAt[r] # Hosts!Unpaid, ~Hosts!AtTheEdge(r),
                      ~repeated
               PROVE  /\ payouts[r] + settled[r] <= 1
                      /\ Hosts!MonthIsOver(r) /\ r \notin pFailed
                            => payouts[r] + settled[r] = 1
    BY DEF Hosts!PaidOutOnce
  <2>1. /\ now \in Nat /\ paidAt[r] \in Nat /\ HostPeriod \in Nat \ {0} /\ HostJitter \in Nat
    BY HostsAssumption DEF HostsInv, Hosts!TypeOK, Hosts!Unpaid
  <2>2. ASSUME Hosts!MonthIsOver(r) PROVE HadItsRun(r) /\ pTodo = {}
    <3>1. ((paidAt[r] \div HostPeriod) + 1) * HostPeriod <= now /\ pStage = "off"
      <4> DEFINE end == ((paidAt[r] \div HostPeriod) + 1) * HostPeriod
      <4>1. now > end + HostJitter /\ pStage = "off"
        BY <2>2 DEF Hosts!MonthIsOver
      <4>2. end \in Nat
        BY <2>1, DivMod
      <4> QED
        BY <2>1, <4>1, <4>2
    <3> QED
      BY <2>1, <3>1, MonthAfter DEF HadItsRun, Hour, HostsInv, HostsRun
  <2> QED
    BY <2>2 DEF HostsInv, HostsOnce
<1> QED
  BY <1>1, HostsInvariant, PTL

-----------------------------------------------------------------------------
(* Deposit refunds                                                         *)

LEMMA DepositsFollow == ServicesSpec => Deposits!Spec
<1>1. ServicesInit => Deposits!Init
  BY DEF ServicesInit
<1>2. [ServicesNext]_servicesVars => [Deposits!Next]_(Deposits!depositVars)
  BY DEF ServicesNext, servicesVars, depositVars, Deposits!depositVars, Deposits!run
<1> QED
  BY <1>1, <1>2, PTL DEF ServicesSpec, Deposits!Spec

DepositsTyped ==
    /\ dRows \in [DueBookings -> [Deposits!Kinds -> Nat]]
    /\ task \in [DueBookings -> [Deposits!Kinds -> Deposits!Tasks]]
    /\ dStage \in {"idle", "marking", "refunding"}
    /\ marking \subseteq DueBookings /\ dTodo \subseteq DueBookings
    /\ marked \subseteq DueBookings /\ due \subseteq DueBookings

(* A refund is under way only while a run refunds, and only of a booking   *)
(* that the run has taken off its list.                                    *)
DepositsRun ==
    /\ dStage = "idle" => marking = {}
    /\ dStage # "refunding" => dTodo = {}
    /\ dStage # "marking" => ~hasty
    /\ \A b \in DueBookings, k \in Deposits!Kinds :
          dStage # "refunding" \/ b \in dTodo => task[b][k] = "off"

(* A deposit on the list, or whose refund is under way, has no row: a run  *)
(* has marked what has one by the time it lists.                           *)
DepositsOnce ==
    remarked \/ \A b \in DueBookings :
        /\ dRows[b]["deposit"] <= 1
        /\ task[b]["deposit"] \in {"opened", "refunded"} \/ b \in dTodo =>
              dRows[b]["deposit"] = 0
        /\ dStage = "marking" /\ ~hasty /\ dRows[b]["deposit"] > 0 => b \in marked \cup marking

(* The unused days of a booking were given back, or their refund failed.   *)
UnusedSettled(b) ==
    b \in WithUnused => dRows[b]["unused"] > 0 \/ <<b, "unused">> \in dFailed

(* The two refunds of a booking begin together, so that the second is      *)
(* settled or under way once the first is.                                 *)
DepositsTogether ==
    \A b \in DueBookings :
        /\ dRows[b]["deposit"] > 0 \/ task[b]["deposit"] # "off" =>
              UnusedSettled(b) \/ task[b]["unused"] \in {"opened", "refunded"}
        /\ b \in marked \cup marking => dRows[b]["deposit"] > 0 /\ UnusedSettled(b)

DepositsInv == DepositsTyped /\ DepositsRun /\ DepositsOnce /\ DepositsTogether

LEMMA DepositsInitially == Deposits!Init => DepositsInv
BY DEF Deposits!Init, Deposits!Zero, Deposits!NoTask, Deposits!Kinds, Deposits!Tasks,
       DepositsInv, DepositsTyped, DepositsRun, DepositsOnce, DepositsTogether

(* What a run marks, and what it lists.                                    *)
LEMMA DepositsMarks ==
    ASSUME DepositsInv,
           \/ Deposits!RunStarts \/ Deposits!FirstListFails \/ Deposits!ListDue
           \/ \E b \in DueBookings :
                 Deposits!Mark(b) \/ Deposits!MarkFails(b) \/ Deposits!BecomesDue(b)
    PROVE  DepositsInv'
<1> USE DEF DepositsInv
<1>1. UNCHANGED <<dRows, task, dFailed>>
  BY DEF Deposits!RunStarts, Deposits!FirstListFails, Deposits!ListDue, Deposits!Mark,
         Deposits!MarkFails, Deposits!BecomesDue, Deposits!run
<1>2. \A b \in DueBookings : UnusedSettled(b)' = UnusedSettled(b)
  BY <1>1 DEF UnusedSettled
<1>3. CASE Deposits!RunStarts
  BY <1>1, <1>2, <1>3
     DEF Deposits!RunStarts, DepositsTyped, DepositsRun, DepositsOnce, DepositsTogether,
         Deposits!Kinds
<1>4. CASE Deposits!FirstListFails
  BY <1>1, <1>2, <1>4
     DEF Deposits!FirstListFails, DepositsTyped, DepositsRun, DepositsOnce, DepositsTogether,
         Deposits!run
<1>5. CASE Deposits!ListDue
  <2>1. remarked' <=> remarked \/ hasty
    BY <1>5 DEF Deposits!ListDue
  <2>2. /\ dStage = "marking" /\ dStage' = "refunding" /\ hasty' = FALSE
        /\ (marking = {} \/ hasty) /\ dTodo' = due \ marked /\ UNCHANGED <<due, marked, marking>>
    BY <1>5 DEF Deposits!ListDue
  <2>3. DepositsTyped' /\ DepositsRun' /\ DepositsTogether'
    BY <1>1, <1>2, <2>2 DEF DepositsTyped, DepositsRun, DepositsTogether
  <2>4. DepositsOnce'
    BY <1>1, <2>1, <2>2 DEF DepositsTyped, DepositsRun, DepositsOnce, Deposits!Kinds
  <2> QED
    BY <2>3, <2>4
<1>6. ASSUME NEW b \in DueBookings, Deposits!Mark(b)
      PROVE  DepositsInv'
  BY <1>1, <1>2, <1>6
     DEF Deposits!Mark, DepositsTyped, DepositsRun, DepositsOnce, DepositsTogether
<1>7. ASSUME NEW b \in DueBookings, Deposits!MarkFails(b)
      PROVE  DepositsInv'
  BY <1>1, <1>2, <1>7
     DEF Deposits!MarkFails, DepositsTyped, DepositsRun, DepositsOnce, DepositsTogether
<1>8. ASSUME NEW b \in DueBookings, Deposits!BecomesDue(b)
      PROVE  DepositsInv'
  BY <1>1, <1>2, <1>8
     DEF Deposits!BecomesDue, DepositsTyped, DepositsRun, DepositsOnce, DepositsTogether,
         Deposits!run
<1> QED
  BY <1>3, <1>4, <1>5, <1>6, <1>7, <1>8

(* A run begins with a booking, goes on to the next, or ends.              *)
LEMMA DepositsRuns ==
    ASSUME DepositsInv,
           \/ Deposits!NextBooking \/ Deposits!RunClosed \/ Deposits!RunKilled
           \/ \E b \in DueBookings : Deposits!BeginBooking(b)
    PROVE  DepositsInv'
<1> USE DEF DepositsInv
<1>1. UNCHANGED <<dRows, marked, due, remarked>>
  BY DEF Deposits!NextBooking, Deposits!RunClosed, Deposits!RunKilled, Deposits!BeginBooking
<1>2. CASE Deposits!NextBooking
  BY <1>1, <1>2
     DEF Deposits!NextBooking, DepositsTyped, DepositsRun, DepositsOnce, DepositsTogether,
         UnusedSettled
<1>3. ASSUME NEW b \in DueBookings, Deposits!BeginBooking(b)
      PROVE  DepositsInv'
  BY <1>1, <1>3
     DEF Deposits!BeginBooking, DepositsTyped, DepositsRun, DepositsOnce, DepositsTogether,
         UnusedSettled, Deposits!Kinds, Deposits!Tasks, Deposits!Owed
<1>4. CASE Deposits!RunClosed \/ Deposits!RunKilled
  <2>1. /\ dStage' = "idle" /\ marking' = {} /\ hasty' = FALSE /\ dTodo' = {}
        /\ task' = [b \in DueBookings |-> [k \in Deposits!Kinds |-> "off"]]
        /\ dFailed \subseteq dFailed'
    BY <1>4 DEF Deposits!RunClosed, Deposits!RunKilled, Deposits!RunEnds, Deposits!NoTask
  <2>2. ASSUME NEW b \in DueBookings, task[b]["unused"] \in {"opened", "refunded"}
        PROVE  UnusedSettled(b)'
    <3>1. CASE Deposits!RunClosed
      BY <2>2, <3>1 DEF Deposits!RunClosed, Deposits!AtRest, Deposits!Kinds
    <3>2. CASE Deposits!RunKilled
      BY <2>2, <3>2 DEF Deposits!RunKilled, Deposits!Kinds, UnusedSettled
    <3> QED
      BY <1>4, <3>1, <3>2
  <2>3. ASSUME NEW b \in DueBookings, UnusedSettled(b)
        PROVE  UnusedSettled(b)'
    BY <1>1, <2>1, <2>3 DEF UnusedSettled
  <2> QED
    BY <1>1, <2>1, <2>2, <2>3
       DEF DepositsTyped, DepositsRun, DepositsOnce, DepositsTogether, Deposits!Kinds,
           Deposits!Tasks
<1> QED
  BY <1>2, <1>3, <1>4

(* The refund of a deposit, or of the unused days, of one booking.         *)
LEMMA DepositsTasks ==
    ASSUME DepositsInv, NEW b \in DueBookings, NEW k \in Deposits!Kinds,
           \/ Deposits!RefundMade(b, k) \/ Deposits!RefundCommit(b, k)
           \/ Deposits!RefundThrows(b, k) \/ Deposits!RefundRefused(b, k)
           \/ Deposits!RefundCommitFails(b, k)
    PROVE  DepositsInv'
<1> USE DEF DepositsInv
<1>1. PICK s \in Deposits!Tasks \ {"off"} :
          /\ task[b][k] \in {"opened", "refunded"} /\ task' = [task EXCEPT ![b][k] = s]
          /\ UNCHANGED <<marked, due, remarked, dStage, marking, hasty, dTodo>>
          /\ dFailed \subseteq dFailed'
          /\ \/ UNCHANGED dRows /\ s = "refunded"
             \/ UNCHANGED dRows /\ s \in {"resolved", "threw"} /\ <<b, k>> \in dFailed'
             \/ /\ dRows' = [dRows EXCEPT ![b][k] = @ + 1]
                /\ task[b][k] = "refunded" /\ s \in {"resolved", "threw"}
  <2> USE DEF Deposits!TaskTo, Deposits!Tasks
  <2>1. CASE Deposits!RefundMade(b, k)
    BY <2>1 DEF Deposits!RefundMade
  <2>2. CASE Deposits!RefundCommit(b, k)
    BY <2>2 DEF Deposits!RefundCommit
  <2>3. CASE Deposits!RefundThrows(b, k)
    BY <2>3 DEF Deposits!RefundThrows
  <2>4. CASE Deposits!RefundRefused(b, k)
    BY <2>4 DEF Deposits!RefundRefused
  <2>5. CASE Deposits!RefundCommitFails(b, k)
    <3>1. CASE UNCHANGED dRows
      BY <2>5, <3>1 DEF Deposits!RefundCommitFails
    <3>2. CASE dRows' = [dRows EXCEPT ![b][k] = @ + 1] /\ Deposits!TaskTo(b, k, "threw")
      BY <2>5, <3>2 DEF Deposits!RefundCommitFails
    <3> QED
      BY <2>5, <3>1, <3>2 DEF Deposits!RefundCommitFails
  <2> QED
    BY <2>1, <2>2, <2>3, <2>4, <2>5
<1>2. /\ task' \in [DueBookings -> [Deposits!Kinds -> Deposits!Tasks]]
      /\ task'[b][k] = s
      /\ \A c \in DueBookings, l \in Deposits!Kinds :
            c # b \/ l # k => task'[c][l] = task[c][l]
  BY <1>1 DEF DepositsTyped
<1>3. /\ dRows' \in [DueBookings -> [Deposits!Kinds -> Nat]]
      /\ dRows'[b][k] = IF dRows' = dRows THEN dRows[b][k] ELSE dRows[b][k] + 1
      /\ \A c \in DueBookings, l \in Deposits!Kinds :
            c # b \/ l # k => dRows'[c][l] = dRows[c][l]
  <2>1. CASE UNCHANGED dRows
    BY <2>1 DEF DepositsTyped
  <2>2. CASE dRows' = [dRows EXCEPT ![b][k] = @ + 1]
    BY <2>2 DEF DepositsTyped
  <2> QED
    BY <1>1, <2>1, <2>2
<1>4. s = "refunded" \/ <<b, k>> \in dFailed' \/ dRows'[b][k] > 0
  <2>1. CASE UNCHANGED dRows
    BY <1>1, <2>1 DEF DepositsTyped
  <2>2. CASE dRows' = [dRows EXCEPT ![b][k] = @ + 1]
    BY <2>2 DEF DepositsTyped
  <2> QED
    BY <1>1, <2>1, <2>2
<1>5. DepositsTyped'
  BY <1>1, <1>2, <1>3 DEF DepositsTyped
<1>6. DepositsRun'
  BY <1>1, <1>2 DEF DepositsRun, DepositsTyped
<1>7. DepositsOnce'
  BY <1>1, <1>2, <1>3 DEF DepositsOnce, DepositsTyped, DepositsRun, Deposits!Kinds, Deposits!Tasks
<1>8. \A c \in DueBookings : UnusedSettled(c) => UnusedSettled(c)'
  BY <1>1, <1>3 DEF UnusedSettled, DepositsTyped, Deposits!Kinds
<1>9. DepositsTogether'
  <2> SUFFICES ASSUME NEW c \in DueBookings
               PROVE  /\ dRows'[c]["deposit"] > 0 \/ task'[c]["deposit"] # "off" =>
                            UnusedSettled(c)' \/ task'[c]["unused"] \in {"opened", "refunded"}
                      /\ c \in marked' \cup marking' =>
                            dRows'[c]["deposit"] > 0 /\ UnusedSettled(c)'
    BY DEF DepositsTogether
  <2>1. c # b \/ k # "unused" \/ s = "refunded" \/ UnusedSettled(c)'
    BY <1>4 DEF UnusedSettled
  <2>2. dRows'[c]["deposit"] >= dRows[c]["deposit"]
    BY <1>1, <1>3 DEF DepositsTyped, Deposits!Kinds
  <2>3. dRows[c]["deposit"] > 0 \/ task[c]["deposit"] # "off"
           \/ (dRows'[c]["deposit"] = 0 /\ task'[c]["deposit"] = "off")
           \/ (c = b /\ k = "deposit")
    BY <1>1, <1>2, <1>3 DEF DepositsTyped, Deposits!Kinds
  <2>4. c = b /\ k = "deposit" => task[c]["deposit"] # "off"
    BY <1>1
  <2> QED
    BY <1>1, <1>2, <1>8, <2>1, <2>2, <2>3, <2>4 DEF DepositsTogether, DepositsTyped, Deposits!Kinds
<1> QED
  BY <1>5, <1>6, <1>7, <1>9

(* The invariant of the deposit refunds holds of every behaviour.          *)
THEOREM DepositsInvariant == ServicesSpec => []DepositsInv
<1>1. Deposits!Init => DepositsInv
  BY DepositsInitially
<1>2. DepositsInv /\ [Deposits!Next]_(Deposits!depositVars) => DepositsInv'
  <2> SUFFICES ASSUME DepositsInv, [Deposits!Next]_(Deposits!depositVars)
               PROVE  DepositsInv'
    OBVIOUS
  <2>1. CASE Deposits!Next
    BY <2>1, DepositsMarks, DepositsRuns, DepositsTasks DEF Deposits!Next, Deposits!RunSteps
  <2>2. CASE UNCHANGED Deposits!depositVars
    BY <2>2
       DEF DepositsInv, DepositsTyped, DepositsRun, DepositsOnce, DepositsTogether,
           UnusedSettled, Deposits!depositVars, Deposits!run
  <2> QED
    BY <2>1, <2>2
<1> QED
  BY <1>1, <1>2, DepositsFollow, PTL DEF Deposits!Spec

(* A deposit has one refund row, and a booking that is marked had its      *)
(* deposit back and its unused days, but for what failed once              *)
(* (cron-job/refund-deposit): whatever the bookings, however many runs are *)
(* killed or refused, and at whichever step.                               *)
THEOREM DepositsSettledOnce == ServicesSpec => []DepositSettledOnce
<1>1. DepositsInv => DepositSettledOnce
  BY DEF DepositsInv, DepositsTyped, DepositsOnce, DepositsTogether, UnusedSettled,
         DepositSettledOnce, Deposits!DepositBookedOnce, Deposits!MarkedIsSettled,
         Deposits!Kinds
<1> QED
  BY <1>1, DepositsInvariant, PTL

(* Whether a run may yet take up the refund of a deposit: it is listed, or *)
(* nothing says by a row that it was made.                                 *)
DueAgain(b) ==
    \/ b \in dTodo
    \/ dRows[b]["deposit"] = 0 /\ task[b]["deposit"] \notin {"opened", "refunded"}
    \/ dStage = "marking" /\ hasty /\ b \notin marked

(* 1 for what is so, 0 for what is not.                                    *)
Number(p) == IF p THEN 1 ELSE 0

(* Every refund that Stripe made has a row, will have one, or went astray. *)
RefundBooked(b, k) ==
    back[b][k] = dRows[b][k] + astray[b][k] + Number(task[b][k] = "refunded")

(* Each refund but one, made or yet to be made, needs a failure before it. *)
RefundsBounded(b, k) ==
    back[b][k] + Number(task[b][k] = "opened") + Number(DueAgain(b)) <= faults + 1

LEMMA NumberIs == \A p : Number(p) \in {0, 1} /\ (p => Number(p) = 1) /\ (~p => Number(p) = 0)
BY DEF Number

(* The refunds of a deposit are those its rows and its failures tell of:   *)
(* each was made after one failure more than the one before it.            *)
DepositsCounted ==
    /\ at \in DueBookings \cup {Deposits!None}
    /\ hasty \in BOOLEAN /\ remarked \in BOOLEAN
    /\ faults \in 0..DepositFaults
    /\ dFailed \subseteq DueBookings \X Deposits!Kinds
    /\ back \in [DueBookings -> [Deposits!Kinds -> Nat]]
    /\ astray \in [DueBookings -> [Deposits!Kinds -> Nat]]
    /\ dStage = "marking" /\ ~hasty =>
          \A b \in DueBookings : dRows[b]["deposit"] > 0 => b \in marked \cup marking
    /\ \A b \in DueBookings, k \in Deposits!Kinds : RefundBooked(b, k) /\ RefundsBounded(b, k)

LEMMA DepositsCountedInitially == ASSUME Deposits!Init PROVE DepositsCounted
<1>1. \A b \in DueBookings, k \in Deposits!Kinds :
          back[b][k] = 0 /\ dRows[b][k] = 0 /\ astray[b][k] = 0 /\ task[b][k] = "off"
  BY DEF Deposits!Init, Deposits!Zero, Deposits!NoTask
<1>2. \A b \in DueBookings, k \in Deposits!Kinds : RefundBooked(b, k) /\ RefundsBounded(b, k)
  <2> SUFFICES ASSUME NEW b \in DueBookings, NEW k \in Deposits!Kinds
               PROVE  RefundBooked(b, k) /\ RefundsBounded(b, k)
    OBVIOUS
  <2>1. /\ Number(task[b][k] = "refunded") = 0 /\ Number(task[b][k] = "opened") = 0
        /\ Number(DueAgain(b)) \in {0, 1} /\ faults = 0
    BY <1>1 DEF Number, Deposits!Init
  <2> QED
    BY <1>1, <2>1 DEF RefundBooked, RefundsBounded
<1>3. dRows = [b \in DueBookings |-> [k \in Deposits!Kinds |-> 0]] /\ dStage = "idle"
  BY DEF Deposits!Init, Deposits!Zero
<1>4. /\ back \in [DueBookings -> [Deposits!Kinds -> Nat]]
      /\ astray \in [DueBookings -> [Deposits!Kinds -> Nat]]
      /\ at = Deposits!None /\ hasty = FALSE /\ remarked = FALSE /\ faults = 0 /\ dFailed = {}
  BY DEF Deposits!Init, Deposits!Zero
<1>5. /\ at \in DueBookings \cup {Deposits!None} /\ faults \in 0..DepositFaults
      /\ dFailed \subseteq DueBookings \X Deposits!Kinds
  BY <1>4, DepositsAssumption
<1>6. hasty \in BOOLEAN /\ remarked \in BOOLEAN
  BY <1>4
<1>7. dStage # "marking"
  BY <1>3
<1> QED
  BY <1>2, <1>4, <1>5, <1>6, <1>7, Zenon DEF DepositsCounted

LEMMA DepositsCountedMarks ==
    ASSUME DepositsInv, DepositsCounted,
           \/ Deposits!RunStarts \/ Deposits!FirstListFails \/ Deposits!ListDue
           \/ \E b \in DueBookings :
                 Deposits!Mark(b) \/ Deposits!MarkFails(b) \/ Deposits!BecomesDue(b)
    PROVE  DepositsCounted'
<1>1. UNCHANGED <<dRows, task, dFailed, back, astray, at>>
  BY DEF Deposits!RunStarts, Deposits!FirstListFails, Deposits!ListDue, Deposits!Mark,
         Deposits!MarkFails, Deposits!BecomesDue, Deposits!run
<1>2. /\ hasty' \in BOOLEAN /\ remarked' \in BOOLEAN
      /\ faults' \in {faults, faults + 1} /\ faults' \in 0..DepositFaults
  <2>1. hasty' \in BOOLEAN /\ remarked' \in BOOLEAN
    BY Zenon DEF Deposits!RunStarts, Deposits!FirstListFails, Deposits!ListDue, Deposits!Mark,
         Deposits!MarkFails, Deposits!BecomesDue, Deposits!run, DepositsCounted
  <2>2. faults' = faults \/ Deposits!Fault
    BY DEF Deposits!RunStarts, Deposits!FirstListFails, Deposits!ListDue, Deposits!Mark,
         Deposits!MarkFails, Deposits!BecomesDue
  <2> QED
    BY <2>1, <2>2, DepositsAssumption DEF Deposits!Fault, DepositsCounted
<1>3. dStage' = "marking" /\ ~hasty' =>
          \A b \in DueBookings : dRows'[b]["deposit"] > 0 => b \in marked' \cup marking'
  BY <1>1 DEF Deposits!RunStarts, Deposits!FirstListFails, Deposits!ListDue, Deposits!Mark,
         Deposits!MarkFails, Deposits!BecomesDue, Deposits!run, DepositsCounted
<1>4. \A b \in DueBookings : DueAgain(b)' => DueAgain(b) \/ faults' = faults + 1
  <2> SUFFICES ASSUME NEW b \in DueBookings, DueAgain(b)', ~DueAgain(b)
               PROVE  faults' = faults + 1
    OBVIOUS
  <2>1. CASE Deposits!ListDue
    <3>1. b \in due \ marked /\ dStage = "marking" /\ (marking = {} \/ hasty)
      BY <1>1, <2>1 DEF Deposits!ListDue, DueAgain
    <3>2. dRows[b]["deposit"] = 0
      BY <3>1 DEF DueAgain, DepositsCounted, DepositsInv, DepositsTyped, Deposits!Kinds
    <3>3. task[b]["deposit"] = "off"
      BY <3>1 DEF DepositsInv, DepositsRun, Deposits!Kinds
    <3> QED
      BY <3>2, <3>3 DEF DueAgain
  <2>2. ASSUME NEW c \in DueBookings, Deposits!MarkFails(c)
        PROVE  faults' = faults + 1
    BY <2>2 DEF Deposits!MarkFails, Deposits!Fault
  <2>3. Deposits!FirstListFails => faults' = faults + 1
    BY DEF Deposits!FirstListFails, Deposits!Fault
  <2>4. Deposits!RunStarts => DueAgain(b)
    BY <1>1 DEF Deposits!RunStarts, DueAgain, DepositsInv, DepositsRun
  <2>5. ASSUME NEW c \in DueBookings, Deposits!Mark(c) \/ Deposits!BecomesDue(c)
        PROVE  DueAgain(b)
    BY <1>1, <2>5 DEF Deposits!Mark, Deposits!BecomesDue, DueAgain, Deposits!run
  <2> QED
    BY <2>1, <2>2, <2>3, <2>4, <2>5
<1>5. \A b \in DueBookings, k \in Deposits!Kinds : RefundBooked(b, k)' /\ RefundsBounded(b, k)'
  BY <1>1, <1>2, <1>4, NumberIs DEF DepositsCounted, RefundBooked, RefundsBounded
<1> QED
  BY <1>1, <1>2, <1>3, <1>5 DEF DepositsCounted

LEMMA DepositsCountedRuns ==
    ASSUME DepositsInv, DepositsCounted,
           \/ Deposits!NextBooking \/ Deposits!RunClosed \/ Deposits!RunKilled
           \/ \E b \in DueBookings : Deposits!BeginBooking(b)
    PROVE  DepositsCounted'
<1>1. UNCHANGED <<dRows, back, marked, remarked>>
  BY DEF Deposits!NextBooking, Deposits!RunClosed, Deposits!RunKilled, Deposits!BeginBooking
<1>2. CASE Deposits!NextBooking
  <2>1. UNCHANGED <<dRows, back, marked, remarked, dStage, marking, hasty, dTodo, task, faults,
                    astray, dFailed>> /\ at' = Deposits!None
    BY <1>2 DEF Deposits!NextBooking
  <2>2. \A b \in DueBookings : DueAgain(b)' = DueAgain(b)
    BY <2>1 DEF DueAgain
  <2> QED
    BY <2>1, <2>2 DEF DepositsCounted, RefundBooked, RefundsBounded
<1>3. ASSUME NEW b \in DueBookings, Deposits!BeginBooking(b)
      PROVE  DepositsCounted'
  <2>1. /\ UNCHANGED <<dRows, back, marked, remarked, dStage, marking, hasty, faults, astray,
                       dFailed>>
        /\ at' = b /\ b \in dTodo /\ dTodo' = dTodo \ {b} /\ dStage = "refunding"
    BY <1>3 DEF Deposits!BeginBooking
  <2>2. /\ \A c \in DueBookings \ {b} : task'[c] = task[c]
        /\ task'[b]["deposit"] = "opened"
        /\ \A k \in Deposits!Kinds : task'[b][k] # "refunded" /\ task[b][k] = "off"
    BY <1>3, <2>1 DEF Deposits!BeginBooking, DepositsInv, DepositsTyped, DepositsRun,
                      Deposits!Kinds, Deposits!Owed
  <2>3. ~DueAgain(b)' /\ DueAgain(b)
    BY <2>1, <2>2 DEF DueAgain
  <2>4. \A c \in DueBookings \ {b} : DueAgain(c)' => DueAgain(c)
    BY <2>1, <2>2 DEF DueAgain
  <2>5. ASSUME NEW c \in DueBookings, NEW k \in Deposits!Kinds
        PROVE  RefundBooked(c, k)' /\ RefundsBounded(c, k)'
    <3>1. back[c][k] \in Nat /\ faults \in Nat /\ RefundBooked(c, k) /\ RefundsBounded(c, k)
      BY DepositsAssumption DEF DepositsCounted
    <3>2. CASE c = b
      <4>1. /\ Number(task[c][k] = "refunded") = 0 /\ Number(task'[c][k] = "refunded") = 0
            /\ Number(task[c][k] = "opened") = 0 /\ Number(task'[c][k] = "opened") \in {0, 1}
            /\ Number(DueAgain(c)) = 1 /\ Number(DueAgain(c)') = 0
        BY <2>2, <2>3, <3>2 DEF Number
      <4> QED
        BY <2>1, <3>1, <4>1 DEF RefundBooked, RefundsBounded
    <3>3. CASE c # b
      BY <2>1, <2>2, <2>4, <3>1, <3>3, NumberIs DEF RefundBooked, RefundsBounded
    <3> QED
      BY <3>2, <3>3
  <2> QED
    BY <2>1, <2>5 DEF DepositsCounted
<1>4. CASE Deposits!RunClosed \/ Deposits!RunKilled
  <2>1. /\ dStage' = "idle" /\ hasty' = FALSE /\ dTodo' = {} /\ at' = Deposits!None
        /\ \A b \in DueBookings, k \in Deposits!Kinds : task'[b][k] = "off"
    BY <1>4 DEF Deposits!RunClosed, Deposits!RunKilled, Deposits!RunEnds, Deposits!NoTask
  <2>2. CASE Deposits!RunClosed
    <3>1. UNCHANGED <<faults, astray, dFailed>>
      BY <2>2 DEF Deposits!RunClosed
    <3>2. \A b \in DueBookings, k \in Deposits!Kinds : task[b][k] \notin {"opened", "refunded"}
      BY <2>2 DEF Deposits!RunClosed, Deposits!AtRest
    <3>3. \A b \in DueBookings : DueAgain(b)' => DueAgain(b)
      BY <1>1, <2>1, <3>2 DEF DueAgain, Deposits!Kinds
    <3>4. \A b \in DueBookings, k \in Deposits!Kinds : RefundBooked(b, k)' /\ RefundsBounded(b, k)'
      <4> SUFFICES ASSUME NEW b \in DueBookings, NEW k \in Deposits!Kinds
                   PROVE  RefundBooked(b, k)' /\ RefundsBounded(b, k)'
        OBVIOUS
      <4>1. back[b][k] \in Nat /\ faults \in Nat /\ RefundBooked(b, k) /\ RefundsBounded(b, k)
        BY DepositsAssumption DEF DepositsCounted
      <4> QED
        BY <1>1, <2>1, <3>1, <3>2, <3>3, <4>1, NumberIs DEF RefundBooked, RefundsBounded
    <3> QED
      BY <1>1, <2>1, <3>1, <3>4 DEF DepositsCounted
  <2>3. CASE Deposits!RunKilled
    <3>1. faults' = faults + 1 /\ faults' \in 0..DepositFaults
      BY <2>3, DepositsAssumption DEF Deposits!RunKilled, Deposits!Fault, DepositsCounted
    <3>2. dFailed' \subseteq DueBookings \X Deposits!Kinds
      BY <2>3 DEF Deposits!RunKilled, DepositsCounted
    <3>3. /\ astray' \in [DueBookings -> [Deposits!Kinds -> Nat]]
          /\ \A b \in DueBookings, k \in Deposits!Kinds :
                astray'[b][k] = astray[b][k] + Number(task[b][k] = "refunded")
      BY <2>3, NumberIs DEF Number,  Deposits!RunKilled, DepositsCounted
    <3>4. \A b \in DueBookings, k \in Deposits!Kinds : RefundBooked(b, k)' /\ RefundsBounded(b, k)'
      <4> SUFFICES ASSUME NEW b \in DueBookings, NEW k \in Deposits!Kinds
                   PROVE  RefundBooked(b, k)' /\ RefundsBounded(b, k)'
        OBVIOUS
      <4>1. /\ back[b][k] \in Nat /\ faults \in Nat /\ dRows[b][k] \in Nat /\ astray[b][k] \in Nat
            /\ RefundBooked(b, k) /\ RefundsBounded(b, k)
        BY DepositsAssumption DEF DepositsCounted, DepositsInv, DepositsTyped
      <4>2. /\ Number(task'[b][k] = "refunded") = 0 /\ Number(task'[b][k] = "opened") = 0
            /\ Number(DueAgain(b)') \in {0, 1} /\ Number(DueAgain(b)) \in {0, 1}
            /\ Number(task[b][k] = "refunded") \in {0, 1} /\ Number(task[b][k] = "opened") \in {0, 1}
        BY <2>1, NumberIs
      <4>3. Number(DueAgain(b))' = Number(DueAgain(b)')
        OBVIOUS
      <4> QED
        BY <1>1, <2>1, <3>1, <3>3, <4>1, <4>2 DEF RefundBooked, RefundsBounded
    <3> QED
      BY <1>1, <2>1, <3>1, <3>2, <3>3, <3>4 DEF DepositsCounted
  <2> QED
    BY <1>4, <2>2, <2>3
<1> QED
  BY <1>2, <1>3, <1>4

LEMMA DepositsCountedTasks ==
    ASSUME DepositsInv, DepositsCounted, NEW b \in DueBookings, NEW k \in Deposits!Kinds,
           \/ Deposits!RefundMade(b, k) \/ Deposits!RefundCommit(b, k)
           \/ Deposits!RefundThrows(b, k) \/ Deposits!RefundRefused(b, k)
           \/ Deposits!RefundCommitFails(b, k)
    PROVE  DepositsCounted'
<1>1. /\ UNCHANGED <<marked, remarked, dStage, marking, hasty, dTodo, at>>
      /\ dStage = "refunding"
      /\ dFailed' \subseteq DueBookings \X Deposits!Kinds
  <2>1. UNCHANGED <<marked, remarked, dStage, marking, hasty, dTodo, at>>
    BY DEF Deposits!RefundMade, Deposits!RefundCommit, Deposits!RefundThrows,
           Deposits!RefundRefused, Deposits!RefundCommitFails
  <2>2. task[b][k] # "off"
    BY DEF Deposits!RefundMade, Deposits!RefundCommit, Deposits!RefundThrows,
           Deposits!RefundRefused, Deposits!RefundCommitFails
  <2>3. dFailed' = dFailed \/ dFailed' = dFailed \cup {<<b, k>>}
    BY DEF Deposits!RefundMade, Deposits!RefundCommit, Deposits!RefundThrows,
           Deposits!RefundRefused, Deposits!RefundCommitFails
  <2> QED
    BY <2>1, <2>2, <2>3 DEF DepositsInv, DepositsTyped, DepositsRun, DepositsCounted
<1>2. PICK s \in {"refunded", "resolved", "threw"}, x \in {0, 1}, y \in {0, 1}, z \in {0, 1}, f \in {0, 1} :
          /\ task' = [task EXCEPT ![b][k] = s] 
          /\ back' = [back EXCEPT ![b][k] = @ + x]
          /\ dRows' = [dRows EXCEPT ![b][k] = @ + y]
          /\ astray' = [astray EXCEPT ![b][k] = @ + z]
          /\ faults' = faults + f /\ (f = 1 => faults < DepositFaults)
          /\ \/ /\ task[b][k] = "opened" /\ y = 0
                /\ \/ s = "refunded" /\ x = 1 /\ z = 0
                   \/ s # "refunded" /\ x = z /\ f = 1
             \/ /\ task[b][k] = "refunded" /\ s # "refunded"
                /\ x = 0 /\ y + z = 1 /\ (y = 0 => f = 1)
  <2> DEFINE P(s, x, y, z, f) ==
          /\ task' = [task EXCEPT ![b][k] = s] 
          /\ back' = [back EXCEPT ![b][k] = @ + x]
          /\ dRows' = [dRows EXCEPT ![b][k] = @ + y]
          /\ astray' = [astray EXCEPT ![b][k] = @ + z]
          /\ faults' = faults + f /\ (f = 1 => faults < DepositFaults)
          /\ \/ /\ task[b][k] = "opened" /\ y = 0
                /\ \/ s = "refunded" /\ x = 1 /\ z = 0
                   \/ s # "refunded" /\ x = z /\ f = 1
             \/ /\ task[b][k] = "refunded" /\ s # "refunded"
                /\ x = 0 /\ y + z = 1 /\ (y = 0 => f = 1)
  <2> DEFINE G == \E s \in {"refunded", "resolved", "threw"}, x, y, z, f \in {0, 1} : P(s, x, y, z, f)
  <2> USE DEF Deposits!TaskTo, Deposits!Fault
  <2>0. /\ UNCHANGED back => back' = [back EXCEPT ![b][k] = @ + 0]
        /\ UNCHANGED dRows => dRows' = [dRows EXCEPT ![b][k] = @ + 0]
        /\ UNCHANGED astray => astray' = [astray EXCEPT ![b][k] = @ + 0]
        /\ UNCHANGED faults => faults' = faults + 0
    BY DEF DepositsCounted, DepositsInv, DepositsTyped
  <2>1. ASSUME Deposits!RefundMade(b, k) PROVE G
    <3>1. P("refunded", 1, 0, 0, 0)
      BY <2>0, <2>1 DEF Deposits!RefundMade
    <3> QED
      BY <3>1
  <2>2. ASSUME Deposits!RefundCommit(b, k) PROVE G
    <3>1. P("resolved", 0, 1, 0, 0)
      BY <2>0, <2>2 DEF Deposits!RefundCommit
    <3> QED
      BY <3>1
  <2>3. ASSUME Deposits!RefundThrows(b, k) PROVE G
    <3>1. P("threw", 0, 0, 0, 1)
      BY <2>0, <2>3 DEF Deposits!RefundThrows
    <3> QED
      BY <3>1
  <2>4. ASSUME Deposits!RefundRefused(b, k) PROVE G
    <3>1. CASE UNCHANGED <<back, astray>>
      <4>1. P("resolved", 0, 0, 0, 1)
        BY <2>0, <2>4, <3>1 DEF Deposits!RefundRefused
      <4> QED
        BY <4>1
    <3>2. CASE ~ UNCHANGED <<back, astray>>
      <4>1. P("resolved", 1, 0, 1, 1)
        BY <2>0, <2>4, <3>2 DEF Deposits!RefundRefused
      <4> QED
        BY <4>1
    <3> QED
      BY <3>1, <3>2
  <2>5. ASSUME Deposits!RefundCommitFails(b, k) PROVE G
    <3>1. ASSUME UNCHANGED dRows, NEW s \in {"resolved", "threw"}, Deposits!TaskTo(b, k, s),
                 astray' = [astray EXCEPT ![b][k] = @ + 1]
          PROVE  P(s, 0, 0, 1, 1)
      BY <2>0, <2>5, <3>1 DEF Deposits!RefundCommitFails
    <3>2. ASSUME UNCHANGED astray, Deposits!TaskTo(b, k, "threw"),
                 dRows' = [dRows EXCEPT ![b][k] = @ + 1]
          PROVE  P("threw", 0, 1, 0, 1)
      BY <2>0, <2>5, <3>2 DEF Deposits!RefundCommitFails
    <3>3. (\E s \in {"resolved", "threw"} : P(s, 0, 0, 1, 1)) \/ P("threw", 0, 1, 0, 1)
      BY <2>5, <3>1, <3>2 DEF Deposits!RefundCommitFails
    <3> QED
      BY <3>3
  <2> HIDE DEF G
  <2>6. G
    BY <2>1, <2>2, <2>3, <2>4, <2>5
  <2> QED
    BY <2>6 DEF G
<1>3. /\ task'[b][k] = s /\ back'[b][k] = back[b][k] + x
      /\ dRows'[b][k] = dRows[b][k] + y /\ astray'[b][k] = astray[b][k] + z
      /\ back' \in [DueBookings -> [Deposits!Kinds -> Nat]]
      /\ astray' \in [DueBookings -> [Deposits!Kinds -> Nat]]
      /\ faults' \in 0..DepositFaults
  BY <1>2, DepositsAssumption DEF DepositsCounted, DepositsInv, DepositsTyped
<1>4. \A c \in DueBookings, l \in Deposits!Kinds :
          c # b \/ l # k => /\ task'[c][l] = task[c][l] /\ back'[c][l] = back[c][l]
                            /\ dRows'[c][l] = dRows[c][l] /\ astray'[c][l] = astray[c][l]
  BY <1>2 DEF DepositsCounted, DepositsInv, DepositsTyped
<1>5. \A c \in DueBookings : DueAgain(c)' => DueAgain(c) \/ f = 1
  <2>1. \A c \in DueBookings : c # b \/ k # "deposit" => (DueAgain(c)' <=> DueAgain(c))
    BY <1>1, <1>4 DEF DueAgain, Deposits!Kinds
  <2>2. k = "deposit" /\ f = 0 => (s = "refunded" \/ dRows'[b]["deposit"] > 0)
    BY <1>2, <1>3 DEF DepositsInv, DepositsTyped
  <2>3. k = "deposit" /\ f = 0 /\ DueAgain(b)' => DueAgain(b)
    BY <1>1, <1>3, <2>2 DEF DueAgain
  <2> QED
    BY <2>1, <2>3
<1>6. \A c \in DueBookings, l \in Deposits!Kinds : RefundBooked(c, l)' /\ RefundsBounded(c, l)'
  <2> SUFFICES ASSUME NEW c \in DueBookings, NEW l \in Deposits!Kinds
               PROVE  RefundBooked(c, l)' /\ RefundsBounded(c, l)'
    OBVIOUS
  <2>1. /\ RefundBooked(c, l) /\ RefundsBounded(c, l)
        /\ back[c][l] \in Nat /\ dRows[c][l] \in Nat /\ astray[c][l] \in Nat /\ faults \in Nat
    BY DepositsAssumption DEF DepositsCounted, DepositsInv, DepositsTyped
  <2>2. CASE c = b /\ l = k
    <3>1. /\ Number(task'[c][l] = "refunded") = (IF s = "refunded" THEN 1 ELSE 0)
          /\ Number(task'[c][l] = "opened") = 0
          /\ Number(task[c][l] = "refunded") = (IF task[b][k] = "refunded" THEN 1 ELSE 0)
          /\ Number(task[c][l] = "opened") = (IF task[b][k] = "opened" THEN 1 ELSE 0)
          /\ Number(DueAgain(c)) \in {0, 1} /\ Number(DueAgain(c)') \in {0, 1}
          /\ f = 0 => Number(DueAgain(c)') <= Number(DueAgain(c))
      BY <1>2, <1>3, <1>5, <2>2 DEF Number
    <3>2. RefundBooked(c, l)'
      <4>1. back'[c][l] = back[c][l] + x /\ dRows'[c][l] = dRows[c][l] + y
            /\ astray'[c][l] = astray[c][l] + z
        BY <1>3, <2>2
      <4>2. back[c][l] = dRows[c][l] + astray[c][l] + Number(task[c][l] = "refunded")
        BY <2>1 DEF RefundBooked
      <4>3. x + Number(task[c][l] = "refunded") = y + z + Number(task'[c][l] = "refunded")
        BY <1>2, <2>2, <3>1
      <4>4. /\ back[c][l] \in Nat /\ dRows[c][l] \in Nat /\ astray[c][l] \in Nat
            /\ Number(task'[c][l] = "refunded") \in {0, 1} /\ Number(task[c][l] = "refunded") \in {0, 1}
        BY <2>1, <3>1
      <4> HIDE DEF Number
      <4>5. back[c][l] + x = dRows[c][l] + y + (astray[c][l] + z) + Number(task'[c][l] = "refunded")
        BY <4>2, <4>3, <4>4
      <4> QED
        BY <4>1, <4>5 DEF RefundBooked
    <3>3. RefundsBounded(c, l)'
      BY <1>2, <1>3, <2>1, <2>2, <3>1 DEF RefundsBounded
    <3> QED
      BY <3>2, <3>3
  <2>3. CASE c # b \/ l # k
    BY <1>2, <1>4, <1>5, <2>1, <2>3, NumberIs DEF RefundBooked, RefundsBounded
  <2> QED
    BY <2>2, <2>3
<1>7. (dStage' = "marking" /\ ~hasty' =>
          \A c \in DueBookings : dRows'[c]["deposit"] > 0 => c \in marked' \cup marking')
  BY <1>1
<1> QED
  BY <1>1, <1>3, <1>6, <1>7 DEF DepositsCounted

(* Every refund that Stripe made of a deposit or an unused month is        *)
(* booked, or about to be, or went astray with a failure, and there are    *)
(* never more refunds of one than failures and one more: only a failure,   *)
(* a killed run included, has a deposit refunded again                     *)
(* (cron-job/refund-deposit/refund-deposit.cron.ts 48-173).                *)
THEOREM DepositsCountedInvariant == ServicesSpec => []DepositsCounted
<1>1. Deposits!Init => DepositsCounted
  BY DepositsCountedInitially
<1>2. DepositsInv /\ DepositsCounted /\ [Deposits!Next]_(Deposits!depositVars) => DepositsCounted'
  <2> SUFFICES ASSUME DepositsInv, DepositsCounted, [Deposits!Next]_(Deposits!depositVars)
               PROVE  DepositsCounted'
    OBVIOUS
  <2>1. CASE Deposits!Next
    BY <2>1, DepositsCountedMarks, DepositsCountedRuns, DepositsCountedTasks
       DEF Deposits!Next, Deposits!RunSteps
  <2>2. CASE UNCHANGED Deposits!depositVars
    <3>1. \A b \in DueBookings : DueAgain(b)' = DueAgain(b)
      BY <2>2 DEF DueAgain, Deposits!depositVars, Deposits!run
    <3> QED
      BY <2>2, <3>1 DEF DepositsCounted, RefundBooked, RefundsBounded, Deposits!depositVars, Deposits!run
  <2> QED
    BY <2>1, <2>2
<1> QED
  BY <1>1, <1>2, DepositsFollow, DepositsInvariant, PTL DEF Deposits!Spec

(* So the counters of the model have their bounds.                         *)
LEMMA DepositsTypeOK == ASSUME DepositsInv, DepositsCounted PROVE Deposits!TypeOK
<1>1. \A b \in DueBookings, k \in Deposits!Kinds :
          /\ dRows[b][k] \in 0..(DepositFaults + 2) /\ back[b][k] \in 0..(DepositFaults + 2)
          /\ astray[b][k] \in 0..(DepositFaults + 2)
  <2> SUFFICES ASSUME NEW b \in DueBookings, NEW k \in Deposits!Kinds
               PROVE  /\ dRows[b][k] \in 0..(DepositFaults + 2)
                      /\ back[b][k] \in 0..(DepositFaults + 2)
                      /\ astray[b][k] \in 0..(DepositFaults + 2)
    OBVIOUS
  <2>1. /\ RefundBooked(b, k) /\ RefundsBounded(b, k) /\ faults \in 0..DepositFaults
        /\ back[b][k] \in Nat /\ dRows[b][k] \in Nat /\ astray[b][k] \in Nat
    BY DEF DepositsCounted, DepositsInv, DepositsTyped
  <2> QED
    BY <2>1, NumberIs, DepositsAssumption DEF RefundBooked, RefundsBounded
<1> QED
  BY <1>1 DEF DepositsInv, DepositsTyped, DepositsCounted, Deposits!TypeOK, Deposits!Counts

-----------------------------------------------------------------------------
(* The end of a booking                                                    *)

LEMMA EndFollows == ServicesSpec => Ending!Spec
<1>1. ServicesInit => Ending!Init
  BY DEF ServicesInit
<1>2. [ServicesNext]_servicesVars => [Ending!Next]_(Ending!vars)
  BY DEF ServicesNext, servicesVars, endingVars, Ending!vars, Ending!rows, Ending!calls
<1> QED
  BY <1>1, <1>2, PTL DEF ServicesSpec, Ending!Spec

(* The payments that may have written, and those that failed.              *)
Unsettled == {"failed", "refunding", "marking", "stuck"}
Settling == {"opened", "charged", "refunding", "marking"}

(* What is being paid is there, and a request that has not written has     *)
(* none; a payment that is booked pays for a termination that is there and *)
(* is past its writes; one that is to be marked was given back.            *)
EndPaying ==
    /\ \A r \in Ending!TermReqs :
          tPc[r] \in {"idle", "planned"} => termination[r] = Ending!NoTermination
    /\ \A p \in Ending!Payers : tPc[p] \in Settling \/ p \in tBooked =>
          /\ paying[p] \in Ending!TermReqs
          /\ termination[paying[p]] # Ending!NoTermination
    /\ \A p \in tBooked : tPc[p] \in Unsettled \cup {"paid"}
    /\ \A p \in Ending!Payers : tPc[p] = "marking" => p \notin tKept

EndInv ==
    /\ Ending!TypeOK /\ EndPaying
    /\ Ending!SettledBeforeScheduled /\ Ending!PaidStaysPaid

Places == {"idle", "planned", "created", "opened", "charged", "refunding", "marking", "unheard",
           "done", "paid", "failed", "stuck"}

LEMMA EndSets ==
    /\ Ending!TermReqs \subseteq Ending!Requests /\ Ending!Payers \subseteq Ending!Requests
    /\ EndJobs \subseteq Ending!TermReqs /\ EndJobs \subseteq Ending!Payers
    /\ EndPays \cap Ending!TermReqs = {} /\ EndPays \subseteq Ending!Payers
    /\ \A r \in Ending!TermReqs : EndBookingOf[r] \in EndBookings
    /\ Ending!Never \in Nat \ {0} /\ EndLastDay \in Nat /\ EndNotice \in Nat /\ EndMonth \in Nat
    /\ Ending!Never = EndLastDay + EndNotice + EndMonth + 1
BY EndingAssumption
   DEF Ending!TermReqs, Ending!Payers, Ending!Requests, Ending!Never

LEMMA EndInitially == Ending!Init => EndInv
<1> SUFFICES ASSUME Ending!Init PROVE EndInv
  OBVIOUS
<1> USE EndSets
<1>1. Ending!TypeOK
  BY EndingAssumption DEF Ending!Init, Ending!TypeOK, Ending!NoPlan, Ending!Owing
<1>2. \A r \in Ending!TermReqs : termination[r] = Ending!NoTermination
  BY DEF Ending!Init
<1>3. \A c \in Ending!Requests : tPc[c] = "idle"
  BY DEF Ending!Init
<1>4. tBooked = {}
  BY DEF Ending!Init
<1>5. EndPaying
  BY <1>2, <1>3, <1>4 DEF EndPaying, Settling
<1>6. Ending!SettledBeforeScheduled /\ Ending!PaidStaysPaid
  BY <1>2, <1>4 DEF Ending!SettledBeforeScheduled, Ending!PaidStaysPaid, Ending!NoTermination
<1> QED
  BY <1>1, <1>5, <1>6 DEF EndInv

(* A call goes on to another place, without a word to the terminations.    *)
LEMMA EndGoes ==
    ASSUME EndInv, NEW c \in Ending!Requests, NEW l \in Places,
           Ending!Goto(c, l), Ending!TypeOK', UNCHANGED <<termination, tBooked, paying>>,
           tKept' \subseteq tKept \cup {c}, c \in tBooked => (c \in tKept' => c \in tKept),
           c \in tBooked => l \in Unsettled,
           tPc[c] \in Unsettled => l \in Unsettled,
           l \in {"idle", "planned"} => tPc[c] \in {"idle", "planned"},
           l \in Settling => tPc[c] \in Settling,
           l = "marking" => c \notin tKept'
    PROVE  EndInv'
<1> USE EndSets DEF EndInv
<1>1. tPc'[c] = l /\ \A d \in Ending!Requests : d # c => tPc'[d] = tPc[d]
  BY DEF Ending!Goto, Ending!TypeOK
<1>2. tBooked \subseteq Ending!Payers
  BY DEF Ending!TypeOK
<1>3. EndPaying'
  <2>1. \A r \in Ending!TermReqs :
            tPc'[r] \in {"idle", "planned"} => tPc[r] \in {"idle", "planned"}
    BY <1>1
  <2>2. \A p \in Ending!Payers : tPc'[p] \in Settling => tPc[p] \in Settling
    BY <1>1
  <2>3. \A p \in tBooked : tPc'[p] \in Unsettled \cup {"paid"}
    BY <1>1, <1>2 DEF EndPaying
  <2>4. \A p \in Ending!Payers : tPc'[p] = "marking" => p \notin tKept'
    BY <1>1 DEF EndPaying
  <2> QED
    BY <2>1, <2>2, <2>3, <2>4 DEF EndPaying
<1>4. Ending!SettledBeforeScheduled'
  BY DEF Ending!SettledBeforeScheduled
<1>5. Ending!PaidStaysPaid'
  <2>1. \A p \in tBooked : p \in tKept' => p \in tKept
    OBVIOUS
  <2>2. \A q \in Ending!Payers : tPc[q] \in Unsettled => tPc'[q] \in Unsettled
    BY <1>1
  <2> QED
    BY <2>1, <2>2 DEF Ending!PaidStaysPaid, Unsettled
<1> QED
  BY <1>3, <1>4, <1>5

LEMMA EndPlans ==
    ASSUME EndInv, NEW r \in Ending!TermReqs,
           Ending!PlanTermination(r) \/ Ending!RequestFails(r)
    PROVE  EndInv'
<1> USE EndSets DEF EndInv
<1>1. CASE Ending!PlanTermination(r)
  <2> USE <1>1
  <2>1. PICK out \in Ending!MoveOutChoices(r), dues \in Ending!Owing :
            plan' = [plan EXCEPT ![r] =
                        [out |-> out, on |-> Ending!TerminatesOn(r, out), dues |-> dues]]
    BY DEF Ending!PlanTermination
  <2>2. /\ tPc[r] = "idle" /\ Ending!Goto(r, "planned")
        /\ UNCHANGED <<status, moveOut, requested, termination, tBooked, tKept, paying, differs,
                       queue, today>>
    BY DEF Ending!PlanTermination, Ending!rows
  <2>3. today \in 0..EndLastDay /\ moveOut \in [EndBookings -> 1..Ending!Never]
    BY DEF Ending!TypeOK
  <2>4. out \in 1..Ending!Never /\ Ending!TerminatesOn(r, out) \in 1..Ending!Never
    BY <2>3 DEF Ending!MoveOutChoices, Ending!TerminatesOn
  <2>5. Ending!TypeOK'
    BY <2>1, <2>2, <2>4 DEF Ending!TypeOK, Ending!Goto
  <2> QED
    BY <2>2, <2>5, EndGoes DEF EndPaying, Places, Unsettled, Settling
<1>2. CASE Ending!RequestFails(r)
  <2> USE <1>2
  <2>1. /\ tPc[r] \in {"idle", "planned"} /\ Ending!Goto(r, "failed")
        /\ plan' = [plan EXCEPT ![r] = Ending!NoPlan] /\ queue' \subseteq queue
        /\ UNCHANGED <<status, moveOut, requested, termination, tBooked, tKept, paying, differs,
                       today>>
    BY DEF Ending!RequestFails, Ending!rows
  <2>2. Ending!NoPlan \in [out : 1..Ending!Never, on : 1..Ending!Never, dues : Ending!Owing]
    BY DEF Ending!NoPlan, Ending!Owing
  <2>3. Ending!TypeOK'
    BY <2>1, <2>2 DEF Ending!TypeOK, Ending!Goto
  <2> QED
    BY <2>1, <2>3, EndGoes DEF EndPaying, Places, Unsettled, Settling
<1> QED
  BY <1>1, <1>2

LEMMA EndRequested ==
    ASSUME EndInv, NEW r \in Ending!TermReqs,
           Ending!CommitRequest(r) \/ Ending!CommitRequestUnheard(r)
    PROVE  EndInv'
<1> USE EndSets DEF EndInv
<1> DEFINE b == EndBookingOf[r]
           rec == [on |-> plan[r].on, dues |-> plan[r].dues,
                   status |-> Ending!FirstStatus(plan[r].dues), payment |-> "PENDING"]
<1>1. PICK l \in {"created", "done", "failed"} : Ending!Goto(r, l)
  BY DEF Ending!CommitRequest, Ending!CommitRequestUnheard
<1>2. /\ tPc[r] = "planned" /\ queue' \subseteq queue
      /\ termination' = [termination EXCEPT ![r] = rec]
      /\ moveOut' = [moveOut EXCEPT ![b] = plan[r].out]
      /\ requested' = [requested EXCEPT ![b] = TRUE]
      /\ plan' = [plan EXCEPT ![r] = Ending!NoPlan]
      /\ UNCHANGED <<status, tBooked, tKept, paying, differs, today>>
  BY DEF Ending!CommitRequest, Ending!CommitRequestUnheard, Ending!WritesRequest
<1>3. Ending!NoPlan \in [out : 1..Ending!Never, on : 1..Ending!Never, dues : Ending!Owing]
  BY DEF Ending!NoPlan, Ending!Owing
<1>4. plan[r] \in [out : 1..Ending!Never, on : 1..Ending!Never, dues : Ending!Owing]
  BY DEF Ending!TypeOK
<1>5. /\ rec \in Ending!Termination /\ rec # Ending!NoTermination
      /\ rec.status \in {"SCHEDULED", "TERMINATED"} => rec.dues = "none"
  BY <1>4 DEF Ending!Termination, Ending!FirstStatus, Ending!NoTermination
<1> HIDE DEF rec
<1>6. Ending!TypeOK'
  <2>1. b \in EndBookings
    OBVIOUS
  <2>2. moveOut' \in [EndBookings -> 1..Ending!Never] /\ requested' \in [EndBookings -> BOOLEAN]
    BY <1>2, <1>4, <2>1 DEF Ending!TypeOK
  <2>3. termination' \in [Ending!TermReqs -> Ending!Termination \cup {Ending!NoTermination}]
    BY <1>2, <1>5 DEF Ending!TypeOK
  <2> QED
    BY <1>1, <1>2, <1>3, <2>2, <2>3 DEF Ending!TypeOK, Ending!Goto
<1>7. /\ termination'[r] = rec /\ tPc'[r] = l
      /\ \A n \in Ending!TermReqs : n # r => termination'[n] = termination[n]
      /\ \A c \in Ending!Requests : c # r => tPc'[c] = tPc[c]
  BY <1>1, <1>2 DEF Ending!TypeOK, Ending!Goto
<1>8. termination[r] = Ending!NoTermination
  BY <1>2 DEF EndPaying
<1>9. tBooked \subseteq Ending!Payers /\ r \notin tBooked
  BY <1>2 DEF Ending!TypeOK, EndPaying, Unsettled
<1>10. \A p \in tBooked : paying[p] \in Ending!TermReqs /\ paying[p] # r
  BY <1>8, <1>9 DEF EndPaying
<1>11. EndPaying'
  BY <1>2, <1>5, <1>7, <1>9 DEF EndPaying, Settling, Unsettled
<1>12. Ending!SettledBeforeScheduled'
  BY <1>2, <1>5, <1>7 DEF Ending!SettledBeforeScheduled
<1>13. Ending!PaidStaysPaid'
  BY <1>2, <1>7, <1>9, <1>10 DEF Ending!PaidStaysPaid
<1> QED
  BY <1>6, <1>11, <1>12, <1>13

(* Steps of a payment that write nothing to the termination.               *)
LEMMA EndPaySteps ==
    ASSUME EndInv, NEW p \in Ending!Payers,
           \/ \E n \in Ending!TermReqs : Ending!PaySkips(p, n)
           \/ Ending!PayRefused(p) \/ Ending!PayCharge(p) \/ Ending!PayChargeUnheard(p)
           \/ Ending!PayWriteFails(p) \/ Ending!PayRefund(p) \/ Ending!PayRefundFails(p)
           \/ Ending!PayMarkFails(p)
    PROVE  EndInv'
<1> USE EndSets DEF EndInv
<1>1. PICK l \in {"done", "failed", "charged", "unheard", "refunding", "marking", "stuck"} :
          /\ Ending!Goto(p, l) /\ queue' \subseteq queue /\ differs' \subseteq differs \cup {p}
          /\ UNCHANGED <<status, moveOut, requested, termination, tBooked, plan, paying, today>>
          /\ l \in {"done"} => tPc[p] \in {"idle", "created"}
          /\ l = "failed" => tPc[p] \in {"idle", "created", "opened"}
          /\ l \in {"charged", "unheard"} => tPc[p] = "opened" /\ tKept' = tKept \cup {p}
          /\ l = "refunding" => tPc[p] = "charged"
          /\ l = "marking" => tPc[p] = "refunding" /\ tKept' = tKept \ {p}
          /\ l = "stuck" => tPc[p] \in {"refunding", "marking"} /\ tKept' \subseteq tKept
          /\ l \in {"done", "failed", "refunding"} => tKept' = tKept
  BY DEF Ending!PaySkips, Ending!PayRefused, Ending!PayCharge, Ending!PayChargeUnheard,
         Ending!PayWriteFails, Ending!PayRefund, Ending!PayRefundFails, Ending!PayMarkFails,
         Ending!Reads, Ending!Leaves, Ending!rows
<1>2. Ending!TypeOK'
  BY <1>1 DEF Ending!TypeOK, Ending!Goto
<1>3. p \in tBooked => tPc[p] \in {"paid", "failed", "refunding", "marking", "stuck"}
  BY DEF EndPaying, Unsettled
<1>4. /\ p \in tBooked => l \in Unsettled
      /\ tPc[p] \in Unsettled => l \in Unsettled
      /\ l \in Settling => tPc[p] \in Settling
      /\ p \in tBooked => (p \in tKept' => p \in tKept)
      /\ tKept' \subseteq tKept \cup {p} /\ (l = "marking" => p \notin tKept')
  BY <1>1, <1>3 DEF Unsettled, Settling
<1>5. l \in Places /\ l \notin {"idle", "planned"} /\ p \in Ending!Requests
  BY DEF Places
<1> QED
  BY <1>1, <1>2, <1>4, <1>5, EndGoes

LEMMA EndAdmits ==
    ASSUME EndInv, NEW p \in Ending!Payers, NEW n \in Ending!TermReqs, Ending!PayAdmit(p, n)
    PROVE  EndInv'
<1> USE EndSets DEF EndInv
<1>1. /\ tPc[p] \in {"idle", "created"} /\ termination[n] # Ending!NoTermination
      /\ paying' = [paying EXCEPT ![p] = n] /\ Ending!Goto(p, "opened")
      /\ differs' \subseteq differs \cup {p}
      /\ UNCHANGED <<status, moveOut, requested, termination, tBooked, tKept, plan, queue, today>>
      /\ tPc[p] = "idle" => p \in EndPays
  BY DEF Ending!PayAdmit, Ending!Reads, Ending!rows, Ending!Payers
<1>2. Ending!TypeOK'
  BY <1>1 DEF Ending!TypeOK, Ending!Goto
<1>3. /\ paying'[p] = n /\ tPc'[p] = "opened"
      /\ \A q \in Ending!Payers : q # p => paying'[q] = paying[q]
      /\ \A c \in Ending!Requests : c # p => tPc'[c] = tPc[c]
  BY <1>1 DEF Ending!TypeOK, Ending!Goto
<1>4. tBooked \subseteq Ending!Payers /\ p \notin tBooked
  BY <1>1 DEF Ending!TypeOK, EndPaying, Unsettled
<1>5. EndPaying'
  BY <1>1, <1>3, <1>4 DEF EndPaying, Settling, Unsettled
<1>6. Ending!SettledBeforeScheduled'
  BY <1>1, <1>3, <1>4 DEF Ending!SettledBeforeScheduled
<1>7. Ending!PaidStaysPaid'
  <2> SUFFICES ASSUME NEW a \in tBooked \cap tKept, termination[paying[a]].payment # "PAID"
               PROVE  \E q \in Ending!Payers \ {a} :
                         paying'[q] = paying'[a] /\ tPc'[q] \in Unsettled
    BY <1>1, <1>3, <1>4 DEF Ending!PaidStaysPaid, Unsettled
  <2>1. PICK q \in Ending!Payers \ {a} : paying[q] = paying[a] /\ tPc[q] \in Unsettled
    BY DEF Ending!PaidStaysPaid, Unsettled
  <2>2. q # p /\ a # p
    BY <1>1, <1>4, <2>1 DEF Unsettled
  <2> QED
    BY <1>3, <1>4, <2>1, <2>2
<1> QED
  BY <1>2, <1>5, <1>6, <1>7

(* A payment that writes the termination it is of: its charge is booked,   *)
(* or given back.                                                          *)
LEMMA EndWrites ==
    ASSUME EndInv, NEW p \in Ending!Payers,
           Ending!PayCommit(p) \/ Ending!PayCommitUnheard(p) \/ Ending!PayMark(p)
    PROVE  EndInv'
<1> USE EndSets DEF EndInv
<1> DEFINE n == paying[p]
<1>1. PICK l \in {"paid", "refunding", "failed"} :
          /\ Ending!Goto(p, l) /\ queue' \subseteq queue /\ differs' \subseteq differs \cup {p}
          /\ UNCHANGED <<status, moveOut, requested, tKept, plan, paying, today>>
          /\ l # "failed" =>
                /\ tPc[p] = "charged" /\ tBooked' = tBooked \cup {p}
                /\ termination' = [termination EXCEPT ![n].status = "SCHEDULED",
                                                      ![n].payment = "PAID"]
          /\ l = "failed" =>
                /\ tPc[p] = "marking" /\ UNCHANGED tBooked
                /\ \/ UNCHANGED termination
                   \/ termination' = [termination EXCEPT ![n].status = "ON_HOLD",
                                                         ![n].payment = "FAILED"]
  BY DEF Ending!PayCommit, Ending!PayCommitUnheard, Ending!PayMark, Ending!WritesPayment,
         Ending!Leaves
<1>2. /\ n \in Ending!TermReqs /\ termination[n] # Ending!NoTermination
      /\ termination[n] \in Ending!Termination
  BY <1>1 DEF EndPaying, Settling, Ending!TypeOK
<1>3. PICK rec \in Ending!Termination :
          /\ rec # Ending!NoTermination /\ rec.dues = termination[n].dues
          /\ termination' = [termination EXCEPT ![n] = rec]
          /\ l # "failed" => rec.payment = "PAID"
          /\ rec.status \in {"SCHEDULED", "TERMINATED"} =>
                l # "failed" \/ rec.status = termination[n].status
          /\ l = "failed" => rec = termination[n] \/ rec.payment = "FAILED"
  <2> DEFINE paid == [termination[n] EXCEPT !.status = "SCHEDULED", !.payment = "PAID"]
             unpaid == [termination[n] EXCEPT !.status = "ON_HOLD", !.payment = "FAILED"]
  <2>1. /\ paid \in Ending!Termination /\ paid.dues = termination[n].dues
        /\ paid.payment = "PAID" /\ paid.status = "SCHEDULED"
    BY <1>2 DEF Ending!Termination
  <2>2. /\ unpaid \in Ending!Termination /\ unpaid.dues = termination[n].dues
        /\ unpaid.payment = "FAILED" /\ unpaid.status = "ON_HOLD"
    BY <1>2 DEF Ending!Termination
  <2>3. termination \in [Ending!TermReqs -> Ending!Termination \cup {Ending!NoTermination}]
    BY DEF Ending!TypeOK
  <2>4. /\ [termination EXCEPT ![n].status = "SCHEDULED", ![n].payment = "PAID"]
              = [termination EXCEPT ![n] = paid]
        /\ [termination EXCEPT ![n].status = "ON_HOLD", ![n].payment = "FAILED"]
              = [termination EXCEPT ![n] = unpaid]
    BY <1>2, <2>3
  <2>5. termination = [termination EXCEPT ![n] = termination[n]]
    BY <1>2, <2>3
  <2>6. paid # Ending!NoTermination /\ unpaid # Ending!NoTermination
    BY <2>1, <2>2 DEF Ending!NoTermination
  <2> HIDE DEF paid, unpaid
  <2>7. CASE l # "failed"
    BY <1>1, <2>1, <2>4, <2>6, <2>7
  <2>8. CASE l = "failed" /\ UNCHANGED termination
    BY <1>1, <1>2, <2>5, <2>8
  <2>9. CASE l = "failed" /\ ~UNCHANGED termination
    BY <1>1, <2>2, <2>4, <2>6, <2>9
  <2> QED
    BY <2>7, <2>8, <2>9
<1>4. /\ termination'[n] = rec /\ tPc'[p] = l
      /\ \A m \in Ending!TermReqs : m # n => termination'[m] = termination[m]
      /\ \A c \in Ending!Requests : c # p => tPc'[c] = tPc[c]
  BY <1>1, <1>2, <1>3 DEF Ending!TypeOK, Ending!Goto
<1>5. /\ tBooked \subseteq tBooked' /\ tBooked' \subseteq tBooked \cup {p}
      /\ tBooked \subseteq Ending!Payers /\ (l # "failed" => p \in tBooked')
  BY <1>1 DEF Ending!TypeOK
<1>6. Ending!TypeOK'
  BY <1>1, <1>2, <1>3, <1>5 DEF Ending!TypeOK, Ending!Goto
<1>7. EndPaying'
  <2>1. \A r \in Ending!TermReqs :
            tPc'[r] \in {"idle", "planned"} => termination'[r] = Ending!NoTermination
    BY <1>1, <1>2, <1>4 DEF EndPaying
  <2>2. \A q \in Ending!Payers : tPc'[q] \in Settling \/ q \in tBooked' =>
            q = p \/ tPc[q] \in Settling \/ q \in tBooked
    BY <1>4, <1>5
  <2>3. \A q \in Ending!Payers : tPc'[q] \in Settling \/ q \in tBooked' =>
            paying[q] \in Ending!TermReqs /\ termination'[paying[q]] # Ending!NoTermination
    BY <1>2, <1>3, <1>4, <2>2 DEF EndPaying
  <2>4. \A q \in tBooked' : tPc'[q] \in Unsettled \cup {"paid"}
    BY <1>4, <1>5 DEF EndPaying, Unsettled
  <2>5. \A q \in Ending!Payers : tPc'[q] = "marking" => q \notin tKept'
    BY <1>1, <1>4 DEF EndPaying
  <2> QED
    BY <1>1, <2>1, <2>3, <2>4, <2>5 DEF EndPaying
<1>8. Ending!SettledBeforeScheduled'
  <2> SUFFICES ASSUME NEW r \in Ending!TermReqs,
                      termination'[r].status \in {"SCHEDULED", "TERMINATED"}
               PROVE  termination'[r].dues = "none" \/ \E q \in tBooked' : paying[q] = r
    BY <1>1 DEF Ending!SettledBeforeScheduled
  <2>1. CASE r = n /\ l # "failed"
    BY <1>5, <2>1
  <2>2. CASE r # n \/ l = "failed"
    BY <1>3, <1>4, <1>5, <2>2 DEF Ending!SettledBeforeScheduled
  <2> QED
    BY <2>1, <2>2
<1>9. Ending!PaidStaysPaid'
  <2> SUFFICES ASSUME NEW a \in tBooked' \cap tKept, termination'[paying[a]].payment # "PAID"
               PROVE  \E q \in Ending!Payers \ {a} :
                         paying[q] = paying[a] /\ tPc'[q] \in Unsettled
    BY <1>1 DEF Ending!PaidStaysPaid, Unsettled
  <2>1. CASE l # "failed"
    <3>1. paying[a] # n /\ a \in tBooked
      BY <1>3, <1>4, <1>5, <2>1
    <3>2. paying[a] \in Ending!TermReqs
      BY <1>5, <3>1 DEF EndPaying
    <3>3. PICK q \in Ending!Payers \ {a} : paying[q] = paying[a] /\ tPc[q] \in Unsettled
      BY <1>4, <3>1, <3>2 DEF Ending!PaidStaysPaid, Unsettled
    <3>4. q # p
      BY <3>1, <3>3
    <3> QED
      BY <1>4, <3>3, <3>4
  <2>2. CASE l = "failed"
    <3>1. a # p /\ a \in tBooked
      BY <1>1, <2>2 DEF EndPaying
    <3>2. CASE paying[a] = n
      BY <1>4, <2>2, <3>1, <3>2 DEF Unsettled
    <3>3. CASE paying[a] # n
      <4>1. paying[a] \in Ending!TermReqs
        BY <1>5, <3>1 DEF EndPaying
      <4>2. PICK q \in Ending!Payers \ {a} : paying[q] = paying[a] /\ tPc[q] \in Unsettled
        BY <1>4, <3>1, <3>3, <4>1 DEF Ending!PaidStaysPaid, Unsettled
      <4>3. q # p
        BY <3>3, <4>2
      <4> QED
        BY <1>4, <4>2, <4>3
    <3> QED
      BY <3>2, <3>3
  <2> QED
    BY <2>1, <2>2
<1> QED
  BY <1>6, <1>7, <1>8, <1>9

LEMMA EndCrashes ==
    ASSUME EndInv, NEW c \in Ending!Requests, Ending!Crash(c)
    PROVE  EndInv'
<1> USE EndSets DEF EndInv
<1>1. /\ tPc[c] \in Ending!Busy /\ Ending!Goto(c, "stuck") /\ queue' \subseteq queue
      /\ differs' \subseteq differs
      /\ plan' = [r \in Ending!TermReqs |-> IF r = c THEN Ending!NoPlan ELSE plan[r]]
      /\ UNCHANGED <<status, moveOut, requested, termination, tBooked, tKept, paying, today>>
  BY DEF Ending!Crash, Ending!rows
<1>2. Ending!NoPlan \in [out : 1..Ending!Never, on : 1..Ending!Never, dues : Ending!Owing]
  BY DEF Ending!NoPlan, Ending!Owing
<1>3. Ending!TypeOK'
  BY <1>1, <1>2 DEF Ending!TypeOK, Ending!Goto
<1> QED
  BY <1>1, <1>3, EndGoes DEF Places, Unsettled, Settling

(* The jobs and the days.                                                  *)
LEMMA EndDays ==
    ASSUME EndInv, Ending!JobRuns \/ Ending!StatusJobs \/ Ending!DayPasses
    PROVE  EndInv'
<1> USE EndSets DEF EndInv
<1>1. CASE Ending!JobRuns
  <2>1. /\ termination' = Ending!TerminateDue /\ queue' \subseteq EndBookings
        /\ UNCHANGED <<status, moveOut, requested, tBooked, tKept, tPc, plan, paying, differs,
                       today>>
    BY <1>1 DEF Ending!JobRuns, Ending!calls, Ending!Terminable
  <2>2. ASSUME NEW r \in Ending!TermReqs
        PROVE  /\ termination'[r] \in Ending!Termination \cup {Ending!NoTermination}
               /\ termination'[r].dues = termination[r].dues
               /\ termination'[r].payment = termination[r].payment
               /\ termination'[r].status = termination[r].status
                  \/ termination[r].status = "SCHEDULED"
               /\ termination[r] # Ending!NoTermination <=>
                     termination'[r] # Ending!NoTermination
    <3>1. termination[r] \in Ending!Termination \cup {Ending!NoTermination}
      BY DEF Ending!TypeOK
    <3>2. CASE termination[r].status # "SCHEDULED" \/ ~(termination[r].on <= today)
      <4>1. termination'[r] = termination[r]
        BY <2>1, <3>2 DEF Ending!TerminateDue
      <4> QED
        BY <3>1, <4>1
    <3>3. CASE termination[r].status = "SCHEDULED" /\ termination[r].on <= today
      <4>1. termination'[r] = [termination[r] EXCEPT !.status = "TERMINATED"]
        BY <2>1, <3>3 DEF Ending!TerminateDue
      <4>2. termination[r] \in Ending!Termination /\ termination[r] # Ending!NoTermination
        BY <3>1, <3>3 DEF Ending!NoTermination
      <4>3. /\ termination'[r] \in Ending!Termination /\ termination'[r].status = "TERMINATED"
            /\ termination'[r].dues = termination[r].dues
            /\ termination'[r].payment = termination[r].payment
        BY <4>1, <4>2 DEF Ending!Termination
      <4> QED
        BY <3>3, <4>2, <4>3 DEF Ending!NoTermination
    <3> QED
      BY <3>2, <3>3
  <2>3. termination' \in [Ending!TermReqs -> Ending!Termination \cup {Ending!NoTermination}]
    BY <2>1, <2>2 DEF Ending!TerminateDue
  <2>4. Ending!TypeOK'
    BY <2>1, <2>3 DEF Ending!TypeOK
  <2>5. EndPaying'
    BY <2>1, <2>2 DEF EndPaying
  <2>6. Ending!SettledBeforeScheduled'
    BY <2>1, <2>2 DEF Ending!SettledBeforeScheduled
  <2>7. Ending!PaidStaysPaid'
    <3>1. \A p \in tBooked : paying[p] \in Ending!TermReqs
      BY DEF EndPaying, Ending!TypeOK
    <3> QED
      BY <2>1, <2>2, <3>1 DEF Ending!PaidStaysPaid
  <2> QED
    BY <2>4, <2>5, <2>6, <2>7
<1>2. CASE Ending!StatusJobs \/ Ending!DayPasses
  <2>1. UNCHANGED <<moveOut, requested, termination, tBooked, tKept, tPc, plan, paying, differs,
                    queue>>
    BY <1>2 DEF Ending!StatusJobs, Ending!DayPasses, Ending!rows, Ending!calls
  <2>2. status' \in [EndBookings -> {"CONFIRMED", "ACTIVE", "COMPLETED"}]
        /\ today' \in 0..EndLastDay
    BY <1>2 DEF Ending!StatusJobs, Ending!DayPasses, Ending!rows, Ending!TypeOK
  <2>3. Ending!TypeOK'
    BY <2>1, <2>2 DEF Ending!TypeOK
  <2> QED
    BY <2>1, <2>3
       DEF EndPaying, Ending!SettledBeforeScheduled, Ending!PaidStaysPaid
<1> QED
  BY <1>1, <1>2

(* Every step of a customer, of an administrator, of the daily job and of  *)
(* the calendar keeps who pays the dues of a termination, and what he has  *)
(* set when he is done (termination.service.ts 151-366).                    *)
THEOREM EndInvariant == Ending!Spec => []EndInv
<1>1. Ending!Init => EndInv
  BY EndInitially
<1>2. EndInv /\ [Ending!Next]_(Ending!vars) => EndInv'
  <2> SUFFICES ASSUME EndInv, [Ending!Next]_(Ending!vars) PROVE EndInv'
    OBVIOUS
  <2>1. ASSUME NEW r \in Ending!TermReqs, Ending!RequestNext(r) PROVE EndInv'
    BY <2>1, EndPlans, EndRequested DEF Ending!RequestNext
  <2>2. ASSUME NEW p \in Ending!Payers, Ending!PayNext(p) PROVE EndInv'
    BY <2>2, EndPaySteps, EndAdmits, EndWrites DEF Ending!PayNext
  <2>3. CASE UNCHANGED Ending!vars
    BY <2>3
       DEF Ending!vars, Ending!rows, Ending!calls, EndInv, Ending!TypeOK, EndPaying,
           Ending!SettledBeforeScheduled, Ending!PaidStaysPaid
  <2> QED
    BY <2>1, <2>2, <2>3, EndCrashes, EndDays DEF Ending!Next
<1> QED
  BY <1>1, <1>2, PTL DEF Ending!Spec

(* A booking does not end before what it owes was paid, and what was paid  *)
(* stays so, but for a payment of the same dues that failed beside it      *)
(* (terminations/termination.service.ts): the run's property.              *)
THEOREM DuesAreSettled == ServicesSpec => []DuesSettled
<1>1. EndInv => DuesSettled
  BY DEF EndInv, DuesSettled
<1> QED
  BY <1>1, EndFollows, EndInvariant, PTL

-----------------------------------------------------------------------------
(* BookingJobs                                                             *)

QuarterParts == {"jobs", "set", "reviews"}

LEMMA QuartersStart ==
    ASSUME NEW w \in QuarterParts, ServicesInit, part = w
    PROVE  Quarters(w)!Init
BY DEF ServicesInit, QuarterParts

LEMMA QuartersFollow ==
    ASSUME NEW w \in QuarterParts, [ServicesNext]_servicesVars
    PROVE  part' = part /\ (part = w => [Quarters(w)!Next]_(Quarters(w)!bookingJobVars))
BY DEF ServicesNext, servicesVars, quarterVars, Quarters!bookingJobVars, Quarters!jobVars,
       Quarters!requestVars, Quarters!reviewVars, QuarterParts

Heard == {"CANCELLED", "COMPLETED"}

QuarterStatus ==
    {"RESERVED", "CONFIRMED", "ACTIVE", "TERMINATED", "COMPLETED", "CANCELLED"}

QuarterSteps ==
    {"off", "update", "orders", "find", "login", "send", "mark", "complete", "tell"}

QuarterJobs(w) ==
    [{"cancel", "active"} ->
        [pc: QuarterSteps, rows: SUBSET QuarterBookings[w], tell: SUBSET QuarterBookings[w]]]

QuartersTyped(w) ==
    /\ jStatus \in [QuarterBookings[w] -> QuarterStatus]
    /\ calls \in [QuarterBookings[w] -> [{"pay", "cancel"} -> Nat]]
    /\ undone \subseteq QuarterBookings[w] \X (Heard \cup {"ACTIVE"})
    /\ forced \subseteq QuarterBookings[w] \X {"CONFIRMED", "COMPLETED"}
    /\ job \in QuarterJobs(w)
    /\ told \in [QuarterBookings[w] -> [Heard -> Nat]]
    /\ unheard \subseteq QuarterBookings[w] \X Heard
    /\ review \in [QuarterBookings[w] -> {"NONE", "SCHEDULED", "REVIEWED"}]
    /\ asked \in [QuarterBookings[w] -> Nat]
    /\ post \in [QuarterPosts[w] -> {"idle", "read", "posted", "done", "failed"}]
    /\ published \in Nat
    /\ excused \in BOOLEAN

(* A booking has a status, or had it when a request wrote over it; it has  *)
(* begun; a late payment revived it; its notice is neither sent nor lost.  *)
Holds(b, s) == jStatus[b] = s \/ <<b, s>> \in undone
Begun(b) == Holds(b, "ACTIVE") \/ Holds(b, "COMPLETED")
Late(b) == <<b, "CONFIRMED">> \in forced
Unsent(b, s) == told[b][s] = 0 /\ <<b, s>> \notin unheard

(* Nothing of a booking that is not over was written over, unless a late   *)
(* payment revived it; and none is RESERVED again.                         *)
QuartersFresh(w) ==
    \A b \in QuarterBookings[w] :
        /\ jStatus[b] = "RESERVED" => ~Late(b)
        /\ jStatus[b] \in {"RESERVED", "CONFIRMED", "ACTIVE"} /\ ~Late(b) =>
              \A s \in Heard \cup {"ACTIVE"} : <<b, s>> \notin undone

(* Whoever is told, or lost the notice, was to be told of a status the     *)
(* booking has or had; the rows a job has still to tell are neither, and   *)
(* the job that completes bookings has none but while it tells.            *)
QuartersTell(w) ==
    /\ \A b \in QuarterBookings[w], s \in Heard :
          /\ told[b][s] > 0 \/ <<b, s>> \in unheard => Holds(b, s)
          /\ s = "CANCELLED" \/ ~Late(b) =>
                told[b][s] = 0 \/ (told[b][s] = 1 /\ <<b, s>> \notin unheard)
    /\ \A b \in QuarterBookings[w] :
          jStatus[b] = "COMPLETED" =>
              \/ ~Unsent(b, "COMPLETED") \/ b \in job["active"].tell
              \/ <<b, "COMPLETED">> \in forced
    /\ \A b \in job["cancel"].tell : Holds(b, "CANCELLED") /\ Unsent(b, "CANCELLED")
    /\ \A b \in job["active"].tell :
          Holds(b, "COMPLETED") /\ (Late(b) \/ Unsent(b, "COMPLETED"))
    /\ job["active"].pc # "tell" => job["active"].tell = {}

(* A run asks for the reviews of the bookings it made ACTIVE, once.        *)
QuartersAsk(w) ==
    /\ \A b \in QuarterBookings[w] :
          /\ asked[b] > 0 => Begun(b)
          /\ ~Late(b) => asked[b] <= 1
    /\ \A b \in job["active"].rows :
          /\ Begun(b)
          /\ job["active"].pc \in {"find", "login", "send"} => Late(b) \/ asked[b] = 0

(* One review is written at a time, and what is published is marked.       *)
QuartersReview(w) ==
    ~excused =>
        /\ \A p, q \in QuarterPosts[w] :
              post[p] \in {"read", "posted"} /\ post[q] \in {"read", "posted"} => p = q
        /\ \A p \in QuarterPosts[w] :
              /\ post[p] = "read" => published = 0
              /\ post[p] = "posted" => published = 1
        /\ published \in {0, 1}
        /\ review[OpinionOf] = "REVIEWED" => published = 1
        /\ published = 1 =>
              \/ review[OpinionOf] = "REVIEWED"
              \/ \E p \in QuarterPosts[w] : post[p] = "posted"

QuartersInv(w) ==
    /\ QuartersTyped(w) /\ QuartersFresh(w) /\ QuartersTell(w) /\ QuartersAsk(w)
    /\ QuartersReview(w)

LEMMA QuartersInitially ==
    ASSUME NEW w \in QuarterParts, Quarters(w)!Init
    PROVE  QuartersInv(w)
<1>1. OpinionOf \in QuarterBookings[w]
  BY OpinionsAssumption DEF QuarterParts
<1>2. /\ \A j \in {"cancel", "active"} : job[j] = [pc |-> "off", rows |-> {}, tell |-> {}]
      /\ \A b \in QuarterBookings[w], s \in Heard : told[b][s] = 0
      /\ \A b \in QuarterBookings[w] :
            jStatus[b] = "RESERVED" /\ asked[b] = 0 /\ review[b] = "NONE"
      /\ unheard = {} /\ undone = {} /\ forced = {} /\ published = 0
      /\ \A p \in QuarterPosts[w] : post[p] = "idle"
  BY DEF Quarters!Init, Quarters!Jobs, Quarters!Off, Quarters!Heard, Heard
<1>3. QuartersTyped(w)
  <2>1. told \in [QuarterBookings[w] -> [Heard -> Nat]]
    BY DEF Quarters!Init, Quarters!Heard, Heard
  <2>2. job \in QuarterJobs(w)
    BY DEF Quarters!Init, Quarters!Jobs, Quarters!Off, QuarterJobs, QuarterSteps
  <2>3. calls \in [QuarterBookings[w] -> [{"pay", "cancel"} -> Nat]]
    BY DEF Quarters!Init, Quarters!Calls
  <2> QED
    BY <2>1, <2>2, <2>3 DEF Quarters!Init, QuartersTyped, QuarterStatus
<1>4. \A b \in QuarterBookings[w] : ~Late(b) /\ \A s : <<b, s>> \notin undone
  BY <1>2 DEF Late
<1>6. QuartersFresh(w) /\ QuartersAsk(w)
  BY <1>2, <1>4 DEF QuartersAsk, QuartersFresh
<1>7. QuartersTell(w)
  BY <1>2 DEF QuartersTell, Heard
<1>5. QuartersReview(w)
  BY <1>1, <1>2 DEF QuartersReview
<1> QED
  BY <1>3, <1>5, <1>6, <1>7 DEF QuartersInv

(* The reviews depend on little of the rest.                               *)
LEMMA ReviewsStay ==
    ASSUME NEW w, QuartersReview(w), UNCHANGED <<review, post, published, excused>>
    PROVE  QuartersReview(w)'
BY DEF QuartersReview

(* What is told of, asked for or written over stays so.                    *)
StatusGoesOn(w) ==
    /\ jStatus' \in [QuarterBookings[w] -> QuarterStatus]
    /\ undone' \subseteq QuarterBookings[w] \X (Heard \cup {"ACTIVE"})
    /\ forced' \subseteq QuarterBookings[w] \X {"CONFIRMED", "COMPLETED"}
    /\ QuartersFresh(w)'
    /\ \A b \in QuarterBookings[w] :
          /\ \A s \in Heard : Holds(b, s) => Holds(b, s)'
          /\ Begun(b) => Begun(b)'
          /\ Late(b) => Late(b)'
          /\ <<b, "COMPLETED">> \in forced => <<b, "COMPLETED">> \in forced'

LEMMA StatusStays ==
    ASSUME NEW w, QuartersInv(w), UNCHANGED <<jStatus, undone, forced>>
    PROVE  StatusGoesOn(w)
BY DEF StatusGoesOn, QuartersInv, QuartersTyped, QuartersFresh, Holds, Begun, Late

LEMMA UpdatedGoesOn ==
    ASSUME NEW w \in QuarterParts, QuartersInv(w), NEW m,
           NEW from, NEW to,
           <<from, to>> \in {<<"RESERVED", "CANCELLED">>, <<"CONFIRMED", "ACTIVE">>,
                             <<"ACTIVE", "COMPLETED">>},
           Quarters(w)!Updated(from, to, m), UNCHANGED <<undone, forced>>
    PROVE  /\ StatusGoesOn(w)
           /\ \A b \in QuarterBookings[w] :
                 jStatus'[b] = IF b \in Quarters(w)!UpdatedRows(from, to, m) THEN to
                               ELSE jStatus[b]
           /\ Quarters(w)!UpdatedRows(from, to, m) \subseteq
                 {b \in QuarterBookings[w] : jStatus[b] = from}
<1>1. /\ jStatus' \in [QuarterBookings[w] -> QuarterStatus]
      /\ \A b \in QuarterBookings[w] :
            /\ jStatus'[b] = IF b \in Quarters(w)!UpdatedRows(from, to, m) THEN to
                             ELSE jStatus[b]
            /\ jStatus'[b] = jStatus[b] \/ (jStatus[b] = from /\ jStatus'[b] = to)
  BY DEF Quarters!Updated, Quarters!UpdatedRows, QuartersInv, QuartersTyped, QuarterStatus
<1>2. QuartersFresh(w)'
  BY <1>1 DEF QuartersInv, QuartersFresh, Late
<1>3. \A b \in QuarterBookings[w] :
          /\ \A s \in Heard : Holds(b, s) => Holds(b, s)'
          /\ Begun(b) => Begun(b)'
  BY <1>1 DEF Holds, Begun, Heard
<1>4. StatusGoesOn(w)
  BY <1>1, <1>2, <1>3 DEF StatusGoesOn, QuartersInv, QuartersTyped, Late
<1>5. Quarters(w)!UpdatedRows(from, to, m) \subseteq
         {b \in QuarterBookings[w] : jStatus[b] = from}
  BY DEF Quarters!UpdatedRows
<1> QED
  BY <1>1, <1>4, <1>5

(* A request writes by id, and leaves a trace where it had read another    *)
(* status.                                                                 *)
LEMMA OverwritesGoesOn ==
    ASSUME NEW w \in QuarterParts, QuartersInv(w), NEW b \in QuarterBookings[w],
           NEW expected \in QuarterStatus,
           NEW to \in {"CONFIRMED", "CANCELLED", "TERMINATED", "COMPLETED"},
           to = "CONFIRMED" => expected = "RESERVED",
           to = "CANCELLED" => expected \in {"CONFIRMED", "CANCELLED"},
           to \in {"TERMINATED", "COMPLETED"} => expected = to,
           Quarters(w)!Overwrites(b, expected, to)
    PROVE  /\ StatusGoesOn(w)
           /\ \A c \in QuarterBookings[w] :
                 jStatus'[c] = "COMPLETED" =>
                     jStatus[c] = "COMPLETED" \/ <<c, "COMPLETED">> \in forced'
<1>1. /\ jStatus' \in [QuarterBookings[w] -> QuarterStatus]
      /\ jStatus'[b] = to /\ \A c \in QuarterBookings[w] : c # b => jStatus'[c] = jStatus[c]
  BY DEF Quarters!Overwrites, QuartersInv, QuartersTyped, QuarterStatus
<1>2. CASE jStatus[b] \in {expected, to}
  <2>1. undone' = undone /\ forced' = forced
    BY <1>2 DEF Quarters!Overwrites
  <2>2. jStatus[b] = to \/ jStatus[b] \in {"RESERVED", "CONFIRMED"}
    BY <1>2
  <2>3. to = "CONFIRMED" => jStatus[b] \in {"RESERVED", "CONFIRMED"}
    BY <1>2
  <2>4. QuartersFresh(w)'
    BY <1>1, <2>1, <2>3 DEF QuartersInv, QuartersFresh, Late
  <2>5. \A c \in QuarterBookings[w] :
            /\ \A s \in Heard : Holds(c, s) => Holds(c, s)'
            /\ Begun(c) => Begun(c)'
    BY <1>1, <2>1, <2>2 DEF Holds, Begun, Heard
  <2>6. to = "COMPLETED" => jStatus[b] = "COMPLETED"
    BY <1>2
  <2> QED
    BY <1>1, <2>1, <2>4, <2>5, <2>6 DEF StatusGoesOn, QuartersInv, QuartersTyped, Late
<1>3. CASE jStatus[b] \notin {expected, to}
  <2>1. /\ undone' = undone \cup ({b} \X ({jStatus[b]} \cap (Heard \cup {"ACTIVE"})))
        /\ forced' = forced \cup ({b} \X ({to} \cap {"CONFIRMED", "COMPLETED"}))
    BY <1>3 DEF Quarters!Overwrites, Quarters!Asserted, Quarters!Resumed, Quarters!Heard, Heard
  <2>2. /\ undone' \subseteq QuarterBookings[w] \X (Heard \cup {"ACTIVE"})
        /\ forced' \subseteq QuarterBookings[w] \X {"CONFIRMED", "COMPLETED"}
    BY <2>1 DEF QuartersInv, QuartersTyped
  <2>3. /\ \A c \in QuarterBookings[w], s \in Heard \cup {"ACTIVE"} :
              /\ <<c, s>> \in undone => <<c, s>> \in undone'
              /\ c # b => (<<c, s>> \in undone' <=> <<c, s>> \in undone)
        /\ \A s \in Heard \cup {"ACTIVE"} : jStatus[b] = s => <<b, s>> \in undone'
    BY <2>1
  <2>4. /\ \A c \in QuarterBookings[w], s \in {"CONFIRMED", "COMPLETED"} :
              /\ <<c, s>> \in forced => <<c, s>> \in forced'
              /\ c # b => (<<c, s>> \in forced' <=> <<c, s>> \in forced)
        /\ \A s \in {"CONFIRMED", "COMPLETED"} : to = s => <<b, s>> \in forced'
    BY <2>1
  <2>5. QuartersFresh(w)'
    <3> SUFFICES ASSUME NEW c \in QuarterBookings[w]
                 PROVE  /\ jStatus'[c] = "RESERVED" => ~Late(c)'
                        /\ jStatus'[c] \in {"RESERVED", "CONFIRMED", "ACTIVE"} /\ ~Late(c)' =>
                              \A s \in Heard \cup {"ACTIVE"} : <<c, s>> \notin undone'
      BY DEF QuartersFresh
    <3>1. CASE c = b
      BY <1>1, <2>4, <3>1 DEF Late
    <3>2. CASE c # b
      BY <1>1, <2>3, <2>4, <3>2 DEF QuartersInv, QuartersFresh, Late
    <3> QED
      BY <3>1, <3>2
  <2>6. \A c \in QuarterBookings[w] :
            /\ \A s \in Heard : Holds(c, s) => Holds(c, s)'
            /\ Begun(c) => Begun(c)'
    BY <1>1, <2>3 DEF Holds, Begun, Heard
  <2>7. \A c \in QuarterBookings[w] :
            jStatus'[c] = "COMPLETED" =>
                jStatus[c] = "COMPLETED" \/ <<c, "COMPLETED">> \in forced'
    BY <1>1, <2>4
  <2> QED
    BY <1>1, <2>2, <2>4, <2>5, <2>6, <2>7 DEF StatusGoesOn, Late
<1> QED
  BY <1>2, <1>3

LEMMA QuartersPass ==
    ASSUME NEW w \in QuarterParts, QuartersInv(w), NEW b \in QuarterBookings[w],
           NEW m, Quarters(w)!Pass(b, m)
    PROVE  QuartersInv(w)'
BY DEF Quarters!Pass, Quarters!requestVars, Quarters!reviewVars, QuartersInv, QuartersTyped,
       QuartersFresh, QuartersTell, QuartersAsk, QuartersReview, Holds, Begun, Late, Unsent

(* What is told and asked goes on with the statuses.                       *)
LEMMA TellAndAskGoOn ==
    ASSUME NEW w \in QuarterParts, QuartersInv(w), StatusGoesOn(w),
           UNCHANGED <<job, told, unheard, asked>>,
           \A c \in QuarterBookings[w] :
               jStatus'[c] = "COMPLETED" =>
                   jStatus[c] = "COMPLETED" \/ <<c, "COMPLETED">> \in forced'
    PROVE  QuartersTell(w)' /\ QuartersAsk(w)'
<1>1. \A j \in {"cancel", "active"} :
          job[j].tell \subseteq QuarterBookings[w] /\ job[j].rows \subseteq QuarterBookings[w]
  BY DEF QuartersInv, QuartersTyped, QuarterJobs
<1>2. \A c \in QuarterBookings[w], s \in Heard : Unsent(c, s)' <=> Unsent(c, s)
  BY DEF Unsent
<1>3. QuartersTell(w)'
  BY <1>1, <1>2 DEF QuartersInv, QuartersTell, StatusGoesOn, Heard
<1>4. QuartersAsk(w)'
  BY <1>1 DEF QuartersInv, QuartersAsk, StatusGoesOn
<1> QED
  BY <1>3, <1>4

LEMMA QuartersRequests ==
    ASSUME NEW w \in QuarterParts, QuartersInv(w), NEW b \in QuarterBookings[w],
           \/ Quarters(w)!PayBooking(b) \/ Quarters(w)!CancelBooking(b)
           \/ \E to \in {"TERMINATED", "COMPLETED", "CANCELLED"} : Quarters(w)!SetStatus(b, to)
    PROVE  QuartersInv(w)'
<1> USE DEF Quarters!reviewVars
<1>1. ASSUME NEW c \in {"pay", "cancel"}, Quarters(w)!Admit(b, c)
      PROVE  QuartersInv(w)'
  <2>1. calls' \in [QuarterBookings[w] -> [{"pay", "cancel"} -> Nat]]
    BY <1>1 DEF Quarters!Admit, QuartersInv, QuartersTyped
  <2>2. UNCHANGED <<jStatus, undone, forced, job, told, unheard, review, asked, post,
                    published, excused>>
    BY <1>1 DEF Quarters!Admit
  <2>3. QuartersTyped(w)'
    BY <2>1, <2>2 DEF QuartersInv, QuartersTyped
  <2> QED
    BY <2>2, <2>3, ReviewsStay DEF QuartersInv, QuartersFresh, QuartersTell, QuartersAsk,
       Holds, Begun, Late, Unsent
<1>2. ASSUME UNCHANGED <<job, told, unheard, review, asked, post, published, excused>>,
             calls' \in [QuarterBookings[w] -> [{"pay", "cancel"} -> Nat]],
             StatusGoesOn(w),
             \A c \in QuarterBookings[w] :
                 jStatus'[c] = "COMPLETED" =>
                     jStatus[c] = "COMPLETED" \/ <<c, "COMPLETED">> \in forced'
      PROVE  QuartersInv(w)'
  <2>1. QuartersTyped(w)'
    BY <1>2 DEF QuartersInv, QuartersTyped, StatusGoesOn
  <2>2. QuartersTell(w)' /\ QuartersAsk(w)'
    BY <1>2, TellAndAskGoOn
  <2> QED
    BY <1>2, <2>1, <2>2, ReviewsStay DEF QuartersInv, StatusGoesOn
<1>3. ASSUME NEW c \in {"pay", "cancel"}, Quarters(w)!Settle(b, c)
      PROVE  QuartersInv(w)'
  <2>1. calls' \in [QuarterBookings[w] -> [{"pay", "cancel"} -> Nat]]
    BY <1>3 DEF Quarters!Settle, QuartersInv, QuartersTyped
  <2>2. UNCHANGED <<job, told, unheard, review, asked, post, published, excused>>
    BY <1>3 DEF Quarters!Settle
  <2>3. CASE UNCHANGED <<jStatus, undone, forced>>
    BY <1>2, <2>1, <2>2, <2>3, StatusStays
  <2>4. CASE Quarters(w)!Overwrites(b, IF c = "pay" THEN "RESERVED" ELSE "CONFIRMED",
                                    Quarters(w)!Outcome(c))
    <3>1. /\ c = "pay" => Quarters(w)!Overwrites(b, "RESERVED", "CONFIRMED")
          /\ c = "cancel" => Quarters(w)!Overwrites(b, "CONFIRMED", "CANCELLED")
      BY <2>4 DEF Quarters!Outcome
    <3>2. StatusGoesOn(w)
          /\ \A d \in QuarterBookings[w] :
                jStatus'[d] = "COMPLETED" =>
                    jStatus[d] = "COMPLETED" \/ <<d, "COMPLETED">> \in forced'
      BY <3>1, OverwritesGoesOn DEF QuarterStatus
    <3> QED
      BY <1>2, <2>1, <2>2, <3>2
  <2> QED
    BY <1>3, <2>3, <2>4 DEF Quarters!Settle
<1>4. ASSUME NEW to \in {"TERMINATED", "COMPLETED", "CANCELLED"}, Quarters(w)!SetStatus(b, to)
      PROVE  QuartersInv(w)'
  <2>1. UNCHANGED <<calls, job, told, unheard, review, asked, post, published, excused>>
        /\ Quarters(w)!Overwrites(b, to, to)
    BY <1>4 DEF Quarters!SetStatus
  <2>2. StatusGoesOn(w)
        /\ \A d \in QuarterBookings[w] :
              jStatus'[d] = "COMPLETED" =>
                  jStatus[d] = "COMPLETED" \/ <<d, "COMPLETED">> \in forced'
    BY <2>1, OverwritesGoesOn DEF QuarterStatus
  <2> QED
    BY <1>2, <2>1, <2>2 DEF QuartersInv, QuartersTyped
<1> QED
  BY <1>1, <1>3, <1>4 DEF Quarters!PayBooking, Quarters!CancelBooking

(* A job goes on in a step of its own; the other stays where it is.        *)
OnlyJob(j) == \A i \in {"cancel", "active"} : i # j => job'[i] = job[i]

LEMMA QuartersStartOrEnd ==
    ASSUME NEW w \in QuarterParts, QuartersInv(w), NEW j \in {"cancel", "active"},
           Quarters(w)!StartJob(j) \/ Quarters(w)!JobEnds(j)
    PROVE  QuartersInv(w)'
<1> DEFINE s == IF j = "cancel" THEN "CANCELLED" ELSE "COMPLETED"
<1>1. /\ UNCHANGED <<jStatus, calls, undone, forced, told, review, asked, post, published,
                     excused>>
      /\ \E r \in {"off", "update"} :
            job' = [job EXCEPT ![j] = [pc |-> r, rows |-> {}, tell |-> {}]]
      /\ unheard' = unheard \cup (job[j].tell \X {s})
  BY DEF Quarters!StartJob, Quarters!JobEnds, Quarters!Off, Quarters!Unsaid,
         Quarters!requestVars, Quarters!reviewVars
<1>2. /\ job' \in QuarterJobs(w)
      /\ job'[j].pc \in {"off", "update"} /\ job'[j].rows = {} /\ job'[j].tell = {}
      /\ OnlyJob(j)
  BY <1>1 DEF QuartersInv, QuartersTyped, QuarterJobs, QuarterSteps, OnlyJob
<1>3. /\ job[j].tell \subseteq QuarterBookings[w] /\ s \in Heard
      /\ \A b \in job[j].tell : Holds(b, s)
      /\ \A b \in job[j].tell : s = "CANCELLED" \/ ~Late(b) => told[b][s] = 0
  BY DEF QuartersInv, QuartersTyped, QuarterJobs, QuartersTell, Heard, Unsent
<1>4. s = "CANCELLED" <=> j = "cancel"
  OBVIOUS
<1> HIDE DEF s
<1>5. QuartersTyped(w)'
  BY <1>1, <1>2, <1>3 DEF QuartersInv, QuartersTyped
<1>6. QuartersTell(w)'
  <2>1. \A b \in QuarterBookings[w], t \in Heard :
            /\ <<b, t>> \in unheard' <=> <<b, t>> \in unheard \/ (t = s /\ b \in job[j].tell)
            /\ Holds(b, t)' <=> Holds(b, t)
            /\ Late(b)' <=> Late(b)
    BY <1>1, <1>3 DEF Holds, Late
  <2>2. \A b \in QuarterBookings[w], t \in Heard :
          /\ told'[b][t] > 0 \/ <<b, t>> \in unheard' => Holds(b, t)'
          /\ t = "CANCELLED" \/ ~Late(b)' =>
                told'[b][t] = 0 \/ (told'[b][t] = 1 /\ <<b, t>> \notin unheard')
    BY <1>1, <1>3, <2>1 DEF QuartersInv, QuartersTell
  <2>3. \A b \in QuarterBookings[w] :
          jStatus'[b] = "COMPLETED" =>
              \/ ~Unsent(b, "COMPLETED")' \/ b \in job'["active"].tell
              \/ <<b, "COMPLETED">> \in forced'
    <3> SUFFICES ASSUME NEW b \in QuarterBookings[w], jStatus[b] = "COMPLETED",
                        <<b, "COMPLETED">> \notin forced
                 PROVE  ~Unsent(b, "COMPLETED")' \/ b \in job'["active"].tell
      BY <1>1
    <3>1. CASE ~Unsent(b, "COMPLETED")
      BY <1>1, <2>1, <3>1 DEF Unsent, Heard
    <3>2. CASE b \in job["active"].tell /\ j = "active"
      BY <1>3, <1>4, <2>1, <3>2 DEF Unsent, Heard
    <3>3. CASE b \in job["active"].tell /\ j # "active"
      BY <1>2, <3>3 DEF OnlyJob
    <3>4. ~Unsent(b, "COMPLETED") \/ b \in job["active"].tell
      BY DEF QuartersInv, QuartersTell
    <3> QED
      BY <3>1, <3>2, <3>3, <3>4
  <2>4. \A i \in {"cancel", "active"} : job'[i].tell \subseteq QuarterBookings[w]
    BY <1>2 DEF QuarterJobs
  <2>5. \A b \in job'["cancel"].tell : Holds(b, "CANCELLED")' /\ Unsent(b, "CANCELLED")'
    BY <1>1, <1>2, <1>4, <2>1, <2>4 DEF QuartersInv, QuartersTell, Heard, OnlyJob, Unsent
  <2>6. \A b \in job'["active"].tell :
          Holds(b, "COMPLETED")' /\ (Late(b)' \/ Unsent(b, "COMPLETED")')
    BY <1>1, <1>2, <1>4, <2>1, <2>4 DEF QuartersInv, QuartersTell, Heard, OnlyJob, Unsent
  <2>7. job'["active"].pc # "tell" => job'["active"].tell = {}
    BY <1>2 DEF QuartersInv, QuartersTell, OnlyJob
  <2> QED
    BY <2>2, <2>3, <2>5, <2>6, <2>7 DEF QuartersTell
<1>7. QuartersAsk(w)' /\ QuartersFresh(w)'
  BY <1>1, <1>2 DEF QuartersInv, QuartersTyped, QuartersFresh, QuartersAsk, OnlyJob, Begun,
                    Holds, Late
<1> QED
  BY <1>1, <1>5, <1>6, <1>7, ReviewsStay DEF QuartersInv

LEMMA QuartersCancelOverdue ==
    ASSUME NEW w \in QuarterParts, QuartersInv(w), Quarters(w)!CancelOverdue
    PROVE  QuartersInv(w)'
<1> DEFINE rows == Quarters(w)!UpdatedRows("RESERVED", "CANCELLED", "quarter")
<1>1. /\ UNCHANGED <<calls, undone, forced, told, unheard, review, asked, post, published,
                     excused>>
      /\ job' = [job EXCEPT !["cancel"] =
                   [[pc |-> "off", rows |-> {}, tell |-> {}] EXCEPT !.pc = "orders",
                                                                   !.tell = rows]]
  BY DEF Quarters!CancelOverdue, Quarters!Off, Quarters!requestVars, Quarters!reviewVars
<1>2. /\ StatusGoesOn(w)
      /\ \A b \in QuarterBookings[w] :
            jStatus'[b] = IF b \in rows THEN "CANCELLED" ELSE jStatus[b]
      /\ rows \subseteq {b \in QuarterBookings[w] : jStatus[b] = "RESERVED"}
  BY <1>1, UpdatedGoesOn DEF Quarters!CancelOverdue
<1> HIDE DEF rows
<1>3. /\ job' \in QuarterJobs(w)
      /\ job'["cancel"].rows = {} /\ job'["cancel"].tell = rows
      /\ job'["active"] = job["active"]
  BY <1>1, <1>2 DEF QuartersInv, QuartersTyped, QuarterJobs, QuarterSteps
<1>4. QuartersTyped(w)'
  BY <1>1, <1>2, <1>3 DEF QuartersInv, QuartersTyped, StatusGoesOn
<1>5. \A b \in rows : Holds(b, "CANCELLED")' /\ Unsent(b, "CANCELLED")'
  <2>1. \A b \in rows : b \in QuarterBookings[w] /\ ~Holds(b, "CANCELLED")
    BY <1>2 DEF QuartersInv, QuartersFresh, Holds, Heard
  <2>2. \A b \in rows : told[b]["CANCELLED"] = 0 /\ <<b, "CANCELLED">> \notin unheard
    <3> SUFFICES ASSUME NEW b \in rows
                 PROVE  told[b]["CANCELLED"] = 0 /\ <<b, "CANCELLED">> \notin unheard
      OBVIOUS
    <3>1. "CANCELLED" \in Heard /\ told[b]["CANCELLED"] \in Nat
      BY <2>1 DEF QuartersInv, QuartersTyped, Heard
    <3>2. ~(told[b]["CANCELLED"] > 0 \/ <<b, "CANCELLED">> \in unheard)
      BY <2>1, <3>1 DEF QuartersInv, QuartersTell
    <3> QED
      BY <3>1, <3>2
  <2> QED
    BY <1>1, <1>2, <2>1, <2>2 DEF Holds, Unsent
<1>6. QuartersTell(w)'
  <2>1. \A b \in QuarterBookings[w] :
            jStatus'[b] = "COMPLETED" => jStatus[b] = "COMPLETED"
    BY <1>2
  <2>2. /\ \A b \in QuarterBookings[w], s \in Heard :
              (Holds(b, s) => Holds(b, s)') /\ (Unsent(b, s)' <=> Unsent(b, s))
        /\ \A b \in QuarterBookings[w] : Late(b)' <=> Late(b)
    BY <1>1, <1>2 DEF StatusGoesOn, Unsent, Late
  <2>3. job["active"].tell \subseteq QuarterBookings[w]
    BY DEF QuartersInv, QuartersTyped, QuarterJobs
  <2> QED
    BY <1>1, <1>3, <1>5, <2>1, <2>2, <2>3 DEF QuartersInv, QuartersTell, Heard
<1>7. QuartersAsk(w)'
  <2>1. job["active"].rows \subseteq QuarterBookings[w]
    BY DEF QuartersInv, QuartersTyped, QuarterJobs
  <2> QED
    BY <1>1, <1>2, <1>3, <2>1 DEF QuartersInv, QuartersAsk, StatusGoesOn, Late
<1> QED
  BY <1>1, <1>2, <1>4, <1>6, <1>7, ReviewsStay DEF QuartersInv, StatusGoesOn

(* A job that only goes on to its next step.                               *)
LEMMA QuartersGoOn ==
    ASSUME NEW w \in QuarterParts, QuartersInv(w),
           \/ Quarters(w)!CancelOrders \/ Quarters(w)!FindRows \/ Quarters(w)!LogIn
    PROVE  QuartersInv(w)'
<1>1. /\ UNCHANGED <<jStatus, calls, undone, forced, told, unheard, review, asked, post,
                     published, excused>>
      /\ \E j \in {"cancel", "active"}, r \in {"tell", "login", "send", "complete"} :
            /\ job' = [job EXCEPT ![j].pc = r]
            /\ j = "active" => r # "tell" /\ job[j].pc \in {"find", "login"}
  BY DEF Quarters!CancelOrders, Quarters!FindRows, Quarters!LogIn, Quarters!requestVars,
         Quarters!reviewVars
<1>2. PICK j \in {"cancel", "active"}, r \in {"tell", "login", "send", "complete"} :
            /\ job' = [job EXCEPT ![j].pc = r]
            /\ j = "active" => r # "tell" /\ job[j].pc \in {"find", "login"}
  BY <1>1
<1>3. /\ job' \in QuarterJobs(w)
      /\ \A i \in {"cancel", "active"} :
            job'[i].rows = job[i].rows /\ job'[i].tell = job[i].tell
      /\ job'[j].pc = r /\ OnlyJob(j)
  BY <1>2 DEF QuartersInv, QuartersTyped, QuarterJobs, QuarterSteps, OnlyJob
<1>4. QuartersTyped(w)'
  BY <1>1, <1>3 DEF QuartersInv, QuartersTyped
<1>5. QuartersTell(w)'
  BY <1>1, <1>2, <1>3 DEF QuartersInv, QuartersTyped, QuartersTell, Heard, OnlyJob, Holds,
                          Late, Unsent
<1>6. QuartersAsk(w)' /\ QuartersFresh(w)'
  BY <1>1, <1>2, <1>3 DEF QuartersInv, QuartersTyped, QuartersAsk, QuartersFresh, OnlyJob,
                          Begun, Holds, Late
<1> QED
  BY <1>1, <1>4, <1>5, <1>6, ReviewsStay DEF QuartersInv

(* The job that makes bookings active and completes them.                  *)
ActiveJob(w, place, rows, tell) ==
    /\ job' \in QuarterJobs(w)
    /\ job'["active"].pc = place /\ job'["active"].rows = rows /\ job'["active"].tell = tell
    /\ job'["cancel"] = job["cancel"]

LEMMA QuartersActivate ==
    ASSUME NEW w \in QuarterParts, QuartersInv(w), Quarters(w)!Activate
    PROVE  QuartersInv(w)'
<1>0. UNCHANGED <<calls, undone, forced, told, unheard, review, asked, post, published,
                  excused>>
  BY DEF Quarters!Activate, Quarters!requestVars, Quarters!reviewVars
<1>1. CASE jStatus' = jStatus /\ job' = [job EXCEPT !["active"].pc = "complete"]
  <2>1. ActiveJob(w, "complete", job["active"].rows, job["active"].tell)
    BY <1>1 DEF ActiveJob, QuartersInv, QuartersTyped, QuarterJobs, QuarterSteps
  <2>2. job["active"].tell = {}
    BY DEF Quarters!Activate, QuartersInv, QuartersTell
  <2>3. QuartersTyped(w)'
    BY <1>0, <1>1, <2>1 DEF ActiveJob, QuartersInv, QuartersTyped
  <2>4. QuartersTell(w)'
    BY <1>0, <1>1, <2>1, <2>2 DEF ActiveJob, QuartersInv, QuartersTell, Holds, Late, Unsent
  <2>5. QuartersAsk(w)' /\ QuartersFresh(w)'
    BY <1>0, <1>1, <2>1 DEF ActiveJob, QuartersInv, QuartersAsk, QuartersFresh, Begun, Holds,
                            Late
  <2> QED
    BY <1>0, <2>3, <2>4, <2>5, ReviewsStay DEF QuartersInv
<1>2. CASE Quarters(w)!Updated("CONFIRMED", "ACTIVE", "moveIn")
           /\ ~(jStatus' = jStatus /\ job' = [job EXCEPT !["active"].pc = "complete"])
  <2> DEFINE rows == Quarters(w)!UpdatedRows("CONFIRMED", "ACTIVE", "moveIn")
             place == IF rows = {} THEN "complete" ELSE "find"
  <2>1. job["active"].pc = "update"
        /\ job' = [job EXCEPT !["active"] =
                     [[pc |-> "off", rows |-> {}, tell |-> {}] EXCEPT !.pc = place,
                                                                     !.rows = rows]]
    BY <1>2 DEF Quarters!Activate, Quarters!Off
  <2>2. /\ StatusGoesOn(w)
        /\ \A b \in QuarterBookings[w] :
              jStatus'[b] = IF b \in rows THEN "ACTIVE" ELSE jStatus[b]
        /\ rows \subseteq {b \in QuarterBookings[w] : jStatus[b] = "CONFIRMED"}
    BY <1>0, <1>2, UpdatedGoesOn
  <2>3. place \in {"complete", "find"}
    OBVIOUS
  <2> HIDE DEF rows, place
  <2>4. ActiveJob(w, place, rows, {})
    BY <2>1, <2>2, <2>3 DEF ActiveJob, QuartersInv, QuartersTyped, QuarterJobs, QuarterSteps
  <2>5. QuartersTyped(w)'
    BY <1>0, <2>2, <2>4 DEF ActiveJob, StatusGoesOn, QuartersInv, QuartersTyped
  <2>6. QuartersTell(w)'
    <3>1. \A b \in QuarterBookings[w] :
              jStatus'[b] = "COMPLETED" => jStatus[b] = "COMPLETED"
      BY <2>2
    <3>2. job["active"].tell = {}
      BY <2>1 DEF QuartersInv, QuartersTell
    <3>3. job["cancel"].tell \subseteq QuarterBookings[w]
      BY DEF QuartersInv, QuartersTyped, QuarterJobs
    <3>4. /\ \A b \in QuarterBookings[w], s \in Heard :
                (Holds(b, s) => Holds(b, s)') /\ (Unsent(b, s)' <=> Unsent(b, s))
          /\ \A b \in QuarterBookings[w] : Late(b)' <=> Late(b)
      BY <1>0, <2>2 DEF StatusGoesOn, Unsent, Late
    <3> QED
      BY <1>0, <2>4, <3>1, <3>2, <3>3, <3>4 DEF ActiveJob, QuartersInv, QuartersTell, Heard
  <2>7. QuartersAsk(w)'
    <3>1. \A b \in rows : b \in QuarterBookings[w] /\ Begun(b)'
      BY <2>2 DEF Begun, Holds
    <3>2. \A b \in rows : Late(b) \/ ~Begun(b)
      BY <2>2 DEF Begun, Holds, QuartersInv, QuartersFresh, Heard
    <3>3. \A b \in rows : Late(b) \/ asked[b] = 0
      BY <3>1, <3>2 DEF QuartersInv, QuartersTyped, QuartersAsk
    <3> QED
      BY <1>0, <2>2, <2>4, <3>1, <3>3
         DEF ActiveJob, StatusGoesOn, QuartersInv, QuartersAsk, Late
  <2> QED
    BY <1>0, <2>2, <2>5, <2>6, <2>7, ReviewsStay DEF QuartersInv, StatusGoesOn
<1> QED
  BY <1>1, <1>2 DEF Quarters!Activate

LEMMA QuartersComplete ==
    ASSUME NEW w \in QuarterParts, QuartersInv(w), Quarters(w)!Complete
    PROVE  QuartersInv(w)'
<1> DEFINE rows == Quarters(w)!UpdatedRows("ACTIVE", "COMPLETED", "moveOut")
<1>1. /\ UNCHANGED <<calls, undone, forced, told, unheard, review, asked, post, published,
                     excused>>
      /\ job["active"].pc = "complete"
      /\ job' = [job EXCEPT !["active"] =
                   [[pc |-> "off", rows |-> {}, tell |-> {}] EXCEPT !.pc = "tell",
                                                                   !.tell = rows]]
  BY DEF Quarters!Complete, Quarters!Off, Quarters!requestVars, Quarters!reviewVars
<1>2. /\ StatusGoesOn(w)
      /\ \A b \in QuarterBookings[w] :
            jStatus'[b] = IF b \in rows THEN "COMPLETED" ELSE jStatus[b]
      /\ rows \subseteq {b \in QuarterBookings[w] : jStatus[b] = "ACTIVE"}
  BY <1>1, UpdatedGoesOn DEF Quarters!Complete
<1> HIDE DEF rows
<1>3. ActiveJob(w, "tell", {}, rows)
  BY <1>1, <1>2 DEF ActiveJob, QuartersInv, QuartersTyped, QuarterJobs, QuarterSteps
<1>4. QuartersTyped(w)'
  BY <1>1, <1>2, <1>3 DEF ActiveJob, StatusGoesOn, QuartersInv, QuartersTyped
<1>5. \A b \in rows : Holds(b, "COMPLETED")' /\ (Late(b) \/ Unsent(b, "COMPLETED"))
  <2>1. \A b \in rows : b \in QuarterBookings[w] /\ (Late(b) \/ ~Holds(b, "COMPLETED"))
    BY <1>2 DEF QuartersInv, QuartersFresh, Holds, Heard
  <2>2. \A b \in rows : Late(b) \/ Unsent(b, "COMPLETED")
    <3> SUFFICES ASSUME NEW b \in rows, ~Late(b)
                 PROVE  Unsent(b, "COMPLETED")
      OBVIOUS
    <3>1. "COMPLETED" \in Heard /\ told[b]["COMPLETED"] \in Nat
      BY <2>1 DEF QuartersInv, QuartersTyped, Heard
    <3>2. ~(told[b]["COMPLETED"] > 0 \/ <<b, "COMPLETED">> \in unheard)
      BY <2>1, <3>1 DEF QuartersInv, QuartersTell
    <3> QED
      BY <3>1, <3>2 DEF Unsent
  <2> QED
    BY <1>2, <2>1, <2>2 DEF Holds
<1>6. QuartersTell(w)'
  <2>1. \A b \in QuarterBookings[w] :
            jStatus'[b] = "COMPLETED" => jStatus[b] = "COMPLETED" \/ b \in rows
    BY <1>2
  <2>2. job["active"].tell = {} /\ job["cancel"].tell \subseteq QuarterBookings[w]
    BY <1>1 DEF QuartersInv, QuartersTyped, QuarterJobs, QuartersTell
  <2>3. /\ \A b \in QuarterBookings[w], s \in Heard :
              (Holds(b, s) => Holds(b, s)') /\ (Unsent(b, s)' <=> Unsent(b, s))
        /\ \A b \in QuarterBookings[w] : Late(b)' <=> Late(b)
    BY <1>1, <1>2 DEF StatusGoesOn, Unsent, Late
  <2>4. rows \subseteq QuarterBookings[w]
    BY <1>2
  <2> QED
    BY <1>1, <1>3, <1>5, <2>1, <2>2, <2>3, <2>4 DEF ActiveJob, QuartersInv, QuartersTell, Heard
<1>7. QuartersAsk(w)'
  BY <1>1, <1>2, <1>3 DEF ActiveJob, StatusGoesOn, QuartersInv, QuartersAsk, Late
<1> QED
  BY <1>1, <1>2, <1>4, <1>6, <1>7, ReviewsStay DEF QuartersInv, StatusGoesOn

LEMMA QuartersSendOrders ==
    ASSUME NEW w \in QuarterParts, QuartersInv(w), Quarters(w)!SendOrders
    PROVE  QuartersInv(w)'
<1> DEFINE rows == job["active"].rows
<1>1. /\ UNCHANGED <<jStatus, calls, undone, forced, told, unheard, review, post, published,
                     excused>>
      /\ job["active"].pc = "send"
      /\ \/ asked' = asked
         \/ asked' = [b \in QuarterBookings[w] |-> asked[b] + (IF b \in rows THEN 1 ELSE 0)]
      /\ \E r \in {"mark", "complete"} : job' = [job EXCEPT !["active"].pc = r]
  BY DEF Quarters!SendOrders, Quarters!requestVars
<1>2. PICK r \in {"mark", "complete"} : job' = [job EXCEPT !["active"].pc = r]
  BY <1>1
<1>3. ActiveJob(w, r, rows, job["active"].tell)
  BY <1>2 DEF ActiveJob, QuartersInv, QuartersTyped, QuarterJobs, QuarterSteps
<1>4. asked' \in [QuarterBookings[w] -> Nat]
      /\ \A b \in QuarterBookings[w] :
            asked'[b] = asked[b] \/ (b \in rows /\ asked'[b] = asked[b] + 1)
  BY <1>1 DEF QuartersInv, QuartersTyped
<1>5. QuartersTyped(w)'
  BY <1>1, <1>3, <1>4 DEF ActiveJob, QuartersInv, QuartersTyped
<1>6. QuartersTell(w)' /\ QuartersFresh(w)'
  BY <1>1, <1>3 DEF ActiveJob, QuartersInv, QuartersTell, QuartersFresh, Holds, Late, Unsent
<1>7. QuartersAsk(w)'
  BY <1>1, <1>3, <1>4 DEF ActiveJob, QuartersInv, QuartersAsk, QuartersTyped, Begun, Holds,
                          Late
<1> QED
  BY <1>1, <1>5, <1>6, <1>7, ReviewsStay DEF QuartersInv

LEMMA QuartersMarkAsked ==
    ASSUME NEW w \in QuarterParts, QuartersInv(w), Quarters(w)!MarkAsked
    PROVE  QuartersInv(w)'
<1> DEFINE rows == job["active"].rows
<1>1. /\ UNCHANGED <<jStatus, calls, undone, forced, told, unheard, asked, post, published>>
      /\ job["active"].pc = "mark"
      /\ job' = [job EXCEPT !["active"].pc = "complete"]
      /\ \/ review' = review /\ excused' = excused
         \/ /\ review' = [b \in QuarterBookings[w] |->
                              IF b \in rows THEN "SCHEDULED" ELSE review[b]]
            /\ excused' <=> excused \/ (OpinionOf \in rows /\ published > 0)
  BY DEF Quarters!MarkAsked, Quarters!Scheduled, Quarters!requestVars
<1>2. ActiveJob(w, "complete", rows, job["active"].tell)
  BY <1>1 DEF ActiveJob, QuartersInv, QuartersTyped, QuarterJobs, QuarterSteps
<1>3. OpinionOf \in QuarterBookings[w]
  BY OpinionsAssumption DEF QuarterParts
<1>0. excused' \in BOOLEAN
  BY DEF Quarters!MarkAsked, QuartersInv, QuartersTyped
<1>4. QuartersTyped(w)'
  BY <1>0, <1>1, <1>2 DEF ActiveJob, QuartersInv, QuartersTyped
<1>5. QuartersTell(w)' /\ QuartersFresh(w)'
  BY <1>1, <1>2 DEF ActiveJob, QuartersInv, QuartersTell, QuartersFresh, Holds, Late, Unsent
<1>6. QuartersAsk(w)'
  BY <1>1, <1>2 DEF ActiveJob, QuartersInv, QuartersAsk, Begun, Holds, Late
<1>7. QuartersReview(w)'
  BY <1>1, <1>3 DEF QuartersInv, QuartersTyped, QuartersReview
<1> QED
  BY <1>4, <1>5, <1>6, <1>7 DEF QuartersInv

LEMMA QuartersTellOne ==
    ASSUME NEW w \in QuarterParts, QuartersInv(w), NEW b \in QuarterBookings[w],
           Quarters(w)!TellCancelled(b) \/ Quarters(w)!TellCompleted(b)
    PROVE  QuartersInv(w)'
<1>1. PICK j \in {"cancel", "active"}, s \in Heard :
         Quarters(w)!Tell(j, b, s) /\ (s = "CANCELLED" <=> j = "cancel")
  BY DEF Quarters!TellCancelled, Quarters!TellCompleted, Heard
<1>2. /\ UNCHANGED <<jStatus, calls, undone, forced, review, asked, post, published, excused>>
      /\ job[j].pc = "tell" /\ b \in job[j].tell
      /\ job' = [job EXCEPT ![j].tell = @ \ {b}]
      /\ \/ told' = [told EXCEPT ![b][s] = @ + 1] /\ unheard' = unheard
         \/ unheard' = unheard \cup {<<b, s>>} /\ told' = told
  BY <1>1 DEF Quarters!Tell, Quarters!requestVars, Quarters!reviewVars
<1>3. /\ job' \in QuarterJobs(w)
      /\ job'[j].pc = "tell" /\ job'[j].rows = job[j].rows
      /\ job'[j].tell = job[j].tell \ {b} /\ OnlyJob(j)
  BY <1>2 DEF QuartersInv, QuartersTyped, QuarterJobs, QuarterSteps, OnlyJob
<1>4. /\ Holds(b, s)
      /\ s = "CANCELLED" \/ ~Late(b) => told[b][s] = 0 /\ <<b, s>> \notin unheard
  BY <1>1, <1>2 DEF QuartersInv, QuartersTell, Heard, Unsent
<1>5. /\ told' \in [QuarterBookings[w] -> [Heard -> Nat]]
      /\ \A c \in QuarterBookings[w], t \in Heard :
            <<c, t>> # <<b, s>> =>
                told'[c][t] = told[c][t] /\ (<<c, t>> \in unheard' <=> <<c, t>> \in unheard)
      /\ \/ told'[b][s] = told[b][s] + 1 /\ (<<b, s>> \in unheard' <=> <<b, s>> \in unheard)
         \/ told'[b][s] = told[b][s] /\ <<b, s>> \in unheard'
  <2>1. told \in [QuarterBookings[w] -> [Heard -> Nat]]
    BY DEF QuartersInv, QuartersTyped
  <2>2. CASE told' = [told EXCEPT ![b][s] = @ + 1] /\ unheard' = unheard
    <3>1. /\ told' \in [QuarterBookings[w] -> [Heard -> Nat]]
          /\ \A c \in QuarterBookings[w], t \in Heard :
                c # b \/ t # s => told'[c][t] = told[c][t]
          /\ told'[b][s] = told[b][s] + 1
      BY <2>1, <2>2
    <3> QED
      BY <2>2, <3>1
  <2>3. CASE unheard' = unheard \cup {<<b, s>>} /\ told' = told
    BY <2>1, <2>3
  <2> QED
    BY <1>2, <2>2, <2>3
<1>6. QuartersTyped(w)'
  BY <1>2, <1>3, <1>5 DEF QuartersInv, QuartersTyped
<1>7. /\ \A c \in QuarterBookings[w], t \in Heard :
            /\ Holds(c, t)' <=> Holds(c, t)
            /\ <<c, t>> # <<b, s>> => (Unsent(c, t)' <=> Unsent(c, t))
      /\ \A c \in QuarterBookings[w] : Late(c)' <=> Late(c)
      /\ ~Unsent(b, s)'
  <2>1. told[b][s] \in Nat
    BY DEF QuartersInv, QuartersTyped
  <2> QED
    BY <1>2, <1>5, <2>1 DEF Holds, Unsent, Late
<1>8. QuartersTell(w)'
  <2>1. \A c \in QuarterBookings[w], t \in Heard :
          /\ told'[c][t] > 0 \/ <<c, t>> \in unheard' => Holds(c, t)'
          /\ t = "CANCELLED" \/ ~Late(c)' =>
                told'[c][t] = 0 \/ (told'[c][t] = 1 /\ <<c, t>> \notin unheard')
    <3> SUFFICES ASSUME NEW c \in QuarterBookings[w], NEW t \in Heard
                 PROVE  /\ told'[c][t] > 0 \/ <<c, t>> \in unheard' => Holds(c, t)'
                        /\ t = "CANCELLED" \/ ~Late(c)' =>
                              told'[c][t] = 0 \/ (told'[c][t] = 1 /\ <<c, t>> \notin unheard')
      OBVIOUS
    <3>1. CASE c = b /\ t = s
      BY <1>4, <1>5, <1>7, <3>1
    <3>2. CASE <<c, t>> # <<b, s>>
      BY <1>5, <1>7, <3>2 DEF QuartersInv, QuartersTell
    <3> QED
      BY <3>1, <3>2
  <2>2. \A c \in QuarterBookings[w] : jStatus[c] = "COMPLETED" =>
            \/ ~Unsent(c, "COMPLETED")' \/ c \in job'["active"].tell
            \/ <<c, "COMPLETED">> \in forced
    BY <1>1, <1>3, <1>7 DEF QuartersInv, QuartersTell, Heard, OnlyJob
  <2>3. \A i \in {"cancel", "active"} :
            job'[i].tell \subseteq job[i].tell \ (IF i = j THEN {b} ELSE {})
            /\ job[i].tell \subseteq QuarterBookings[w]
    BY <1>3 DEF OnlyJob, QuartersInv, QuartersTyped, QuarterJobs
  <2>4. \A c \in job'["cancel"].tell : Holds(c, "CANCELLED")' /\ Unsent(c, "CANCELLED")'
    <3> SUFFICES ASSUME NEW c \in job'["cancel"].tell
                 PROVE  Holds(c, "CANCELLED")' /\ Unsent(c, "CANCELLED")'
      OBVIOUS
    <3>1. c \in job["cancel"].tell /\ c \in QuarterBookings[w]
          /\ <<c, "CANCELLED">> # <<b, s>> /\ "CANCELLED" \in Heard
      BY <1>1, <2>3 DEF Heard
    <3> QED
      BY <1>7, <3>1 DEF QuartersInv, QuartersTell
  <2>5. \A c \in job'["active"].tell :
            Holds(c, "COMPLETED")' /\ (Late(c)' \/ Unsent(c, "COMPLETED")')
    <3> SUFFICES ASSUME NEW c \in job'["active"].tell
                 PROVE  Holds(c, "COMPLETED")' /\ (Late(c)' \/ Unsent(c, "COMPLETED")')
      OBVIOUS
    <3>1. c \in job["active"].tell /\ c \in QuarterBookings[w]
          /\ <<c, "COMPLETED">> # <<b, s>> /\ "COMPLETED" \in Heard
      BY <1>1, <2>3 DEF Heard
    <3> QED
      BY <1>7, <3>1 DEF QuartersInv, QuartersTell
  <2>6. job'["active"].pc # "tell" => job'["active"].tell = {}
    BY <1>3 DEF QuartersInv, QuartersTell, OnlyJob
  <2> QED
    BY <1>2, <2>1, <2>2, <2>4, <2>5, <2>6 DEF QuartersTell
<1>9. QuartersAsk(w)' /\ QuartersFresh(w)'
  BY <1>2, <1>3 DEF QuartersInv, QuartersAsk, QuartersFresh, OnlyJob, Begun, Holds, Late
<1> QED
  BY <1>2, <1>6, <1>8, <1>9, ReviewsStay DEF QuartersInv

(* A review goes on and leaves the jobs alone.                             *)
LEMMA QuartersOpinions ==
    ASSUME NEW w \in QuarterParts, QuartersInv(w), NEW p \in QuarterPosts[w],
           \/ Quarters(w)!ReadReview(p) \/ Quarters(w)!PostReview(p)
           \/ Quarters(w)!MarkReviewed(p)
    PROVE  QuartersInv(w)'
<1>1. UNCHANGED <<jStatus, calls, undone, forced, job, told, unheard, asked>>
  BY DEF Quarters!ReadReview, Quarters!PostReview, Quarters!MarkReviewed, Quarters!jobVars,
         Quarters!requestVars
<1>2. OpinionOf \in QuarterBookings[w]
  BY OpinionsAssumption DEF QuarterParts
<1>3. QuartersTell(w)' /\ QuartersAsk(w)' /\ QuartersFresh(w)'
  BY <1>1 DEF QuartersInv, QuartersTell, QuartersAsk, QuartersFresh, Begun, Holds, Late, Unsent
<1>4. CASE Quarters(w)!ReadReview(p)
  <2>1. /\ UNCHANGED <<review, published>>
        /\ post[p] = "idle" /\ post' \in [QuarterPosts[w] ->
                                {"idle", "read", "posted", "done", "failed"}]
        /\ post'[p] \in {"read", "failed"}
        /\ post'[p] = "read" => review[OpinionOf] # "REVIEWED"
        /\ \A q \in QuarterPosts[w] : q # p => post'[q] = post[q]
        /\ excused' \in BOOLEAN
        /\ ~excused' => ~excused /\ \A q \in QuarterPosts[w] : post[q] \notin {"read", "posted"}
    BY <1>4 DEF Quarters!ReadReview, Quarters!MayReview, Quarters!Writing, QuartersInv,
                QuartersTyped
  <2>2. QuartersTyped(w)'
    BY <1>1, <2>1 DEF QuartersInv, QuartersTyped
  <2>3. QuartersReview(w)'
    BY <2>1 DEF QuartersInv, QuartersTyped, QuartersReview
  <2> QED
    BY <1>3, <2>2, <2>3 DEF QuartersInv
<1>5. CASE Quarters(w)!PostReview(p)
  <2>1. /\ UNCHANGED review
        /\ post[p] = "read" /\ post' \in [QuarterPosts[w] ->
                                {"idle", "read", "posted", "done", "failed"}]
        /\ \A q \in QuarterPosts[w] : q # p => post'[q] = post[q]
        /\ \/ /\ published' = published + 1 /\ post'[p] = "posted" /\ excused' = excused
           \/ published' = published + 1 /\ post'[p] = "failed" /\ excused' = TRUE
           \/ published' = published /\ post'[p] = "failed" /\ excused' = excused
    BY <1>5 DEF Quarters!PostReview, QuartersInv, QuartersTyped
  <2>0. excused' \in BOOLEAN
    BY <2>1, Zenon DEF QuartersInv, QuartersTyped
  <2>2. QuartersTyped(w)'
    BY <1>1, <2>0, <2>1 DEF QuartersInv, QuartersTyped
  <2>3. QuartersReview(w)'
    BY <2>1 DEF QuartersInv, QuartersReview
  <2> QED
    BY <1>3, <2>2, <2>3 DEF QuartersInv
<1>6. CASE Quarters(w)!MarkReviewed(p)
  <2>1. /\ UNCHANGED published
        /\ post[p] = "posted" /\ post' \in [QuarterPosts[w] ->
                                {"idle", "read", "posted", "done", "failed"}]
        /\ post'[p] \in {"done", "failed"}
        /\ \A q \in QuarterPosts[w] : q # p => post'[q] = post[q]
        /\ review' \in [QuarterBookings[w] -> {"NONE", "SCHEDULED", "REVIEWED"}]
        /\ \/ review'[OpinionOf] = "REVIEWED" /\ excused' = excused
           \/ review' = review /\ excused' = TRUE
    BY <1>2, <1>6 DEF Quarters!MarkReviewed, QuartersInv, QuartersTyped
  <2>2. QuartersTyped(w)'
    BY <1>1, <2>1 DEF QuartersInv, QuartersTyped
  <2>3. QuartersReview(w)'
    BY <2>1 DEF QuartersInv, QuartersReview
  <2> QED
    BY <1>3, <2>2, <2>3 DEF QuartersInv
<1> QED
  BY <1>4, <1>5, <1>6

LEMMA QuartersSteps ==
    ASSUME NEW w \in QuarterParts, QuartersInv(w),
           [Quarters(w)!Next]_(Quarters(w)!bookingJobVars)
    PROVE  QuartersInv(w)'
<1>1. CASE UNCHANGED Quarters(w)!bookingJobVars
  BY <1>1 DEF Quarters!bookingJobVars, Quarters!jobVars, Quarters!requestVars,
              Quarters!reviewVars, QuartersInv, QuartersTyped, QuartersFresh, QuartersTell,
              QuartersAsk, QuartersReview, Begun, Holds, Late, Unsent
<1>2. CASE Quarters(w)!Next
  BY <1>2, QuartersPass, QuartersRequests, QuartersTellOne, QuartersStartOrEnd,
     QuartersCancelOverdue, QuartersGoOn, QuartersActivate, QuartersSendOrders,
     QuartersMarkAsked, QuartersComplete, QuartersOpinions
     DEF Quarters!Next, Quarters!Jobs
<1> QED
  BY <1>1, <1>2

(* The invariant of the jobs and reviews holds of every behaviour of them. *)
THEOREM QuartersInvariant ==
    ServicesSpec => [](\A w \in QuarterParts : part = w => QuartersInv(w))
<1>1. ServicesInit => \A w \in QuarterParts : part = w => QuartersInv(w)
  BY QuartersStart, QuartersInitially
<1>2. (\A w \in QuarterParts : part = w => QuartersInv(w)) /\ [ServicesNext]_servicesVars
          => (\A w \in QuarterParts : part = w => QuartersInv(w))'
  BY QuartersFollow, QuartersSteps
<1> QED
  BY <1>1, <1>2, PTL DEF ServicesSpec

(* The posts that were written, whatever became of them.                   *)
Written(w) == {p \in QuarterPosts[w] : post[p] \in {"posted", "done", "failed"}}

(* The steps of a run before it asks for reviews.                          *)
Unasked == {"update", "find", "login", "send"}

(* Jobs run no more often than their runs, a run asks once for a review,   *)
(* requests overlap as they may, and no more reviews were published than   *)
(* written.                                                                *)
QuartersCounted(w) ==
    /\ elapsed \in [QuarterBookings[w] -> SUBSET Quarters(w)!Moments]
    /\ jobRuns \in [{"cancel", "active"} -> Nat]
    /\ \A j \in {"cancel", "active"} : jobRuns[j] <= QuarterRuns[w][j]
    /\ \A b \in QuarterBookings[w] :
          /\ asked[b] <= jobRuns["active"]
          /\ job["active"].pc \in Unasked => asked[b] < jobRuns["active"]
          /\ \A c \in {"pay", "cancel"} : calls[b][c] <= QuarterOverlaps[w][b][c]
    /\ published <= Cardinality(Written(w))

LEMMA QuartersCountedInitially ==
    ASSUME NEW w \in QuarterParts, Quarters(w)!Init
    PROVE  QuartersCounted(w)
<1>1. \A j \in {"cancel", "active"} : QuarterRuns[w][j] \in Nat
  BY OpinionsAssumption DEF QuarterParts
<1>2. published = 0 /\ Cardinality(Written(w)) \in Nat
  <2>1. IsFiniteSet(Written(w))
    BY OpinionsAssumption, FS_Subset DEF QuarterParts, Written
  <2> QED
    BY <2>1, FS_CardinalityType DEF Quarters!Init
<1>3. /\ elapsed = [b \in QuarterBookings[w] |-> {}]
      /\ jobRuns = [j \in {"cancel", "active"} |-> 0]
      /\ job["active"].pc = "off" /\ \A b \in QuarterBookings[w] : asked[b] = 0
      /\ \A b \in QuarterBookings[w], c \in {"pay", "cancel"} : calls[b][c] = 0
  BY DEF Quarters!Init, Quarters!Jobs, Quarters!Off, Quarters!Calls
<1>4. \A b \in QuarterBookings[w], c \in {"pay", "cancel"} : QuarterOverlaps[w][b][c] \in Nat
  BY OpinionsAssumption DEF QuarterParts
<1> QED
  BY <1>1, <1>2, <1>3, <1>4 DEF QuartersCounted, Unasked

LEMMA WrittenGrows ==
    ASSUME NEW w \in QuarterParts, NEW p \in QuarterPosts[w],
           post \in [QuarterPosts[w] -> {"idle", "read", "posted", "done", "failed"}],
           NEW s \in {"posted", "done", "failed"}, post' = [post EXCEPT ![p] = s]
    PROVE  /\ Cardinality(Written(w)) \in Nat
           /\ Cardinality(Written(w)') \in Nat
           /\ Cardinality(Written(w)') >= Cardinality(Written(w))
           /\ post[p] = "read" => Cardinality(Written(w)') = Cardinality(Written(w)) + 1
<1>1. IsFiniteSet(Written(w)) /\ Written(w)' = Written(w) \cup {p}
  BY OpinionsAssumption, FS_Subset DEF QuarterParts, Written
<1>2. post[p] = "read" => p \notin Written(w)
  BY DEF Written
<1>3. /\ Cardinality(Written(w)) \in Nat
      /\ Cardinality(Written(w) \cup {p})
             = IF p \in Written(w) THEN Cardinality(Written(w)) ELSE Cardinality(Written(w)) + 1
  BY <1>1, FS_AddElement, FS_CardinalityType
<1>4. Cardinality(Written(w)') = Cardinality(Written(w) \cup {p})
  BY <1>1
<1> QED
  BY <1>2, <1>3, <1>4

LEMMA QuartersCountedSteps ==
    ASSUME NEW w \in QuarterParts, QuartersInv(w), QuartersCounted(w),
           [Quarters(w)!Next]_(Quarters(w)!bookingJobVars)
    PROVE  QuartersCounted(w)'
<1> USE DEF Quarters!jobVars, Quarters!requestVars, Quarters!reviewVars
<1>1. /\ job \in QuarterJobs(w)
      /\ post \in [QuarterPosts[w] -> {"idle", "read", "posted", "done", "failed"}]
      /\ asked \in [QuarterBookings[w] -> Nat]
      /\ calls \in [QuarterBookings[w] -> [{"pay", "cancel"} -> Nat]]
      /\ \A j \in {"cancel", "active"} : QuarterRuns[w][j] \in Nat
      /\ \A b \in QuarterBookings[w], c \in {"pay", "cancel"} : QuarterOverlaps[w][b][c] \in Nat
  BY OpinionsAssumption DEF QuartersInv, QuartersTyped, QuarterParts
<1>2. ASSUME NEW b \in QuarterBookings[w], NEW m \in Quarters(w)!Moments, Quarters(w)!Pass(b, m)
      PROVE  QuartersCounted(w)'
  BY <1>2 DEF Quarters!Pass, QuartersCounted, Written
<1>3. ASSUME NEW b \in QuarterBookings[w],
             \/ Quarters(w)!PayBooking(b) \/ Quarters(w)!CancelBooking(b)
             \/ \E to \in {"TERMINATED", "COMPLETED", "CANCELLED"} : Quarters(w)!SetStatus(b, to)
      PROVE  QuartersCounted(w)'
  <2>1. UNCHANGED <<elapsed, jobRuns, asked, job, post, published>>
    BY <1>3 DEF Quarters!PayBooking, Quarters!CancelBooking, Quarters!SetStatus,
                Quarters!Admit, Quarters!Settle
  <2>2. \A d \in QuarterBookings[w], c \in {"pay", "cancel"} :
            \/ calls'[d][c] = calls[d][c]
            \/ calls[d][c] > 0 /\ calls'[d][c] = calls[d][c] - 1
            \/ calls[d][c] < QuarterOverlaps[w][d][c] /\ calls'[d][c] = calls[d][c] + 1
    BY <1>1, <1>3 DEF Quarters!PayBooking, Quarters!CancelBooking, Quarters!SetStatus,
                      Quarters!Admit, Quarters!Settle
  <2>3. \A d \in QuarterBookings[w], c \in {"pay", "cancel"} :
            calls'[d][c] <= QuarterOverlaps[w][d][c]
    BY <1>1, <2>2 DEF QuartersCounted
  <2> QED
    BY <2>1, <2>3 DEF QuartersCounted, Written
<1>4. ASSUME UNCHANGED <<elapsed, calls, jobRuns, asked, post, published>>,
             job'["active"].pc \in Unasked => job["active"].pc \in Unasked
      PROVE  QuartersCounted(w)'
  BY <1>4 DEF QuartersCounted, Written
<1>5. ASSUME NEW b \in QuarterBookings[w],
             Quarters(w)!TellCancelled(b) \/ Quarters(w)!TellCompleted(b)
      PROVE  QuartersCounted(w)'
  BY <1>1, <1>4, <1>5 DEF Quarters!TellCancelled, Quarters!TellCompleted, Quarters!Tell,
                          QuarterJobs
<1>6. ASSUME NEW j \in {"cancel", "active"}, Quarters(w)!StartJob(j)
      PROVE  QuartersCounted(w)'
  <2>1. /\ UNCHANGED <<elapsed, calls, asked, post, published>>
        /\ jobRuns[j] < QuarterRuns[w][j] /\ jobRuns' = [jobRuns EXCEPT ![j] = @ + 1]
        /\ j # "active" => job'["active"] = job["active"]
    BY <1>1, <1>6 DEF Quarters!StartJob, QuarterJobs
  <2>2. /\ jobRuns' \in [{"cancel", "active"} -> Nat]
        /\ \A i \in {"cancel", "active"} : jobRuns'[i] <= QuarterRuns[w][i]
        /\ jobRuns'["active"] = IF j = "active" THEN jobRuns["active"] + 1 ELSE jobRuns["active"]
    BY <1>1, <2>1 DEF QuartersCounted
  <2>3. \A b \in QuarterBookings[w] :
          /\ asked[b] <= jobRuns'["active"]
          /\ job'["active"].pc \in Unasked => asked[b] < jobRuns'["active"]
    BY <1>1, <2>1, <2>2 DEF QuartersCounted
  <2> QED
    BY <2>1, <2>2, <2>3 DEF QuartersCounted, Written
<1>7. ASSUME NEW j \in {"cancel", "active"}, Quarters(w)!JobEnds(j)
      PROVE  QuartersCounted(w)'
  BY <1>1, <1>4, <1>7 DEF Quarters!JobEnds, Quarters!Off, QuarterJobs, Unasked
<1>8. CASE \/ Quarters(w)!CancelOverdue \/ Quarters(w)!CancelOrders \/ Quarters(w)!Activate
           \/ Quarters(w)!FindRows \/ Quarters(w)!LogIn \/ Quarters(w)!MarkAsked
           \/ Quarters(w)!Complete
  <2>1. UNCHANGED <<elapsed, calls, jobRuns, asked, post, published>>
    BY <1>8 DEF Quarters!CancelOverdue, Quarters!CancelOrders, Quarters!Activate,
                Quarters!FindRows, Quarters!LogIn, Quarters!MarkAsked, Quarters!Complete
  <2>2. job'["active"].pc \in Unasked => job["active"].pc \in Unasked
    <3>1. CASE Quarters(w)!CancelOverdue \/ Quarters(w)!CancelOrders
      BY <1>1, <3>1 DEF Quarters!CancelOverdue, Quarters!CancelOrders, QuarterJobs
    <3>2. CASE Quarters(w)!Activate \/ Quarters(w)!FindRows \/ Quarters(w)!LogIn
      BY <3>2 DEF Quarters!Activate, Quarters!FindRows, Quarters!LogIn, Unasked
    <3>3. CASE Quarters(w)!MarkAsked \/ Quarters(w)!Complete
      BY <1>1, <3>3 DEF Quarters!MarkAsked, Quarters!Complete, Quarters!Off, QuarterJobs, Unasked
    <3> QED
      BY <1>8, <3>1, <3>2, <3>3
  <2> QED
    BY <1>4, <2>1, <2>2
<1>9. CASE Quarters(w)!SendOrders
  <2>1. /\ UNCHANGED <<elapsed, calls, jobRuns, post, published>>
        /\ job["active"].pc = "send" /\ job'["active"].pc \in {"mark", "complete"}
        /\ \A b \in QuarterBookings[w] : asked'[b] \in {asked[b], asked[b] + 1}
    BY <1>1, <1>9 DEF Quarters!SendOrders, QuarterJobs
  <2>2. \A b \in QuarterBookings[w] : asked[b] < jobRuns["active"]
    BY <2>1 DEF QuartersCounted, Unasked
  <2>3. \A b \in QuarterBookings[w] : asked'[b] <= jobRuns["active"]
    BY <1>1, <2>1, <2>2 DEF QuartersCounted
  <2> QED
    BY <2>1, <2>3 DEF QuartersCounted, Written, Unasked
<1>10. ASSUME NEW p \in QuarterPosts[w], Quarters(w)!ReadReview(p)
       PROVE  QuartersCounted(w)'
  <2>1. /\ UNCHANGED <<elapsed, calls, jobRuns, asked, job, published>> /\ post[p] = "idle"
        /\ \/ post' = [post EXCEPT ![p] = "read"] \/ post' = [post EXCEPT ![p] = "failed"]
    BY <1>10 DEF Quarters!ReadReview
  <2>2. CASE post' = [post EXCEPT ![p] = "read"]
    <3>1. Written(w)' = Written(w)
      BY <1>1, <2>1, <2>2 DEF Written
    <3> QED
      BY <2>1, <3>1 DEF QuartersCounted
  <2>3. CASE post' = [post EXCEPT ![p] = "failed"]
    <3>1. /\ Cardinality(Written(w)) \in Nat /\ Cardinality(Written(w)') \in Nat
          /\ Cardinality(Written(w)') >= Cardinality(Written(w))
      BY <1>1, <2>3, WrittenGrows
    <3>2. published' <= Cardinality(Written(w))'
      BY <2>1, <3>1 DEF QuartersCounted, QuartersInv, QuartersTyped
    <3> QED
      BY <2>1, <3>2 DEF QuartersCounted
  <2> QED
    BY <2>1, <2>2, <2>3
<1>11. ASSUME NEW p \in QuarterPosts[w], Quarters(w)!PostReview(p) \/ Quarters(w)!MarkReviewed(p)
       PROVE  QuartersCounted(w)'
  <2>1. PICK s \in {"posted", "done", "failed"} :
            /\ UNCHANGED <<elapsed, calls, jobRuns, asked, job>>
            /\ post' = [post EXCEPT ![p] = s]
            /\ \/ published' = published
               \/ published' = published + 1 /\ post[p] = "read"
    BY <1>11 DEF Quarters!PostReview, Quarters!MarkReviewed
  <2>2. /\ Cardinality(Written(w)) \in Nat /\ Cardinality(Written(w)') \in Nat
        /\ Cardinality(Written(w)') >= Cardinality(Written(w))
        /\ post[p] = "read" => Cardinality(Written(w)') = Cardinality(Written(w)) + 1
    BY <1>1, <2>1, WrittenGrows
  <2>3. published' <= Cardinality(Written(w))'
    BY <2>1, <2>2 DEF QuartersCounted, QuartersInv, QuartersTyped
  <2> QED
    BY <2>1, <2>3 DEF QuartersCounted
<1>12. CASE UNCHANGED Quarters(w)!bookingJobVars
  BY <1>12 DEF Quarters!bookingJobVars, QuartersCounted, Written
<1> QED
  BY <1>2, <1>3, <1>5, <1>6, <1>7, <1>8, <1>9, <1>10, <1>11, <1>12
     DEF Quarters!Next, Quarters!Jobs

LEMMA QuartersCountedInvariant ==
    ServicesSpec => [](\A w \in QuarterParts : part = w => QuartersCounted(w))
<1>1. ServicesInit => \A w \in QuarterParts : part = w => QuartersCounted(w)
  BY QuartersStart, QuartersCountedInitially
<1>2. (\A w \in QuarterParts : part = w => QuartersInv(w))
          /\ (\A w \in QuarterParts : part = w => QuartersCounted(w)) /\ [ServicesNext]_servicesVars
          => (\A w \in QuarterParts : part = w => QuartersCounted(w))'
  BY QuartersFollow, QuartersCountedSteps
<1> QED
  BY <1>1, <1>2, QuartersInvariant, PTL DEF ServicesSpec

LEMMA QuartersTypeOK ==
    ASSUME NEW w \in QuarterParts, QuartersInv(w), QuartersCounted(w)
    PROVE  Quarters(w)!TypeOK
<1>1. \A j \in {"cancel", "active"} : jobRuns[j] \in 0..QuarterRuns[w][j]
  BY OpinionsAssumption DEF QuarterParts, QuartersCounted
<1>2. asked \in [QuarterBookings[w] -> 0..QuarterRuns[w]["active"]]
  <2>1. \A b \in QuarterBookings[w] : asked[b] \in Nat /\ asked[b] <= jobRuns["active"]
    BY DEF QuartersInv, QuartersTyped, QuartersCounted
  <2>2. QuarterRuns[w]["active"] \in Nat /\ jobRuns["active"] \in 0..QuarterRuns[w]["active"]
    BY <1>1, OpinionsAssumption DEF QuarterParts
  <2>3. \A b \in QuarterBookings[w] : asked[b] \in 0..QuarterRuns[w]["active"]
    BY <2>1, <2>2
  <2> QED
    BY <2>3 DEF QuartersInv, QuartersTyped
<1>3. published \in 0..Quarters(w)!Cardinality(QuarterPosts[w])
  <2>1. Quarters(w)!Cardinality(QuarterPosts[w]) = Cardinality(QuarterPosts[w])
    BY DEF Quarters!Cardinality, Cardinality
  <2>2. /\ Cardinality(Written(w)) \in Nat /\ Cardinality(QuarterPosts[w]) \in Nat
        /\ Cardinality(Written(w)) <= Cardinality(QuarterPosts[w])
    BY OpinionsAssumption, FS_Subset, FS_CardinalityType DEF QuarterParts, Written
  <2> QED
    BY <2>1, <2>2 DEF QuartersInv, QuartersTyped, QuartersCounted
<1> QED
  BY <1>1, <1>2, <1>3
     DEF QuartersInv, QuartersTyped, QuartersCounted, Heard, QuarterStatus, QuarterJobs,
         QuarterSteps, Quarters!TypeOK, Quarters!Jobs, Quarters!BookingStatus,
         Quarters!ReviewStatus, Quarters!Heard, Quarters!Calls, Quarters!Asserted,
         Quarters!Resumed

-----------------------------------------------------------------------------
(* Notices                                                                 *)

LEMMA NoticesStart == ASSUME ServicesInit PROVE Mailings!Init
BY DEF ServicesInit

LEMMA NoticesFollow ==
    ASSUME [ServicesNext]_servicesVars PROVE [Mailings!Next]_(Mailings!noticeVars)
BY DEF ServicesNext, servicesVars, noticeVars, Mailings!noticeVars

NoticesTyped ==
    /\ nKind \in [NoticeRequests -> {"SMS", "TEMPLATE", "CUSTOM"}]
    /\ answer \in [NoticeRequests -> {"none", "awaited", "isSent", "error"}]
    /\ messages \in [NoticeRequests -> SUBSET NoticeCustomers]
    /\ delivered \subseteq NoticeRequests \X NoticeCustomers

(* Who asks again was answered with an error; what was not asked for is    *)
(* not under way.                                                          *)
NoticesInOrder ==
    /\ \A r \in NoticeRequests : answer[r] = "none" =>
          messages[r] = {} /\ \A p \in NoticeCustomers : <<r, p>> \notin delivered
    /\ \A q, r \in NoticeRequests : q < r /\ answer[r] # "none" => answer[q] = "error"

(* Until an SMS fails everyone has his or it is on its way, and with the   *)
(* answer none is; nobody is left out of an e-mail.                        *)
NoticesReach ==
    \A r \in NoticeRequests :
        /\ nKind[r] = "SMS" /\ answer[r] \in {"awaited", "isSent"} =>
              \A p \in NoticeCustomers : p \in messages[r] \/ <<r, p>> \in delivered
        /\ nKind[r] = "SMS" /\ answer[r] = "isSent" => messages[r] = {}
        /\ nKind[r] = "CUSTOM" /\ answer[r] = "isSent" =>
              \A p \in NoticeCustomers : <<r, p>> \in delivered

NoticesInv == NoticesTyped /\ NoticesInOrder /\ NoticesReach

LEMMA NoticesInitially == ASSUME Mailings!Init PROVE NoticesInv
BY DEF Mailings!Init, Mailings!NotificationType, NoticesInv, NoticesTyped, NoticesInOrder,
       NoticesReach

LEMMA NoticesSend ==
    ASSUME NoticesInv, NEW r \in NoticeRequests, Mailings!Send(r)
    PROVE  NoticesInv'
<1>1. /\ UNCHANGED <<nKind, delivered>>
      /\ answer[r] = "none" /\ \A q \in NoticeRequests : q < r => answer[q] = "error"
      /\ answer' \in [NoticeRequests -> {"none", "awaited", "isSent", "error"}]
      /\ messages' \in [NoticeRequests -> SUBSET NoticeCustomers]
      /\ answer'[r] = "awaited" /\ messages'[r] = NoticeCustomers
      /\ \A q \in NoticeRequests : q # r => answer'[q] = answer[q] /\ messages'[q] = messages[q]
  BY DEF Mailings!Send, Mailings!Answered, NoticesInv, NoticesTyped
<1>2. \A q \in NoticeRequests : q \in Nat
  BY NoticesAssumption
<1>3. NoticesInOrder'
  BY <1>1, <1>2 DEF NoticesInv, NoticesInOrder
<1>4. NoticesTyped' /\ NoticesReach'
  BY <1>1 DEF NoticesInv, NoticesTyped, NoticesReach
<1> QED
  BY <1>3, <1>4 DEF NoticesInv

(* A message to some customers arrives or is lost, and the request, which  *)
(* had no error, may be answered, with "isSent" only when everyone has it. *)
NoticeGoes(r, customers) ==
    /\ UNCHANGED nKind
    /\ answer[r] # "none"
    /\ answer' \in [NoticeRequests -> {"none", "awaited", "isSent", "error"}]
    /\ \/ answer'[r] = answer[r]
       \/ answer[r] = "awaited" /\ answer'[r] \in {"isSent", "error"}
    /\ messages' \in [NoticeRequests -> SUBSET NoticeCustomers]
    /\ messages'[r] = messages[r] \ customers
    /\ delivered' \subseteq NoticeRequests \X NoticeCustomers
    /\ \/ delivered' = delivered \cup ({r} \X customers)
       \/ /\ delivered' = delivered
          /\ nKind[r] # "TEMPLATE" => answer'[r] = "error"
    /\ nKind[r] = "SMS" /\ answer'[r] = "isSent" => messages'[r] = {}
    /\ nKind[r] = "CUSTOM" /\ answer'[r] = "isSent" => customers = NoticeCustomers
    /\ \A q \in NoticeRequests : q # r => answer'[q] = answer[q] /\ messages'[q] = messages[q]

LEMMA NoticesGo ==
    ASSUME NoticesInv, NEW r \in NoticeRequests, NEW customers \in SUBSET NoticeCustomers,
           NoticeGoes(r, customers)
    PROVE  NoticesInv'
<1>1. NoticesTyped'
  BY DEF NoticeGoes, NoticesInv, NoticesTyped
<1>2. NoticesInOrder'
  BY DEF NoticeGoes, NoticesInv, NoticesTyped, NoticesInOrder
<1>3. NoticesReach'
  BY DEF NoticeGoes, NoticesInv, NoticesTyped, NoticesReach
<1> QED
  BY <1>1, <1>2, <1>3 DEF NoticesInv

(* Notices counts as this module does.                                     *)
LEMMA NoticesCount == \A S : Mailings!Cardinality(S) = Cardinality(S)
BY DEF Mailings!Cardinality, Cardinality

LEMMA NoticesSMS ==
    ASSUME NoticesInv, NEW r \in NoticeRequests, NEW p \in NoticeCustomers,
           Mailings!SendSMS(r, p) \/ Mailings!SMSFails(r, p)
    PROVE  NoticesInv'
<1>1. nKind[r] = "SMS" /\ p \in messages[r] /\ UNCHANGED nKind
  BY DEF Mailings!SendSMS, Mailings!SMSFails
<1>2. messages[r] \in SUBSET NoticeCustomers
      /\ answer[r] \in {"awaited", "error"}
  BY <1>1 DEF NoticesInv, NoticesTyped, NoticesInOrder, NoticesReach
<1>3. Cardinality(messages[r]) = 1 => messages[r] \ {p} = {}
  <2>1. IsFiniteSet(messages[r])
    BY <1>2, NoticesAssumption, FS_Subset
  <2> QED
    BY <1>1, <2>1, FS_Singleton
<1>4. /\ messages' = [messages EXCEPT ![r] = @ \ {p}]
      /\ delivered' = delivered \cup ({r} \X {p}) \/ delivered' = delivered
  BY DEF Mailings!SendSMS, Mailings!SMSFails, Mailings!Sent, Mailings!Lost
<1>5. CASE Mailings!SendSMS(r, p)
  <2> DEFINE a == Mailings!Pass(r, answer[r])
  <2>1. delivered' = delivered \cup ({r} \X {p}) /\ answer' = [answer EXCEPT ![r] = a]
    BY <1>5 DEF Mailings!SendSMS, Mailings!Sent, Mailings!Answered
  <2>2. /\ a = answer[r] \/ (answer[r] = "awaited" /\ a = "isSent")
        /\ a = "isSent" => messages[r] \ {p} = {}
    BY <1>2, <1>3, NoticesCount DEF Mailings!Pass
  <2> HIDE DEF a
  <2>3. NoticeGoes(r, {p})
    BY <1>1, <1>2, <1>4, <2>1, <2>2 DEF NoticeGoes, NoticesInv, NoticesTyped
  <2> QED
    BY <2>3, NoticesGo
<1>6. CASE Mailings!SMSFails(r, p)
  <2>1. answer' = [answer EXCEPT ![r] = "error"]
    BY <1>2, <1>6 DEF Mailings!SMSFails, Mailings!Answered, Mailings!Pass, Mailings!RefusedSMS
  <2>2. NoticeGoes(r, {p})
    BY <1>1, <1>2, <1>4, <2>1 DEF NoticeGoes, NoticesInv, NoticesTyped
  <2> QED
    BY <2>2, NoticesGo
<1> QED
  BY <1>5, <1>6

LEMMA NoticesMail ==
    ASSUME NoticesInv, NEW r \in NoticeRequests,
           Mailings!SendEmail(r) \/ Mailings!SendCustomEmail(r)
    PROVE  NoticesInv'
<1>1. /\ nKind[r] # "SMS" /\ answer[r] = "awaited" /\ UNCHANGED nKind
      /\ messages' = [messages EXCEPT ![r] = @ \ NoticeCustomers]
      /\ \E a \in {"isSent", "error"} :
            /\ answer' = [answer EXCEPT ![r] = a]
            /\ \/ delivered' = delivered \cup ({r} \X NoticeCustomers)
               \/ delivered' = delivered /\ (nKind[r] # "TEMPLATE" => a = "error")
  BY DEF Mailings!SendEmail, Mailings!SendCustomEmail, Mailings!Sent, Mailings!Lost,
         Mailings!Answered
<1>2. NoticeGoes(r, NoticeCustomers)
  BY <1>1 DEF NoticeGoes, NoticesInv, NoticesTyped
<1> QED
  BY <1>2, NoticesGo

(* The invariant of the notices holds of every behaviour.                  *)
THEOREM NoticesInvariant == ServicesSpec => []NoticesInv
<1>1. ServicesInit => NoticesInv
  BY NoticesStart, NoticesInitially
<1>2. NoticesInv /\ [ServicesNext]_servicesVars => NoticesInv'
  <2> SUFFICES ASSUME NoticesInv, [Mailings!Next]_(Mailings!noticeVars)
               PROVE  NoticesInv'
    BY NoticesFollow
  <2>1. CASE UNCHANGED Mailings!noticeVars
    BY <2>1 DEF Mailings!noticeVars, NoticesInv, NoticesTyped, NoticesInOrder, NoticesReach
  <2>2. CASE Mailings!Next
    BY <2>2, NoticesSend, NoticesSMS, NoticesMail DEF Mailings!Next
  <2> QED
    BY <2>1, <2>2
<1> QED
  BY <1>1, <1>2, PTL DEF ServicesSpec

(* Whoever asks again was refused: but for the last every request that was *)
(* made is an error, and nobody has more copies than there were errors,    *)
(* and one.                                                                *)
LEMMA NoticesAreTrue == ASSUME NoticesInv PROVE Mailings!SentIsSent
<1> DEFINE failed == {r \in NoticeRequests : answer[r] = "error"}
<1>1. \A r \in NoticeRequests : answer[r] = "isSent" /\ nKind[r] # "TEMPLATE" =>
          {r} \X NoticeCustomers \subseteq delivered
  BY DEF NoticesInv, NoticesTyped, NoticesReach
<1>2. ASSUME NEW p \in NoticeCustomers
      PROVE  Cardinality({r \in NoticeRequests : <<r, p>> \in delivered})
               <= 1 + Cardinality(failed)
  <2> DEFINE had == {r \in NoticeRequests : <<r, p>> \in delivered}
  <2>1. \A r \in had : answer[r] # "none"
    BY DEF NoticesInv, NoticesInOrder
  <2>2. /\ IsFiniteSet(NoticeRequests) /\ IsFiniteSet(failed)
        /\ \A q \in NoticeRequests : q \in Nat
    BY NoticesAssumption, FS_Subset
  <2>3. PICK recent : had \subseteq failed \cup {recent}
    <3>1. CASE had \subseteq failed
      BY <3>1
    <3>2. CASE \E r \in had : r \notin failed
      <4>1. PICK r \in had : r \notin failed
        BY <3>2
      <4>2. \A q \in had : q = r \/ q \in failed
        BY <2>1, <2>2, <4>1 DEF NoticesInv, NoticesInOrder
      <4> QED
        BY <4>2
    <3> QED
      BY <3>1, <3>2
  <2> HIDE DEF had, failed
  <2>4. /\ IsFiniteSet(failed \cup {recent}) /\ Cardinality(failed) \in Nat
        /\ Cardinality(failed \cup {recent}) <= 1 + Cardinality(failed)
    <3>1. Cardinality(failed) \in Nat
      BY <2>2, FS_CardinalityType
    <3>2. /\ IsFiniteSet(failed \cup {recent})
          /\ Cardinality(failed \cup {recent}) =
                IF recent \in failed THEN Cardinality(failed) ELSE Cardinality(failed) + 1
      BY <2>2, FS_AddElement
    <3> QED
      BY <3>1, <3>2
  <2>5. Cardinality(had) <= Cardinality(failed \cup {recent}) /\ IsFiniteSet(had)
    BY <2>3, <2>4, FS_Subset
  <2>6. /\ Cardinality(had) \in Nat /\ Cardinality(failed) \in Nat
        /\ Cardinality(failed \cup {recent}) \in Nat
    BY <2>2, <2>4, <2>5, FS_CardinalityType
  <2>7. Cardinality(had) <= 1 + Cardinality(failed)
    BY <2>4, <2>5, <2>6
  <2> QED
    BY <2>7 DEF had
<1> QED
  BY <1>1, <1>2, NoticesCount DEF Mailings!SentIsSent

(* A customer is told once, and the truth, of what becomes of a booking;   *)
(* a booking is asked for its review once and has one; "isSent" is true,   *)
(* and nobody has more copies than requests failed, and one                *)
(* (cron-job/cancel-bookings, cron-job/active-bookings,                    *)
(* reviews/review.service.ts, notifications/notifications.service.ts):     *)
(* for any number of bookings, reviews, runs, requests and customers.      *)
THEOREM CustomersAreToldOnce == ServicesSpec => []ToldOnce
<1>1. (\A w \in QuarterParts : part = w => QuartersInv(w)) /\ NoticesInv => ToldOnce
  <2>1. ASSUME NEW w \in QuarterParts, QuartersInv(w)
        PROVE  Quarters(w)!ToldOnce /\ Quarters(w)!ReviewedOnce
    <3>1. Quarters(w)!ToldOnce
      <4>1. \A b \in QuarterBookings[w], s \in Heard :
                /\ told[b][s] \in Nat
                /\ told[b][s] > 0 => jStatus[b] = s \/ <<b, s>> \in undone
                /\ s = "CANCELLED" \/ ~Late(b) =>
                      told[b][s] <= 1 /\ (told[b][s] > 0 => <<b, s>> \notin unheard)
        <5> SUFFICES ASSUME NEW b \in QuarterBookings[w], NEW s \in Heard
                     PROVE  /\ told[b][s] \in Nat
                            /\ told[b][s] > 0 => jStatus[b] = s \/ <<b, s>> \in undone
                            /\ s = "CANCELLED" \/ ~Late(b) =>
                                  /\ told[b][s] <= 1
                                  /\ told[b][s] > 0 => <<b, s>> \notin unheard
          OBVIOUS
        <5>1. told[b][s] \in Nat
          BY <2>1 DEF QuartersInv, QuartersTyped
        <5>2. /\ told[b][s] > 0 => Holds(b, s)
              /\ s = "CANCELLED" \/ ~Late(b) =>
                    told[b][s] = 0 \/ (told[b][s] = 1 /\ <<b, s>> \notin unheard)
          BY <2>1 DEF QuartersInv, QuartersTell
        <5> QED
          BY <5>1, <5>2 DEF Holds
      <4>2. \A b \in QuarterBookings[w] :
                jStatus[b] = "COMPLETED" =>
                    \/ told[b]["COMPLETED"] > 0 \/ <<b, "COMPLETED">> \in unheard
                    \/ b \in job["active"].tell \/ <<b, "COMPLETED">> \in forced
        <5> SUFFICES ASSUME NEW b \in QuarterBookings[w], jStatus[b] = "COMPLETED"
                     PROVE  \/ told[b]["COMPLETED"] > 0 \/ <<b, "COMPLETED">> \in unheard
                            \/ b \in job["active"].tell \/ <<b, "COMPLETED">> \in forced
          OBVIOUS
        <5>1. \/ ~Unsent(b, "COMPLETED") \/ b \in job["active"].tell
              \/ <<b, "COMPLETED">> \in forced
          BY <2>1 DEF QuartersInv, QuartersTell
        <5>2. told[b]["COMPLETED"] \in Nat
          BY <4>1 DEF Heard
        <5> QED
          BY <5>1, <5>2 DEF Unsent
      <4> QED
        BY <4>1, <4>2 DEF Quarters!ToldOnce, Quarters!Revived, Quarters!Heard, Heard, Late
    <3>2. Quarters(w)!ReviewedOnce
      BY <2>1 DEF QuartersInv, QuartersTyped, QuartersAsk, QuartersReview,
                  Quarters!ReviewedOnce, Quarters!Revived, Begun, Holds, Late
    <3> QED
      BY <3>1, <3>2
  <2> QED
    BY <2>1, NoticesAreTrue DEF ToldOnce, QuarterParts
<1> QED
  BY <1>1, QuartersInvariant, NoticesInvariant, PTL

LEMMA MailingsTypeOK == ASSUME NoticesInv PROVE Mailings!TypeOK
BY DEF NoticesInv, NoticesTyped, Mailings!TypeOK, Mailings!NotificationType

-----------------------------------------------------------------------------
(* Quotations                                                              *)

QuoteParts == {"quotations", "reminders"}

LEMMA QuotesStart ==
    ASSUME NEW w \in QuoteParts, ServicesInit, part = w
    PROVE  Quoting(w)!Init
BY DEF ServicesInit, QuoteParts

LEMMA QuotesFollow ==
    ASSUME NEW w \in QuoteParts, [ServicesNext]_servicesVars
    PROVE  part' = part /\ (part = w => [Quoting(w)!Next]_(Quoting(w)!quoteVars))
BY DEF ServicesNext, servicesVars, quoteVars, Quoting!quoteVars, Quoting!mails, QuoteParts

(* What a quotation offers, of some of the spaces.                         *)
QuoteItemRows == UNION {[S -> QuotePrices] : S \in SUBSET QuoteSpaces}

QuotesTyped(w) ==
    /\ qNow \in Nat
    /\ price \in [QuoteSpaces -> QuotePrices]
    /\ quote \in [QuoteIds -> [pc: {"idle", "priced", "open", "done", "failed"},
                               status: {"ACTIVE", "ACCEPTED", "REJECTED", "NONE"},
                               created: Nat, items: QuoteItemRows]]
    /\ qStay \in [QuoteBookings[w] ->
                     [pc: {"idle", "shown", "reserved", "paid"},
                      of: QuoteIds \cup {"none"}, item: QuoteSpaces, space: QuoteSpaces,
                      quoted: BOOLEAN, shown: QuotePrices \cup {0},
                      price: QuotePrices \cup {0}]]
    /\ qJob \in [{"remind", "reject"} -> [ran: BOOLEAN, left: SUBSET QuoteIds]]
    /\ declined \in [QuoteIds -> Nat]

(* A booking is made from a quotation that is complete, and of one of its  *)
(* spaces: what it offers does not change any more.                        *)
QuotesNamed(w) ==
    /\ \A q \in QuoteIds : quote[q].status # "NONE" => quote[q].pc = "done"
    /\ \A b \in QuoteBookings[w] : qStay[b].pc # "idle" =>
          /\ qStay[b].of \in QuoteIds /\ quote[qStay[b].of].status # "NONE"
          /\ qStay[b].item \in DOMAIN quote[qStay[b].of].items
    /\ \A q \in qJob["reject"].left : quote[q].status # "NONE"

(* A payment ends what a quotation offers; bookings that have its price    *)
(* met before that.  Until it is stirred a booking costs what was shown.   *)
QuotesPriced(w) ==
    /\ \A b \in QuoteBookings[w] :
          qStay[b].pc = "paid" => quote[qStay[b].of].status \in {"ACCEPTED", "REJECTED"}
    /\ \A b, c \in QuoteBookings[w] :
          /\ b # c /\ qStay[b].of = qStay[c].of
          /\ qStay[b].pc \in {"reserved", "paid"} /\ qStay[b].quoted
          /\ qStay[c].pc \in {"reserved", "paid"} /\ qStay[c].quoted
          => <<b, c>> \in qMet
    /\ \A b \in QuoteBookings[w] \ stirred :
          /\ qStay[b].pc = "shown" =>
                qStay[b].shown
                    = Quoting(w)!PriceFor(qStay[b].of, qStay[b].item, qStay[b].space).price
          /\ qStay[b].pc \in {"reserved", "paid"} => qStay[b].price = qStay[b].shown

(* Who is told of a rejection has no ACTIVE quotation any more, and no run *)
(* has it left.                                                            *)
QuotesDeclined(w) ==
    \A q \in QuoteIds \ clung : declined[q] >= 1 =>
        /\ declined[q] = 1 /\ q \notin qJob["reject"].left
        /\ \/ quote[q].status = "REJECTED"
           \/ /\ quote[q].status = "ACCEPTED"
              /\ \E b \in QuoteBookings[w] : qStay[b].of = q /\ qStay[b].pc = "paid"

(* A quotation that is on its way to be rejected was reminded of or        *)
(* overlooked on a day before; of the day itself only the rows of the run  *)
(* are left.                                                               *)
DayOf(q) == quote[q].created \div 2
QuotesReminded ==
    /\ \A q \in QuoteIds :
          /\ quote[q].pc = "open" => quote[q].created \in {qNow, qNow - 1}
          /\ quote[q].status # "NONE" => quote[q].created <= qNow
          /\ \/ quote[q].status = "REJECTED" \/ q \in qJob["reject"].left
             \/ quote[q].status = "ACTIVE" /\ qNow \div 2 > DayOf(q) + QuoteRemind
             \/ /\ quote[q].status = "ACTIVE" /\ qNow \div 2 = DayOf(q) + QuoteRemind
                /\ qJob["remind"].ran /\ q \notin qJob["remind"].left
             => q \in reminded \cup overlooked
    /\ qNow % 2 = 0 => \A j \in {"remind", "reject"} : ~qJob[j].ran /\ qJob[j].left = {}

QuotesInv(w) ==
    /\ QuotesTyped(w) /\ QuotesNamed(w) /\ QuotesPriced(w) /\ QuotesDeclined(w)
    /\ w = "reminders" => QuotesReminded

LEMMA HalfDays ==
    \A n \in Nat :
        /\ n \div 2 \in Nat /\ 2 * (n \div 2) <= n /\ n <= 2 * (n \div 2) + 1
        /\ n % 2 = 0 => (n + 1) \div 2 = n \div 2 /\ 2 * (n \div 2) = n
        /\ n % 2 = 1 => (n + 1) \div 2 = n \div 2 + 1
        /\ n % 2 \in {0, 1}
OBVIOUS

LEMMA QuotesInitially ==
    ASSUME NEW w \in QuoteParts, Quoting(w)!Init
    PROVE  QuotesInv(w)
<1>1. /\ \A q \in QuoteIds : /\ quote[q].pc = "idle" /\ quote[q].status = "NONE"
                             /\ quote[q].created = 0 /\ declined[q] = 0
      /\ \A b \in QuoteBookings[w] : qStay[b].pc = "idle"
      /\ \A j \in {"remind", "reject"} : qJob[j].ran = FALSE /\ qJob[j].left = {}
      /\ qNow = 0
  BY DEF Quoting!Init, Quoting!NoStay, Quoting!Jobs, Quoting!Idle
<1>2. QuotesTyped(w)
  <2>1. << >> \in QuoteItemRows
    <3>1. << >> \in [{} -> QuotePrices]
      OBVIOUS
    <3> QED
      BY <3>1 DEF QuoteItemRows
  <2>2. (CHOOSE x \in QuoteSpaces : TRUE) \in QuoteSpaces
    BY QuotesAssumption
  <2>3. quote \in [QuoteIds -> [pc: {"idle", "priced", "open", "done", "failed"},
                               status: {"ACTIVE", "ACCEPTED", "REJECTED", "NONE"},
                               created: Nat, items: QuoteItemRows]]
    BY <2>1 DEF Quoting!Init
  <2>4. qStay \in [QuoteBookings[w] ->
                     [pc: {"idle", "shown", "reserved", "paid"},
                      of: QuoteIds \cup {"none"}, item: QuoteSpaces, space: QuoteSpaces,
                      quoted: BOOLEAN, shown: QuotePrices \cup {0},
                      price: QuotePrices \cup {0}]]
    BY <2>2 DEF Quoting!Init, Quoting!NoStay, Quoting!NoQuote
  <2> QED
    BY <2>3, <2>4 DEF Quoting!Init, Quoting!Jobs, Quoting!Idle, QuotesTyped
<1>3. QuotesNamed(w) /\ QuotesPriced(w) /\ QuotesDeclined(w)
  BY <1>1 DEF QuotesNamed, QuotesPriced, QuotesDeclined
<1>4. QuotesReminded
  BY <1>1 DEF QuotesReminded
<1> QED
  BY <1>2, <1>3, <1>4 DEF QuotesInv

LEMMA QuotesReprice ==
    ASSUME NEW w \in QuoteParts, QuotesInv(w), NEW s \in QuoteSpaces, NEW p \in QuotePrices,
           Quoting(w)!Reprice(s, p)
    PROVE  QuotesInv(w)'
<1>1. /\ UNCHANGED <<qNow, quote, qStay, qJob, reminded, overlooked, declined, clung, qMet>>
      /\ price' = [price EXCEPT ![s] = p]
      /\ stirred' = stirred \cup {b \in QuoteBookings[w] : qStay[b].pc = "shown"}
  BY DEF Quoting!Reprice, Quoting!AtWork, Quoting!mails
<1>2. QuotesTyped(w)' /\ QuotesNamed(w)' /\ QuotesDeclined(w)'
  BY <1>1 DEF QuotesInv, QuotesTyped, QuotesNamed, QuotesDeclined
<1>3. QuotesPriced(w)'
  BY <1>1 DEF QuotesInv, QuotesPriced
<1>4. w = "reminders" => QuotesReminded'
  BY <1>1 DEF QuotesInv, QuotesReminded, DayOf
<1> QED
  BY <1>2, <1>3, <1>4 DEF QuotesInv

(* A quotation that nobody knows yet gets on, and is ACTIVE in the end.    *)
QuoteGetsOn(q) ==
    /\ UNCHANGED <<qNow, price, qStay, qJob, reminded, overlooked, declined, clung, stirred,
                   qMet>>
    /\ quote[q].status = "NONE"
    /\ quote' \in [QuoteIds -> [pc: {"idle", "priced", "open", "done", "failed"},
                               status: {"ACTIVE", "ACCEPTED", "REJECTED", "NONE"},
                               created: Nat, items: QuoteItemRows]]
    /\ \A o \in QuoteIds : o # q => quote'[o] = quote[o]
    /\ quote'[q].pc = "open" => quote'[q].created = qNow
    /\ \/ quote'[q].status = "NONE"
       \/ /\ quote'[q].status = "ACTIVE" /\ quote'[q].pc = "done" /\ quote[q].pc = "open"
          /\ quote'[q].created = quote[q].created

LEMMA QuotesGetOn ==
    ASSUME NEW w \in QuoteParts, QuotesInv(w), NEW q \in QuoteIds, QuoteGetsOn(q)
    PROVE  QuotesInv(w)'
<1>1. QuotesTyped(w)'
  BY DEF QuotesInv, QuotesTyped, QuoteGetsOn
<1>2. \A b \in QuoteBookings[w] : qStay[b].pc # "idle" =>
          qStay[b].of \in QuoteIds /\ quote'[qStay[b].of] = quote[qStay[b].of]
  BY DEF QuotesInv, QuotesNamed, QuoteGetsOn
<1>3. QuotesNamed(w)'
  BY <1>2 DEF QuotesInv, QuotesNamed, QuoteGetsOn, QuotesTyped
<1>4. QuotesPriced(w)'
  BY <1>2 DEF QuotesInv, QuotesPriced, QuoteGetsOn, Quoting!PriceFor
<1>5. QuotesDeclined(w)'
  BY DEF QuotesInv, QuotesDeclined, QuoteGetsOn
<1>6. ASSUME w = "reminders"
      PROVE  QuotesReminded'
  <2>1. QuotesReminded /\ qNow \in Nat
    BY <1>6 DEF QuotesInv, QuotesTyped
  <2>2. \A o \in QuoteIds : o # q =>
            /\ quote'[o] = quote[o]
            /\ (o \in reminded \cup overlooked)' <=> o \in reminded \cup overlooked
    BY DEF QuoteGetsOn
  <2>3. q \notin qJob["reject"].left
    BY DEF QuotesInv, QuotesNamed, QuoteGetsOn
  <2>4. /\ quote'[q].pc = "open" => quote'[q].created \in {qNow, qNow - 1}
        /\ quote'[q].status # "NONE" => quote'[q].created <= qNow
    BY <2>1 DEF QuoteGetsOn, QuotesReminded
  <2>5. ASSUME quote'[q].status = "ACTIVE"
        PROVE  /\ ~ qNow \div 2 > quote'[q].created \div 2 + QuoteRemind
               /\ qNow \div 2 = quote'[q].created \div 2 + QuoteRemind => ~qJob["remind"].ran
    <3>1. quote'[q].created \in {qNow, qNow - 1} /\ quote'[q].created \in Nat
      BY <2>1, <2>5 DEF QuoteGetsOn, QuotesReminded
    <3>2. QuoteRemind \in Nat \ {0}
      BY QuotesAssumption
    <3>3. qNow \div 2 <= quote'[q].created \div 2 + QuoteRemind
          /\ (qNow \div 2 = quote'[q].created \div 2 + QuoteRemind => qNow % 2 = 0)
      BY <2>1, <3>1, <3>2, HalfDays
    <3> QED
      BY <2>1, <3>1, <3>2, <3>3, HalfDays DEF QuotesReminded
  <2> QED
    BY <2>1, <2>2, <2>3, <2>4, <2>5 DEF QuotesReminded, DayOf, QuoteGetsOn
<1> QED
  BY <1>1, <1>3, <1>4, <1>5, <1>6 DEF QuotesInv

LEMMA QuotesMade ==
    ASSUME NEW w \in QuoteParts, QuotesInv(w), NEW q \in QuoteIds,
           \/ \E free \in SUBSET QuoteSpaces : Quoting(w)!PriceSpaces(q, free)
           \/ Quoting(w)!OpenQuote(q) \/ Quoting(w)!CommitQuote(q) \/ Quoting(w)!QuoteFails(q)
    PROVE  QuotesInv(w)'
<1> SUFFICES QuoteGetsOn(q)
  BY QuotesGetOn
<1>1. quote \in [QuoteIds -> [pc: {"idle", "priced", "open", "done", "failed"},
                             status: {"ACTIVE", "ACCEPTED", "REJECTED", "NONE"},
                             created: Nat, items: QuoteItemRows]]
  BY DEF QuotesInv, QuotesTyped
<1>2. quote[q].pc # "done" => quote[q].status = "NONE"
  BY <1>1 DEF QuotesInv, QuotesNamed
<1>3. ASSUME NEW free \in SUBSET QuoteSpaces, Quoting(w)!PriceSpaces(q, free)
      PROVE  QuoteGetsOn(q)
  <2>1. CASE free = {}
    BY <1>1, <1>2, <1>3, <2>1 DEF Quoting!PriceSpaces, Quoting!mails, QuoteGetsOn
  <2>2. CASE free # {}
    <3>1. PICK S \in Quoting(w)!Cheapest(free) :
             quote' = [quote EXCEPT ![q].pc = "priced", ![q].items = [s \in S |-> price[s]]]
      BY <1>3, <2>2 DEF Quoting!PriceSpaces
    <3>2. [s \in S |-> price[s]] \in QuoteItemRows
      <4>1. S \in SUBSET QuoteSpaces
        BY DEF Quoting!Cheapest
      <4>2. [s \in S |-> price[s]] \in [S -> QuotePrices]
        BY <4>1 DEF QuotesInv, QuotesTyped
      <4> QED
        BY <4>1, <4>2 DEF QuoteItemRows
    <3> DEFINE items == [s \in S |-> price[s]]
    <3> HIDE DEF items
    <3>3. quote' = [quote EXCEPT ![q].pc = "priced", ![q].items = items]
          /\ items \in QuoteItemRows
      BY <3>1, <3>2 DEF items
    <3>4. UNCHANGED <<qNow, price, qStay, qJob, reminded, overlooked, declined, clung, stirred,
                      qMet>>
      BY <1>3, <2>2 DEF Quoting!PriceSpaces, Quoting!mails
    <3>5. quote[q].status = "NONE"
      BY <1>2, <1>3 DEF Quoting!PriceSpaces
    <3>6. /\ quote' \in [QuoteIds -> [pc: {"idle", "priced", "open", "done", "failed"},
                                      status: {"ACTIVE", "ACCEPTED", "REJECTED", "NONE"},
                                      created: Nat, items: QuoteItemRows]]
          /\ \A o \in QuoteIds : o # q => quote'[o] = quote[o]
          /\ quote'[q].pc = "priced" /\ quote'[q].status = quote[q].status
      BY <1>1, <3>3
    <3> QED
      BY <3>4, <3>5, <3>6 DEF QuoteGetsOn
  <2> QED
    BY <2>1, <2>2
<1>4. CASE Quoting(w)!OpenQuote(q)
  <2>1. qNow \in Nat
    BY DEF QuotesInv, QuotesTyped
  <2> QED
    BY <1>1, <1>2, <1>4, <2>1 DEF Quoting!OpenQuote, Quoting!mails, QuoteGetsOn
<1>5. CASE Quoting(w)!CommitQuote(q)
  BY <1>1, <1>2, <1>5 DEF Quoting!CommitQuote, Quoting!mails, QuoteGetsOn
<1>6. CASE Quoting(w)!QuoteFails(q)
  BY <1>1, <1>2, <1>6 DEF Quoting!QuoteFails, Quoting!mails, QuoteGetsOn
<1> QED
  BY <1>3, <1>4, <1>5, <1>6

(* What is shown is a price.                                               *)
LEMMA PriceForIsPrice ==
    ASSUME NEW w \in QuoteParts, QuotesTyped(w), NEW q \in QuoteIds,
           NEW i \in DOMAIN quote[q].items, NEW s \in QuoteSpaces
    PROVE  /\ Quoting(w)!PriceFor(q, i, s).price \in QuotePrices
           /\ Quoting(w)!PriceFor(q, i, s).quoted <=> quote[q].status = "ACTIVE"
           /\ Quoting(w)!PriceFor(q, i, s).quoted \in BOOLEAN
<1>1. quote[q].items \in QuoteItemRows
  BY DEF QuotesTyped
<1>2. PICK S \in SUBSET QuoteSpaces : quote[q].items \in [S -> QuotePrices]
  BY <1>1 DEF QuoteItemRows
<1>3. quote[q].items[i] \in QuotePrices /\ price[s] \in QuotePrices
  BY <1>2 DEF QuotesTyped
<1> QED
  BY <1>3 DEF Quoting!PriceFor

LEMMA QuotesShow ==
    ASSUME NEW w \in QuoteParts, QuotesInv(w), NEW b \in QuoteBookings[w], NEW q \in QuoteIds,
           NEW i \in QuoteSpaces, NEW s \in QuoteSpaces, Quoting(w)!ShowPrice(b, q, i, s)
    PROVE  QuotesInv(w)'
<1> DEFINE rent == Quoting(w)!PriceFor(q, i, s).price
           rec == [pc |-> "shown", of |-> q, item |-> i, space |-> s, quoted |-> FALSE,
                   shown |-> rent, price |-> 0]
<1>1. /\ UNCHANGED <<qNow, price, quote, qJob, reminded, overlooked, declined, clung, stirred,
                     qMet>>
      /\ qStay' = [qStay EXCEPT ![b] = rec]
      /\ qStay[b].pc = "idle" /\ quote[q].status # "NONE" /\ i \in DOMAIN quote[q].items
  BY DEF Quoting!ShowPrice, Quoting!mails
<1>2. rent \in QuotePrices
  BY <1>1, PriceForIsPrice DEF QuotesInv
<1>3. rec \in [pc: {"idle", "shown", "reserved", "paid"},
               of: QuoteIds \cup {"none"}, item: QuoteSpaces, space: QuoteSpaces,
               quoted: BOOLEAN, shown: QuotePrices \cup {0}, price: QuotePrices \cup {0}]
      /\ rec.pc = "shown" /\ rec.of = q /\ rec.item = i /\ rec.space = s /\ rec.shown = rent
  BY <1>2
<1> HIDE DEF rec
<1>4. /\ QuotesTyped(w)' /\ qStay'[b] = rec
      /\ \A c \in QuoteBookings[w] : c # b => qStay'[c] = qStay[c]
  BY <1>1, <1>3 DEF QuotesInv, QuotesTyped
<1>5. QuotesNamed(w)'
  BY <1>1, <1>3, <1>4 DEF QuotesInv, QuotesNamed
<1>6. QuotesPriced(w)'
  <2>1. \A c \in QuoteBookings[w] : c # b /\ c \notin stirred =>
          /\ qStay'[c].pc = "shown" =>
                qStay'[c].shown
                    = Quoting(w)!PriceFor(qStay'[c].of, qStay'[c].item, qStay'[c].space).price
          /\ qStay'[c].pc \in {"reserved", "paid"} => qStay'[c].price = qStay'[c].shown
    BY <1>4 DEF QuotesInv, QuotesPriced
  <2>2. /\ qStay'[b].shown
            = Quoting(w)!PriceFor(qStay'[b].of, qStay'[b].item, qStay'[b].space).price
        /\ qStay'[b].pc = "shown"
    BY <1>3, <1>4
  <2> QED
    BY <1>1, <1>4, <2>1, <2>2 DEF QuotesInv, QuotesPriced, Quoting!PriceFor
<1>7. QuotesDeclined(w)'
  BY <1>1, <1>4 DEF QuotesInv, QuotesDeclined
<1>8. w = "reminders" => QuotesReminded'
  BY <1>1 DEF QuotesInv, QuotesReminded, DayOf
<1> QED
  BY <1>4, <1>5, <1>6, <1>7, <1>8 DEF QuotesInv

LEMMA QuotesReserve ==
    ASSUME NEW w \in QuoteParts, QuotesInv(w), NEW b \in QuoteBookings[w],
           Quoting(w)!Reserve(b)
    PROVE  QuotesInv(w)'
<1> DEFINE rent == Quoting(w)!PriceFor(qStay[b].of, qStay[b].item, qStay[b].space)
           waiting == {c \in QuoteBookings[w] : qStay[c].pc = "reserved"}
<1>1. /\ UNCHANGED <<qNow, price, quote, qJob, reminded, overlooked, declined, clung, stirred>>
      /\ qStay' = [qStay EXCEPT ![b].pc = "reserved", ![b].quoted = rent.quoted,
                                ![b].price = rent.price]
      /\ qMet' = qMet \cup ({b} \X waiting) \cup (waiting \X {b})
      /\ qStay[b].pc = "shown"
  BY DEF Quoting!Reserve, Quoting!Reserved, Quoting!mails
<1>2. /\ qStay[b].of \in QuoteIds /\ qStay[b].space \in QuoteSpaces
      /\ qStay[b].item \in DOMAIN quote[qStay[b].of].items
  BY <1>1 DEF QuotesInv, QuotesTyped, QuotesNamed
<1>3. /\ rent.price \in QuotePrices /\ rent.quoted \in BOOLEAN
      /\ rent.quoted <=> quote[qStay[b].of].status = "ACTIVE"
  BY <1>2, PriceForIsPrice DEF QuotesInv
<1>4. b \notin stirred => qStay[b].shown = rent.price
  BY <1>1 DEF QuotesInv, QuotesPriced
<1> DEFINE match == rent.quoted
           cost == rent.price
           rec == [qStay[b] EXCEPT !.pc = "reserved", !.quoted = match, !.price = cost]
<1>a. qStay' = [qStay EXCEPT ![b].pc = "reserved", ![b].quoted = match, ![b].price = cost]
  BY <1>1
<1>b. /\ cost \in QuotePrices /\ match \in BOOLEAN
      /\ match <=> quote[qStay[b].of].status = "ACTIVE"
      /\ b \notin stirred => qStay[b].shown = cost
  BY <1>3, <1>4
<1> HIDE DEF match, cost
<1>c. /\ rec \in [pc: {"idle", "shown", "reserved", "paid"},
                  of: QuoteIds \cup {"none"}, item: QuoteSpaces, space: QuoteSpaces,
                  quoted: BOOLEAN, shown: QuotePrices \cup {0}, price: QuotePrices \cup {0}]
      /\ rec.pc = "reserved" /\ rec.price = cost /\ (rec.quoted <=> match)
      /\ rec.shown = qStay[b].shown /\ rec.of = qStay[b].of /\ rec.item = qStay[b].item
      /\ rec.space = qStay[b].space
  <2>1. qStay[b] \in [pc: {"idle", "shown", "reserved", "paid"},
                      of: QuoteIds \cup {"none"}, item: QuoteSpaces, space: QuoteSpaces,
                      quoted: BOOLEAN, shown: QuotePrices \cup {0},
                      price: QuotePrices \cup {0}]
    BY DEF QuotesInv, QuotesTyped
  <2>2. rec.pc = "reserved" /\ rec.price = cost
    BY <2>1
  <2>3. rec.quoted <=> match
    BY <2>1
  <2>4. /\ rec.shown = qStay[b].shown /\ rec.of = qStay[b].of /\ rec.item = qStay[b].item
        /\ rec.space = qStay[b].space
    BY <2>1
  <2>5. rec \in [pc: {"idle", "shown", "reserved", "paid"},
                  of: QuoteIds \cup {"none"}, item: QuoteSpaces, space: QuoteSpaces,
                  quoted: BOOLEAN, shown: QuotePrices \cup {0}, price: QuotePrices \cup {0}]
    BY <1>b, <2>1
  <2> QED
    BY <2>2, <2>3, <2>4, <2>5
<1>d. qStay' = [qStay EXCEPT ![b] = rec]
  BY <1>a DEF QuotesInv, QuotesTyped
<1> HIDE DEF rec
<1>5. /\ QuotesTyped(w)'
      /\ qStay'[b].pc = "reserved" /\ qStay'[b].price = cost
      /\ qStay'[b].quoted <=> match
      /\ qStay'[b].shown = qStay[b].shown
      /\ \A c \in QuoteBookings[w] :
            /\ qStay'[c].of = qStay[c].of /\ qStay'[c].item = qStay[c].item
            /\ qStay'[c].space = qStay[c].space
      /\ \A c \in QuoteBookings[w] : c # b => qStay'[c] = qStay[c]
  <2>1. /\ qStay' \in [QuoteBookings[w] ->
                     [pc: {"idle", "shown", "reserved", "paid"},
                      of: QuoteIds \cup {"none"}, item: QuoteSpaces, space: QuoteSpaces,
                      quoted: BOOLEAN, shown: QuotePrices \cup {0},
                      price: QuotePrices \cup {0}]]
        /\ qStay'[b] = rec
        /\ \A c \in QuoteBookings[w] : c # b => qStay'[c] = qStay[c]
    BY <1>c, <1>d DEF QuotesInv, QuotesTyped
  <2>2. QuotesTyped(w)'
    BY <1>1, <2>1 DEF QuotesInv, QuotesTyped
  <2> QED
    BY <1>c, <2>1, <2>2
<1>6. QuotesNamed(w)'
  <2>1. \A c \in QuoteBookings[w] :
            /\ qStay'[c].of = qStay[c].of /\ qStay'[c].item = qStay[c].item
            /\ qStay'[c].pc # "idle" => qStay[c].pc # "idle"
    BY <1>1, <1>5
  <2> QED
    BY <1>1, <2>1 DEF QuotesInv, QuotesNamed
<1>7. QuotesPriced(w)'
  <2>1. \A c \in QuoteBookings[w] :
          qStay'[c].pc = "paid" => quote[qStay'[c].of].status \in {"ACCEPTED", "REJECTED"}
    BY <1>1, <1>5 DEF QuotesInv, QuotesPriced
  <2>2. ASSUME NEW c \in QuoteBookings[w], c # b, qStay[c].of = qStay[b].of,
               qStay[c].pc \in {"reserved", "paid"}, match
        PROVE  <<b, c>> \in qMet' /\ <<c, b>> \in qMet'
    <3>1. qStay[c].pc # "paid"
      BY <1>b, <2>2 DEF QuotesInv, QuotesPriced
    <3>2. c \in waiting
      BY <2>2, <3>1
    <3> QED
      BY <1>1, <3>2
  <2>3. \A c, d \in QuoteBookings[w] :
          /\ c # d /\ qStay'[c].of = qStay'[d].of
          /\ qStay'[c].pc \in {"reserved", "paid"} /\ qStay'[c].quoted
          /\ qStay'[d].pc \in {"reserved", "paid"} /\ qStay'[d].quoted
          => <<c, d>> \in qMet'
    <3> SUFFICES ASSUME NEW c \in QuoteBookings[w], NEW d \in QuoteBookings[w],
                        c # d, qStay'[c].of = qStay'[d].of,
                        qStay'[c].pc \in {"reserved", "paid"}, qStay'[c].quoted,
                        qStay'[d].pc \in {"reserved", "paid"}, qStay'[d].quoted
                 PROVE  <<c, d>> \in qMet'
      OBVIOUS
    <3>1. CASE c = b
      BY <1>5, <2>2, <3>1
    <3>2. CASE d = b
      BY <1>5, <2>2, <3>2
    <3>3. CASE c # b /\ d # b
      BY <1>1, <1>5, <3>3 DEF QuotesInv, QuotesPriced
    <3> QED
      BY <3>1, <3>2, <3>3
  <2>4. \A c \in QuoteBookings[w] \ stirred :
          /\ qStay'[c].pc = "shown" =>
                qStay'[c].shown
                    = Quoting(w)!PriceFor(qStay'[c].of, qStay'[c].item, qStay'[c].space).price
          /\ qStay'[c].pc \in {"reserved", "paid"} => qStay'[c].price = qStay'[c].shown
    BY <1>b, <1>5 DEF QuotesInv, QuotesPriced
  <2>5. /\ stirred' = stirred /\ quote' = quote
        /\ \A q, i, s : Quoting(w)!PriceFor(q, i, s)' = Quoting(w)!PriceFor(q, i, s)
    BY <1>1 DEF Quoting!PriceFor
  <2> QED
    BY <2>1, <2>3, <2>4, <2>5 DEF QuotesPriced
<1>8. QuotesDeclined(w)'
  <2>1. \A c \in QuoteBookings[w] : qStay[c].pc = "paid" =>
            qStay'[c].pc = "paid" /\ qStay'[c].of = qStay[c].of
    BY <1>1, <1>5
  <2>2. UNCHANGED <<quote, declined, clung, qJob>>
    BY <1>1
  <2> QED
    BY <2>1, <2>2 DEF QuotesInv, QuotesDeclined
<1>9. w = "reminders" => QuotesReminded'
  BY <1>1 DEF QuotesInv, QuotesReminded, DayOf
<1> QED
  BY <1>5, <1>6, <1>7, <1>8, <1>9 DEF QuotesInv

(* A status is set of a quotation that has one, and who is shown its price *)
(* is stirred.                                                             *)
QuoteIsSet(w, q, s) ==
    /\ quote' \in [QuoteIds -> [pc: {"idle", "priced", "open", "done", "failed"},
                               status: {"ACTIVE", "ACCEPTED", "REJECTED", "NONE"},
                               created: Nat, items: QuoteItemRows]]
    /\ quote[q].status # "NONE" /\ quote'[q].status = s
    /\ \A o \in QuoteIds :
          /\ quote'[o].pc = quote[o].pc /\ quote'[o].created = quote[o].created
          /\ quote'[o].items = quote[o].items
          /\ o # q => quote'[o].status = quote[o].status
    /\ stirred' = stirred \cup
          {b \in QuoteBookings[w] : qStay[b].pc = "shown" /\ qStay[b].of = q}

LEMMA QuotesPay ==
    ASSUME NEW w \in QuoteParts, QuotesInv(w), NEW b \in QuoteBookings[w], Quoting(w)!Pay(b)
    PROVE  QuotesInv(w)'
<1> DEFINE q == qStay[b].of
<1>1. /\ UNCHANGED <<qNow, price, qJob, reminded, overlooked, declined, clung, qMet>>
      /\ qStay' = [qStay EXCEPT ![b].pc = "paid"] /\ qStay[b].pc = "reserved"
      /\ quote' = [quote EXCEPT ![q].status = "ACCEPTED"]
      /\ stirred' = stirred \cup
            {c \in QuoteBookings[w] : qStay[c].pc = "shown" /\ qStay[c].of = q}
  BY DEF Quoting!Pay, Quoting!AtWork, Quoting!mails
<1>2. q \in QuoteIds /\ quote[q].status # "NONE"
  BY <1>1 DEF QuotesInv, QuotesNamed
<1> HIDE DEF q
<1>3. QuoteIsSet(w, q, "ACCEPTED")
  BY <1>1, <1>2 DEF QuoteIsSet, QuotesInv, QuotesTyped
<1>4. /\ QuotesTyped(w)' /\ qStay'[b].pc = "paid"
      /\ \A c \in QuoteBookings[w] :
            /\ qStay'[c].of = qStay[c].of /\ qStay'[c].item = qStay[c].item
            /\ qStay'[c].space = qStay[c].space /\ qStay'[c].quoted = qStay[c].quoted
            /\ qStay'[c].shown = qStay[c].shown /\ qStay'[c].price = qStay[c].price
            /\ c # b => qStay'[c].pc = qStay[c].pc
  BY <1>1, <1>3 DEF QuotesInv, QuotesTyped, QuoteIsSet
<1>5. QuotesNamed(w)'
  BY <1>1, <1>3, <1>4 DEF QuotesInv, QuotesNamed, QuoteIsSet
<1>6. QuotesPriced(w)'
  <2>1. \A c \in QuoteBookings[w] :
          qStay'[c].pc = "paid" => quote'[qStay'[c].of].status \in {"ACCEPTED", "REJECTED"}
    BY <1>1, <1>2, <1>3, <1>4 DEF QuotesInv, QuotesPriced, QuotesNamed, QuoteIsSet, q
  <2>2. \A c, d \in QuoteBookings[w] :
          /\ c # d /\ qStay'[c].of = qStay'[d].of
          /\ qStay'[c].pc \in {"reserved", "paid"} /\ qStay'[c].quoted
          /\ qStay'[d].pc \in {"reserved", "paid"} /\ qStay'[d].quoted
          => <<c, d>> \in qMet
    BY <1>1, <1>4 DEF QuotesInv, QuotesPriced
  <2>3. ASSUME NEW c \in QuoteBookings[w] \ stirred'
        PROVE  /\ qStay'[c].pc = "shown" =>
                    qStay'[c].shown
                      = Quoting(w)!PriceFor(qStay[c].of, qStay[c].item, qStay[c].space)'.price
               /\ qStay'[c].pc \in {"reserved", "paid"} => qStay'[c].price = qStay'[c].shown
    <3>1. c \notin stirred
      BY <1>1
    <3>2. ASSUME qStay'[c].pc = "shown"
          PROVE  c # b /\ qStay[c].of \in QuoteIds /\ qStay[c].of # q /\ qStay[c].pc = "shown"
      BY <1>1, <1>4, <3>2 DEF QuotesInv, QuotesNamed
    <3>3. qStay'[c].pc \in {"reserved", "paid"} => qStay'[c].price = qStay'[c].shown
      BY <1>1, <1>4, <3>1 DEF QuotesInv, QuotesPriced
    <3>4. qStay'[c].pc = "shown" =>
              qStay'[c].shown
                  = Quoting(w)!PriceFor(qStay[c].of, qStay[c].item, qStay[c].space)'.price
      BY <1>1, <1>3, <1>4, <3>1, <3>2 DEF QuotesInv, QuotesPriced, QuoteIsSet, Quoting!PriceFor
    <3> QED
      BY <3>3, <3>4
  <2> QED
    BY <1>1, <1>4, <2>1, <2>2, <2>3 DEF QuotesPriced, Quoting!PriceFor
<1>7. QuotesDeclined(w)'
  <2>1. ASSUME NEW o \in QuoteIds \ clung, declined[o] >= 1
        PROVE  \/ quote'[o].status = "REJECTED"
               \/ /\ quote'[o].status = "ACCEPTED"
                  /\ \E c \in QuoteBookings[w] : qStay'[c].of = o /\ qStay'[c].pc = "paid"
    <3>1. CASE o = q
      BY <1>3, <1>4, <3>1 DEF QuoteIsSet, q
    <3>2. CASE o # q
      <4>1. quote'[o].status = quote[o].status
        BY <1>3, <3>2 DEF QuoteIsSet
      <4> QED
        BY <1>1, <1>4, <2>1, <4>1 DEF QuotesInv, QuotesDeclined
    <3> QED
      BY <3>1, <3>2
  <2> QED
    BY <1>1, <2>1 DEF QuotesInv, QuotesDeclined
<1>8. ASSUME w = "reminders"
      PROVE  QuotesReminded'
  BY <1>1, <1>3, <1>8 DEF QuotesInv, QuotesReminded, QuoteIsSet, DayOf
<1> QED
  BY <1>4, <1>5, <1>6, <1>7, <1>8 DEF QuotesInv

LEMMA QuotesStartJob ==
    ASSUME NEW w \in QuoteParts, QuotesInv(w), NEW j \in {"remind", "reject"},
           Quoting(w)!StartJob(j)
    PROVE  QuotesInv(w)'
<1> DEFINE old == Quoting(w)!Old
           asOld == Quoting(w)!AsOld
           toRemind == Quoting(w)!ToRemind
<1>1. /\ UNCHANGED <<qNow, price, quote, qStay, reminded, overlooked, declined, clung, stirred,
                     qMet>>
      /\ qNow % 2 = 1
      /\ \E some \in SUBSET asOld :
            qJob' = [qJob EXCEPT ![j] =
               [ran |-> TRUE, left |-> IF j = "remind" THEN toRemind ELSE old \cup some]]
  BY DEF Quoting!StartJob, Quoting!mails
<1>2. PICK some \in SUBSET asOld :
            qJob' = [qJob EXCEPT ![j] =
               [ran |-> TRUE, left |-> IF j = "remind" THEN toRemind ELSE old \cup some]]
  BY <1>1
<1> DEFINE rows == IF j = "remind" THEN toRemind ELSE old \cup some
<1>3. /\ rows \subseteq {q \in QuoteIds : quote[q].status = "ACTIVE"}
      /\ j = "remind" => \A q \in QuoteIds :
            quote[q].status = "ACTIVE" /\ DayOf(q) = qNow \div 2 - QuoteRemind => q \in rows
      /\ j = "reject" => \A q \in rows : quote[q].created <= qNow - 2 * QuoteKeep[w]
  <2>1. /\ old \subseteq {q \in QuoteIds : quote[q].status = "ACTIVE"}
        /\ asOld \subseteq {q \in QuoteIds : quote[q].status = "ACTIVE"}
        /\ toRemind \subseteq {q \in QuoteIds : quote[q].status = "ACTIVE"}
    BY DEF Quoting!Old, Quoting!AsOld, Quoting!Active, Quoting!ToRemind
  <2>2. \A q \in QuoteIds :
            quote[q].status = "ACTIVE" /\ DayOf(q) = qNow \div 2 - QuoteRemind => q \in toRemind
    BY DEF Quoting!Active, Quoting!ToRemind, Quoting!OfDay, Quoting!Today, DayOf
  <2>3. ASSUME NEW q \in old \cup asOld
        PROVE  quote[q].created <= qNow - 2 * QuoteKeep[w]
    <3>1. /\ q \in QuoteIds
          /\ \/ quote[q].created < qNow - 2 * QuoteKeep[w]
             \/ quote[q].created = qNow - 2 * QuoteKeep[w]
      BY DEF Quoting!Old, Quoting!AsOld, Quoting!Active
    <3>2. quote[q].created \in Nat /\ qNow \in Nat /\ QuoteKeep[w] \in Nat
      BY <3>1, QuotesAssumption DEF QuotesInv, QuotesTyped, QuoteParts
    <3> QED
      BY <3>1, <3>2
  <2> HIDE DEF old, asOld, toRemind
  <2> QED
    BY <2>1, <2>2, <2>3
<1> HIDE DEF rows, old, asOld, toRemind
<1>4. /\ qJob' \in [{"remind", "reject"} -> [ran: BOOLEAN, left: SUBSET QuoteIds]]
      /\ qJob'[j].left = rows
      /\ \A i \in {"remind", "reject"} : i # j => qJob'[i] = qJob[i]
  BY <1>2, <1>3 DEF QuotesInv, QuotesTyped, rows
<1>5. QuotesTyped(w)'
  BY <1>1, <1>4 DEF QuotesInv, QuotesTyped
<1>6. QuotesNamed(w)'
  BY <1>1, <1>3, <1>4 DEF QuotesInv, QuotesNamed
<1>7. QuotesPriced(w)'
  BY <1>1 DEF QuotesInv, QuotesPriced, Quoting!PriceFor
<1>8. QuotesDeclined(w)'
  BY <1>1, <1>3, <1>4 DEF QuotesInv, QuotesDeclined
<1>9. ASSUME w = "reminders"
      PROVE  QuotesReminded'
  <2>1. QuotesReminded /\ qNow \in Nat /\ \A q \in QuoteIds : quote[q].created \in Nat
    BY <1>9 DEF QuotesInv, QuotesTyped
  <2>2. /\ QuoteKeep[w] \in Nat /\ QuoteRemind \in Nat \ {0} /\ QuoteRemind < QuoteKeep[w]
    BY <1>9, QuotesAssumption
  <2>3. CASE j = "remind"
    <3>1. \A q \in QuoteIds :
            ~(/\ quote[q].status = "ACTIVE" /\ qNow \div 2 = DayOf(q) + QuoteRemind
              /\ q \notin qJob'["remind"].left)
      <4> SUFFICES ASSUME NEW q \in QuoteIds, quote[q].status = "ACTIVE",
                          qNow \div 2 = DayOf(q) + QuoteRemind
                   PROVE  q \in rows
        BY <1>4, <2>3
      <4>1. DayOf(q) \in Nat /\ qNow \div 2 \in Nat
        BY <2>1, HalfDays DEF DayOf
      <4>2. DayOf(q) = qNow \div 2 - QuoteRemind
        BY <2>2, <4>1
      <4> QED
        BY <1>3, <2>3, <4>2
    <3>2. qJob'["reject"] = qJob["reject"]
      BY <1>4, <2>3
    <3> QED
      BY <1>1, <2>1, <3>1, <3>2 DEF QuotesReminded, DayOf
  <2>4. CASE j = "reject"
    <3>1. \A q \in rows : q \in reminded \cup overlooked
      <4> SUFFICES ASSUME NEW q \in rows
                   PROVE  q \in reminded \cup overlooked
        OBVIOUS
      <4>1. /\ q \in QuoteIds /\ quote[q].status = "ACTIVE" /\ quote[q].created \in Nat
            /\ quote[q].created <= qNow - 2 * QuoteKeep[w]
        BY <1>3, <2>1, <2>4
      <4>2. qNow \div 2 > DayOf(q) + QuoteRemind
        BY <2>1, <2>2, <4>1, HalfDays DEF DayOf
      <4> QED
        BY <2>1, <4>1, <4>2 DEF QuotesReminded
    <3>2. qJob'["remind"] = qJob["remind"] /\ qJob'["reject"].left = rows
      BY <1>4, <2>4
    <3> QED
      BY <1>1, <2>1, <3>1, <3>2 DEF QuotesReminded, DayOf
  <2> QED
    BY <2>3, <2>4
<1> QED
  BY <1>5, <1>6, <1>7, <1>8, <1>9 DEF QuotesInv

LEMMA QuotesSendReminder ==
    ASSUME NEW w \in QuoteParts, QuotesInv(w), NEW q \in QuoteIds, Quoting(w)!SendReminder(q)
    PROVE  QuotesInv(w)'
<1>1. /\ UNCHANGED <<qNow, price, quote, qStay, declined, clung, stirred, qMet>>
      /\ qJob' = [qJob EXCEPT !["remind"].left = @ \ {q}]
      /\ reminded \subseteq reminded' /\ overlooked \subseteq overlooked'
      /\ q \in reminded' \cup overlooked'
  BY DEF Quoting!SendReminder
<1>2. /\ qJob' \in [{"remind", "reject"} -> [ran: BOOLEAN, left: SUBSET QuoteIds]]
      /\ qJob'["remind"].left = qJob["remind"].left \ {q}
      /\ qJob'["remind"].ran <=> qJob["remind"].ran
      /\ qJob'["reject"] = qJob["reject"]
  BY <1>1 DEF QuotesInv, QuotesTyped
<1>3. QuotesTyped(w)' /\ QuotesNamed(w)' /\ QuotesDeclined(w)'
  BY <1>1, <1>2 DEF QuotesInv, QuotesTyped, QuotesNamed, QuotesDeclined
<1>4. QuotesPriced(w)'
  BY <1>1 DEF QuotesInv, QuotesPriced, Quoting!PriceFor
<1>5. ASSUME w = "reminders"
      PROVE  QuotesReminded'
  <2>1. QuotesReminded
    BY <1>5 DEF QuotesInv
  <2>2. \A o \in QuoteIds : o # q => (o \in qJob'["remind"].left <=> o \in qJob["remind"].left)
    BY <1>2
  <2> QED
    BY <1>1, <1>2, <2>1, <2>2 DEF QuotesReminded, DayOf
<1> QED
  BY <1>3, <1>4, <1>5 DEF QuotesInv

LEMMA QuotesReject ==
    ASSUME NEW w \in QuoteParts, QuotesInv(w), NEW q \in QuoteIds, Quoting(w)!Reject(q)
    PROVE  QuotesInv(w)'
<1>1. /\ UNCHANGED <<qNow, price, qStay, reminded, overlooked, qMet>>
      /\ q \in qJob["reject"].left
      /\ qJob' = [qJob EXCEPT !["reject"].left = @ \ {q}]
      /\ declined' = [declined EXCEPT ![q] = @ + 1]
      /\ Quoting(w)!UpdateQuotation(q)
  BY DEF Quoting!Reject
<1>2. /\ qJob' \in [{"remind", "reject"} -> [ran: BOOLEAN, left: SUBSET QuoteIds]]
      /\ qJob'["reject"].left = qJob["reject"].left \ {q}
      /\ qJob'["remind"] = qJob["remind"]
      /\ qNow % 2 = 0 => ~qJob'["reject"].ran \/ w # "reminders"
  BY <1>1 DEF QuotesInv, QuotesTyped, QuotesReminded
<1>3. declined' \in [QuoteIds -> Nat] /\ declined'[q] = declined[q] + 1
      /\ \A o \in QuoteIds : o # q => declined'[o] = declined[o]
  BY <1>1 DEF QuotesInv, QuotesTyped
<1>4. q \notin clung => declined[q] = 0
  BY <1>1 DEF QuotesInv, QuotesTyped, QuotesDeclined
<1>5. quote[q].status # "NONE"
  BY <1>1 DEF QuotesInv, QuotesNamed
<1>6. CASE quote' = [quote EXCEPT ![q].status = "REJECTED"] /\ clung' = clung
           /\ stirred' = stirred \cup
                {b \in QuoteBookings[w] : qStay[b].pc = "shown" /\ qStay[b].of = q}
  <2>1. QuoteIsSet(w, q, "REJECTED")
    BY <1>5, <1>6 DEF QuoteIsSet, QuotesInv, QuotesTyped
  <2>6. QuotesTyped(w)'
    BY <1>1, <1>2, <1>3, <2>1 DEF QuotesInv, QuotesTyped, QuoteIsSet
  <2>2. QuotesNamed(w)'
    <3>1. \A o \in QuoteIds : quote[o].status # "NONE" <=> quote'[o].status # "NONE"
      BY <2>1 DEF QuoteIsSet
    <3>2. \A o \in qJob'["reject"].left : o \in qJob["reject"].left /\ o \in QuoteIds
      BY <1>2 DEF QuotesInv, QuotesTyped
    <3> QED
      BY <1>1, <2>1, <3>1, <3>2 DEF QuotesInv, QuotesNamed, QuoteIsSet
  <2>3. QuotesPriced(w)'
    <3>1. \A b \in QuoteBookings[w] :
            qStay[b].pc = "paid" => quote'[qStay[b].of].status \in {"ACCEPTED", "REJECTED"}
      BY <2>1 DEF QuotesInv, QuotesNamed, QuotesPriced, QuoteIsSet
    <3>2. \A b \in QuoteBookings[w] \ stirred' : qStay[b].pc = "shown" =>
            /\ b \notin stirred /\ qStay[b].of \in QuoteIds /\ qStay[b].of # q
      BY <2>1 DEF QuotesInv, QuotesNamed, QuoteIsSet
    <3>3. \A b \in QuoteBookings[w] \ stirred' : qStay[b].pc = "shown" =>
            qStay[b].shown
                = Quoting(w)!PriceFor(qStay[b].of, qStay[b].item, qStay[b].space)'.price
      BY <1>1, <2>1, <3>2 DEF QuotesInv, QuotesPriced, QuoteIsSet, Quoting!PriceFor
    <3>4. \A b \in QuoteBookings[w] \ stirred' :
            qStay[b].pc \in {"reserved", "paid"} => qStay[b].price = qStay[b].shown
      BY <2>1 DEF QuotesInv, QuotesPriced, QuoteIsSet
    <3>5. \A b, c \in QuoteBookings[w] :
            /\ b # c /\ qStay[b].of = qStay[c].of
            /\ qStay[b].pc \in {"reserved", "paid"} /\ qStay[b].quoted
            /\ qStay[c].pc \in {"reserved", "paid"} /\ qStay[c].quoted
            => <<b, c>> \in qMet
      BY DEF QuotesInv, QuotesPriced
    <3> QED
      BY <1>1, <3>1, <3>3, <3>4, <3>5 DEF QuotesPriced, Quoting!PriceFor
  <2>4. QuotesDeclined(w)'
    <3>1. declined'[q] = 1 \/ q \in clung
      BY <1>3, <1>4
    <3>2. ASSUME NEW o \in QuoteIds \ clung, o # q, declined'[o] >= 1
          PROVE  /\ declined'[o] = 1 /\ o \notin qJob'["reject"].left
                 /\ \/ quote'[o].status = "REJECTED"
                    \/ /\ quote'[o].status = "ACCEPTED"
                       /\ \E b \in QuoteBookings[w] : qStay[b].of = o /\ qStay[b].pc = "paid"
      BY <1>2, <1>3, <2>1, <3>2 DEF QuotesInv, QuotesDeclined, QuoteIsSet
    <3>3. quote'[q].status = "REJECTED" /\ q \notin qJob'["reject"].left
      BY <1>2, <2>1 DEF QuoteIsSet
    <3> QED
      BY <1>1, <1>6, <3>1, <3>2, <3>3 DEF QuotesDeclined
  <2>5. ASSUME w = "reminders"
        PROVE  QuotesReminded'
    <3>1. QuotesReminded /\ q \in reminded \cup overlooked
      BY <1>1, <2>5 DEF QuotesInv, QuotesReminded
    <3>2. qNow % 2 # 0
      BY <1>1, <3>1 DEF QuotesReminded
    <3> QED
      BY <1>1, <1>2, <2>1, <3>1, <3>2 DEF QuotesReminded, QuoteIsSet, DayOf
  <2> QED
    BY <2>2, <2>3, <2>4, <2>5, <2>6 DEF QuotesInv
<1>7. CASE UNCHANGED <<quote, stirred>> /\ clung' = clung \cup {q}
  <2>1. QuotesTyped(w)' /\ QuotesNamed(w)'
    BY <1>1, <1>2, <1>3, <1>7 DEF QuotesInv, QuotesTyped, QuotesNamed
  <2>2. QuotesPriced(w)'
    BY <1>1, <1>7 DEF QuotesInv, QuotesPriced, Quoting!PriceFor
  <2>3. QuotesDeclined(w)'
    BY <1>1, <1>2, <1>3, <1>7 DEF QuotesInv, QuotesDeclined
  <2>4. ASSUME w = "reminders"
        PROVE  QuotesReminded'
    <3>1. QuotesReminded
      BY <2>4 DEF QuotesInv
    <3>2. qNow % 2 # 0
      BY <1>1, <3>1 DEF QuotesReminded
    <3> QED
      BY <1>1, <1>2, <1>7, <3>1, <3>2 DEF QuotesReminded, DayOf
  <2> QED
    BY <2>1, <2>2, <2>3, <2>4 DEF QuotesInv
<1> QED
  BY <1>1, <1>6, <1>7 DEF Quoting!UpdateQuotation, Quoting!AtWork

LEMMA QuotesTick ==
    ASSUME NEW w \in QuoteParts, QuotesInv(w), Quoting(w)!Tick
    PROVE  QuotesInv(w)'
<1>1. /\ UNCHANGED <<price, quote, qStay, reminded, declined, clung, stirred, qMet>>
      /\ qNow' = qNow + 1 /\ qNow \in Nat
      /\ \A q \in QuoteIds : quote[q].pc = "open" => quote[q].created = qNow
  BY DEF Quoting!Tick, QuotesInv, QuotesTyped
<1>2. CASE qNow % 2 = 0
  <2>1. qJob' = qJob /\ overlooked' = overlooked
    BY <1>2 DEF Quoting!Tick
  <2>2. QuotesTyped(w)' /\ QuotesNamed(w)' /\ QuotesDeclined(w)'
    BY <1>1, <2>1 DEF QuotesInv, QuotesTyped, QuotesNamed, QuotesDeclined
  <2>3. QuotesPriced(w)'
    BY <1>1 DEF QuotesInv, QuotesPriced, Quoting!PriceFor
  <2>4. ASSUME w = "reminders"
        PROVE  QuotesReminded'
    <3>1. QuotesReminded /\ \A q \in QuoteIds : quote[q].created \in Nat
      BY <2>4 DEF QuotesInv, QuotesTyped
    <3>2. qNow' \div 2 = qNow \div 2 /\ qNow' % 2 # 0
      BY <1>1, <1>2, HalfDays
    <3> QED
      BY <1>1, <2>1, <3>1, <3>2 DEF QuotesReminded, DayOf
  <2> QED
    BY <2>2, <2>3, <2>4 DEF QuotesInv
<1>3. CASE qNow % 2 # 0
  <2>1. /\ qJob' = [j \in {"remind", "reject"} |-> [ran |-> FALSE, left |-> {}]]
        /\ \/ overlooked' = overlooked /\ qJob["remind"].ran /\ qJob["remind"].left = {}
           \/ overlooked' = overlooked \cup
                {q \in QuoteIds : DayOf(q) = qNow \div 2 - QuoteRemind}
    BY <1>3 DEF Quoting!Tick, Quoting!Jobs, Quoting!Idle, Quoting!OfDay, Quoting!Today, DayOf
  <2>2. /\ qJob' \in [{"remind", "reject"} -> [ran: BOOLEAN, left: SUBSET QuoteIds]]
        /\ \A j \in {"remind", "reject"} : qJob'[j].ran = FALSE /\ qJob'[j].left = {}
    BY <2>1
  <2>3. QuotesTyped(w)' /\ QuotesNamed(w)' /\ QuotesDeclined(w)'
    BY <1>1, <2>2 DEF QuotesInv, QuotesTyped, QuotesNamed, QuotesDeclined
  <2>4. QuotesPriced(w)'
    BY <1>1 DEF QuotesInv, QuotesPriced, Quoting!PriceFor
  <2>5. ASSUME w = "reminders"
        PROVE  QuotesReminded'
    <3>1. QuotesReminded /\ \A q \in QuoteIds : quote[q].created \in Nat
      BY <2>5 DEF QuotesInv, QuotesTyped
    <3>2. qNow' \div 2 = qNow \div 2 + 1 /\ qNow \div 2 \in Nat /\ qNow' % 2 = 0
      BY <1>1, <1>3, HalfDays
    <3>3. QuoteRemind \in Nat
      BY QuotesAssumption
    <3>4. ASSUME NEW q \in QuoteIds
          PROVE  /\ quote'[q].pc = "open" => quote'[q].created \in {qNow', qNow' - 1}
                 /\ quote'[q].status # "NONE" => quote'[q].created <= qNow'
                 /\ quote'[q].status = "REJECTED" => q \in reminded' \cup overlooked'
      BY <1>1, <2>1, <3>1 DEF QuotesReminded
    <3>5. ASSUME NEW q \in QuoteIds, quote[q].status = "ACTIVE",
                 qNow' \div 2 > DayOf(q) + QuoteRemind
          PROVE  q \in reminded' \cup overlooked'
      <4>1. DayOf(q) \in Nat
        BY <3>1, HalfDays DEF DayOf
      <4>2. CASE qNow \div 2 > DayOf(q) + QuoteRemind
        BY <1>1, <2>1, <3>1, <3>5, <4>2 DEF QuotesReminded
      <4>3. CASE qNow \div 2 = DayOf(q) + QuoteRemind
        <5>1. DayOf(q) = qNow \div 2 - QuoteRemind
          BY <3>2, <3>3, <4>1, <4>3
        <5> QED
          BY <1>1, <2>1, <3>1, <3>5, <4>3, <5>1 DEF QuotesReminded
      <4> QED
        BY <3>2, <3>3, <3>5, <4>1, <4>2, <4>3
    <3>6. ASSUME NEW q \in QuoteIds
          PROVE  q \notin qJob'["reject"].left /\ ~qJob'["remind"].ran
                 /\ DayOf(q)' = DayOf(q) /\ quote'[q] = quote[q]
      BY <1>1, <2>2 DEF DayOf
    <3> QED
      BY <2>2, <3>4, <3>5, <3>6 DEF QuotesReminded
  <2> QED
    BY <2>3, <2>4, <2>5 DEF QuotesInv
<1> QED
  BY <1>2, <1>3

LEMMA QuotesSteps ==
    ASSUME NEW w \in QuoteParts, QuotesInv(w), [Quoting(w)!Next]_(Quoting(w)!quoteVars)
    PROVE  QuotesInv(w)'
<1>1. CASE UNCHANGED Quoting(w)!quoteVars
  <2>1. UNCHANGED <<qNow, price, quote, qStay, qJob, reminded, overlooked, declined, clung,
                    stirred, qMet>>
    BY <1>1 DEF Quoting!quoteVars, Quoting!mails
  <2>2. QuotesTyped(w)' /\ QuotesNamed(w)' /\ QuotesDeclined(w)'
    BY <2>1 DEF QuotesInv, QuotesTyped, QuotesNamed, QuotesDeclined
  <2>3. QuotesPriced(w)'
    BY <2>1 DEF QuotesInv, QuotesPriced, Quoting!PriceFor
  <2>4. w = "reminders" => QuotesReminded'
    BY <2>1 DEF QuotesInv, QuotesReminded, DayOf
  <2> QED
    BY <2>2, <2>3, <2>4 DEF QuotesInv
<1>2. CASE Quoting(w)!Next
  BY <1>2, QuotesReprice, QuotesMade, QuotesSendReminder, QuotesReject, QuotesShow,
     QuotesReserve, QuotesPay, QuotesStartJob, QuotesTick DEF Quoting!Next, Quoting!Jobs
<1> QED
  BY <1>1, <1>2

(* The invariant of the quotations holds of every behaviour of them.       *)
THEOREM QuotesInvariant ==
    ServicesSpec => [](\A w \in QuoteParts : part = w => QuotesInv(w))
<1>1. ServicesInit => \A w \in QuoteParts : part = w => QuotesInv(w)
  BY QuotesStart, QuotesInitially
<1>2. (\A w \in QuoteParts : part = w => QuotesInv(w)) /\ [ServicesNext]_servicesVars
          => (\A w \in QuoteParts : part = w => QuotesInv(w))'
  BY QuotesFollow, QuotesSteps
<1> QED
  BY <1>1, <1>2, PTL DEF ServicesSpec

(* A quotation's price is one booking's unless two waited for their        *)
(* payment at once, what was shown is charged, and nobody is told twice    *)
(* that it is rejected, or without a reminder before                       *)
(* (quotations/quotation.service.ts, cron-job/quotations): for any number  *)
(* of quotations, bookings, spaces and prices, days and runs of the jobs.  *)
THEOREM QuotesAreKept == ServicesSpec => []QuotationsHold
<1>1. (\A w \in QuoteParts : part = w => QuotesInv(w)) => QuotationsHold
  <2>1. ASSUME NEW w \in QuoteParts, QuotesInv(w)
        PROVE  Quoting(w)!PriceIsKept /\ Quoting(w)!DeclinedIsRejected
    <3>1. Quoting(w)!PriceIsKept
      BY <2>1 DEF QuotesInv, QuotesPriced, Quoting!PriceIsKept
    <3>2. Quoting(w)!DeclinedIsRejected
      BY <2>1 DEF QuotesInv, QuotesTyped, QuotesDeclined, Quoting!DeclinedIsRejected
    <3> QED
      BY <3>1, <3>2
  <2>2. ASSUME QuotesReminded
        PROVE  Quoting("reminders")!RejectedWasReminded
    BY <2>2 DEF QuotesReminded, Quoting!RejectedWasReminded
  <2> QED
    BY <2>1, <2>2 DEF QuotationsHold, QuotesInv, QuoteParts
<1> QED
  BY <1>1, QuotesInvariant, PTL

(* A quotation was made by now, and what is remembered is of those there   *)
(* are.                                                                    *)
QuotesCounted(w) ==
    /\ qNow \in 0..QuoteLast[w] /\ qRuns \in 0..QuoteRuns
    /\ \A q \in QuoteIds : quote[q].created <= qNow
    /\ reminded \subseteq QuoteIds /\ overlooked \subseteq QuoteIds /\ clung \subseteq QuoteIds
    /\ stirred \subseteq QuoteBookings[w] /\ qMet \subseteq QuoteBookings[w] \X QuoteBookings[w]

LEMMA QuotesCountedInitially ==
    ASSUME NEW w \in QuoteParts, Quoting(w)!Init
    PROVE  QuotesCounted(w)
<1>1. 0 \in 0..QuoteLast[w] /\ 0 \in 0..QuoteRuns
  BY QuotesAssumption DEF QuoteParts
<1> QED
  BY <1>1 DEF Quoting!Init, QuotesCounted

LEMMA QuotesCountedSteps ==
    ASSUME NEW w \in QuoteParts, QuotesInv(w), QuotesCounted(w),
           [Quoting(w)!Next]_(Quoting(w)!quoteVars)
    PROVE  QuotesCounted(w)'
<1> USE DEF Quoting!mails
<1>1. /\ QuoteLast[w] \in Nat /\ QuoteRuns \in Nat /\ qNow \in Nat
      /\ \A q \in QuoteIds : quote[q].created \in Nat
      /\ quote \in [QuoteIds -> [pc: {"idle", "priced", "open", "done", "failed"},
                               status: {"ACTIVE", "ACCEPTED", "REJECTED", "NONE"},
                               created: Nat, items: QuoteItemRows]]
      /\ \A j \in {"remind", "reject"} : qJob[j].left \subseteq QuoteIds
  BY QuotesAssumption DEF QuoteParts, QuotesInv, QuotesTyped
<1>2. ASSUME NEW s \in QuoteSpaces, NEW p \in QuotePrices, Quoting(w)!Reprice(s, p)
      PROVE  QuotesCounted(w)'
  BY <1>2 DEF Quoting!Reprice, Quoting!AtWork, QuotesCounted
<1>3. ASSUME NEW q \in QuoteIds,
             \/ \E free \in SUBSET QuoteSpaces : Quoting(w)!PriceSpaces(q, free)
             \/ Quoting(w)!OpenQuote(q) \/ Quoting(w)!CommitQuote(q) \/ Quoting(w)!QuoteFails(q)
      PROVE  QuotesCounted(w)'
  <2>1. UNCHANGED <<qNow, qRuns, reminded, overlooked, clung, stirred, qMet>>
    BY <1>3 DEF Quoting!PriceSpaces, Quoting!OpenQuote, Quoting!CommitQuote, Quoting!QuoteFails
  <2>2. \A r \in QuoteIds : quote'[r].created \in {quote[r].created, qNow}
    BY <1>1, <1>3 DEF Quoting!PriceSpaces, Quoting!OpenQuote, Quoting!CommitQuote,
                      Quoting!QuoteFails
  <2> QED
    BY <1>1, <2>1, <2>2 DEF QuotesCounted
<1>4. ASSUME NEW q \in QuoteIds, Quoting(w)!SendReminder(q) \/ Quoting(w)!Reject(q)
      PROVE  QuotesCounted(w)'
  <2>1. \A r \in QuoteIds : quote'[r].created = quote[r].created
    BY <1>1, <1>4 DEF Quoting!SendReminder, Quoting!Reject, Quoting!UpdateQuotation
  <2> QED
    BY <1>4, <2>1 DEF Quoting!SendReminder, Quoting!Reject, Quoting!UpdateQuotation,
                      Quoting!AtWork, QuotesCounted
<1>5. ASSUME NEW b \in QuoteBookings[w],
             \/ \E q \in QuoteIds, i, s \in QuoteSpaces : Quoting(w)!ShowPrice(b, q, i, s)
             \/ Quoting(w)!Reserve(b) \/ Quoting(w)!Pay(b)
      PROVE  QuotesCounted(w)'
  <2>1. \A r \in QuoteIds : quote'[r].created = quote[r].created
    BY <1>1, <1>5 DEF Quoting!ShowPrice, Quoting!Reserve, Quoting!Pay
  <2>2. UNCHANGED <<qNow, qRuns, reminded, overlooked, clung>>
    BY <1>5 DEF Quoting!ShowPrice, Quoting!Reserve, Quoting!Pay
  <2>3. stirred' \subseteq QuoteBookings[w]
    BY <1>5 DEF Quoting!ShowPrice, Quoting!Reserve, Quoting!Pay, Quoting!AtWork, QuotesCounted
  <2>4. qMet' \subseteq QuoteBookings[w] \X QuoteBookings[w]
    BY <1>5 DEF Quoting!ShowPrice, Quoting!Reserve, Quoting!Pay, Quoting!Reserved, QuotesCounted
  <2> QED
    BY <2>1, <2>2, <2>3, <2>4 DEF QuotesCounted
<1>6. ASSUME NEW j \in {"remind", "reject"}, Quoting(w)!StartJob(j)
      PROVE  QuotesCounted(w)'
  BY <1>1, <1>6 DEF Quoting!StartJob, QuotesCounted
<1>7. CASE Quoting(w)!Tick
  <2>1. /\ qNow < QuoteLast[w] /\ qNow' = qNow + 1 /\ qRuns' \in {qRuns, 0}
        /\ UNCHANGED <<quote, reminded, clung, stirred, qMet>>
        /\ overlooked' \subseteq overlooked \cup QuoteIds
    BY <1>7 DEF Quoting!Tick, Quoting!OfDay
  <2> QED
    BY <1>1, <2>1 DEF QuotesCounted
<1>8. CASE UNCHANGED Quoting(w)!quoteVars
  BY <1>8 DEF Quoting!quoteVars, QuotesCounted
<1> QED
  BY <1>2, <1>3, <1>4, <1>5, <1>6, <1>7, <1>8 DEF Quoting!Next, Quoting!Jobs

LEMMA QuotesCountedInvariant ==
    ServicesSpec => [](\A w \in QuoteParts : part = w => QuotesCounted(w))
<1>1. ServicesInit => \A w \in QuoteParts : part = w => QuotesCounted(w)
  BY QuotesStart, QuotesCountedInitially
<1>2. (\A w \in QuoteParts : part = w => QuotesInv(w))
          /\ (\A w \in QuoteParts : part = w => QuotesCounted(w)) /\ [ServicesNext]_servicesVars
          => (\A w \in QuoteParts : part = w => QuotesCounted(w))'
  BY QuotesFollow, QuotesCountedSteps
<1> QED
  BY <1>1, <1>2, QuotesInvariant, PTL DEF ServicesSpec

LEMMA QuotesTypeOK ==
    ASSUME NEW w \in QuoteParts, QuotesInv(w), QuotesCounted(w)
    PROVE  Quoting(w)!TypeOK
<1>1. \A q \in QuoteIds : quote[q].created \in 0..QuoteLast[w]
  BY QuotesAssumption DEF QuotesInv, QuotesTyped, QuotesCounted, QuoteParts
<1>2. quote \in [QuoteIds -> Quoting(w)!QuotationRow]
  BY <1>1 DEF QuotesInv, QuotesTyped, Quoting!QuotationRow, Quoting!QuotationStatus,
              Quoting!Items, QuoteItemRows
<1> QED
  BY <1>2 DEF QuotesInv, QuotesTyped, QuotesCounted, Quoting!TypeOK, Quoting!BookingRow,
              Quoting!NoQuote, Quoting!Jobs

-----------------------------------------------------------------------------
=============================================================================
