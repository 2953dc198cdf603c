---------------------------- MODULE PricingProofs ----------------------------
(***************************************************************************)
(* Proofs about what a stay costs (Pricing): what is quoted, projected and *)
(* scheduled is what is charged, and invoices and tax rows add up.         *)
(***************************************************************************)
EXTENDS ListProofs

-----------------------------------------------------------------------------
(* Pricing                                                                 *)

LEMMA PriceFollows == ServicesSpec => Charges!Spec
<1>1. ServicesInit => Charges!Init
  BY DEF ServicesInit
<1>2. [ServicesNext]_servicesVars => [Charges!Next]_(Charges!priceVars)
  BY DEF ServicesNext, servicesVars, priceVars, Charges!priceVars
<1> QED
  BY <1>1, <1>2, PTL DEF ServicesSpec, Charges!Spec

-----------------------------------------------------------------------------
(* Rounding, to hundredths and by the day                                  *)

LEMMA RoundsTo ==
    ASSUME NEW n \in Int, NEW d \in {30, 100}
    PROVE  /\ Charges!Round(n, d) \in Int
           /\ n >= 0 => /\ 2 * d * Charges!Round(n, d) <= 2 * n + d
                        /\ 2 * n + d < 2 * d * Charges!Round(n, d) + 2 * d
           /\ n < 0 => /\ 2 * d * Charges!Round(n, d) >= 2 * n - d
                       /\ 2 * n - d > 2 * d * Charges!Round(n, d) - 2 * d
<1>1. CASE d = 30
  BY <1>1, SMTT(30) DEF Charges!Round
<1>2. CASE d = 100
  BY <1>2, SMTT(30) DEF Charges!Round
<1> QED
  BY <1>1, <1>2

LEMMA RoundKeepsOrder ==
    ASSUME NEW n \in Int, NEW m \in Int, NEW d \in {30, 100}, n <= m
    PROVE  Charges!Round(n, d) <= Charges!Round(m, d)
<1>1. CASE d = 30
  BY <1>1, SMTT(30) DEF Charges!Round
<1>2. CASE d = 100
  BY <1>2, SMTT(30) DEF Charges!Round
<1> QED
  BY <1>1, <1>2

LEMMA RoundWhole ==
    ASSUME NEW n \in Nat, NEW m \in Nat
    PROVE  /\ Charges!Round(100 * n + m, 100) = n + Charges!Round(m, 100)
           /\ Charges!Round(30 * n, 30) = n
           /\ Charges!Round(-m, 100) = -Charges!Round(m, 100)
           /\ Charges!Round(0, 100) = 0
<1>1. Charges!Round(100 * n + m, 100) = n + Charges!Round(m, 100)
  BY SMTT(30) DEF Charges!Round
<1>2. Charges!Round(30 * n, 30) = n
  BY SMTT(30) DEF Charges!Round
<1>3. Charges!Round(-m, 100) = -Charges!Round(m, 100)
  BY SMTT(30) DEF Charges!Round
<1>4. Charges!Round(0, 100) = 0
  BY SMTT(30) DEF Charges!Round
<1> QED
  BY <1>1, <1>2, <1>3, <1>4

LEMMA Products ==
    ASSUME NEW a \in Int, NEW b \in Int, NEW q \in Nat
    PROVE  /\ a * q \in Int
           /\ a <= b => a * q <= b * q
           /\ a >= 0 => a * q >= 0
  BY SMTT(30)

(* What a tax of an amount is.                                             *)
LEMMA TaxIs ==
    ASSUME NEW a \in Int, NEW b \in Int, NEW q \in Nat
    PROVE  /\ Charges!Tax(a, q) \in Int
           /\ a <= b => Charges!Tax(a, q) <= Charges!Tax(b, q)
           /\ a >= 0 => Charges!Tax(a, q) >= 0
           /\ Charges!Tax(-a, q) = -Charges!Tax(a, q)
<1>1. a * q \in Int /\ b * q \in Int /\ (a <= b => a * q <= b * q) /\ (a >= 0 => a * q >= 0)
  BY Products
<1>2. a <= b => Charges!Round(a * q, 100) <= Charges!Round(b * q, 100)
  BY <1>1, RoundKeepsOrder
<1>3. a >= 0 => Charges!Round(a * q, 100) >= 0
  <2>1. Charges!Round(0, 100) = 0 /\ Charges!Round(a * q, 100) \in Int
    BY <1>1, RoundWhole, RoundsTo
  <2>2. 0 <= a * q => Charges!Round(0, 100) <= Charges!Round(a * q, 100)
    BY <1>1, RoundKeepsOrder
  <2> QED
    BY <1>1, <2>1, <2>2
<1>4. (-a) * q = -(a * q)
  OBVIOUS
<1>5. Charges!Round(-(a * q), 100) = -Charges!Round(a * q, 100)
  <2>1. CASE a * q >= 0
    BY <1>1, <2>1, RoundWhole
  <2>2. CASE a * q < 0
    <3>1. PICK m \in Nat : m = -(a * q)
      BY <1>1, <2>2
    <3>2. Charges!Round(-m, 100) = -Charges!Round(m, 100) /\ Charges!Round(m, 100) \in Int
      BY RoundWhole, RoundsTo
    <3>3. a * q = -m
      BY <1>1, <3>1
    <3> QED
      BY <3>1, <3>2, <3>3
  <2> QED
    BY <1>1, <2>1, <2>2
<1>6. Charges!Round(a * q, 100) \in Int
  BY <1>1, RoundsTo
<1> QED
  BY <1>2, <1>3, <1>4, <1>5, <1>6 DEF Charges!Tax

LEMMA TaxCounts ==
    ASSUME NEW n \in Nat, NEW q \in Nat
    PROVE  Charges!Tax(n, q) \in Nat
<1>1. n \in Int /\ n >= 0
  OBVIOUS
<1>2. Charges!Tax(n, q) \in Int /\ Charges!Tax(n, q) >= 0
  BY <1>1, TaxIs
<1> QED
  BY <1>2

-----------------------------------------------------------------------------
(* The calendar                                                            *)

PriceEnd == Len(PriceMonths)

Starts(n, g) ==
    \A k \in 1..n : g[k] = IF k = 1 THEN 0 ELSE g[k - 1] + PriceMonths[k - 1]

LEMMA MonthsAre ==
    /\ PriceEnd \in Nat /\ PriceEnd > 1
    /\ \A k \in 1..PriceEnd : PriceMonths[k] \in 28..31
BY PricingAssumption DEF PriceEnd

LEMMA StartsExist ==
    \A n \in 0..(PriceEnd + 1) : \E g \in [1..n -> Nat] : Starts(n, g)
<1> DEFINE N == PriceEnd + 1
           G == {n \in 0..N : \E g \in [1..n -> Nat] : Starts(n, g)}
<1>0. N \in Nat
  BY MonthsAre
<1>1. 0 \in G
  <2> DEFINE e == [k \in 1..0 |-> 0]
  <2>1. e \in [1..0 -> Nat] /\ Starts(0, e)
    BY DEF Starts
  <2> HIDE DEF e
  <2>2. \E g \in [1..0 -> Nat] : Starts(0, g)
    BY <2>1
  <2>3. 0 \in 0..N
    BY <1>0
  <2> QED
    BY <2>2, <2>3
<1>2. ASSUME NEW n \in 0..N, n + 1 \in 0..N, n \in G PROVE n + 1 \in G
  <2>0. n \in Nat /\ n <= PriceEnd
    BY <1>0, <1>2, MonthsAre
  <2>1. PICK g \in [1..n -> Nat] : Starts(n, g)
    BY <1>2
  <2>2. PICK more \in Nat : more = IF n = 0 THEN 0 ELSE g[n] + PriceMonths[n]
    <3>1. CASE n = 0
      BY <3>1
    <3>2. CASE n # 0
      <4>1. n \in 1..n /\ n \in 1..PriceEnd
        BY <2>0, <3>2, MonthsAre
      <4>2. g[n] \in Nat /\ PriceMonths[n] \in Nat
        BY <2>1, <4>1, MonthsAre
      <4> QED
        BY <3>2, <4>2
    <3> QED
      BY <3>1, <3>2
  <2> DEFINE h == [k \in 1..(n + 1) |-> IF k = n + 1 THEN more ELSE g[k]]
  <2>3. /\ h \in [1..(n + 1) -> Nat] /\ h[n + 1] = more
        /\ \A k \in 1..n : h[k] = g[k]
    <3>1. \A k \in 1..(n + 1) : k # n + 1 => k \in 1..n
      BY <2>0
    <3>2. \A k \in 1..n : k \in 1..(n + 1) /\ k # n + 1
      BY <2>0
    <3>3. n + 1 \in 1..(n + 1)
      BY <2>0
    <3> QED
      BY <2>1, <3>1, <3>2, <3>3
  <2> HIDE DEF h
  <2>4. Starts(n + 1, h)
    <3> SUFFICES ASSUME NEW k \in 1..(n + 1)
                 PROVE  h[k] = IF k = 1 THEN 0 ELSE h[k - 1] + PriceMonths[k - 1]
      BY DEF Starts
    <3>1. CASE k \in 1..n
      <4>1. g[k] = IF k = 1 THEN 0 ELSE g[k - 1] + PriceMonths[k - 1]
        BY <2>1, <3>1 DEF Starts
      <4>2. k # 1 => k - 1 \in 1..n
        BY <3>1
      <4> QED
        BY <2>3, <3>1, <4>1, <4>2
    <3>2. CASE k = n + 1
      <4>1. k = 1 <=> n = 0
        BY <2>0, <3>2
      <4>2. n # 0 => k - 1 = n /\ n \in 1..n
        BY <2>0, <3>2
      <4> QED
        BY <2>2, <2>3, <3>2, <4>1, <4>2
    <3> QED
      BY <2>0, <3>1, <3>2
  <2> QED
    BY <1>2, <2>3, <2>4
<1> HIDE DEF G
<1>3. \A n \in 0..N : n + 1 \in 0..N /\ n \in G => n + 1 \in G
  BY <1>2
<1>4. \A n \in 0..N : n \in G
  BY <1>0, <1>1, <1>3, UpTo
<1> QED
  BY <1>4 DEF G

(* The first day of each month is as far from the last as that was long.   *)
LEMMA StartsAre ==
    /\ Charges!StartOf[1] = 0
    /\ \A k \in 1..PriceEnd :
          Charges!StartOf[k + 1] = Charges!StartOf[k] + PriceMonths[k]
<1> DEFINE N == PriceEnd + 1
           Q(g) == g = [k \in 1..N |-> IF k = 1 THEN 0 ELSE g[k - 1] + PriceMonths[k - 1]]
           f == CHOOSE g : Q(g)
<1>0. N \in Nat /\ PriceEnd \in Nat
  BY MonthsAre
<1>1. PICK g \in [1..N -> Nat] : Starts(N, g)
  <2>1. N \in 0..N
    BY <1>0
  <2> QED
    BY <2>1, StartsExist
<1>2. Q(g)
  BY <1>1 DEF Starts
<1>3. Q(f)
  <2> HIDE DEF Q
  <2> QED
    BY <1>2
<1>4. Charges!StartOf = f
  BY DEF Charges!StartOf, PriceEnd
<1> HIDE DEF f
<1>5. \A k \in 1..N : f[k] = IF k = 1 THEN 0 ELSE f[k - 1] + PriceMonths[k - 1]
  BY <1>3
<1>6. 1 \in 1..N
  BY <1>0
<1>7. ASSUME NEW k \in 1..PriceEnd
      PROVE  k + 1 \in 1..N /\ k + 1 # 1 /\ (k + 1) - 1 = k
  BY <1>0
<1> QED
  BY <1>4, <1>5, <1>6, <1>7

LEMMA StartsGrow ==
    \A j \in 1..(PriceEnd + 1) :
        /\ Charges!StartOf[j] \in Nat
        /\ \A i \in 1..j :
              Charges!StartOf[i] \in Nat /\ Charges!StartOf[i] <= Charges!StartOf[j]
<1> DEFINE Grows(j) == /\ Charges!StartOf[j] \in Nat
                       /\ \A i \in 1..j : /\ Charges!StartOf[i] \in Nat
                                          /\ Charges!StartOf[i] <= Charges!StartOf[j]
           G == {n \in 0..PriceEnd : Grows(n + 1)}
<1>0. PriceEnd \in Nat
  BY MonthsAre
<1>1. 0 \in G
  <2>1. 0 + 1 = 1 /\ \A i \in 1..1 : i = 1
    OBVIOUS
  <2> QED
    BY <1>0, <2>1, StartsAre
<1>2. ASSUME NEW n \in 0..PriceEnd, n + 1 \in 0..PriceEnd, n \in G PROVE n + 1 \in G
  <2>1. n \in Nat /\ n + 1 \in 1..PriceEnd
    BY <1>0, <1>2
  <2>2. PICK k : k = n + 1
    OBVIOUS
  <2>3. Charges!StartOf[k + 1] = Charges!StartOf[k] + PriceMonths[k] /\ PriceMonths[k] \in Nat
    BY <2>1, <2>2, StartsAre, MonthsAre
  <2>4. Grows(k)
    BY <1>2, <2>2
  <2>5. \A i \in 1..(k + 1) : i = k + 1 \/ i \in 1..k
    BY <2>1, <2>2
  <2>6. Charges!StartOf[k + 1] \in Nat /\ Charges!StartOf[k] <= Charges!StartOf[k + 1]
    BY <2>3, <2>4
  <2>7. ASSUME NEW i \in 1..(k + 1)
        PROVE  Charges!StartOf[i] \in Nat /\ Charges!StartOf[i] <= Charges!StartOf[k + 1]
    <3>1. CASE i = k + 1
      BY <2>6, <3>1
    <3>2. CASE i \in 1..k
      <4>1. Charges!StartOf[i] \in Nat /\ Charges!StartOf[i] <= Charges!StartOf[k]
        BY <2>4, <3>2
      <4> QED
        BY <2>4, <2>6, <4>1
    <3> QED
      BY <2>5, <3>1, <3>2
  <2>8. Grows(k + 1)
    BY <2>6, <2>7
  <2> QED
    BY <1>2, <2>2, <2>8
<1> HIDE DEF G
<1>3. \A n \in 0..PriceEnd : n + 1 \in 0..PriceEnd /\ n \in G => n + 1 \in G
  BY <1>2
<1>4. \A n \in 0..PriceEnd : n \in G
  BY <1>0, <1>1, <1>3, UpTo
<1>5. ASSUME NEW j \in 1..(PriceEnd + 1) PROVE Grows(j)
  <2>1. j - 1 \in 0..PriceEnd /\ (j - 1) + 1 = j
    BY <1>0
  <2>2. j - 1 \in G
    BY <1>4, <2>1
  <2> QED
    BY <2>1, <2>2 DEF G
<1> QED
  BY <1>5

(* How many months are whole, and the month after them.                    *)
WholeSoFar(k, d, n) ==
    /\ n = 0 \/ Charges!StartOf[k + n] <= d
    /\ k + n <= PriceEnd => Charges!StartOf[k + n + 1] > d

LEMMA WholeMonthsAre ==
    ASSUME NEW k \in 1..(PriceEnd + 1), NEW d \in Int
    PROVE  \E n \in 0..(PriceEnd + 1 - k) :
              n = Charges!WholeMonths(k, d) /\ WholeSoFar(k, d, n)
<1> DEFINE S == {n \in 0..(PriceEnd + 1 - k) :
                    k + n <= PriceEnd => Charges!StartOf[k + n + 1] > d}
<1>0. PriceEnd \in Nat /\ PriceEnd + 1 - k \in Nat
  BY MonthsAre
<1>1. S \subseteq Nat /\ S # {}
  <2>1. PriceEnd + 1 - k \in 0..(PriceEnd + 1 - k) /\ ~(k + (PriceEnd + 1 - k) <= PriceEnd)
    BY <1>0
  <2>2. PriceEnd + 1 - k \in S
    BY <2>1
  <2>3. \A n \in 0..(PriceEnd + 1 - k) : n \in Nat
    BY <1>0
  <2> QED
    BY <2>2, <2>3
<1>2. PICK m \in S : \A i \in S : m <= i
  BY <1>1, LeastNumber
<1>3. WholeSoFar(k, d, m)
  <2>1. CASE m = 0
    BY <1>2, <2>1 DEF WholeSoFar
  <2>2. CASE m # 0
    <3>1. m - 1 \in 0..(PriceEnd + 1 - k) /\ ~(m <= m - 1) /\ m \in Nat
      BY <1>0, <2>2
    <3>2. m - 1 \notin S
      BY <1>2, <3>1
    <3>3. ~(Charges!StartOf[k + (m - 1) + 1] > d) /\ k + (m - 1) + 1 = k + m
      BY <1>0, <3>1, <3>2
    <3>4. k + m \in 1..(PriceEnd + 1)
      BY <1>0, <3>1
    <3>5. Charges!StartOf[k + m] \in Nat
      BY <3>4, StartsGrow
    <3> QED
      BY <3>3, <3>5 DEF WholeSoFar
  <2> QED
    BY <2>1, <2>2
<1>4. Charges!WholeMonths(k, d) =
         CHOOSE n \in 0..(PriceEnd + 1 - k) : WholeSoFar(k, d, n)
  BY DEF Charges!WholeMonths, WholeSoFar, PriceEnd
<1>5. m \in 0..(PriceEnd + 1 - k)
  OBVIOUS
<1> HIDE DEF S
<1> QED
  BY <1>3, <1>4, <1>5

(* A renewal is the last when fewer than two months are left.              *)
LEMMA TwoMonthsLeft ==
    ASSUME NEW k \in 1..(PriceEnd - 1), NEW d \in Int
    PROVE  Charges!WholeMonths(k, d) <= 1 <=> d < Charges!StartOf[k + 2]
<1>0. /\ PriceEnd \in Nat /\ k \in Nat /\ k \in 1..(PriceEnd + 1)
      /\ k + 1 \in 1..(PriceEnd + 1) /\ k + 2 \in 1..(PriceEnd + 1)
  BY MonthsAre
<1>1. PICK n \in 0..(PriceEnd + 1 - k) :
         n = Charges!WholeMonths(k, d) /\ WholeSoFar(k, d, n)
  BY <1>0, WholeMonthsAre
<1>2. /\ Charges!StartOf[k + 1] \in Nat /\ Charges!StartOf[k + 2] \in Nat
      /\ Charges!StartOf[k + 1] <= Charges!StartOf[k + 2]
  <2>1. k + 1 \in 1..(k + 2)
    BY <1>0
  <2> QED
    BY <1>0, <2>1, StartsGrow
<1>3. CASE n = 0
  <2>1. Charges!StartOf[k + n + 1] > d /\ k + n + 1 = k + 1
    BY <1>0, <1>1, <1>3 DEF WholeSoFar
  <2> QED
    BY <1>1, <1>2, <1>3, <2>1
<1>4. CASE n = 1
  <2>1. Charges!StartOf[k + n + 1] > d /\ k + n + 1 = k + 2
    BY <1>0, <1>1, <1>4 DEF WholeSoFar
  <2> QED
    BY <1>1, <1>2, <1>4, <2>1
<1>5. CASE n > 1
  <2>1. k + n \in 1..(PriceEnd + 1) /\ k + 2 \in 1..(k + n)
    BY <1>0, <1>5
  <2>2. Charges!StartOf[k + 2] <= Charges!StartOf[k + n] /\ Charges!StartOf[k + n] \in Nat
    BY <2>1, StartsGrow
  <2>3. Charges!StartOf[k + n] <= d
    BY <1>1, <1>5 DEF WholeSoFar
  <2> QED
    BY <1>1, <1>2, <1>5, <2>2, <2>3
<1> QED
  BY <1>0, <1>3, <1>4, <1>5

(* A stay does not fill the first month.                                   *)
LEMMA NoWholeMonth ==
    ASSUME NEW d \in Int
    PROVE  Charges!WholeMonths(1, d) < 1 <=> d < PriceMonths[1]
<1>0. PriceEnd \in Nat /\ PriceEnd > 1 /\ 1 \in 1..(PriceEnd + 1) /\ 2 \in 1..(PriceEnd + 1)
  BY MonthsAre
<1>1. PICK n \in 0..(PriceEnd + 1 - 1) :
         n = Charges!WholeMonths(1, d) /\ WholeSoFar(1, d, n)
  BY <1>0, WholeMonthsAre
<1>2. Charges!StartOf[2] = PriceMonths[1] /\ PriceMonths[1] \in Nat
  <2>1. 1 \in 1..PriceEnd /\ 1 + 1 = 2
    BY <1>0
  <2>2. Charges!StartOf[1 + 1] = Charges!StartOf[1] + PriceMonths[1] /\ PriceMonths[1] \in 28..31
    BY <2>1, StartsAre, MonthsAre
  <2> QED
    BY <2>1, <2>2, StartsAre
<1>3. CASE n = 0
  <2>1. Charges!StartOf[1 + n + 1] > d /\ 1 + n + 1 = 2
    BY <1>0, <1>1, <1>3 DEF WholeSoFar
  <2> QED
    BY <1>1, <1>2, <1>3, <2>1
<1>4. CASE n > 0
  <2>1. 1 + n \in 1..(PriceEnd + 1) /\ 2 \in 1..(1 + n)
    BY <1>0, <1>4
  <2>2. Charges!StartOf[2] <= Charges!StartOf[1 + n] /\ Charges!StartOf[1 + n] \in Nat
    BY <2>1, StartsGrow
  <2>3. Charges!StartOf[1 + n] <= d
    BY <1>1, <1>4 DEF WholeSoFar
  <2> QED
    BY <1>1, <1>2, <1>4, <2>2, <2>3
<1> QED
  BY <1>0, <1>3, <1>4

-----------------------------------------------------------------------------
(* Rents and discounts                                                     *)

LEMMA ChoicesAre ==
    ASSUME NEW c \in PriceChoices
    PROVE  /\ c.stay \in Nat /\ c.price \in Nat /\ c.insurance \in Nat /\ c.pickup \in Nat
           /\ c.promo.kind \in {"FIXED", "PERCENTAGE", "TOTAL"}
           /\ c.promo.value \in Nat /\ c.promo.cap \in Nat /\ c.promo.until \in Int
<1> DEFINE Promos == [kind : {"FIXED", "PERCENTAGE", "TOTAL"}, value : Nat, cap : Nat,
                      indexed : BOOLEAN, months : Nat, minDays : Nat,
                      minPrice : {0 - 1} \cup Nat, until : {0 - 1} \cup Nat]
<1>1. c \in [stay : Nat, price : Nat, insurance : {0} \cup PriceInsurances, pickup : Nat,
             promo : Promos]
  BY PricingAssumption
<1>2. c.insurance \in Nat
  <2>1. c.insurance \in {0} \cup PriceInsurances
    BY <1>1, Zenon
  <2>2. \A i \in PriceInsurances : i \in Nat
    BY PricingAssumption
  <2> QED
    BY <2>1, <2>2
<1>3. c.promo \in Promos /\ c.stay \in Nat /\ c.price \in Nat /\ c.pickup \in Nat
  <2> HIDE DEF Promos
  <2> QED
    BY <1>1
<1>4. /\ c.promo.kind \in {"FIXED", "PERCENTAGE", "TOTAL"}
      /\ c.promo.value \in Nat /\ c.promo.cap \in Nat
      /\ c.promo.until \in {0 - 1} \cup Nat
  BY <1>3, Zenon
<1> QED
  BY <1>2, <1>3, <1>4

LEMMA ProratedIs ==
    ASSUME NEW p \in Nat, NEW a \in Int, NEW b \in Int
    PROVE  /\ Charges!Prorated(p, a) \in Int
           /\ a <= b => Charges!Prorated(p, a) <= Charges!Prorated(p, b)
           /\ a >= 0 => Charges!Prorated(p, a) >= 0
           /\ Charges!Prorated(p, 30) = p
<1>1. p * a = a * p /\ p * b = b * p /\ a * p \in Int /\ b * p \in Int
  BY Products
<1>2. (a <= b => a * p <= b * p) /\ (a >= 0 => a * p >= 0)
  BY Products
<1>3. a <= b => Charges!Round(a * p, 30) <= Charges!Round(b * p, 30)
  BY <1>1, <1>2, RoundKeepsOrder
<1>4. a >= 0 => Charges!Round(a * p, 30) >= 0
  <2>1. Charges!Round(30 * 0, 30) = 0 /\ Charges!Round(a * p, 30) \in Int
    BY <1>1, RoundWhole, RoundsTo
  <2>2. 0 <= a * p => Charges!Round(30 * 0, 30) <= Charges!Round(a * p, 30)
    BY <1>1, RoundKeepsOrder
  <2> QED
    BY <1>1, <1>2, <2>1, <2>2
<1>5. Charges!Round(a * p, 30) \in Int
  BY <1>1, RoundsTo
<1>6. p * 30 = 30 * p /\ Charges!Round(30 * p, 30) = p
  BY RoundWhole
<1> QED
  BY <1>1, <1>3, <1>4, <1>5, <1>6 DEF Charges!Prorated

(* A discount is not more than the rent it is reckoned from, and grows by  *)
(* no more than that.                                                      *)
LEMMA DiscountsAre ==
    ASSUME NEW c \in PriceChoices, NEW base \in Nat, NEW more \in Nat, NEW n \in Nat
    PROVE  LET small == Charges!Discount(c.promo, base, n)
               large == Charges!Discount(c.promo, base + more, n) IN
           /\ small \in Nat /\ small <= base
           /\ large \in Nat /\ small <= large /\ large <= small + more
<1>0. /\ c.promo.kind \in {"FIXED", "PERCENTAGE", "TOTAL"}
      /\ c.promo.value \in Nat /\ c.promo.cap \in Nat
  BY ChoicesAre
<1>1. PICK q \in Nat : q = c.promo.value
  BY <1>0
<1>2. \A x \in Nat : /\ x * q \in Nat /\ Charges!Round(x * q, 100) \in Nat
                     /\ q > 100 => Charges!Round(x * q, 100) >= x
  <2> SUFFICES ASSUME NEW x \in Nat
               PROVE  /\ x * q \in Nat /\ Charges!Round(x * q, 100) \in Nat
                      /\ q > 100 => Charges!Round(x * q, 100) >= x
    OBVIOUS
  <2>1. q * x = x * q /\ x * q \in Nat /\ (q > 100 => 100 * x <= q * x)
    BY Products
  <2>2. Charges!Tax(x, q) \in Int /\ Charges!Tax(x, q) >= 0
    BY TaxIs
  <2>3. Charges!Round(x * q, 100) \in Nat
    BY <2>2 DEF Charges!Tax
  <2>4. q > 100 => Charges!Round(100 * x, 100) <= Charges!Round(x * q, 100)
    BY <2>1, RoundKeepsOrder
  <2>5. Charges!Round(100 * x + 0, 100) = x + Charges!Round(0, 100)
        /\ Charges!Round(0, 100) = 0 /\ 100 * x + 0 = 100 * x
    BY RoundWhole
  <2> QED
    BY <2>1, <2>3, <2>4, <2>5
<1>3. PICK b \in Nat : b = base + more
  OBVIOUS
<1>4. PICK off \in Int, off2 \in Int :
         /\ off = Charges!Off(c.promo, base) /\ off2 = Charges!Off(c.promo, b)
         /\ off <= off2 /\ (off2 <= off + more \/ (off >= base /\ off2 >= b))
  <2>1. CASE c.promo.kind = "FIXED"
    <3>1. Charges!Off(c.promo, base) = q /\ Charges!Off(c.promo, b) = q
      BY <1>1, <2>1 DEF Charges!Off
    <3> QED
      BY <3>1
  <2>2. CASE c.promo.kind = "TOTAL"
    <3>1. Charges!Off(c.promo, base) = base - q /\ Charges!Off(c.promo, b) = b - q
      BY <1>1, <2>2 DEF Charges!Off
    <3>2. base - q \in Int /\ b - q \in Int /\ base - q <= b - q /\ b - q <= (base - q) + more
      BY <1>3
    <3> QED
      BY <3>1, <3>2
  <2>3. CASE c.promo.kind = "PERCENTAGE"
    <3>1. PICK o \in Nat, o2 \in Nat : o = Charges!Round(base * q, 100)
                                       /\ o2 = Charges!Round(b * q, 100)
      BY <1>2, <1>3
    <3>2. Charges!Off(c.promo, base) = o /\ Charges!Off(c.promo, b) = o2
      BY <1>1, <2>3, <3>1 DEF Charges!Off
    <3>3. /\ base * q \in Nat /\ more * q \in Nat /\ b * q \in Nat
          /\ b * q = base * q + more * q
      <4>1. (base + more) * q = base * q + more * q
        BY SMTT(30)
      <4> QED
        BY <1>2, <1>3, <4>1
    <3>4. o <= o2
      BY <3>1, <3>3, RoundKeepsOrder
    <3>5. CASE q <= 100
      <4>1. more * q <= 100 * more
        <5>1. q * more <= 100 * more /\ q * more = more * q
          BY <3>5, Products
        <5> QED
          BY <5>1
      <4>2. b * q <= 100 * more + base * q
        BY <3>3, <4>1
      <4>3. o2 <= Charges!Round(100 * more + base * q, 100)
        BY <3>1, <3>3, <4>2, RoundKeepsOrder
      <4>4. Charges!Round(100 * more + base * q, 100) = more + Charges!Round(base * q, 100)
        BY <3>3, RoundWhole
      <4> QED
        BY <3>1, <3>2, <3>4, <4>3, <4>4
    <3>6. CASE q > 100
      BY <1>2, <1>3, <3>1, <3>2, <3>4, <3>6
    <3> QED
      BY <3>5, <3>6
  <2> QED
    BY <1>0, <2>1, <2>2, <2>3
<1>5. PICK covers \in BOOLEAN : covers <=> Charges!Covers(c.promo, n)
  OBVIOUS
<1>6. PICK cap \in Nat : cap = c.promo.cap
  BY <1>0
<1>7. PICK capped \in Int, capped2 \in Int :
         /\ capped = (IF cap > 0 THEN Charges!Least(off, cap) ELSE off)
         /\ capped2 = (IF cap > 0 THEN Charges!Least(off2, cap) ELSE off2)
  BY DEF Charges!Least
<1>8. /\ Charges!Discount(c.promo, base, n) =
            IF covers /\ capped > 0 THEN Charges!Least(capped, base) ELSE 0
      /\ Charges!Discount(c.promo, b, n) =
            IF covers /\ capped2 > 0 THEN Charges!Least(capped2, b) ELSE 0
  BY <1>4, <1>5, <1>6, <1>7 DEF Charges!Discount
<1>9. CASE covers
  BY <1>3, <1>4, <1>7, <1>8, <1>9 DEF Charges!Least
<1>10. CASE ~covers
  BY <1>3, <1>8, <1>10
<1> QED
  BY <1>9, <1>10

LEMMA PercentsAre ==
    /\ PriceSiteTax \in Nat /\ PriceInsuranceTax \in Nat /\ PriceServiceTax \in Nat
    /\ PriceLead = 2
    /\ \A i \in {0} \cup PriceInsurances : i \in Nat
    /\ \A i \in PriceInsurances : i # 0
    /\ \A b \in PriceBases : b \in Nat
  BY PricingAssumption

(* A tax is reckoned from the rent less the discount.                      *)
LEMMA SpaceTaxIs ==
    ASSUME NEW s \in Int, NEW d \in Nat
    PROVE  /\ Charges!SpaceTax(s, d) = Charges!Tax(s - d, PriceSiteTax)
           /\ Charges!SpaceTax(s, d) \in Int
<1>1. Charges!SpaceTax(s, d) = Charges!Tax(s - d, PriceSiteTax)
  <2>1. CASE d > 0
    BY <2>1 DEF Charges!SpaceTax
  <2>2. CASE d = 0
    <3>1. s - 0 = s
      OBVIOUS
    <3> QED
      BY <2>2, <3>1 DEF Charges!SpaceTax
  <2> QED
    BY <2>1, <2>2
<1>2. PICK x \in Int : x = s - d
  OBVIOUS
<1>3. Charges!Tax(x, PriceSiteTax) \in Int
  BY TaxIs, PercentsAre
<1> QED
  BY <1>1, <1>2, <1>3

LEMMA InsurancesAre ==
    ASSUME NEW i \in Nat
    PROVE  /\ Charges!InsurancePrice(i) \in Nat
           /\ Charges!Tax(Charges!InsurancePrice(i), PriceInsuranceTax) \in Nat
<1>1. PICK n \in Nat : n = Charges!InsurancePrice(i)
  BY DEF Charges!InsurancePrice
<1>2. Charges!Tax(n, PriceInsuranceTax) \in Int /\ Charges!Tax(n, PriceInsuranceTax) >= 0
  BY TaxIs, PercentsAre
<1> QED
  BY <1>1, <1>2

LEMMA RentsAre ==
    ASSUME NEW c \in PriceChoices, NEW base \in Nat, NEW k \in 1..(PriceEnd - 1)
    PROVE  /\ Charges!DaysLeft(c, k) \in Int /\ Charges!DaysLeft(c, k + 1) \in Int
           /\ Charges!IsLast(c, k) \in BOOLEAN
           /\ Charges!RentOf(c, base, k) \in Int
           /\ Charges!NextRent(c, base, k) \in Int
           /\ Charges!IsLast(c, k) <=> c.stay # 0 /\ c.stay < Charges!StartOf[k + 2]
<1>0. c.stay \in Nat
  BY ChoicesAre
<1>1. k \in 1..(PriceEnd + 1) /\ k + 1 \in 1..(PriceEnd + 1)
  BY MonthsAre
<1>2. Charges!StartOf[k] \in Nat /\ Charges!StartOf[k + 1] \in Nat
  BY <1>1, StartsGrow
<1>3. PICK d \in Int : d = Charges!DaysLeft(c, k)
  BY <1>0, <1>2 DEF Charges!DaysLeft
<1>4. PICK e \in Int : e = Charges!DaysLeft(c, k + 1)
  BY <1>0, <1>2 DEF Charges!DaysLeft
<1>5. Charges!IsLast(c, k) <=> c.stay # 0 /\ c.stay < Charges!StartOf[k + 2]
  BY <1>0, TwoMonthsLeft DEF Charges!IsLast, Charges!Open
<1>6. /\ Charges!Prorated(base, Charges!Least(30, d)) \in Int
      /\ Charges!Prorated(base, Charges!Least(30, e)) \in Int
  <2>1. Charges!Least(30, d) \in Int /\ Charges!Least(30, e) \in Int
    BY DEF Charges!Least
  <2> QED
    BY <2>1, ProratedIs
<1>7. Charges!RentOf(c, base, k) \in Int
  BY <1>3, <1>6 DEF Charges!RentOf
<1>8. Charges!NextRent(c, base, k) \in Int
  BY <1>4, <1>6 DEF Charges!NextRent, Charges!None
<1>9. Charges!IsLast(c, k) \in BOOLEAN
  BY DEF Charges!IsLast
<1> QED
  BY <1>3, <1>4, <1>5, <1>7, <1>8, <1>9

(* The first renewal's rent is the one that was quoted.                    *)
LEMMA FirstRentIs ==
    ASSUME NEW c \in PriceChoices
    PROVE  /\ Charges!CheckoutRent(c) \in Nat
           /\ Charges!RentOf(c, c.price, 1) = Charges!CheckoutRent(c)
<1>0. c.stay \in Nat /\ c.price \in Nat
  BY ChoicesAre
<1>1. 1 \in 1..(PriceEnd - 1) /\ 1 + 2 = 3 /\ 1 \in 1..PriceEnd /\ 2 \in 1..PriceEnd
  BY MonthsAre
<1>2. Charges!StartOf[1] = 0 /\ Charges!StartOf[3] = PriceMonths[1] + PriceMonths[2]
      /\ Charges!StartOf[3] >= 56 /\ Charges!StartOf[3] \in Nat
  <2>1. Charges!StartOf[1 + 1] = Charges!StartOf[1] + PriceMonths[1]
        /\ Charges!StartOf[2 + 1] = Charges!StartOf[2] + PriceMonths[2]
    BY <1>1, StartsAre
  <2>2. PriceMonths[1] \in 28..31 /\ PriceMonths[2] \in 28..31
    BY <1>1, MonthsAre
  <2> QED
    BY <2>1, <2>2, StartsAre
<1>3. Charges!IsLast(c, 1) <=> c.stay # 0 /\ c.stay < Charges!StartOf[3]
  BY <1>0, <1>1, RentsAre
<1>4. Charges!DaysLeft(c, 1) = c.stay
  BY <1>0, <1>2 DEF Charges!DaysLeft
<1>5. PICK s \in Nat : s = c.stay
  BY <1>0
<1>6. /\ Charges!Prorated(c.price, s) \in Nat
      /\ Charges!Prorated(c.price, 30) = c.price
  <2>1. s \in Int /\ s >= 0
    OBVIOUS
  <2>2. PICK p \in Nat : p = c.price
    BY <1>0
  <2>3. /\ Charges!Prorated(p, s) \in Int /\ Charges!Prorated(p, s) >= 0
        /\ Charges!Prorated(p, 30) = p
    BY <2>1, ProratedIs
  <2> QED
    BY <2>2, <2>3
<1>7. Charges!CheckoutRent(c) = IF s # 0 /\ s <= 30 THEN Charges!Prorated(c.price, s)
                                ELSE c.price
  BY <1>5 DEF Charges!CheckoutRent, Charges!Open
<1>8. Charges!RentOf(c, c.price, 1) = IF s # 0 /\ s < Charges!StartOf[3]
                                      THEN Charges!Prorated(c.price, IF 30 < s THEN 30 ELSE s)
                                      ELSE c.price
  BY <1>3, <1>4, <1>5 DEF Charges!RentOf, Charges!Least
<1> QED
  BY <1>0, <1>2, <1>5, <1>6, <1>7, <1>8

(* The stay reaches to the end of month k.                                 *)
Lasts(c, k) == k = 1 \/ c.stay = 0 \/ Charges!StartOf[k + 1] <= c.stay

LEMMA LaterDiscountsAre ==
    ASSUME NEW c \in PriceChoices, NEW base \in Nat, NEW k \in 1..(PriceEnd - 1),
           Lasts(c, k), NEW got \in BOOLEAN, NEW n \in Nat
    PROVE  /\ Charges!LaterDiscount(c, got, base, k, n) \in Nat
           /\ Charges!LaterBase(c, base, k) \in Nat
           /\ Charges!LaterDiscount(c, got, base, k, n) <= Charges!LaterBase(c, base, k)
           /\ ~Charges!WithinAMonth(c, k) => Charges!LaterBase(c, base, k) = base
<1>0. c.stay \in Nat
  BY ChoicesAre
<1>1. Charges!LaterBase(c, base, k) \in Nat
  <2>1. CASE Charges!WithinAMonth(c, k)
    <3>1. c.stay # 0
      BY <2>1 DEF Charges!WithinAMonth, Charges!Open
    <3>2. PICK d \in Nat : d = c.stay - Charges!Today(k)
      <4>1. CASE k = 1
        BY <1>0, <4>1 DEF Charges!Today
      <4>2. CASE k # 1
        <5>1. k \in 1..(PriceEnd + 1) /\ k + 1 \in 1..(PriceEnd + 1) /\ k \in 1..(k + 1)
          BY MonthsAre
        <5>2. /\ Charges!StartOf[k] \in Nat /\ Charges!StartOf[k + 1] \in Nat
              /\ Charges!StartOf[k] <= Charges!StartOf[k + 1]
          BY <5>1, StartsGrow
        <5>3. Charges!StartOf[k + 1] <= c.stay
          BY <3>1, <4>2 DEF Lasts
        <5>4. Charges!Today(k) = Charges!StartOf[k] - 2
          BY <4>2, PercentsAre DEF Charges!Today
        <5> QED
          BY <1>0, <5>2, <5>3, <5>4
      <4> QED
        BY <4>1, <4>2
    <3>3. Charges!Prorated(base, d) \in Nat
      <4>1. d \in Int /\ d >= 0
        OBVIOUS
      <4>2. Charges!Prorated(base, d) \in Int /\ Charges!Prorated(base, d) >= 0
        BY <4>1, ProratedIs
      <4> QED
        BY <4>2
    <3> QED
      BY <2>1, <3>2, <3>3 DEF Charges!LaterBase
  <2>2. CASE ~Charges!WithinAMonth(c, k)
    BY <2>2 DEF Charges!LaterBase
  <2> QED
    BY <2>1, <2>2
<1>2. PICK b \in Nat : b = Charges!LaterBase(c, base, k)
  BY <1>1
<1>3. Charges!Discount(c.promo, b, n) \in Nat /\ Charges!Discount(c.promo, b, n) <= b
  BY DiscountsAre
<1>4. Charges!LaterDiscount(c, got, base, k, n) \in {0, Charges!Discount(c.promo, b, n)}
  BY <1>2 DEF Charges!LaterDiscount
<1>5. ~Charges!WithinAMonth(c, k) => Charges!LaterBase(c, base, k) = base
  BY DEF Charges!LaterBase
<1> QED
  BY <1>2, <1>3, <1>4, <1>5

LEMMA EarlyDiscountsAre ==
    ASSUME NEW c \in PriceChoices, NEW got \in BOOLEAN, NEW n \in Nat
    PROVE  /\ Charges!EarlyDiscount(c, got, n) \in Nat
           /\ Charges!PromotionBase(c) \in Nat
           /\ Charges!EarlyDiscount(c, got, n) <= Charges!PromotionBase(c)
           /\ Charges!PromotionBase(c) = IF c.stay # 0 /\ c.stay <= PriceMonths[1]
                                         THEN Charges!Prorated(c.price, c.stay) ELSE c.price
           /\ \A more \in BOOLEAN : (got => more) =>
                 Charges!EarlyDiscount(c, got, n) <= Charges!EarlyDiscount(c, more, n)
<1>0. c.stay \in Nat /\ c.price \in Nat
  BY ChoicesAre
<1>1. PriceMonths[1] \in Nat
  <2>1. 1 \in 1..PriceEnd
    BY MonthsAre
  <2> QED
    BY <2>1, MonthsAre
<1>2. PICK d \in Int : d = c.stay - 1
  BY <1>0
<1>3. Charges!WholeMonths(1, d) < 1 <=> d < PriceMonths[1]
  BY NoWholeMonth
<1>4. Charges!PromotionBase(c) = IF c.stay # 0 /\ c.stay <= PriceMonths[1]
                                 THEN Charges!Prorated(c.price, c.stay) ELSE c.price
  <2>1. d < PriceMonths[1] <=> c.stay <= PriceMonths[1]
    BY <1>0, <1>1, <1>2
  <2> QED
    BY <1>2, <1>3, <2>1 DEF Charges!PromotionBase, Charges!Open
<1>5. PICK s \in Nat : s = c.stay
  BY <1>0
<1>6. Charges!Prorated(c.price, s) \in Nat
  <2>1. s \in Int /\ s >= 0
    OBVIOUS
  <2>2. PICK p \in Nat : p = c.price
    BY <1>0
  <2>3. Charges!Prorated(p, s) \in Int /\ Charges!Prorated(p, s) >= 0
    BY <2>1, ProratedIs
  <2> QED
    BY <2>2, <2>3
<1>7. PICK b \in Nat : b = Charges!PromotionBase(c)
  BY <1>0, <1>4, <1>5, <1>6
<1>8. PICK e \in Nat : e = Charges!Discount(c.promo, b, n) /\ e <= b
  BY DiscountsAre
<1>9. \A g \in BOOLEAN : Charges!EarlyDiscount(c, g, n) = IF g THEN e ELSE 0
  BY <1>7, <1>8 DEF Charges!EarlyDiscount
<1> QED
  BY <1>4, <1>7, <1>8, <1>9

-----------------------------------------------------------------------------
(* What the rows of a booking hold, from its quote to the latest renewal   *)

RenewalRows ==
    [month : Nat, last : BOOLEAN, rent : Int, next : Int, discount : Nat, tax : Int,
     total : Int, projected : Int]

PricesTyped ==
    /\ choice \in PriceChoices
    /\ phase \in {"quote", "create", "order", "pay", "paid"}
    /\ payable \in Int /\ cOrder \in Nat /\ amount \in Int
    /\ bill \in [total : Int, tax : Int, discount : Nat, insurance : {0} \cup PriceInsurances,
                 base : Nat]
    /\ taxes \in [site : Int, insurance : Nat]
    /\ misplaced \in BOOLEAN /\ repriced \in BOOLEAN /\ copied \in BOOLEAN
    /\ renewal \in RenewalRows
    /\ foretold \in [rent : Int, total : Int]

Booked == phase \in {"order", "pay", "paid"}

Insured == Charges!InsurancePrice(bill.insurance)
InsuredTax == Charges!Tax(Insured, PriceInsuranceTax)

PricesQuoted ==
    /\ phase # "quote" => payable = Charges!Quoted(choice, Charges!Offered(choice))
    /\ copied => Charges!Offered(choice)
    /\ ~Booked => /\ bill = Charges!NoBill /\ renewal = Charges!NoRenewal
                  /\ taxes = Charges!AppliedTaxes(0, 0)
                  /\ ~misplaced /\ ~repriced /\ foretold = Charges!Unforetold
    /\ Booked => renewal.month \in 1..(PriceEnd - 1)
    /\ phase \in {"order", "pay"} => renewal.month = 1 /\ ~repriced
    /\ phase \in {"pay", "paid"} =>
          cOrder = choice.pickup + Charges!Tax(choice.pickup, PriceServiceTax)

(* The first renewal is the booking's own: what it holds of the insurance's *)
(* taxes is that tax, or more where rows of one went missing.              *)
FirstMonth ==
    /\ renewal.last = Charges!IsLast(choice, 1)
    /\ renewal.rent = Charges!CheckoutRent(choice)
    /\ renewal.next = Charges!NextRent(choice, choice.price, 1)
    /\ renewal.discount = Charges!EarlyDiscount(choice, copied, 1)
    /\ bill.discount = Charges!EarlyDiscount(choice, copied, 1)
    /\ renewal.tax = bill.tax /\ renewal.total = bill.total
    /\ bill.total = 2 * Charges!CheckoutRent(choice) + Insured + bill.tax
                      - Charges!EarlyDiscount(choice, copied, 1)
    /\ taxes.site = Charges!SpaceTax(Charges!CheckoutRent(choice),
                                     Charges!EarlyDiscount(choice, copied, 1))
    /\ bill.tax >= taxes.site + taxes.insurance /\ bill.tax >= taxes.site + InsuredTax
    /\ ~misplaced => taxes.insurance = InsuredTax /\ bill.tax = taxes.site + taxes.insurance
    /\ renewal.projected =
          IF renewal.next = Charges!None \/ bill.insurance = 0 THEN renewal.next
          ELSE Charges!ProjectedTotal(choice, copied, choice.price, 1, renewal.next, Insured)
    /\ foretold = Charges!Unforetold
    /\ ~repriced => bill.base = choice.price
    /\ phase = "paid" => amount = renewal.total + cOrder

(* What a later month costs.                                               *)
Costs(c, got, base, k, insurance) ==
    Charges!RentOf(c, base, k) + insurance - Charges!LaterDiscount(c, got, base, k, k)
      + Charges!SpaceTax(Charges!RentOf(c, base, k), Charges!LaterDiscount(c, got, base, k, k))
      + Charges!Tax(insurance, PriceInsuranceTax)

(* A later one follows from the base amount as it stood.                   *)
LaterMonth ==
    LET c == choice  k == renewal.month IN
    /\ Lasts(c, k)
    /\ renewal.last = Charges!IsLast(c, k)
    /\ taxes.site + taxes.insurance = renewal.tax
    /\ ~repriced =>
          /\ renewal.rent = Charges!RentOf(c, bill.base, k)
          /\ renewal.next = Charges!NextRent(c, bill.base, k)
          /\ renewal.total = Costs(c, copied, bill.base, k, Insured)
          /\ renewal.projected =
                IF renewal.next = Charges!None THEN renewal.next
                ELSE Charges!ProjectedTotal(c, copied, bill.base, k, renewal.next, Insured)

PricesInv ==
    /\ PricesTyped /\ PricesQuoted
    /\ Booked /\ renewal.month = 1 => FirstMonth
    /\ renewal.month > 1 => LaterMonth
    /\ renewal.month > 1 /\ foretold.rent # Charges!None => renewal.rent = foretold.rent
    /\ Charges!ProjectionIsCharged

LEMMA QuotedIs ==
    ASSUME NEW c \in PriceChoices, NEW got \in BOOLEAN
    PROVE  /\ Charges!Tax(c.pickup, PriceServiceTax) \in Nat
           /\ Charges!Quoted(c, got) \in Int
           /\ Charges!Quoted(c, got) =
                 Charges!CheckoutRent(c) + Charges!InsurancePrice(c.insurance)
                   + Charges!CheckoutRent(c) + c.pickup
                   + Charges!SpaceTax(Charges!CheckoutRent(c),
                                      Charges!EarlyDiscount(c, got, 1))
                   + Charges!Tax(Charges!InsurancePrice(c.insurance), PriceInsuranceTax)
                   + Charges!Tax(c.pickup, PriceServiceTax)
                   - Charges!EarlyDiscount(c, got, 1)
<1>1. PICK R \in Nat : R = Charges!CheckoutRent(c)
  BY FirstRentIs
<1>2. PICK d \in Nat : d = Charges!EarlyDiscount(c, got, 1)
  BY EarlyDiscountsAre
<1>3. PICK i \in Nat : i = Charges!InsurancePrice(c.insurance)
  BY ChoicesAre, InsurancesAre
<1>4. PICK t \in Int : t = Charges!SpaceTax(R, d)
  BY SpaceTaxIs
<1>5. PICK x \in Nat : x = Charges!Tax(i, PriceInsuranceTax)
  BY <1>3, ChoicesAre, InsurancesAre
<1>6. PICK p \in Nat : p = c.pickup
  BY ChoicesAre
<1>7. PICK y \in Nat : y = Charges!Tax(p, PriceServiceTax)
  <2>1. Charges!Tax(p, PriceServiceTax) \in Int /\ Charges!Tax(p, PriceServiceTax) >= 0
    BY PercentsAre, TaxIs
  <2> QED
    BY <2>1
<1>8. Charges!Quoted(c, got) = R + i + R + p + t + x + y - d
  BY <1>1, <1>2, <1>3, <1>4, <1>5, <1>6, <1>7 DEF Charges!Quoted
<1>9. Charges!Quoted(c, got) \in Int
  BY <1>8
<1> QED
  BY <1>1, <1>2, <1>3, <1>4, <1>5, <1>6, <1>7, <1>8, <1>9

(* A renewal's row, with its taxes.                                       *)
LEMMA TaxedIs ==
    ASSUME NEW r \in RenewalRows, NEW t \in Int, NEW s, s = Charges!Taxed(r, t)
    PROVE  /\ s \in RenewalRows
           /\ s.month = r.month /\ s.last = r.last /\ s.rent = r.rent /\ s.next = r.next
           /\ s.discount = r.discount /\ s.projected = r.projected
           /\ s.tax = t /\ s.total = r.total + t
<1>1. PICK T \in Int : T = r.total + t
  BY DEF RenewalRows
<1>2. s = [r EXCEPT !.tax = t, !.total = T]
  BY <1>1 DEF Charges!Taxed, RenewalRows
<1>4. s \in RenewalRows
  BY <1>2 DEF RenewalRows
<1>5. /\ s.month = r.month /\ s.last = r.last /\ s.rent = r.rent /\ s.next = r.next
      /\ s.discount = r.discount /\ s.projected = r.projected
      /\ s.tax = t /\ s.total = T
  BY <1>2 DEF RenewalRows
<1> QED
  BY <1>1, <1>4, <1>5

LEMMA PricesStart == Charges!Init => PricesInv
<1> SUFFICES ASSUME Charges!Init PROVE PricesInv
  OBVIOUS
<1> USE DEF Charges!Init
<1>1. /\ bill = [total |-> 0, tax |-> 0, discount |-> 0, insurance |-> 0, base |-> 0]
      /\ renewal = [month |-> 0, last |-> FALSE, rent |-> 0, next |-> 0 - 1, discount |-> 0,
                    tax |-> 0, total |-> 0, projected |-> 0 - 1]
      /\ taxes = [site |-> 0, insurance |-> 0]
      /\ foretold = [rent |-> 0 - 1, total |-> 0 - 1]
  BY DEF Charges!NoBill, Charges!NoRenewal, Charges!AppliedTaxes, Charges!Unforetold,
         Charges!None
<1>2. PricesTyped
  <2>1. renewal \in RenewalRows
    BY <1>1 DEF RenewalRows
  <2>2. /\ bill \in [total : Int, tax : Int, discount : Nat,
                     insurance : {0} \cup PriceInsurances, base : Nat]
        /\ taxes \in [site : Int, insurance : Nat]
        /\ foretold \in [rent : Int, total : Int]
    BY <1>1
  <2>3. choice \in PriceChoices /\ phase = "quote"
    OBVIOUS
  <2>4. payable = 0 /\ cOrder = 0 /\ amount = 0
    OBVIOUS
  <2>5. misplaced \in BOOLEAN /\ repriced \in BOOLEAN /\ copied \in BOOLEAN
    OBVIOUS
  <2> HIDE DEF Charges!Init
  <2> QED
    BY <2>1, <2>2, <2>3, <2>4, <2>5 DEF PricesTyped
<1>3. renewal.month = 0
  BY <1>1
<1>4. PricesQuoted
  BY <1>3 DEF PricesQuoted, Booked
<1>5. Charges!ProjectionIsCharged
  BY <1>3 DEF Charges!ProjectionIsCharged
<1> QED
  BY <1>2, <1>3, <1>4, <1>5 DEF PricesInv, Booked

(* Only the first month of a booking is no later one.                      *)
LEMMA PricesEarly ==
    ASSUME renewal.month \in {0, 1}, PricesTyped, PricesQuoted, Booked => FirstMonth
    PROVE  PricesInv
<1>1. Charges!ProjectionIsCharged
  BY DEF Charges!ProjectionIsCharged
<1> QED
  BY <1>1 DEF PricesInv

LEMMA PricesWhenQuoted ==
    ASSUME PricesInv, Charges!Quote
    PROVE  PricesInv'
<1>0. PICK o \in BOOLEAN : o = Charges!Offered(choice)
  BY DEF Charges!Offered
<1>1. /\ phase = "quote" /\ phase' = "create" /\ payable' = Charges!Quoted(choice, o)
      /\ UNCHANGED <<choice, copied, bill, taxes, misplaced, renewal, foretold, cOrder, amount,
                     repriced>>
  BY <1>0 DEF Charges!Quote
<1>2. Charges!Quoted(choice, o) \in Int
  <2>1. choice \in PriceChoices
    BY DEF PricesInv, PricesTyped
  <2> QED
    BY <2>1, QuotedIs
<1>3. PricesTyped'
  BY <1>1, <1>2 DEF PricesInv, PricesTyped
<1>4. renewal'.month = 0 /\ ~Booked /\ ~Booked'
  BY <1>1 DEF PricesInv, PricesQuoted, Booked, Charges!NoRenewal
<1>5. PricesQuoted'
  BY <1>0, <1>1, <1>4 DEF PricesInv, PricesQuoted, Booked
<1> QED
  BY <1>3, <1>4, <1>5 DEF PricesInv, Charges!ProjectionIsCharged

LEMMA PricesWhenCreated ==
    ASSUME PricesInv, Charges!Create
    PROVE  PricesInv'
<1>0. choice \in PriceChoices
  BY DEF PricesInv, PricesTyped
<1>1. PICK R \in Nat : R = Charges!CheckoutRent(choice)
                       /\ R = Charges!RentOf(choice, choice.price, 1)
  BY <1>0, FirstRentIs
<1>2. copied' \in BOOLEAN /\ (copied' => Charges!Offered(choice))
  BY DEF Charges!Create, Charges!Offered
<1>3. PICK got \in BOOLEAN : got = copied'
  BY <1>2
<1>4. PICK d \in Nat : d = Charges!EarlyDiscount(choice, got, 1)
  BY <1>0, EarlyDiscountsAre
<1>5. PICK t \in Int : t = Charges!SpaceTax(R, d)
  BY SpaceTaxIs
<1>6. PICK n \in Int, l \in BOOLEAN :
         n = Charges!NextRent(choice, choice.price, 1) /\ l = Charges!IsLast(choice, 1)
  <2>1. 1 \in 1..(PriceEnd - 1)
    BY MonthsAre
  <2>2. choice.price \in Nat
    BY <1>0, ChoicesAre
  <2>3. /\ Charges!NextRent(choice, choice.price, 1) \in Int
        /\ Charges!IsLast(choice, 1) \in BOOLEAN
    BY <1>0, <2>1, <2>2, RentsAre
  <2> QED
    BY <2>3
<1>7. /\ bill' = [total |-> R + t + R - d, tax |-> t, discount |-> d, insurance |-> 0,
                  base |-> choice.price]
      /\ taxes' = [site |-> t, insurance |-> 0]
      /\ phase = "create" /\ phase' = "order"
      /\ UNCHANGED <<choice, payable, misplaced, foretold, cOrder, amount, repriced>>
  BY <1>1, <1>4, <1>5, <1>3 DEF Charges!Create, Charges!AppliedTaxes
<1>8. /\ renewal' \in RenewalRows /\ renewal'.month = 1
      /\ renewal'.last = l /\ renewal'.rent = R /\ renewal'.next = n
      /\ renewal'.discount = d /\ renewal'.tax = t /\ renewal'.projected = n
      /\ renewal'.total = R + R - d + t
  <2>1. PICK r : r = Charges!RenewalPayload(choice, choice.price, 1, 0, R, d)
    OBVIOUS
  <2>2. 1 \in 1..(PriceEnd - 1) /\ choice.price \in Nat
    BY <1>0, MonthsAre, ChoicesAre
  <2>3. /\ r \in RenewalRows /\ r.month = 1 /\ r.last = l /\ r.rent = R /\ r.next = n
        /\ r.discount = d /\ r.total = R + R + 0 - d
    <3>1. PICK T \in Int : T = R + R + 0 - d
      OBVIOUS
    <3>2. r = [month |-> 1, last |-> l, rent |-> R, next |-> n, discount |-> d, tax |-> 0,
               total |-> T, projected |-> Charges!None]
      BY <1>1, <1>6, <2>1, <3>1 DEF Charges!RenewalPayload
    <3>3. Charges!None \in Int
      BY DEF Charges!None
    <3> QED
      BY <3>1, <3>2, <3>3 DEF RenewalRows
  <2>4. PICK u : u = Charges!Taxed(r, t)
    OBVIOUS
  <2>5. /\ u \in RenewalRows /\ u.month = 1 /\ u.last = l /\ u.rent = R /\ u.next = n
        /\ u.discount = d /\ u.tax = t /\ u.total = R + R + 0 - d + t
    <3>1. /\ u \in RenewalRows /\ u.month = r.month /\ u.last = r.last /\ u.rent = r.rent
          /\ u.next = r.next /\ u.discount = r.discount /\ u.tax = t /\ u.total = r.total + t
      <4>1. r \in RenewalRows /\ t \in Int
        BY <2>3
      <4>2. u \in RenewalRows
        BY <4>1, <2>4, TaxedIs
      <4>3. u.month = r.month
        BY <4>1, <2>4, TaxedIs
      <4>4. u.last = r.last
        BY <4>1, <2>4, TaxedIs
      <4>5. u.total = r.total + t
        BY <4>1, <2>4, TaxedIs
      <4> QED
        BY <4>1, <2>4, TaxedIs
    <3> QED
      BY <2>3, <3>1
  <2>6. renewal' = [u EXCEPT !.projected = u.next]
    BY <1>1, <1>4, <1>5, <1>3, <2>1, <2>4 DEF Charges!Create, Charges!ProjectedFirst
  <2>7. R + R + 0 - d + t = R + R - d + t
    OBVIOUS
  <2> QED
    BY <2>5, <2>6, <2>7 DEF RenewalRows
<1>9. Insured' = 0 /\ InsuredTax' = 0
  <2>1. Insured' = 0
    BY <1>7 DEF Insured, Charges!InsurancePrice
  <2>2. 0 * PriceInsuranceTax = 0 /\ Charges!Round(0, 100) = 0
    BY PercentsAre, RoundWhole
  <2> QED
    BY <2>1, <2>2 DEF InsuredTax, Charges!Tax
<1>10. PricesTyped'
  <2>1. choice.price \in Nat
    BY <1>0, ChoicesAre
  <2> QED
    BY <1>7, <1>8, <1>2, <2>1 DEF PricesInv, PricesTyped
<1>11. /\ renewal'.month = 1 /\ Booked' /\ ~Booked
      /\ ~misplaced /\ ~repriced /\ foretold = Charges!Unforetold
  BY <1>7, <1>8 DEF PricesInv, PricesQuoted, Booked
<1>12. PricesQuoted'
  <2>1. 1 \in 1..(PriceEnd - 1)
    BY MonthsAre
  <2> QED
    BY <1>7, <1>11, <1>2, <2>1 DEF PricesInv, PricesQuoted
<1>13. FirstMonth'
  <2>1. /\ bill'.discount = d /\ bill'.tax = t /\ bill'.total = R + t + R - d
        /\ bill'.insurance = 0 /\ bill'.base = choice.price
        /\ taxes'.site = t /\ taxes'.insurance = 0
    BY <1>7
  <2>2. R + t + R - d = R + R - d + t /\ R + R - d + t = 2 * R + 0 + t - d
    OBVIOUS
  <2>3. t >= t + 0 /\ t = t + 0
    OBVIOUS
  <2>4. choice' = choice /\ phase' # "paid" /\ foretold' = Charges!Unforetold
    BY <1>7, <1>11
  <2> QED
    BY <1>1, <1>4, <1>5, <1>6, <1>8, <1>9, <1>3, <2>1, <2>2, <2>3, <2>4 DEF FirstMonth
<1> QED
  BY <1>10, <1>11, <1>12, <1>13 DEF PricesInv, Charges!ProjectionIsCharged

LEMMA ProjectedIs ==
    ASSUME NEW c \in PriceChoices, NEW base \in Nat, NEW k \in 1..(PriceEnd - 1),
           Lasts(c, k), NEW got \in BOOLEAN, NEW rent \in Int, NEW ins \in Nat
    PROVE  Charges!ProjectedTotal(c, got, base, k, rent, ins) \in Int
<1>1. PICK d \in Nat : d = Charges!LaterDiscount(c, got, base, k, k + 1)
  <2>1. k + 1 \in Nat
    BY MonthsAre
  <2> QED
    BY <2>1, LaterDiscountsAre
<1>2. PICK t \in Int : t = Charges!SpaceTax(rent, d)
  BY SpaceTaxIs
<1>3. PICK x \in Nat : x = Charges!Tax(ins, PriceInsuranceTax)
  BY PercentsAre, TaxCounts
<1>4. Charges!ProjectedTotal(c, got, base, k, rent, ins) = rent + ins + t + x - d
  BY <1>1, <1>2, <1>3 DEF Charges!ProjectedTotal, Charges!MonthTotal
<1> QED
  BY <1>4

LEMMA PricesWhenInsured ==
    ASSUME PricesInv, NEW i \in PriceInsurances, Charges!Insure(i)
    PROVE  PricesInv'
<1>1. /\ PricesTyped /\ PricesQuoted /\ FirstMonth /\ choice \in PriceChoices
      /\ phase \in {"order", "pay"} /\ renewal.month = 1 /\ ~repriced
      /\ bill.base = choice.price
  BY DEF PricesInv, PricesQuoted, PricesTyped, FirstMonth, Booked, Charges!Insure
<1>2. UNCHANGED <<choice, phase, payable, copied, misplaced, foretold, cOrder, amount, repriced>>
  BY DEF Charges!Insure
<1>3. /\ i \in Nat /\ i # 0 /\ bill.insurance \in Nat
      /\ taxes.insurance \in Nat /\ taxes.site \in Int
      /\ bill.total \in Int /\ bill.tax \in Int /\ renewal.next \in Int
      /\ renewal.projected \in Int
  <2>1. bill.insurance \in {0} \cup PriceInsurances
    BY <1>1 DEF PricesTyped
  <2> QED
    BY <1>1, <2>1, PercentsAre DEF PricesTyped, RenewalRows
<1>4. PICK new \in Nat, added \in Nat :
         /\ new = Charges!InsurancePrice(i)
         /\ added = Charges!Tax(new, PriceInsuranceTax)
  <2>1. /\ Charges!InsurancePrice(i) \in Nat
        /\ Charges!Tax(Charges!InsurancePrice(i), PriceInsuranceTax) \in Nat
    BY <1>3, InsurancesAre
  <2> QED
    BY <2>1
<1>5. PICK old \in Nat : old = Insured
  BY <1>3, InsurancesAre DEF Insured
<1>6. PICK had \in Nat : had = InsuredTax
  BY <1>3, InsurancesAre DEF InsuredTax, Insured
<1>7. PICK removed \in Nat : removed = taxes.insurance
  BY <1>3
<1>8. PICK sum \in Int : sum = bill.total + added + new - old - removed
  BY <1>3
<1>9. PICK tax \in Int : tax = bill.tax + added - removed
  BY <1>3
<1>10. PICK P \in Int :
          P = IF renewal.next = Charges!None THEN renewal.projected
              ELSE Charges!ProjectedTotal(choice, copied, bill.base, 1, renewal.next, new)
  <2>1. 1 \in 1..(PriceEnd - 1) /\ bill.base \in Nat /\ Lasts(choice, 1) /\ copied \in BOOLEAN
    BY <1>1, MonthsAre, ChoicesAre DEF Lasts, PricesTyped
  <2>2. Charges!ProjectedTotal(choice, copied, bill.base, 1, renewal.next, new) \in Int
    BY <1>1, <1>3, <2>1, ProjectedIs
  <2> QED
    BY <1>3, <2>2
<1>11. bill' = [bill EXCEPT !.insurance = i, !.total = sum, !.tax = tax]
  BY <1>3, <1>4, <1>5, <1>7, <1>8, <1>9 DEF Charges!Insure, Insured, PricesTyped, PricesInv
<1>12. renewal' = [renewal EXCEPT !.total = sum, !.tax = tax, !.projected = P]
  BY <1>1, <1>3, <1>4, <1>5, <1>7, <1>8, <1>9, <1>10
     DEF Charges!Insure, Insured, PricesTyped, RenewalRows
<1>13. taxes' = [site |-> taxes.site, insurance |-> added]
  <2>1. taxes' = Charges!AppliedTaxes(Charges!WithoutInsurance(taxes).site, added)
    BY <1>4 DEF Charges!Insure
  <2>2. Charges!WithoutInsurance(taxes).site = taxes.site
    BY <1>1 DEF Charges!WithoutInsurance, PricesTyped
  <2> QED
    BY <2>1, <2>2 DEF Charges!AppliedTaxes
<1>14. /\ bill' \in [total : Int, tax : Int, discount : Nat,
                     insurance : {0} \cup PriceInsurances, base : Nat]
       /\ bill'.total = sum /\ bill'.tax = tax /\ bill'.insurance = i
       /\ bill'.discount = bill.discount /\ bill'.base = bill.base
  BY <1>1, <1>11 DEF PricesTyped
<1>15. renewal' \in RenewalRows
  BY <1>1, <1>12 DEF PricesTyped, RenewalRows
<1>16. /\ renewal'.month = 1 /\ renewal'.last = renewal.last /\ renewal'.rent = renewal.rent
       /\ renewal'.next = renewal.next /\ renewal'.discount = renewal.discount
       /\ renewal'.tax = tax /\ renewal'.total = sum /\ renewal'.projected = P
  BY <1>1, <1>12 DEF PricesTyped, RenewalRows
<1>17. taxes' \in [site : Int, insurance : Nat] /\ taxes'.site = taxes.site
       /\ taxes'.insurance = added
  BY <1>3, <1>13
<1>18. Insured' = new /\ InsuredTax' = added
  BY <1>4, <1>14 DEF Insured, InsuredTax
<1>19. PricesTyped'
  BY <1>1, <1>2, <1>14, <1>15, <1>17 DEF PricesTyped
<1>20. PricesQuoted'
  BY <1>1, <1>2, <1>16 DEF PricesQuoted, Booked
<1>21. FirstMonth'
  <2>1. /\ renewal'.last = Charges!IsLast(choice', 1)
        /\ renewal'.rent = Charges!CheckoutRent(choice')
        /\ renewal'.next = Charges!NextRent(choice', choice'.price, 1)
        /\ renewal'.discount = Charges!EarlyDiscount(choice', copied', 1)
        /\ bill'.discount = Charges!EarlyDiscount(choice', copied', 1)
        /\ renewal'.tax = bill'.tax /\ renewal'.total = bill'.total
        /\ taxes'.site = Charges!SpaceTax(Charges!CheckoutRent(choice'),
                                          Charges!EarlyDiscount(choice', copied', 1))
    BY <1>1, <1>2, <1>14, <1>16, <1>17 DEF FirstMonth
  <2>2. bill'.total = 2 * Charges!CheckoutRent(choice') + Insured' + bill'.tax
                        - Charges!EarlyDiscount(choice', copied', 1)
    <3>1. PICK R \in Nat, d \in Nat :
             R = Charges!CheckoutRent(choice) /\ d = Charges!EarlyDiscount(choice, copied, 1)
      BY <1>1, FirstRentIs, EarlyDiscountsAre DEF PricesTyped
    <3>2. bill.total = 2 * R + old + bill.tax - d
      BY <1>1, <1>5, <3>1 DEF FirstMonth
    <3>3. sum = 2 * R + new + tax - d
      BY <1>3, <1>8, <1>9, <3>2
    <3> QED
      BY <1>2, <1>14, <1>18, <3>1, <3>3
  <2>3. /\ bill'.tax >= taxes'.site + taxes'.insurance /\ bill'.tax >= taxes'.site + InsuredTax'
        /\ ~misplaced' => taxes'.insurance = InsuredTax'
                          /\ bill'.tax = taxes'.site + taxes'.insurance
    <3>1. /\ bill.tax >= taxes.site + removed
          /\ ~misplaced => bill.tax = taxes.site + removed
      BY <1>1, <1>7 DEF FirstMonth
    <3>2. /\ tax >= taxes.site + added
          /\ ~misplaced => tax = taxes.site + added
      BY <1>3, <1>9, <3>1
    <3> QED
      BY <1>2, <1>14, <1>17, <1>18, <3>2
  <2>4. renewal'.projected =
          IF renewal'.next = Charges!None \/ bill'.insurance = 0 THEN renewal'.next
          ELSE Charges!ProjectedTotal(choice', copied', choice'.price, 1, renewal'.next, Insured')
    <3>1. renewal.next = Charges!None => renewal.projected = renewal.next
      BY <1>1 DEF FirstMonth
    <3> QED
      BY <1>1, <1>2, <1>3, <1>10, <1>14, <1>16, <1>18, <3>1
  <2>5. /\ foretold' = Charges!Unforetold /\ phase' # "paid"
        /\ bill'.base = choice'.price
    BY <1>1, <1>2, <1>14 DEF FirstMonth
  <2> QED
    BY <2>1, <2>2, <2>3, <2>4, <2>5 DEF FirstMonth
<1> QED
  BY <1>16, <1>19, <1>20, <1>21 DEF PricesInv, Charges!ProjectionIsCharged

LEMMA PricesWhenInsureFails ==
    ASSUME PricesInv, Charges!InsureFails
    PROVE  PricesInv'
<1>1. /\ PricesTyped /\ PricesQuoted /\ FirstMonth
      /\ phase \in {"order", "pay"} /\ renewal.month = 1
  BY DEF PricesInv, PricesQuoted, FirstMonth, Booked, Charges!InsureFails
<1>2. /\ UNCHANGED <<choice, phase, payable, copied, bill, renewal, foretold, cOrder, amount,
                     repriced>>
      /\ misplaced' = TRUE /\ taxes' = [taxes EXCEPT !.insurance = 0]
  BY DEF Charges!InsureFails, Charges!WithoutInsurance
<1>3. taxes' \in [site : Int, insurance : Nat] /\ taxes'.site = taxes.site
      /\ taxes'.insurance = 0
  BY <1>1, <1>2 DEF PricesTyped
<1>4. PricesTyped'
  BY <1>1, <1>2, <1>3 DEF PricesTyped
<1>5. PricesQuoted'
  BY <1>1, <1>2 DEF PricesQuoted, Booked
<1>6. Insured' = Insured /\ InsuredTax' = InsuredTax
  BY <1>2 DEF Insured, InsuredTax
<1>7. bill.tax >= taxes.site + 0
  <2>1. taxes.site \in Int /\ taxes.insurance \in Nat /\ bill.tax \in Int
        /\ bill.tax >= taxes.site + taxes.insurance
    BY <1>1 DEF PricesTyped, FirstMonth
  <2> QED
    BY <2>1
<1>8. FirstMonth'
  BY <1>1, <1>2, <1>3, <1>6, <1>7 DEF FirstMonth
<1> QED
  BY <1>1, <1>2, <1>4, <1>5, <1>8 DEF PricesInv, Charges!ProjectionIsCharged

LEMMA PricesWhenOrdered ==
    ASSUME PricesInv, Charges!PlaceOrder
    PROVE  PricesInv'
<1>1. /\ PricesTyped /\ PricesQuoted /\ FirstMonth /\ choice \in PriceChoices
      /\ phase = "order" /\ renewal.month = 1
  BY DEF PricesInv, PricesQuoted, PricesTyped, FirstMonth, Booked, Charges!PlaceOrder
<1>2. /\ UNCHANGED <<choice, payable, copied, bill, taxes, misplaced, renewal, foretold, amount,
                     repriced>>
      /\ phase' = "pay"
      /\ cOrder' = choice.pickup + Charges!Tax(choice.pickup, PriceServiceTax)
  BY DEF Charges!PlaceOrder
<1>3. cOrder' \in Nat
  <2>1. Charges!Tax(choice.pickup, PriceServiceTax) \in Nat /\ choice.pickup \in Nat
    BY <1>1, QuotedIs, ChoicesAre
  <2> QED
    BY <1>2, <2>1
<1>4. PricesTyped'
  BY <1>1, <1>2, <1>3 DEF PricesTyped
<1>5. PricesQuoted'
  BY <1>1, <1>2 DEF PricesQuoted, Booked
<1>6. Insured' = Insured /\ InsuredTax' = InsuredTax
  BY <1>2 DEF Insured, InsuredTax
<1>7. FirstMonth'
  BY <1>1, <1>2, <1>6 DEF FirstMonth
<1> QED
  BY <1>1, <1>2, <1>4, <1>5, <1>7 DEF PricesInv, Charges!ProjectionIsCharged

LEMMA PricesWhenPaid ==
    ASSUME PricesInv, Charges!PayBooking
    PROVE  PricesInv'
<1>1. /\ PricesTyped /\ PricesQuoted /\ FirstMonth
      /\ phase = "pay" /\ renewal.month = 1
  BY DEF PricesInv, PricesQuoted, FirstMonth, Booked, Charges!PayBooking
<1>2. /\ UNCHANGED <<choice, payable, copied, bill, taxes, misplaced, renewal, foretold, cOrder,
                     repriced>>
      /\ phase' = "paid" /\ amount' = renewal.total + cOrder
  BY DEF Charges!PayBooking
<1>3. amount' \in Int
  BY <1>1, <1>2 DEF PricesTyped, RenewalRows
<1>4. PricesTyped'
  BY <1>1, <1>2, <1>3 DEF PricesTyped
<1>5. PricesQuoted'
  BY <1>1, <1>2 DEF PricesQuoted, Booked
<1>6. Insured' = Insured /\ InsuredTax' = InsuredTax
  BY <1>2 DEF Insured, InsuredTax
<1>7. FirstMonth'
  BY <1>1, <1>2, <1>6 DEF FirstMonth
<1> QED
  BY <1>1, <1>2, <1>4, <1>5, <1>7 DEF PricesInv, Charges!ProjectionIsCharged

LEMMA PricesWhenRepriced ==
    ASSUME PricesInv, NEW p \in PriceBases, Charges!Reprice(p)
    PROVE  PricesInv'
<1>1. /\ UNCHANGED <<choice, phase, payable, copied, taxes, misplaced, renewal, foretold, cOrder,
                     amount>>
      /\ phase = "paid" /\ repriced' = TRUE /\ bill' = [bill EXCEPT !.base = p]
  BY DEF Charges!Reprice
<1>2. /\ bill' \in [total : Int, tax : Int, discount : Nat,
                    insurance : {0} \cup PriceInsurances, base : Nat]
      /\ bill'.total = bill.total /\ bill'.tax = bill.tax /\ bill'.insurance = bill.insurance
      /\ bill'.discount = bill.discount
  <2>1. p \in Nat
    BY PercentsAre
  <2> QED
    BY <1>1, <2>1 DEF PricesInv, PricesTyped
<1>3. PricesTyped'
  BY <1>1, <1>2 DEF PricesInv, PricesTyped
<1>4. PricesQuoted'
  BY <1>1 DEF PricesInv, PricesQuoted, Booked
<1>5. Insured' = Insured /\ InsuredTax' = InsuredTax
  BY <1>2 DEF Insured, InsuredTax
<1>6. renewal.month = 1 => FirstMonth'
  <2> SUFFICES ASSUME renewal.month = 1 PROVE FirstMonth'
    OBVIOUS
  <2>1. FirstMonth
    BY <1>1 DEF PricesInv, Booked
  <2> QED
    BY <1>1, <1>2, <1>5, <2>1 DEF FirstMonth
<1>7. renewal.month > 1 => LaterMonth'
  <2> SUFFICES ASSUME renewal.month > 1 PROVE LaterMonth'
    OBVIOUS
  <2>1. LaterMonth
    BY DEF PricesInv
  <2> QED
    BY <1>1, <2>1 DEF LaterMonth
<1>8. Charges!ProjectionIsCharged'
  BY <1>1, <1>2 DEF PricesInv, Charges!ProjectionIsCharged, Charges!Lapsed
<1> QED
  BY <1>1, <1>3, <1>4, <1>6, <1>7, <1>8 DEF PricesInv

(* What was within a month of its end when a month was made was not so the *)
(* month before.                                                           *)
LEMMA WithinGrows ==
    ASSUME NEW c \in PriceChoices, NEW j \in 1..(PriceEnd - 2),
           ~Charges!WithinAMonth(c, j + 1)
    PROVE  ~Charges!WithinAMonth(c, j)
<1>0. c.stay \in Nat
  BY ChoicesAre
<1>1. /\ PriceEnd \in Nat /\ j \in Nat /\ j + 1 # 1 /\ (j + 1) - 1 = j
      /\ j \in 1..PriceEnd /\ j \in 1..(PriceEnd + 1)
  BY MonthsAre
<1>2. PriceMonths[j] \in 28..31 /\ Charges!StartOf[j] \in Nat
      /\ Charges!StartOf[j + 1] = Charges!StartOf[j] + PriceMonths[j]
  BY <1>1, MonthsAre, StartsAre, StartsGrow
<1>3. Charges!Today(j + 1) = Charges!StartOf[j] + PriceMonths[j] - 2
  BY <1>1, <1>2, PercentsAre DEF Charges!Today
<1>4. Charges!WithinAMonth(c, j + 1) <=>
         /\ c.stay # 0
         /\ Charges!StartOf[j] + PriceMonths[j] - 2 + PriceMonths[j] > c.stay - 1
  BY <1>1, <1>3 DEF Charges!WithinAMonth, Charges!Open
<1>5. CASE j = 1
  <2>1. Charges!WithinAMonth(c, j) <=> c.stay # 0 /\ 0 + PriceMonths[1] > c.stay - 1
    BY <1>5 DEF Charges!WithinAMonth, Charges!Open, Charges!Today
  <2> QED
    BY <1>0, <1>2, <1>4, <1>5, <2>1
<1>6. CASE j # 1
  <2>1. j - 1 \in 1..PriceEnd
    BY <1>1, <1>6
  <2>2. PriceMonths[j - 1] \in 28..31
    BY <2>1, MonthsAre
  <2>3. Charges!WithinAMonth(c, j) <=>
           c.stay # 0 /\ Charges!StartOf[j] - 2 + PriceMonths[j - 1] > c.stay - 1
    BY <1>6, PercentsAre DEF Charges!WithinAMonth, Charges!Open, Charges!Today
  <2> QED
    BY <1>0, <1>2, <1>4, <2>2, <2>3
<1> QED
  BY <1>5, <1>6

(* A promotion that runs when a month is made ran when the one before was. *)
LEMMA RanBefore ==
    ASSUME NEW c \in PriceChoices, NEW j \in 1..(PriceEnd - 2),
           Charges!Runs(c.promo, Charges!Today(j + 1))
    PROVE  Charges!Runs(c.promo, Charges!Today(j))
<1>1. /\ j \in 1..PriceEnd /\ j \in 1..(PriceEnd + 1) /\ j + 1 # 1 /\ 1 \in 1..j
  BY MonthsAre
<1>2. PriceMonths[j] \in 28..31 /\ Charges!StartOf[j] \in Nat
      /\ Charges!StartOf[j + 1] = Charges!StartOf[j] + PriceMonths[j]
  BY <1>1, MonthsAre, StartsAre, StartsGrow
<1>3. Charges!Today(j + 1) = Charges!StartOf[j] + PriceMonths[j] - 2
  BY <1>1, <1>2, PercentsAre DEF Charges!Today
<1>4. Charges!Today(j) = IF j = 1 THEN 0 ELSE Charges!StartOf[j] - 2
  BY PercentsAre DEF Charges!Today
<1> QED
  BY <1>2, <1>3, <1>4, ChoicesAre DEF Charges!Runs

(* The next rent is what the next month charges; a month's projected total *)
(* is what it comes to, unless its promotion has ended by then; and        *)
(* without a promotion it comes to the rent, the insurance and their tax.  *)
LEMMA NextIsCharged ==
    ASSUME NEW c \in PriceChoices, NEW base \in Nat, NEW j \in 1..(PriceEnd - 2),
           NEW got \in BOOLEAN, NEW ins \in Nat, Lasts(c, j + 1),
           Charges!NextRent(c, base, j) # Charges!None
    PROVE  /\ Charges!RentOf(c, base, j + 1) = Charges!NextRent(c, base, j)
           /\ ~Charges!WithinAMonth(c, j + 1)
                 /\ (got => Charges!Runs(c.promo, Charges!Today(j + 1))) =>
                    Charges!ProjectedTotal(c, got, base, j, Charges!NextRent(c, base, j), ins) =
                       Costs(c, got, base, j + 1, ins)
           /\ ~(got /\ Charges!Runs(c.promo, Charges!Today(j + 1))) =>
                 Costs(c, got, base, j + 1, ins) =
                    Charges!MonthTotal(Charges!NextRent(c, base, j), ins, 0)
<1>0. j \in 1..(PriceEnd - 1) /\ j + 1 \in 1..(PriceEnd - 1) /\ j \in Nat /\ j + 1 \in Nat
  BY MonthsAre
<1>1. Charges!RentOf(c, base, j + 1) = Charges!NextRent(c, base, j)
  BY DEF Charges!RentOf, Charges!NextRent, Charges!IsLast
<1>2. PICK n \in Int : n = Charges!NextRent(c, base, j)
  BY <1>0, RentsAre
<1>3. PICK d \in Nat : d = Charges!LaterDiscount(c, got, base, j + 1, j + 1)
  BY <1>0, LaterDiscountsAre
<1>4. PICK t \in Int : t = Charges!SpaceTax(n, d)
  BY SpaceTaxIs
<1>5. PICK x \in Nat : x = Charges!Tax(ins, PriceInsuranceTax)
  BY PercentsAre, TaxCounts
<1>6. Costs(c, got, base, j + 1, ins) = n + ins - d + t + x
  BY <1>1, <1>2, <1>3, <1>4, <1>5 DEF Costs
<1>7. Charges!MonthTotal(n, ins, d) = n + ins + t + x - d
  BY <1>4, <1>5 DEF Charges!MonthTotal
<1>8. n + ins - d + t + x = n + ins + t + x - d
  OBVIOUS
<1>9. ASSUME ~Charges!WithinAMonth(c, j + 1),
             got => Charges!Runs(c.promo, Charges!Today(j + 1))
      PROVE  Charges!ProjectedTotal(c, got, base, j, n, ins) = Charges!MonthTotal(n, ins, d)
  <2>1. ~Charges!WithinAMonth(c, j)
    BY <1>9, WithinGrows
  <2>2. got => Charges!Runs(c.promo, Charges!Today(j))
    BY <1>9, RanBefore
  <2>3. Charges!LaterDiscount(c, got, base, j, j + 1) = d
    BY <1>3, <1>9, <2>1, <2>2 DEF Charges!LaterDiscount, Charges!LaterBase
  <2> QED
    BY <2>3 DEF Charges!ProjectedTotal
<1>10. ~(got /\ Charges!Runs(c.promo, Charges!Today(j + 1))) => d = 0
  BY <1>3 DEF Charges!LaterDiscount
<1> QED
  BY <1>1, <1>2, <1>6, <1>7, <1>8, <1>9, <1>10

LEMMA PricesWhenRenewed ==
    ASSUME PricesInv, Charges!Renew
    PROVE  PricesInv'
<1> DEFINE c == choice
           j == renewal.month
           base == bill.base
           got == copied
<1>1. /\ PricesTyped /\ PricesQuoted /\ c \in PriceChoices /\ base \in Nat /\ Booked
      /\ phase = "paid" /\ ~renewal.last /\ j + 1 < PriceEnd /\ j \in 1..(PriceEnd - 1)
      /\ bill.insurance \in {0} \cup PriceInsurances /\ got \in BOOLEAN
  BY DEF PricesInv, PricesQuoted, PricesTyped, Booked, Charges!Renew, PriceEnd
<1>2. /\ PriceEnd \in Nat /\ j \in 1..(PriceEnd - 2) /\ j + 1 \in 1..(PriceEnd - 1)
      /\ j + 1 > 1 /\ j + 1 # 1
  BY <1>1, MonthsAre
<1>3. UNCHANGED <<choice, phase, payable, copied, bill, misplaced, cOrder, amount>>
      /\ repriced' = FALSE
  BY DEF Charges!Renew
<1>4. Lasts(c, j) /\ Lasts(c, j + 1)
  <2>1. Lasts(c, j) /\ renewal.last = Charges!IsLast(c, j)
    <3>1. CASE j = 1
      BY <1>1, <3>1 DEF PricesInv, FirstMonth, Lasts
    <3>2. CASE j # 1
      <4>1. j > 1
        BY <1>1, <3>2
      <4> QED
        BY <4>1 DEF PricesInv, LaterMonth
    <3> QED
      BY <3>1, <3>2
  <2>2. c.stay = 0 \/ ~(c.stay < Charges!StartOf[j + 2])
    BY <1>1, <2>1, RentsAre
  <2>3. c.stay \in Nat /\ Charges!StartOf[j + 2] \in Nat /\ j + 2 = (j + 1) + 1
    <3>1. j + 2 \in 1..(PriceEnd + 1)
      BY <1>1, <1>2
    <3> QED
      BY <1>1, <3>1, ChoicesAre, StartsGrow
  <2> QED
    BY <2>1, <2>2, <2>3 DEF Lasts
<1>5. PICK k \in 1..(PriceEnd - 1) : k = j + 1
  BY <1>2
<1>6. PICK d \in Nat, e \in Nat :
         /\ d = Charges!LaterDiscount(c, got, base, k, k)
         /\ e = Charges!LaterDiscount(c, got, base, k, k + 1)
  <2>1. k \in Nat /\ k + 1 \in Nat /\ Lasts(c, k)
    BY <1>2, <1>4, <1>5
  <2>2. /\ Charges!LaterDiscount(c, got, base, k, k) \in Nat
        /\ Charges!LaterDiscount(c, got, base, k, k + 1) \in Nat
    BY <1>1, <2>1, LaterDiscountsAre
  <2> QED
    BY <2>2
<1>7. PICK ins \in Nat, x \in Nat : ins = Insured /\ x = InsuredTax
  <2>1. bill.insurance \in Nat
    BY <1>1, PercentsAre
  <2>2. Insured \in Nat /\ InsuredTax \in Nat
    BY <2>1, InsurancesAre DEF Insured, InsuredTax
  <2> QED
    BY <2>2
<1>8. PICK R \in Int, n \in Int, l \in BOOLEAN :
         /\ R = Charges!RentOf(c, base, k) /\ n = Charges!NextRent(c, base, k)
         /\ l = Charges!IsLast(c, k)
  <2>1. /\ Charges!RentOf(c, base, k) \in Int /\ Charges!NextRent(c, base, k) \in Int
        /\ Charges!IsLast(c, k) \in BOOLEAN
    BY <1>1, RentsAre
  <2> QED
    BY <2>1
<1>9. PICK t \in Int : t = Charges!SpaceTax(R, d)
  BY SpaceTaxIs
<1>10. PICK P \in Int : P = Charges!ProjectedTotal(c, got, base, k, n, ins)
  <2>1. Lasts(c, k)
    BY <1>4, <1>5
  <2> QED
    BY <1>1, <2>1, ProjectedIs
<1>11. PICK r : r = Charges!RenewalPayload(c, base, k, ins, 0, d)
  OBVIOUS
<1>12. r \in RenewalRows /\ r.month = k /\ r.last = l /\ r.rent = R /\ r.next = n
       /\ r.discount = d /\ r.total = R + 0 + ins - d /\ r.projected = Charges!None
  <2>1. PICK T \in Int : T = R + 0 + ins - d
    OBVIOUS
  <2>2. r = [month |-> k, last |-> l, rent |-> R, next |-> n, discount |-> d, tax |-> 0,
             total |-> T, projected |-> Charges!None]
    BY <1>8, <1>11, <2>1 DEF Charges!RenewalPayload
  <2>3. Charges!None \in Int /\ k \in Nat
    BY <1>2 DEF Charges!None
  <2> QED
    BY <2>1, <2>2, <2>3 DEF RenewalRows
<1>13. PICK both \in Int : both = t + x
  OBVIOUS
<1>14. PICK u : u = Charges!Taxed(r, both)
  OBVIOUS
<1>15. u \in RenewalRows /\ u.month = r.month /\ u.last = r.last /\ u.rent = r.rent
       /\ u.next = r.next /\ u.discount = r.discount /\ u.projected = r.projected
       /\ u.tax = both /\ u.total = r.total + both
  <2>1. r \in RenewalRows
    BY <1>12
  <2> QED
    BY <1>14, <2>1, TaxedIs
<1>16. taxes' = [site |-> t, insurance |-> x]
  BY <1>5, <1>6, <1>7, <1>8, <1>9, <1>11, <1>12
     DEF Charges!Renew, Charges!AppliedTaxes, Insured, InsuredTax
<1>17. renewal' = IF n = Charges!None THEN u
                  ELSE [u EXCEPT !.discount = e, !.projected = P]
  BY <1>5, <1>6, <1>7, <1>8, <1>9, <1>10, <1>11, <1>12, <1>13, <1>14
     DEF Charges!Renew, Charges!AppliedTaxes, Insured, InsuredTax
<1>18. foretold' = IF repriced THEN Charges!Unforetold
                   ELSE [rent |-> renewal.next, total |-> renewal.projected]
  BY DEF Charges!Renew
<1> HIDE DEF c, j, base, got
<1>19. /\ renewal' \in RenewalRows
       /\ renewal'.month = u.month /\ renewal'.last = u.last /\ renewal'.rent = u.rent
       /\ renewal'.next = u.next /\ renewal'.tax = u.tax /\ renewal'.total = u.total
       /\ renewal'.projected = IF n = Charges!None THEN u.projected ELSE P
  <2>1. CASE n = Charges!None
    BY <1>15, <1>17, <2>1
  <2>2. CASE n # Charges!None
    <3>1. u \in RenewalRows
      BY <1>15
    <3>2. renewal' = [u EXCEPT !.discount = e, !.projected = P]
      BY <1>17, <2>2
    <3>3. renewal' \in RenewalRows
      BY <3>1, <3>2 DEF RenewalRows
    <3>4. /\ renewal'.month = u.month /\ renewal'.last = u.last /\ renewal'.rent = u.rent
          /\ renewal'.next = u.next /\ renewal'.tax = u.tax /\ renewal'.total = u.total
          /\ renewal'.projected = P
      BY <3>1, <3>2 DEF RenewalRows
    <3> QED
      BY <2>2, <3>3, <3>4
  <2> QED
    BY <2>1, <2>2
<1>20. /\ renewal'.month = k /\ renewal'.last = l /\ renewal'.rent = R
       /\ renewal'.next = n /\ renewal'.tax = t + x
       /\ renewal'.total = Costs(c, got, base, k, ins)
       /\ renewal'.projected = IF n = Charges!None THEN n ELSE P
  <2>1. Costs(c, got, base, k, ins) = R + ins - d + t + x
    BY <1>6, <1>7, <1>8, <1>9 DEF Costs, InsuredTax
  <2>2. R + 0 + ins - d + (t + x) = R + ins - d + t + x
    OBVIOUS
  <2> QED
    BY <1>12, <1>13, <1>15, <1>19, <2>1, <2>2
<1>21. taxes' \in [site : Int, insurance : Nat] /\ taxes'.site = t /\ taxes'.insurance = x
  BY <1>16
<1>22. Insured' = ins
  BY <1>3, <1>7 DEF Insured
<1>23. foretold' \in [rent : Int, total : Int]
  <2>1. Charges!Unforetold \in [rent : Int, total : Int]
    BY DEF Charges!Unforetold, Charges!None
  <2>2. renewal.next \in Int /\ renewal.projected \in Int
    BY <1>1 DEF PricesTyped, RenewalRows
  <2> QED
    BY <1>18, <2>1, <2>2
<1>24. PricesTyped'
  BY <1>1, <1>3, <1>19, <1>21, <1>23 DEF PricesTyped
<1>25. PricesQuoted'
  BY <1>1, <1>2, <1>3, <1>20 DEF PricesQuoted, Booked
<1>26. LaterMonth'
  <2>1. /\ choice' = c /\ bill'.base = base /\ copied' = got
    BY <1>3 DEF c, base, got
  <2>2. Lasts(c, k)
    BY <1>4, <1>5
  <2> QED
    BY <1>8, <1>10, <1>20, <1>21, <1>22, <2>1, <2>2 DEF LaterMonth
<1>27. ~repriced => renewal.next = Charges!NextRent(c, base, j)
  <2> SUFFICES ASSUME ~repriced PROVE renewal.next = Charges!NextRent(c, base, j)
    OBVIOUS
  <2>1. CASE j = 1
    BY <1>1, <2>1 DEF PricesInv, FirstMonth, c, j, base
  <2>2. CASE j # 1
    <3>1. j > 1
      BY <1>1, <2>2
    <3> QED
      BY <3>1 DEF PricesInv, LaterMonth, c, j, base
  <2> QED
    BY <2>1, <2>2
<1>28. /\ ~repriced => foretold'.rent = renewal.next /\ foretold'.total = renewal.projected
       /\ repriced => foretold'.rent = Charges!None /\ foretold'.total = Charges!None
  BY <1>18 DEF Charges!Unforetold
<1>29. ASSUME ~repriced, renewal.next # Charges!None
       PROVE  /\ R = renewal.next
              /\ ~Charges!WithinAMonth(c, k)
                    /\ (got => Charges!Runs(c.promo, Charges!Today(k))) =>
                       Charges!ProjectedTotal(c, got, base, j, renewal.next, ins) =
                          Costs(c, got, base, k, ins)
              /\ ~(got /\ Charges!Runs(c.promo, Charges!Today(k))) =>
                    Costs(c, got, base, k, ins) = Charges!MonthTotal(renewal.next, ins, 0)
  BY <1>1, <1>2, <1>4, <1>5, <1>8, <1>27, <1>29, NextIsCharged
<1>30. foretold'.rent # Charges!None => renewal'.rent = foretold'.rent
  BY <1>20, <1>28, <1>29
<1>31. Charges!ProjectionIsCharged'
  <2> SUFFICES ASSUME foretold'.total # Charges!None
               PROVE  IF renewal'.month = 2 /\ bill'.insurance = 0
                      THEN foretold'.total = foretold'.rent
                      ELSE IF Charges!Lapsed(k)'
                           THEN renewal'.total = Charges!MonthTotal(foretold'.rent, ins, 0)
                      ELSE ~Charges!WithinAMonth(choice', renewal'.month) =>
                              renewal'.total = foretold'.total
    BY <1>20, <1>22 DEF Charges!ProjectionIsCharged, Insured
  <2>1. ~repriced /\ foretold'.total = renewal.projected /\ foretold'.rent = renewal.next
    BY <1>28
  <2>2. k = 2 <=> j = 1
    BY <1>1, <1>5
  <2>3. renewal.projected =
          IF renewal.next = Charges!None \/ (j = 1 /\ bill.insurance = 0) THEN renewal.next
          ELSE Charges!ProjectedTotal(c, got, base, j, renewal.next, ins)
    <3>1. CASE j = 1
      BY <1>1, <1>7, <2>1, <3>1 DEF PricesInv, FirstMonth, c, j, base, got
    <3>2. CASE j # 1
      <4>1. j > 1
        BY <1>1, <3>2
      <4> QED
        BY <1>7, <2>1, <3>2, <4>1 DEF PricesInv, LaterMonth, c, j, base, got
    <3> QED
      BY <3>1, <3>2
  <2>4. Charges!Lapsed(k)' <=>
           Charges!Offered(c) /\ ~(got /\ Charges!Runs(c.promo, Charges!Today(k)))
    BY <1>3 DEF Charges!Lapsed, c, got
  <2>5. got => Charges!Offered(c)
    BY <1>1 DEF PricesQuoted, c, got
  <2> QED
    BY <1>3, <1>20, <1>29, <2>1, <2>2, <2>3, <2>4, <2>5 DEF c
<1>32. renewal'.month > 1 /\ renewal'.month # 1
  BY <1>2, <1>5, <1>20
<1> QED
  BY <1>24, <1>25, <1>26, <1>30, <1>31, <1>32 DEF PricesInv

LEMMA PricesInvariant == Charges!Spec => []PricesInv
<1>1. PricesInv /\ [Charges!Next]_(Charges!priceVars) => PricesInv'
  <2> SUFFICES ASSUME PricesInv, [Charges!Next]_(Charges!priceVars) PROVE PricesInv'
    OBVIOUS
  <2>1. CASE Charges!Next
    BY <2>1, PricesWhenQuoted, PricesWhenCreated, PricesWhenInsured, PricesWhenInsureFails,
       PricesWhenOrdered, PricesWhenPaid, PricesWhenRenewed, PricesWhenRepriced
       DEF Charges!Next
  <2>2. CASE UNCHANGED Charges!priceVars
    <3>1. UNCHANGED <<choice, phase, payable, copied, bill, taxes, misplaced, renewal, foretold,
                      cOrder, amount, repriced>>
      BY <2>2 DEF Charges!priceVars
    <3> QED
      BY <3>1 DEF PricesInv, PricesTyped, PricesQuoted, FirstMonth, LaterMonth, Booked, Insured,
                  InsuredTax, Charges!ProjectionIsCharged, Charges!Lapsed
  <2> QED
    BY <2>1, <2>2
<1> QED
  BY <1>1, PricesStart, PTL DEF Charges!Spec

-----------------------------------------------------------------------------
(* What the invariant says of the amounts                                  *)

(* The days left of a stay that reaches to the end of month k.             *)
LEMMA DaysLeftAre ==
    ASSUME NEW c \in PriceChoices, NEW k \in 1..(PriceEnd - 1), Lasts(c, k), c.stay # 0
    PROVE  /\ Charges!DaysLeft(c, k) \in Int
           /\ Charges!DaysLeft(c, k) = c.stay - Charges!StartOf[k]
           /\ Charges!DaysLeft(c, k) >= 1
           /\ k # 1 => Charges!DaysLeft(c, k) >= PriceMonths[k]
           /\ PriceMonths[k] \in 28..31 /\ PriceMonths[k + 1] \in 28..31
           /\ Charges!IsLast(c, k) <=>
                 Charges!DaysLeft(c, k) < PriceMonths[k] + PriceMonths[k + 1]
<1>0. c.stay \in Nat
  BY ChoicesAre
<1>1. /\ k \in 1..PriceEnd /\ k + 1 \in 1..PriceEnd /\ k \in 1..(PriceEnd + 1)
      /\ k \in Nat /\ (k + 1) + 1 = k + 2
  BY MonthsAre
<1>2. /\ PriceMonths[k] \in 28..31 /\ PriceMonths[k + 1] \in 28..31
      /\ Charges!StartOf[k] \in Nat
      /\ Charges!StartOf[k + 1] = Charges!StartOf[k] + PriceMonths[k]
      /\ Charges!StartOf[k + 2] = Charges!StartOf[k + 1] + PriceMonths[k + 1]
  BY <1>1, MonthsAre, StartsAre, StartsGrow
<1>3. Charges!DaysLeft(c, k) = c.stay - Charges!StartOf[k]
  BY DEF Charges!DaysLeft
<1>4. k = 1 => Charges!StartOf[k] = 0
  BY StartsAre
<1>5. k = 1 \/ Charges!StartOf[k + 1] <= c.stay
  BY DEF Lasts
<1>6. Charges!IsLast(c, k) <=> c.stay < Charges!StartOf[k + 2]
  <2>1. c.price \in Nat
    BY ChoicesAre
  <2> QED
    BY <2>1, RentsAre
<1> QED
  BY <1>0, <1>1, <1>2, <1>3, <1>4, <1>5, <1>6

(* A rent less its discount, with the site's tax.                          *)
LEMMA NetGrows ==
    ASSUME NEW r \in Int, NEW d \in Nat, NEW s \in Int, NEW e \in Nat, r - d <= s - e
    PROVE  r - d + Charges!SpaceTax(r, d) <= s - e + Charges!SpaceTax(s, e)
<1>1. PICK a \in Int, b \in Int : a = r - d /\ b = s - e
  OBVIOUS
<1>2. Charges!Tax(a, PriceSiteTax) <= Charges!Tax(b, PriceSiteTax)
      /\ Charges!Tax(a, PriceSiteTax) \in Int /\ Charges!Tax(b, PriceSiteTax) \in Int
  BY <1>1, PercentsAre, TaxIs
<1>3. /\ Charges!SpaceTax(r, d) = Charges!Tax(a, PriceSiteTax)
      /\ Charges!SpaceTax(s, e) = Charges!Tax(b, PriceSiteTax)
  BY <1>1, SpaceTaxIs
<1> QED
  BY <1>1, <1>2, <1>3

LEMMA QuoteHolds == PricesInv => Charges!QuoteIsCharged
<1> SUFFICES ASSUME PricesInv PROVE Charges!QuoteIsCharged
  OBVIOUS
<1>0. choice \in PriceChoices /\ PricesTyped /\ PricesQuoted
  BY DEF PricesInv, PricesTyped
<1>1. ASSUME phase = "paid", renewal.month = 1, bill.insurance = choice.insurance
      PROVE  /\ amount >= payable
             /\ misplaced \/ amount = IF Charges!Withdrawn THEN Charges!Quoted(choice, FALSE)
                                      ELSE payable
  <2>1. FirstMonth
    BY <1>1 DEF PricesInv, Booked
  <2>2. PICK got \in BOOLEAN, o \in BOOLEAN :
           /\ got = copied /\ o = Charges!Offered(choice) /\ (got => o)
    BY <1>0 DEF PricesTyped, PricesQuoted, Charges!Offered
  <2>3. PICK R \in Nat, d \in Nat, e \in Nat :
           /\ R = Charges!CheckoutRent(choice)
           /\ d = Charges!EarlyDiscount(choice, got, 1)
           /\ e = Charges!EarlyDiscount(choice, o, 1) /\ d <= e
    BY <1>0, <2>2, FirstRentIs, EarlyDiscountsAre
  <2>4. PICK i \in Nat, x \in Nat : i = Insured /\ x = InsuredTax
    <3>1. choice.insurance \in Nat
      BY <1>0, ChoicesAre
    <3>2. Insured \in Nat /\ InsuredTax \in Nat
      BY <1>1, <3>1, InsurancesAre DEF Insured, InsuredTax
    <3> QED
      BY <3>2
  <2>5. PICK t \in Int, u \in Int : t = Charges!SpaceTax(R, d) /\ u = Charges!SpaceTax(R, e)
    <3>1. Charges!SpaceTax(R, d) \in Int /\ Charges!SpaceTax(R, e) \in Int
      BY SpaceTaxIs
    <3> QED
      BY <3>1
  <2>6. PICK p \in Nat, y \in Nat : p = choice.pickup
                                    /\ y = Charges!Tax(choice.pickup, PriceServiceTax)
    BY <1>0, ChoicesAre, QuotedIs
  <2>7. /\ Charges!Quoted(choice, got) = R + i + R + p + t + x + y - d
        /\ Charges!Quoted(choice, o) = R + i + R + p + u + x + y - e
    <3>1. i = Charges!InsurancePrice(choice.insurance)
          /\ x = Charges!Tax(i, PriceInsuranceTax)
      BY <1>1, <2>4 DEF Insured, InsuredTax
    <3>2. Charges!Quoted(choice, got) = R + i + R + p + t + x + y - d
      BY <1>0, <2>3, <2>5, <2>6, <3>1, QuotedIs
    <3>3. Charges!Quoted(choice, o) = R + i + R + p + u + x + y - e
      BY <1>0, <2>3, <2>5, <2>6, <3>1, QuotedIs
    <3> QED
      BY <3>2, <3>3
  <2>8. payable = Charges!Quoted(choice, o)
        /\ (IF Charges!Withdrawn THEN Charges!Quoted(choice, FALSE) ELSE payable)
              = Charges!Quoted(choice, got)
    BY <1>0, <1>1, <2>2 DEF PricesQuoted, Charges!Withdrawn
  <2>9. cOrder = p + y
    BY <1>0, <1>1, <2>6 DEF PricesQuoted
  <2>10. PICK b \in Int : b = bill.tax
    BY <1>0 DEF PricesTyped
  <2>11. taxes.site = t /\ taxes.insurance \in Nat
    BY <1>0, <2>1, <2>2, <2>3, <2>5 DEF FirstMonth, PricesTyped
  <2>12. b >= t + x /\ (~misplaced => b = t + x)
    BY <2>1, <2>4, <2>10, <2>11 DEF FirstMonth
  <2>13. amount = 2 * R + i + b - d + (p + y)
    BY <1>1, <2>1, <2>2, <2>3, <2>4, <2>9, <2>10 DEF FirstMonth
  <2>14. R - e + u <= R - d + t
    <3>1. R \in Int /\ R - e <= R - d
      BY <2>3
    <3> QED
      BY <2>5, <3>1, NetGrows
  <2>15. 2 * R + i + b - d + (p + y) >= R + i + R + p + u + x + y - e
    BY <2>12, <2>14
  <2>16. b = t + x => 2 * R + i + b - d + (p + y) = R + i + R + p + t + x + y - d
    OBVIOUS
  <2> QED
    BY <2>7, <2>8, <2>12, <2>13, <2>15, <2>16
<1>2. ASSUME renewal.last
      PROVE  \/ Charges!DaysLeft(choice, renewal.month) \in 1..30
             \/ /\ Charges!DaysLeft(choice, renewal.month) > 30
                /\ Charges!DaysLeft(choice, renewal.month) <
                      PriceMonths[renewal.month] + PriceMonths[renewal.month + 1]
  <2>1. Booked
    BY <1>0, <1>2 DEF PricesQuoted, Charges!NoRenewal
  <2>2. renewal.month \in 1..(PriceEnd - 1)
    BY <1>0, <2>1 DEF PricesQuoted
  <2>3. Lasts(choice, renewal.month) /\ Charges!IsLast(choice, renewal.month)
    <3>1. CASE renewal.month = 1
      BY <1>2, <2>1, <3>1 DEF PricesInv, FirstMonth, Lasts
    <3>2. CASE renewal.month # 1
      <4>1. renewal.month > 1
        BY <2>2, <3>2, MonthsAre
      <4> QED
        BY <1>2, <4>1 DEF PricesInv, LaterMonth
    <3> QED
      BY <3>1, <3>2
  <2>4. choice.stay # 0
    BY <2>3 DEF Charges!IsLast, Charges!Open
  <2>5. PICK k \in 1..(PriceEnd - 1) : k = renewal.month
    BY <2>2
  <2>6. PICK D \in Int : D = Charges!DaysLeft(choice, k)
    BY <1>0, <2>3, <2>4, <2>5, DaysLeftAre
  <2>7. D >= 1 /\ D < PriceMonths[k] + PriceMonths[k + 1]
    BY <1>0, <2>3, <2>4, <2>5, <2>6, DaysLeftAre
  <2> QED
    BY <2>5, <2>6, <2>7
<1>3. renewal.month > 1 /\ foretold.rent # Charges!None => renewal.rent = foretold.rent
  BY DEF PricesInv
<1> QED
  BY <1>1, <1>2, <1>3 DEF Charges!QuoteIsCharged

LEMMA TaxRowsHold == PricesInv => Charges!TaxRowsAddUp
<1> SUFFICES ASSUME PricesInv PROVE Charges!TaxRowsAddUp
  OBVIOUS
<1>1. CASE ~Booked
  <2>1. taxes.site = 0 /\ taxes.insurance = 0 /\ renewal.tax = 0
    BY <1>1 DEF PricesInv, PricesQuoted, Charges!AppliedTaxes, Charges!NoRenewal
  <2> QED
    BY <2>1 DEF Charges!TaxRowsAddUp
<1>2. CASE Booked /\ renewal.month = 1
  BY <1>2 DEF PricesInv, FirstMonth, Charges!TaxRowsAddUp
<1>3. CASE Booked /\ renewal.month # 1
  <2>1. renewal.month > 1
    BY <1>3, MonthsAre DEF PricesInv, PricesQuoted
  <2> QED
    BY <2>1 DEF PricesInv, LaterMonth, Charges!TaxRowsAddUp
<1> QED
  BY <1>1, <1>2, <1>3

(* The amounts of a set of lines, added up in whatever order.              *)
FirstOf(s) == CHOOSE x \in s : TRUE
SumsOver(S, f) ==
    \A s \in SUBSET S : f[s] = IF s = {} THEN 0 ELSE FirstOf(s).amount + f[s \ {FirstOf(s)}]

LEMMA FirstIsOf == \A s : s # {} => FirstOf(s) \in s
  BY DEF FirstOf

LEMMA ThreeSumsExist ==
    ASSUME NEW A, NEW B, NEW C, A # B, B # C, A # C,
           A.amount \in Int, B.amount \in Int, C.amount \in Int
    PROVE  \E h : SumsOver({A, B, C}, h)
<1> DEFINE in(x, s) == IF x \in s THEN x.amount ELSE 0
           h == [s \in SUBSET {A, B, C} |-> in(A, s) + in(B, s) + in(C, s)]
<1>1. ASSUME NEW s \in SUBSET {A, B, C}, s # {}
      PROVE  h[s] = FirstOf(s).amount + h[s \ {FirstOf(s)}]
  <2>1. PICK z \in s : z = FirstOf(s)
    BY <1>1, FirstIsOf
  <2>2. PICK t \in SUBSET {A, B, C} : t = s \ {z}
    OBVIOUS
  <2>3. h[s] = in(A, s) + in(B, s) + in(C, s) /\ h[t] = in(A, t) + in(B, t) + in(C, t)
    OBVIOUS
  <2> HIDE DEF h
  <2>4. PICK a \in Int, b \in Int, c \in Int : a = in(A, s) /\ b = in(B, s) /\ c = in(C, s)
    OBVIOUS
  <2>5. h[s] = a + b + c
    BY <2>3, <2>4
  <2>6. CASE z = A
    <3>1. z.amount = a /\ in(A, t) = 0 /\ in(B, t) = b /\ in(C, t) = c
      BY <2>2, <2>4, <2>6
    <3>2. h[t] = 0 + b + c
      BY <2>3, <3>1
    <3>3. a + b + c = a + (0 + b + c)
      OBVIOUS
    <3> HIDE DEF in
    <3> QED
      BY <2>1, <2>2, <2>5, <3>1, <3>2, <3>3
  <2>7. CASE z = B
    <3>1. z.amount = b /\ in(A, t) = a /\ in(B, t) = 0 /\ in(C, t) = c
      BY <2>2, <2>4, <2>7
    <3>2. h[t] = a + 0 + c
      BY <2>3, <3>1
    <3>3. a + b + c = b + (a + 0 + c)
      OBVIOUS
    <3> HIDE DEF in
    <3> QED
      BY <2>1, <2>2, <2>5, <3>1, <3>2, <3>3
  <2>8. CASE z = C
    <3>1. z.amount = c /\ in(A, t) = a /\ in(B, t) = b /\ in(C, t) = 0
      BY <2>2, <2>4, <2>8
    <3>2. h[t] = a + b + 0
      BY <2>3, <3>1
    <3>3. a + b + c = c + (a + b + 0)
      OBVIOUS
    <3> HIDE DEF in
    <3> QED
      BY <2>1, <2>2, <2>5, <3>1, <3>2, <3>3
  <2> QED
    BY <2>6, <2>7, <2>8
<1>2. h[{}] = 0
  OBVIOUS
<1> HIDE DEF h
<1>3. SumsOver({A, B, C}, h)
  BY <1>1, <1>2 DEF SumsOver
<1> QED
  BY <1>3

Three(A, B, C, f) ==
    /\ A # B /\ B # C /\ A # C
    /\ A.amount \in Int /\ B.amount \in Int /\ C.amount \in Int
    /\ SumsOver({A, B, C}, f)

LEMMA ThreeTerms ==
    ASSUME NEW A, NEW B, NEW C, NEW f, Three(A, B, C, f)
    PROVE  f[{A, B, C}] = A.amount + B.amount + C.amount
<1>0. /\ A # B /\ B # C /\ A # C
      /\ A.amount \in Int /\ B.amount \in Int /\ C.amount \in Int
      /\ SumsOver({A, B, C}, f)
  BY DEF Three
<1>1. f[{}] = 0
  BY <1>0 DEF SumsOver
<1>2. ASSUME NEW s \in SUBSET {A, B, C}, s # {}
      PROVE  \E z \in s : f[s] = z.amount + f[s \ {z}]
  <2>1. FirstOf(s) \in s
    BY <1>2, FirstIsOf
  <2> QED
    BY <1>0, <1>2, <2>1 DEF SumsOver
<1>3. ASSUME NEW x \in {A, B, C} PROVE f[{x}] = x.amount /\ x.amount \in Int
  <2>1. PICK z \in {x} : f[{x}] = z.amount + f[{x} \ {z}]
    <3>1. {x} \in SUBSET {A, B, C} /\ {x} # {}
      OBVIOUS
    <3> QED
      BY <1>2, <3>1
  <2>2. z = x /\ {x} \ {z} = {} /\ x.amount \in Int
    BY <1>0
  <2>3. PICK t : t = {x} \ {z}
    OBVIOUS
  <2>4. f[t] = 0
    BY <1>1, <2>2, <2>3
  <2>5. f[{x}] = x.amount + 0
    BY <2>1, <2>2, <2>3, <2>4, Zenon
  <2> QED
    BY <2>2, <2>5
<1>4. ASSUME NEW x \in {A, B, C}, NEW y \in {A, B, C}, x # y
      PROVE  f[{x, y}] = x.amount + y.amount
  <2>1. PICK z \in {x, y} : f[{x, y}] = z.amount + f[{x, y} \ {z}]
    <3>1. {x, y} \in SUBSET {A, B, C} /\ {x, y} # {}
      OBVIOUS
    <3> QED
      BY <1>2, <3>1
  <2>2. PICK m \in Int, n \in Int : m = x.amount /\ n = y.amount /\ f[{x}] = m /\ f[{y}] = n
    BY <1>3
  <2>3. PICK t : t = {x, y} \ {z}
    OBVIOUS
  <2>4. m + n = n + m
    OBVIOUS
  <2>5. CASE z = x
    <3>1. t = {y}
      BY <1>4, <2>3, <2>5
    <3> QED
      BY <2>1, <2>2, <2>3, <2>5, <3>1, Zenon
  <2>6. CASE z = y
    <3>1. t = {x}
      BY <1>4, <2>3, <2>6
    <3> QED
      BY <2>1, <2>2, <2>3, <2>4, <2>6, <3>1, Zenon
  <2> QED
    BY <2>5, <2>6
<1>5. PICK z \in {A, B, C} : f[{A, B, C}] = z.amount + f[{A, B, C} \ {z}]
  <2>1. {A, B, C} \in SUBSET {A, B, C} /\ {A, B, C} # {}
    OBVIOUS
  <2> QED
    BY <1>2, <2>1
<1>6. PICK a \in Int, b \in Int, c \in Int : a = A.amount /\ b = B.amount /\ c = C.amount
  BY <1>0
<1>7. f[{B, C}] = b + c /\ f[{A, C}] = a + c /\ f[{A, B}] = a + b
  BY <1>0, <1>4, <1>6
<1>8. PICK t : t = {A, B, C} \ {z}
  OBVIOUS
<1>9. a + (b + c) = a + b + c /\ b + (a + c) = a + b + c /\ c + (a + b) = a + b + c
  OBVIOUS
<1>10. CASE z = A
  <2>1. t = {B, C}
    BY <1>0, <1>8, <1>10
  <2> QED
    BY <1>5, <1>6, <1>7, <1>8, <1>9, <1>10, <2>1, Zenon
<1>11. CASE z = B
  <2>1. t = {A, C}
    BY <1>0, <1>8, <1>11
  <2> QED
    BY <1>5, <1>6, <1>7, <1>8, <1>9, <1>11, <2>1, Zenon
<1>12. CASE z = C
  <2>1. t = {A, B}
    BY <1>0, <1>8, <1>12
  <2> QED
    BY <1>5, <1>6, <1>7, <1>8, <1>9, <1>12, <2>1, Zenon
<1> QED
  BY <1>10, <1>11, <1>12

(* The sum of three lines of different names.                              *)
LEMMA ThreeLines ==
    ASSUME NEW a \in Int, NEW b \in Int, NEW e \in Int
    PROVE  Charges!MapThenSumSet(LAMBDA i : i.amount,
                         {[name |-> "rent", amount |-> a], [name |-> "pick-up", amount |-> b],
                          [name |-> "insurance", amount |-> e]}) = a + b + e
<1>1. PICK A : A = [name |-> "rent", amount |-> a]
  OBVIOUS
<1>2. PICK B : B = [name |-> "pick-up", amount |-> b]
  OBVIOUS
<1>3. PICK C : C = [name |-> "insurance", amount |-> e]
  OBVIOUS
<1>4. /\ A.name = "rent" /\ B.name = "pick-up" /\ C.name = "insurance"
      /\ A.amount = a /\ B.amount = b /\ C.amount = e
  BY <1>1, <1>2, <1>3
<1>5. A # B /\ B # C /\ A # C
  BY <1>4
<1>6. PICK S : S = {A, B, C}
  OBVIOUS
<1> DEFINE Q(g) == g = [s \in SUBSET S |->
                          IF s = {} THEN 0
                          ELSE (CHOOSE x \in s : TRUE).amount
                                 + g[s \ {CHOOSE x \in s : TRUE}]]
           f == CHOOSE g : Q(g)
<1>7. A.amount \in Int /\ B.amount \in Int /\ C.amount \in Int
  BY <1>4
<1>10. PICK h : SumsOver(S, h)
  BY <1>5, <1>6, <1>7, ThreeSumsExist
<1>11. PICK g : g = [s \in SUBSET S |-> h[s]]
  OBVIOUS
<1>12. Q(g)
  <2>1. \A s \in SUBSET S : s \ {FirstOf(s)} \in SUBSET S
    OBVIOUS
  <2>2. \A s \in SUBSET S :
           g[s] = IF s = {} THEN 0 ELSE FirstOf(s).amount + g[s \ {FirstOf(s)}]
    BY <1>10, <1>11, <2>1 DEF SumsOver
  <2>3. g = [s \in SUBSET S |-> g[s]]
    BY <1>11
  <2> QED
    BY <2>2, <2>3 DEF FirstOf
<1>13. Q(f)
  <2> HIDE DEF Q
  <2> QED
    BY <1>12
<1>14. Charges!MapThenSumSet(LAMBDA i : i.amount, S) = f[S]
  BY DEF Charges!MapThenSumSet, Charges!MapThenFoldSet
<1> HIDE DEF f
<1>15. \A s \in SUBSET S :
          f[s] = IF s = {} THEN 0 ELSE FirstOf(s).amount + f[s \ {FirstOf(s)}]
  BY <1>13 DEF FirstOf
<1> HIDE DEF Q
<1>16. SumsOver(S, f)
  BY <1>15 DEF SumsOver
<1>17. f[S] = A.amount + B.amount + C.amount
  <2>1. Three(A, B, C, f)
    BY <1>5, <1>6, <1>7, <1>16 DEF Three
  <2>2. f[{A, B, C}] = A.amount + B.amount + C.amount
    BY <2>1, ThreeTerms
  <2> QED
    BY <1>6, <2>2
<1> QED
  BY <1>1, <1>2, <1>3, <1>4, <1>6, <1>14, <1>17

LEMMA InvoiceHolds == PricesInv => Charges!InvoiceAddsUp
<1> SUFFICES ASSUME PricesInv, phase = "paid", renewal.month = 1
             PROVE  /\ Charges!Invoice.total = amount
                    /\ Charges!Invoice.items + Charges!Invoice.deposit + Charges!Invoice.tax
                         - Charges!Invoice.discount = Charges!Invoice.total
  BY DEF Charges!InvoiceAddsUp
<1>1. FirstMonth /\ PricesTyped /\ choice \in PriceChoices /\ copied \in BOOLEAN
  BY DEF PricesInv, PricesTyped, Booked
<1>2. PICK R \in Nat, d \in Nat : R = Charges!CheckoutRent(choice)
                                  /\ d = Charges!EarlyDiscount(choice, copied, 1)
  BY <1>1, FirstRentIs, EarlyDiscountsAre
<1>3. PICK i \in Nat : i = Insured
  <2>1. bill.insurance \in {0} \cup PriceInsurances
    BY <1>1 DEF PricesTyped
  <2>2. bill.insurance \in Nat
    BY <2>1, PercentsAre
  <2> QED
    BY <2>2, InsurancesAre DEF Insured
<1>4. PICK o \in Int, b \in Int : o = cOrder /\ b = bill.tax
  BY <1>1 DEF PricesTyped
<1>5. PICK T \in Int : T = renewal.total /\ T = 2 * R + i + b - d
  BY <1>1, <1>2, <1>3, <1>4 DEF FirstMonth
<1>6. renewal.rent = R /\ renewal.discount = d
  BY <1>1, <1>2 DEF FirstMonth
<1>7. Charges!OrderPaid = o /\ Charges!Deposit = R
  BY <1>2, <1>4 DEF Charges!OrderPaid, Charges!Deposit
<1>8. Charges!InvoiceItems =
         {[name |-> "rent", amount |-> R], [name |-> "pick-up", amount |-> o],
          [name |-> "insurance", amount |-> i]}
  BY <1>3, <1>6, <1>7 DEF Charges!InvoiceItems, Insured
<1>9. Charges!MapThenSumSet(LAMBDA j : j.amount, Charges!InvoiceItems) = R + o + i
  BY <1>8, ThreeLines
<1>10. /\ Charges!Invoice.total = o + T /\ Charges!Invoice.tax = b
       /\ Charges!Invoice.discount = d /\ Charges!Invoice.deposit = R
       /\ Charges!Invoice.items =
             Charges!MapThenSumSet(LAMBDA j : j.amount, Charges!InvoiceItems)
  BY <1>4, <1>5, <1>6, <1>7 DEF Charges!Invoice
<1>11. amount = T + o
  BY <1>1, <1>4, <1>5 DEF FirstMonth
<1>12. T + o = o + T /\ (R + o + i) + R + b - d = o + T
  BY <1>5
<1> QED
  BY <1>9, <1>10, <1>11, <1>12

-----------------------------------------------------------------------------
(* What is shown beforehand, and how far a discount goes                   *)

LEMMA DaysCost ==
    ASSUME NEW p \in Nat
    PROVE  /\ Charges!Prorated(p, 31) - p <= Charges!Prorated(p, 29) - Charges!Prorated(p, 27)
           /\ Charges!Prorated(p, 26) <= Charges!Prorated(p, 28)
           /\ Charges!Prorated(p, 27) <= Charges!Prorated(p, 29)
           /\ Charges!Prorated(p, 30) = p
           /\ p <= Charges!Prorated(p, 31)
           /\ Charges!Prorated(p, 31) <= Charges!Prorated(p, 29) + Charges!Prorated(p, 3)
           /\ p <= Charges!Prorated(p, 28) + Charges!Prorated(p, 3)
           /\ p <= Charges!Prorated(p, 29) + Charges!Prorated(p, 3)
<1> USE DEF Charges!Prorated, Charges!Round
<1>1. Charges!Prorated(p, 31) - p <= Charges!Prorated(p, 29) - Charges!Prorated(p, 27)
  BY SMTT(60)
<1>2. /\ Charges!Prorated(p, 26) <= Charges!Prorated(p, 28)
      /\ Charges!Prorated(p, 27) <= Charges!Prorated(p, 29)
  BY SMTT(60)
<1>3. Charges!Prorated(p, 30) = p /\ p <= Charges!Prorated(p, 31)
  BY SMTT(60)
<1>4. Charges!Prorated(p, 31) <= Charges!Prorated(p, 29) + Charges!Prorated(p, 3)
  BY SMTT(60)
<1>5. p <= Charges!Prorated(p, 28) + Charges!Prorated(p, 3)
  BY SMTT(60)
<1>6. p <= Charges!Prorated(p, 29) + Charges!Prorated(p, 3)
  BY SMTT(60)
<1> QED
  BY <1>1, <1>2, <1>3, <1>4, <1>5, <1>6

(* The first month is shown by fewer days than it is charged for.          *)
LEMMA FirstRentShown ==
    ASSUME NEW c \in PriceChoices
    PROVE  /\ Charges!ScheduledRent(c, 1) \in Int
           /\ Charges!ScheduledRent(c, 1) <= Charges!CheckoutRent(c)
           /\ ~Charges!ByTheDay(c, 1) =>
                 Charges!ScheduledRent(c, 1) = Charges!CheckoutRent(c)
<1>0. PICK p \in Nat, s \in Nat : p = c.price /\ s = c.stay
  BY ChoicesAre
<1>1. PICK L \in 28..31 : L = PriceMonths[1]
  <2>1. 1 \in 1..PriceEnd
    BY MonthsAre
  <2> QED
    BY <2>1, MonthsAre
<1>2. PICK n \in Int : n = IF s # 0 /\ L > s - 1 THEN s - 1 ELSE L
  OBVIOUS
<1>3. Charges!Shown(c, 1).days = n
  BY <1>0, <1>1, <1>2 DEF Charges!Shown, Charges!Open
<1>4. Charges!ByTheDay(c, 1) <=> s # 0 /\ n < 30
  BY <1>0, <1>3 DEF Charges!ByTheDay, Charges!Open
<1>5. /\ Charges!CheckoutRent(c) = IF s # 0 /\ s <= 30 THEN Charges!Prorated(p, s) ELSE p
      /\ Charges!ScheduledRent(c, 1) =
            IF Charges!ByTheDay(c, 1) THEN Charges!Prorated(p, n) ELSE p
  BY <1>0, <1>3 DEF Charges!CheckoutRent, Charges!ScheduledRent, Charges!Open
<1>6. CASE Charges!ByTheDay(c, 1)
  <2>1. PICK m \in Int : m = IF s <= 30 THEN s ELSE 30
    OBVIOUS
  <2>2. n <= m
    BY <1>2, <1>4, <1>6, <2>1
  <2>3. /\ Charges!Prorated(p, n) \in Int
        /\ Charges!Prorated(p, n) <= Charges!Prorated(p, m)
        /\ Charges!Prorated(p, 30) = p
    BY <2>2, ProratedIs
  <2>4. Charges!CheckoutRent(c) = Charges!Prorated(p, m)
    BY <1>4, <1>5, <1>6, <2>1, <2>3
  <2> QED
    BY <1>5, <1>6, <2>3, <2>4
<1>7. CASE ~Charges!ByTheDay(c, 1)
  <2>1. s = 0 \/ s > 30
    BY <1>2, <1>4, <1>7
  <2> QED
    BY <1>5, <1>7, <2>1
<1> QED
  BY <1>6, <1>7

(* The rent of a later month, and the amount its discount is of.           *)
LEMMA LaterRentsAre ==
    ASSUME NEW c \in PriceChoices, NEW base \in Nat, NEW k \in 1..(PriceEnd - 1), k # 1,
           Lasts(c, k)
    PROVE  /\ c.stay = 0 => /\ Charges!RentOf(c, base, k) = base
                            /\ Charges!LaterBase(c, base, k) = base
           /\ c.stay # 0 =>
                 /\ Charges!DaysLeft(c, k) \in Int /\ Charges!DaysLeft(c, k) >= 28
                 /\ Charges!RentOf(c, base, k) =
                       IF Charges!DaysLeft(c, k) < 30
                       THEN Charges!Prorated(base, Charges!DaysLeft(c, k)) ELSE base
                 /\ \/ Charges!LaterBase(c, base, k) = base
                    \/ /\ Charges!DaysLeft(c, k) <= 29
                       /\ Charges!LaterBase(c, base, k) =
                             Charges!Prorated(base, Charges!DaysLeft(c, k) + 2)
<1>0. c.stay \in Nat
  BY ChoicesAre
<1>1. ASSUME c.stay = 0
      PROVE  /\ Charges!RentOf(c, base, k) = base /\ Charges!LaterBase(c, base, k) = base
  BY <1>1 DEF Charges!RentOf, Charges!IsLast, Charges!LaterBase, Charges!WithinAMonth,
              Charges!Open
<1>2. ASSUME c.stay # 0
      PROVE  /\ Charges!DaysLeft(c, k) \in Int /\ Charges!DaysLeft(c, k) >= 28
             /\ Charges!RentOf(c, base, k) =
                   IF Charges!DaysLeft(c, k) < 30
                   THEN Charges!Prorated(base, Charges!DaysLeft(c, k)) ELSE base
             /\ \/ Charges!LaterBase(c, base, k) = base
                \/ /\ Charges!DaysLeft(c, k) <= 29
                   /\ Charges!LaterBase(c, base, k) =
                         Charges!Prorated(base, Charges!DaysLeft(c, k) + 2)
  <2>1. PICK D \in Int : D = Charges!DaysLeft(c, k)
    BY <1>2, DaysLeftAre
  <2>2. PICK L \in 28..31, M \in 28..31 :
           /\ L = PriceMonths[k] /\ M = PriceMonths[k + 1]
           /\ Charges!IsLast(c, k) <=> D < L + M
           /\ D >= L /\ D = c.stay - Charges!StartOf[k]
    BY <1>2, <2>1, DaysLeftAre
  <2>3. Charges!Prorated(base, 30) = base
    BY ProratedIs
  <2>4. Charges!RentOf(c, base, k) = IF D < 30 THEN Charges!Prorated(base, D) ELSE base
    <3>1. Charges!RentOf(c, base, k) =
             IF D < L + M THEN Charges!Prorated(base, IF 30 < D THEN 30 ELSE D) ELSE base
      BY <2>1, <2>2 DEF Charges!RentOf, Charges!Least
    <3>2. CASE D < 30
      BY <3>1, <3>2
    <3>3. CASE D >= 30
      <4>1. (IF 30 < D THEN 30 ELSE D) = 30
        BY <3>3
      <4> QED
        BY <2>3, <3>1, <3>3, <4>1
    <3> QED
      BY <3>2, <3>3
  <2>5. PICK s \in Nat : s = Charges!StartOf[k]
    <3>1. k \in 1..(PriceEnd + 1)
      BY MonthsAre
    <3> QED
      BY <3>1, StartsGrow
  <2>6. PICK B \in 28..31 : B = PriceMonths[k - 1]
    <3>1. k - 1 \in 1..PriceEnd
      BY MonthsAre
    <3> QED
      BY <3>1, MonthsAre
  <2>7. Charges!Today(k) = s - 2
    BY <2>5, PercentsAre DEF Charges!Today
  <2>8. Charges!WithinAMonth(c, k) <=> s - 2 + B > c.stay - 1
    BY <1>2, <2>6, <2>7 DEF Charges!WithinAMonth, Charges!Open
  <2>9. c.stay - Charges!Today(k) = D + 2
    BY <1>0, <2>2, <2>5, <2>7
  <2>10. Charges!LaterBase(c, base, k) =
            IF Charges!WithinAMonth(c, k) THEN Charges!Prorated(base, D + 2) ELSE base
    BY <2>9 DEF Charges!LaterBase
  <2>11. Charges!WithinAMonth(c, k) => D <= 29
    BY <1>0, <2>2, <2>5, <2>8
  <2> QED
    BY <2>1, <2>2, <2>4, <2>10, <2>11
<1> QED
  BY <1>1, <1>2

LEMMA LaterRentShown ==
    ASSUME NEW c \in PriceChoices, NEW k \in 1..(PriceEnd - 1), k # 1, Lasts(c, k),
           NEW got \in BOOLEAN, NEW on \in BOOLEAN,
           on <=> got /\ Charges!Runs(c.promo, Charges!Today(k))
    PROVE  /\ Charges!ScheduledRent(c, k) \in Int /\ Charges!EarlyDiscount(c, on, k) \in Nat
           /\ Charges!ScheduledRent(c, k) - Charges!EarlyDiscount(c, on, k) <=
                 Charges!RentOf(c, c.price, k) - Charges!LaterDiscount(c, got, c.price, k, k)
           /\ ~Charges!ByTheDay(c, k) =>
                 /\ Charges!ScheduledRent(c, k) = Charges!RentOf(c, c.price, k)
                 /\ Charges!EarlyDiscount(c, on, k) = Charges!LaterDiscount(c, got, c.price, k, k)
<1>0. PICK p \in Nat : p = c.price
  BY ChoicesAre
<1>1. k \in Nat /\ c.stay \in Nat /\ k \in 1..(PriceEnd + 1)
  BY MonthsAre, ChoicesAre
<1>2. Charges!PromotionBase(c) = p
  <2>1. CASE c.stay = 0
    BY <1>0, <2>1, EarlyDiscountsAre
  <2>2. CASE c.stay # 0
    <3>1. /\ Charges!DaysLeft(c, k) \in Int /\ Charges!DaysLeft(c, k) >= 28
          /\ Charges!DaysLeft(c, k) = c.stay - Charges!StartOf[k]
      BY <1>0, <2>2, LaterRentsAre, DaysLeftAre
    <3>2. /\ Charges!StartOf[1 + 1] = Charges!StartOf[1] + PriceMonths[1]
          /\ Charges!StartOf[1] = 0 /\ PriceMonths[1] \in 28..31
      <4>1. 1 \in 1..PriceEnd
        BY MonthsAre
      <4> QED
        BY <4>1, StartsAre, MonthsAre
    <3>3. 1 + 1 \in 1..k
      BY <1>1
    <3>4. /\ Charges!StartOf[1 + 1] \in Nat /\ Charges!StartOf[k] \in Nat
          /\ Charges!StartOf[1 + 1] <= Charges!StartOf[k]
      BY <1>1, <3>3, StartsGrow
    <3>5. c.stay > PriceMonths[1]
      BY <1>1, <3>1, <3>2, <3>4
    <3> QED
      BY <1>0, <1>1, <3>2, <3>5, EarlyDiscountsAre
  <2> QED
    BY <2>1, <2>2
<1>3. PICK b \in Nat : b = Charges!LaterBase(c, p, k)
  BY <1>1, LaterDiscountsAre
<1>4. PICK x \in Nat, y \in Nat :
         /\ x = Charges!Discount(c.promo, p, k) /\ y = Charges!Discount(c.promo, b, k)
         /\ b = p => x = y
         /\ b >= p => y <= x + (b - p)
  <2>1. PICK more \in Nat : b >= p => more = b - p
    <3>1. CASE b >= p
      <4>1. b - p \in Nat
        BY <3>1
      <4> QED
        BY <4>1
    <3>2. CASE ~(b >= p)
      BY <3>2
    <3> QED
      BY <3>1, <3>2
  <2>2. Charges!Discount(c.promo, p, k) \in Nat /\ Charges!Discount(c.promo, b, k) \in Nat
    BY <1>1, DiscountsAre
  <2>3. Charges!Discount(c.promo, p + more, k) <= Charges!Discount(c.promo, p, k) + more
    BY <1>1, DiscountsAre
  <2>4. b >= p => p + more = b
    BY <2>1
  <2> QED
    BY <2>1, <2>2, <2>3, <2>4
<1>5. /\ Charges!EarlyDiscount(c, on, k) = IF on THEN x ELSE 0
      /\ Charges!LaterDiscount(c, got, p, k, k) = IF on THEN y ELSE 0
  BY <1>0, <1>2, <1>3, <1>4 DEF Charges!EarlyDiscount, Charges!LaterDiscount
<1>6. PICK ds \in Nat, dc \in Nat :
         /\ ds = Charges!EarlyDiscount(c, on, k) /\ dc = Charges!LaterDiscount(c, got, p, k, k)
         /\ b = p => ds = dc
         /\ b >= p => dc <= ds + (b - p)
  <2>1. CASE on
    BY <1>4, <1>5, <2>1
  <2>2. CASE ~on
    <3>1. b >= p => 0 <= 0 + (b - p)
      OBVIOUS
    <3> QED
      BY <1>5, <2>2, <3>1
  <2> QED
    BY <2>1, <2>2
<1>7. Charges!ScheduledRent(c, k) =
         IF Charges!ByTheDay(c, k) THEN Charges!Prorated(p, Charges!Shown(c, k).days) ELSE p
  BY <1>0 DEF Charges!ScheduledRent
<1>8. PICK R \in Int : R = Charges!RentOf(c, p, k)
  BY RentsAre
<1>9. CASE c.stay = 0
  <2>1. ~Charges!ByTheDay(c, k)
    BY <1>9 DEF Charges!ByTheDay, Charges!Open
  <2>2. R = p /\ b = p
    BY <1>3, <1>8, <1>9, LaterRentsAre
  <2> QED
    BY <1>0, <1>6, <1>7, <1>8, <2>1, <2>2
<1>10. CASE c.stay # 0
  <2>1. PICK D \in Int :
           /\ D = Charges!DaysLeft(c, k) /\ D >= 28
           /\ R = IF D < 30 THEN Charges!Prorated(p, D) ELSE p
           /\ b = p \/ (D <= 29 /\ b = Charges!Prorated(p, D + 2))
    BY <1>3, <1>8, <1>10, LaterRentsAre
  <2>2. PICK L \in 28..31 : L = PriceMonths[k] /\ D = c.stay - Charges!StartOf[k]
    BY <1>10, <2>1, DaysLeftAre
  <2>3. PICK n \in Int : n = IF L + 2 > D THEN D - 2 ELSE L
    OBVIOUS
  <2>4. Charges!Shown(c, k).days = n
    <3>1. PICK s \in Nat : s = Charges!StartOf[k]
      BY <1>1, StartsGrow
    <3>2. s + 1 + L > c.stay - 1 <=> L + 2 > D
      BY <1>1, <2>2, <3>1
    <3>3. c.stay - 1 - (s + 1) = D - 2
      BY <1>1, <2>2, <3>1
    <3> QED
      BY <1>10, <2>2, <2>3, <3>1, <3>2, <3>3 DEF Charges!Shown, Charges!Open
  <2>5. Charges!ByTheDay(c, k) <=> n < 30
    BY <1>10, <2>4 DEF Charges!ByTheDay, Charges!Open
  <2>6. Charges!ScheduledRent(c, k) = IF n < 30 THEN Charges!Prorated(p, n) ELSE p
    BY <1>7, <2>4, <2>5
  <2>7. /\ Charges!Prorated(p, n) \in Int /\ Charges!Prorated(p, 30) = p
        /\ n <= 30 => Charges!Prorated(p, n) <= Charges!Prorated(p, 30)
    BY ProratedIs
  <2>8. CASE D = 28
    <3>1. n = 26 /\ R = Charges!Prorated(p, 28) /\ b = p
      <4>1. Charges!Prorated(p, 28 + 2) = p
        BY <2>7
      <4> QED
        BY <2>1, <2>3, <2>8, <4>1
    <3>2. Charges!Prorated(p, 26) <= Charges!Prorated(p, 28)
      BY DaysCost
    <3> QED
      BY <1>0, <1>6, <1>8, <2>5, <2>6, <2>7, <3>1, <3>2
  <2>9. CASE D = 29
    <3>1. n = 27 /\ R = Charges!Prorated(p, 29) /\ (b = p \/ b = Charges!Prorated(p, 31))
      BY <2>1, <2>3, <2>9
    <3>2. /\ Charges!Prorated(p, 31) - p <= Charges!Prorated(p, 29) - Charges!Prorated(p, 27)
          /\ Charges!Prorated(p, 27) <= Charges!Prorated(p, 29)
          /\ p <= Charges!Prorated(p, 31)
      BY DaysCost
    <3> QED
      BY <1>0, <1>6, <1>8, <2>5, <2>6, <2>7, <3>1, <3>2
  <2>10. CASE D >= 30
    <3>1. R = p /\ b = p
      BY <2>1, <2>10
    <3> QED
      BY <1>0, <1>6, <1>8, <2>5, <2>6, <2>7, <3>1
  <2> QED
    BY <2>1, <2>8, <2>9, <2>10
<1> QED
  BY <1>1, <1>9, <1>10

(* What the schedule shows for a month.                                    *)
LEMMA ShownIs ==
    ASSUME NEW c \in PriceChoices, NEW m \in Nat, NEW got \in BOOLEAN,
           Charges!ScheduledRent(c, m) \in Int
    PROVE  LET s == Charges!ScheduledRent(c, m)
               e == Charges!EarlyDiscount(c, got, m)
               i == Charges!InsurancePrice(c.insurance)
               net == s - e + Charges!SpaceTax(s, e) IN
           /\ net \in Int
           /\ Charges!ScheduledTotal(c, m, got) =
                 net + i + Charges!Tax(i, PriceInsuranceTax)
                   + (IF m = 1 THEN s + c.pickup + Charges!Tax(c.pickup, PriceServiceTax)
                      ELSE 0)
<1>1. PICK s \in Int : s = Charges!ScheduledRent(c, m)
  OBVIOUS
<1>2. PICK e \in Nat : e = Charges!EarlyDiscount(c, got, m)
  BY EarlyDiscountsAre
<1>3. PICK i \in Nat, x \in Nat :
         i = Charges!InsurancePrice(c.insurance) /\ x = Charges!Tax(i, PriceInsuranceTax)
  BY ChoicesAre, InsurancesAre
<1>4. PICK t \in Int : t = Charges!SpaceTax(s, e)
  BY SpaceTaxIs
<1>5. PICK p \in Nat, y \in Nat : p = c.pickup /\ y = Charges!Tax(c.pickup, PriceServiceTax)
  BY ChoicesAre, QuotedIs
<1>6. Charges!Tax(0, PriceServiceTax) = 0
  <2>1. 0 * PriceServiceTax = 0 /\ Charges!Round(0, 100) = 0
    BY PercentsAre, RoundWhole
  <2> QED
    BY <2>1 DEF Charges!Tax
<1>7. Charges!MonthTotal(s, i, e) = s + i + t + x - e
  BY <1>3, <1>4 DEF Charges!MonthTotal
<1>8. CASE m = 1
  BY <1>1, <1>2, <1>3, <1>4, <1>5, <1>7, <1>8 DEF Charges!ScheduledTotal
<1>9. CASE m # 1
  BY <1>1, <1>2, <1>3, <1>4, <1>6, <1>7, <1>9 DEF Charges!ScheduledTotal
<1> QED
  BY <1>8, <1>9

LEMMA ScheduleHolds == PricesInv => Charges!ScheduleIsCharged
<1> DEFINE paid == IF renewal.month = 1 THEN amount ELSE renewal.total
<1> SUFFICES ASSUME PricesInv, phase = "paid", bill.insurance = choice.insurance, ~repriced,
                    ~misplaced, bill.base = choice.price
             PROVE  LET k == renewal.month
                        promised == Charges!Offered(choice) /\ ~Charges!Lapsed(k)
                        foreseen == Charges!ScheduledTotal(choice, k, promised) IN
                    /\ Charges!ScheduledTotal(choice, k, Charges!Offered(choice)) <= paid
                    /\ IF Charges!ByTheDay(choice, k) THEN foreseen <= paid
                       ELSE foreseen = paid
  BY DEF Charges!ScheduleIsCharged
<1>1. choice \in PriceChoices /\ PricesTyped /\ PricesQuoted /\ Booked
  BY DEF PricesInv, PricesTyped, Booked
<1>2. PICK c \in PriceChoices, k \in 1..(PriceEnd - 1) : c = choice /\ k = renewal.month
  BY <1>1 DEF PricesQuoted
<1>3. PICK got \in BOOLEAN, o \in BOOLEAN, on \in BOOLEAN :
         /\ got = copied /\ o = Charges!Offered(c) /\ (got => o)
         /\ on = (Charges!Offered(c) /\ ~Charges!Lapsed(k))
         /\ on <=> got /\ Charges!Runs(c.promo, Charges!Today(k))
         /\ on => o
  <2>1. copied \in BOOLEAN /\ Charges!Offered(c) \in BOOLEAN /\ (copied => Charges!Offered(c))
    BY <1>1, <1>2 DEF PricesTyped, PricesQuoted, Charges!Offered
  <2> QED
    BY <1>2, <2>1 DEF Charges!Lapsed
<1>4. PICK i \in Nat, x \in Nat :
         /\ i = Insured /\ x = InsuredTax
         /\ i = Charges!InsurancePrice(c.insurance) /\ x = Charges!Tax(i, PriceInsuranceTax)
  <2>1. c.insurance \in Nat
    BY ChoicesAre
  <2>2. Insured \in Nat /\ InsuredTax \in Nat
    BY <1>2, <2>1, InsurancesAre DEF Insured, InsuredTax
  <2> QED
    BY <1>2, <2>2 DEF Insured, InsuredTax
<1>5. PICK e \in Nat, f \in Nat :
         /\ e = Charges!EarlyDiscount(c, on, k) /\ f = Charges!EarlyDiscount(c, o, k)
         /\ e <= f
  <2>1. k \in Nat
    BY MonthsAre
  <2> QED
    BY <1>3, <2>1, EarlyDiscountsAre
<1>6. PICK R \in Int, d \in Nat, s \in Int :
         /\ R = Charges!RentOf(c, c.price, k)
         /\ s = Charges!ScheduledRent(c, k)
         /\ s - e <= R - d
         /\ ~Charges!ByTheDay(c, k) => s = R /\ e = d
         /\ k = 1 => s <= R /\ R = Charges!CheckoutRent(c)
                     /\ d = Charges!EarlyDiscount(c, got, 1)
         /\ k # 1 => Lasts(c, k) /\ d = Charges!LaterDiscount(c, got, c.price, k, k)
  <2>1. CASE k = 1
    <3>1. PICK R \in Int : R = Charges!RentOf(c, c.price, k) /\ R = Charges!CheckoutRent(c)
      BY <2>1, FirstRentIs
    <3>2. PICK s \in Int : s = Charges!ScheduledRent(c, k) /\ s <= R
                           /\ (~Charges!ByTheDay(c, k) => s = R)
      BY <2>1, <3>1, FirstRentShown
    <3>3. on = got
      <4>1. Charges!Today(1) = 0
        BY DEF Charges!Today
      <4>2. o => Charges!Runs(c.promo, 0)
        BY <1>3 DEF Charges!Offered
      <4> QED
        BY <1>3, <2>1, <4>1, <4>2
    <3>4. s - e <= R - e
      BY <3>2
    <3> QED
      BY <1>5, <2>1, <3>1, <3>2, <3>3, <3>4
  <2>2. CASE k # 1
    <3>1. k > 1 /\ k \in Nat /\ c.price \in Nat
      BY <2>2, MonthsAre, ChoicesAre
    <3>2. Lasts(c, k)
      BY <1>2, <3>1 DEF PricesInv, LaterMonth
    <3>3. PICK R \in Int, d \in Nat :
             /\ R = Charges!RentOf(c, c.price, k)
             /\ d = Charges!LaterDiscount(c, got, c.price, k, k)
      <4>1. Charges!RentOf(c, c.price, k) \in Int
        BY <3>1, RentsAre
      <4>2. Charges!LaterDiscount(c, got, c.price, k, k) \in Nat
        BY <3>1, <3>2, LaterDiscountsAre
      <4> QED
        BY <4>1, <4>2
    <3> QED
      BY <1>3, <1>5, <2>2, <3>2, <3>3, LaterRentShown
  <2> QED
    BY <2>1, <2>2
<1>7. PICK t \in Int, u \in Int, v \in Int :
         /\ t = Charges!SpaceTax(s, e) /\ u = Charges!SpaceTax(R, d)
         /\ v = Charges!SpaceTax(s, f)
  <2>1. /\ Charges!SpaceTax(s, e) \in Int /\ Charges!SpaceTax(R, d) \in Int
        /\ Charges!SpaceTax(s, f) \in Int
    BY SpaceTaxIs
  <2> QED
    BY <2>1
<1>8. s - e + t <= R - d + u /\ s - f + v <= s - e + t
  <2>1. s - e + t <= R - d + u
    BY <1>6, <1>7, NetGrows
  <2>2. s - f <= s - e
    BY <1>5
  <2>3. s - f + v <= s - e + t
    BY <1>7, <2>2, NetGrows
  <2> QED
    BY <2>1, <2>3
<1>9. PICK g \in Int :
         /\ g = IF k = 1 THEN s + c.pickup + Charges!Tax(c.pickup, PriceServiceTax) ELSE 0
         /\ Charges!ScheduledTotal(c, k, on) = s - e + t + i + x + g
         /\ Charges!ScheduledTotal(c, k, o) = s - f + v + i + x + g
  <2>1. k \in Nat
    BY MonthsAre
  <2>2. PICK p \in Nat, y \in Nat : p = c.pickup /\ y = Charges!Tax(c.pickup, PriceServiceTax)
    BY ChoicesAre, QuotedIs
  <2>3. PICK g \in Int : g = IF k = 1 THEN s + p + y ELSE 0
    OBVIOUS
  <2>4. Charges!ScheduledTotal(c, k, on) = s - e + t + i + x + g
    BY <1>4, <1>5, <1>6, <1>7, <2>1, <2>2, <2>3, ShownIs
  <2>5. Charges!ScheduledTotal(c, k, o) = s - f + v + i + x + g
    BY <1>4, <1>5, <1>6, <1>7, <2>1, <2>2, <2>3, ShownIs
  <2> QED
    BY <2>2, <2>3, <2>4, <2>5
<1>10. PICK h \in Int :
          /\ paid = R - d + u + i + x + h /\ g <= h
          /\ s = R => g = h
  <2>1. CASE k = 1
    <3>1. FirstMonth
      BY <1>1, <1>2, <2>1 DEF PricesInv
    <3>2. PICK p \in Nat, y \in Nat : p = c.pickup
                                      /\ y = Charges!Tax(c.pickup, PriceServiceTax)
      BY ChoicesAre, QuotedIs
    <3>3. cOrder = p + y
      BY <1>1, <1>2, <3>2 DEF PricesQuoted
    <3>4. PICK b \in Int : b = bill.tax /\ b = u + x
      BY <1>1, <1>2, <1>3, <1>4, <1>6, <1>7, <2>1, <3>1 DEF PricesTyped, FirstMonth
    <3>5. amount = 2 * R + i + b - d + (p + y)
      BY <1>2, <1>3, <1>4, <1>6, <2>1, <3>1, <3>3, <3>4 DEF FirstMonth
    <3>6. amount = R - d + u + i + x + (R + p + y)
      BY <3>4, <3>5
    <3>7. PICK h \in Int : h = R + p + y
      OBVIOUS
    <3>8. g = s + p + y /\ s <= R
      BY <1>6, <1>9, <2>1, <3>2
    <3> QED
      BY <1>2, <2>1, <3>6, <3>7, <3>8
  <2>2. CASE k # 1
    <3>1. k > 1
      BY <2>2, MonthsAre
    <3>2. renewal.total = Costs(c, got, c.price, k, i)
      BY <1>2, <1>3, <1>4, <3>1 DEF PricesInv, LaterMonth
    <3>3. renewal.total = R + i - d + u + x
      BY <1>4, <1>6, <1>7, <2>2, <3>2 DEF Costs
    <3>4. R + i - d + u + x = R - d + u + i + x + 0 /\ g = 0
      BY <1>9, <2>2
    <3> QED
      BY <1>2, <2>2, <3>3, <3>4
  <2> QED
    BY <2>1, <2>2
<1>11. /\ s - f + v + i + x + g <= R - d + u + i + x + h
       /\ s - e + t + i + x + g <= R - d + u + i + x + h
  BY <1>8, <1>10
<1>12. s = R /\ e = d => s - e + t + i + x + g = R - d + u + i + x + h
  BY <1>7, <1>10
<1> HIDE DEF paid
<1> QED
  BY <1>2, <1>3, <1>6, <1>9, <1>10, <1>11, <1>12

LEMMA ProjectionHolds == PricesInv => Charges!ProjectionIsCharged
  BY DEF PricesInv

(* Where the discount is reckoned from no more than the rent.              *)
LEMMA FirstDiscountWithin ==
    ASSUME NEW c \in PriceChoices, c.stay # 31, ~(c.stay = 29 /\ PriceMonths[1] = 28),
           NEW got \in BOOLEAN
    PROVE  Charges!EarlyDiscount(c, got, 1) <= Charges!CheckoutRent(c)
<1>1. PICK p \in Nat, s \in Nat : p = c.price /\ s = c.stay
  BY ChoicesAre
<1>2. PICK L \in 28..31 : L = PriceMonths[1]
  <2>1. 1 \in 1..PriceEnd
    BY MonthsAre
  <2> QED
    BY <2>1, MonthsAre
<1>3. PICK b \in Nat, d \in Nat :
         /\ b = Charges!PromotionBase(c) /\ d = Charges!EarlyDiscount(c, got, 1) /\ d <= b
         /\ b = IF s # 0 /\ s <= L THEN Charges!Prorated(p, s) ELSE p
  BY <1>1, <1>2, EarlyDiscountsAre
<1>4. Charges!CheckoutRent(c) = IF s # 0 /\ s <= 30 THEN Charges!Prorated(p, s) ELSE p
  BY <1>1 DEF Charges!CheckoutRent, Charges!Open
<1>5. Charges!Prorated(p, 30) = p
  BY ProratedIs
<1>6. s # 31 /\ ~(s = 29 /\ L = 28)
  BY <1>1, <1>2
<1>7. CASE s = 30
  <2>1. b = p /\ Charges!CheckoutRent(c) = p
    BY <1>3, <1>4, <1>5, <1>7
  <2> QED
    BY <1>3, <2>1
<1>8. CASE s # 30
  <2>1. (s # 0 /\ s <= L) <=> (s # 0 /\ s <= 30)
    BY <1>6, <1>8
  <2>2. b = Charges!CheckoutRent(c)
    BY <1>3, <1>4, <2>1
  <2> QED
    BY <1>3, <2>2
<1> QED
  BY <1>7, <1>8

LEMMA LaterDiscountWithin ==
    ASSUME NEW c \in PriceChoices, NEW base \in Nat, NEW k \in 1..(PriceEnd - 1), k # 1,
           Lasts(c, k), NEW got \in BOOLEAN
    PROVE  /\ Charges!RentOf(c, base, k) \in Int
           /\ Charges!LaterDiscount(c, got, base, k, k) \in Nat
           /\ Charges!Prorated(base, 3) \in Nat
           /\ Charges!LaterDiscount(c, got, base, k, k) <=
                 Charges!RentOf(c, base, k) + Charges!Prorated(base, 3)
<1>1. k \in Nat
  OBVIOUS
<1>2. PICK R \in Int : R = Charges!RentOf(c, base, k)
  BY RentsAre
<1>3. PICK d \in Nat, b \in Nat :
         /\ d = Charges!LaterDiscount(c, got, base, k, k)
         /\ b = Charges!LaterBase(c, base, k) /\ d <= b
  BY <1>1, LaterDiscountsAre
<1>4. PICK h \in Nat : h = Charges!Prorated(base, 3)
  <2>1. Charges!Prorated(base, 3) \in Int /\ (3 >= 0 => Charges!Prorated(base, 3) >= 0)
    BY ProratedIs
  <2> QED
    BY <2>1
<1>5. b <= R + h
  <2>1. CASE c.stay = 0
    <3>1. R = base /\ b = base
      BY <1>2, <1>3, <2>1, LaterRentsAre
    <3> QED
      BY <3>1
  <2>2. CASE c.stay # 0
    <3>1. PICK D \in Int :
             /\ D = Charges!DaysLeft(c, k) /\ D >= 28
             /\ R = IF D < 30 THEN Charges!Prorated(base, D) ELSE base
             /\ b = base \/ (D <= 29 /\ b = Charges!Prorated(base, D + 2))
      BY <1>2, <1>3, <2>2, LaterRentsAre
    <3>2. CASE D = 28
      <4>1. R = Charges!Prorated(base, 28) /\ (b = base \/ b = Charges!Prorated(base, 30))
        BY <3>1, <3>2
      <4>2. Charges!Prorated(base, 30) = base /\ base <= Charges!Prorated(base, 28) + h
        BY <1>4, DaysCost
      <4> QED
        BY <4>1, <4>2
    <3>3. CASE D = 29
      <4>1. R = Charges!Prorated(base, 29) /\ (b = base \/ b = Charges!Prorated(base, 31))
        BY <3>1, <3>3
      <4>2. /\ base <= Charges!Prorated(base, 29) + h
            /\ Charges!Prorated(base, 31) <= Charges!Prorated(base, 29) + h
        BY <1>4, DaysCost
      <4> QED
        BY <4>1, <4>2
    <3>4. CASE D >= 30
      <4>1. R = base /\ b = base
        BY <3>1, <3>4
      <4> QED
        BY <4>1
    <3> QED
      BY <3>1, <3>2, <3>3, <3>4
  <2> QED
    BY <2>1, <2>2
<1>6. d <= R + h
  BY <1>3, <1>5
<1> QED
  BY <1>2, <1>3, <1>4, <1>6

LEMMA DiscountHolds == PricesInv => Charges!DiscountWithinRent
<1> SUFFICES ASSUME PricesInv PROVE Charges!DiscountWithinRent
  OBVIOUS
<1>1. choice \in PriceChoices /\ PricesTyped /\ PricesQuoted /\ copied \in BOOLEAN
  BY DEF PricesInv, PricesTyped
<1>2. ASSUME phase = "order", choice.stay # 31, ~(choice.stay = 29 /\ PriceMonths[1] = 28)
      PROVE  bill.discount <= Charges!CheckoutRent(choice)
  <2>1. FirstMonth
    BY <1>1, <1>2 DEF PricesInv, PricesQuoted, Booked
  <2>2. bill.discount = Charges!EarlyDiscount(choice, copied, 1)
    BY <2>1 DEF FirstMonth
  <2> QED
    BY <1>1, <1>2, <2>2, FirstDiscountWithin
<1>3. ASSUME renewal.month > 1, ~repriced
      PROVE  renewal.total + Charges!Prorated(bill.base, 3)
               + Charges!Tax(Charges!Prorated(bill.base, 3), PriceSiteTax) >= 0
  <2>1. LaterMonth /\ Booked
    BY <1>1, <1>3 DEF PricesInv, PricesQuoted, Charges!NoRenewal
  <2>2. PICK c \in PriceChoices, k \in 1..(PriceEnd - 1) : c = choice /\ k = renewal.month
    BY <1>1, <2>1 DEF PricesQuoted
  <2>3. PICK base \in Nat, got \in BOOLEAN : base = bill.base /\ got = copied
    BY <1>1 DEF PricesTyped
  <2>4. k # 1 /\ Lasts(c, k) /\ renewal.total = Costs(c, got, base, k, Insured)
    BY <1>3, <2>1, <2>2, <2>3 DEF LaterMonth
  <2>5. PICK R \in Int, d \in Nat, h \in Nat :
           /\ R = Charges!RentOf(c, base, k) /\ d = Charges!LaterDiscount(c, got, base, k, k)
           /\ h = Charges!Prorated(base, 3) /\ d <= R + h
    BY <2>4, LaterDiscountWithin
  <2>6. PICK i \in Nat, x \in Nat : i = Insured /\ x = InsuredTax
    <3>1. bill.insurance \in {0} \cup PriceInsurances
      BY <1>1 DEF PricesTyped
    <3>2. bill.insurance \in Nat
      BY <3>1, PercentsAre
    <3>3. Insured \in Nat /\ InsuredTax \in Nat
      BY <3>2, InsurancesAre DEF Insured, InsuredTax
    <3> QED
      BY <3>3
  <2>7. PICK short \in Int : short = -h
    OBVIOUS
  <2>8. PICK t \in Int, u \in Int : t = Charges!SpaceTax(R, d) /\ u = Charges!SpaceTax(short, 0)
    BY SpaceTaxIs
  <2>9. short - 0 + u <= R - d + t
    <3>1. short - 0 <= R - d
      BY <2>5, <2>7
    <3> QED
      BY <2>8, <3>1, NetGrows
  <2>10. PICK y \in Int : y = Charges!Tax(h, PriceSiteTax) /\ u = -y
    <3>1. h \in Int /\ short - 0 = -h
      BY <2>7
    <3>2. /\ Charges!Tax(h, PriceSiteTax) \in Int
          /\ Charges!Tax(-h, PriceSiteTax) = -Charges!Tax(h, PriceSiteTax)
      BY <3>1, PercentsAre, TaxIs
    <3>3. u = Charges!Tax(-h, PriceSiteTax)
      BY <2>7, <2>8, <3>1, SpaceTaxIs
    <3> QED
      BY <3>2, <3>3
  <2>11. renewal.total = R + i - d + t + x
    BY <2>4, <2>5, <2>6, <2>8 DEF Costs, InsuredTax
  <2>12. R + i - d + t + x + h + y >= 0
    BY <2>7, <2>9, <2>10
  <2> QED
    BY <2>3, <2>5, <2>10, <2>11, <2>12
<1>4. PriceLead + 1 = 3
  BY PercentsAre
<1> QED
  BY <1>2, <1>3, <1>4 DEF Charges!DiscountWithinRent

(* What a customer is quoted, shown, told and invoiced for a stay is what  *)
(* he is charged, whatever he chooses of whatever prices, promotions,      *)
(* insurances and taxes (bookings/booking.service.ts 224-338,              *)
(* renewals/renewal.service.ts 83-490, invoices/invoice.service.ts         *)
(* 33-128), with the exceptions the property names.                        *)
THEOREM StaysCostAsQuoted == ServicesSpec => []QuoteIsCharged
<1>1. PricesInv => QuoteIsCharged
  BY QuoteHolds, ProjectionHolds, ScheduleHolds, TaxRowsHold, InvoiceHolds, DiscountHolds
     DEF QuoteIsCharged
<1> QED
  BY <1>1, PriceFollows, PricesInvariant, PTL

=============================================================================
