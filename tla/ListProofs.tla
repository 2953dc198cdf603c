------------------------------ MODULE ListProofs ------------------------------
(***************************************************************************)
(* Proofs about what customers look at before they book: whether a space   *)
(* is free (Availability), its features and the site's (Features), the     *)
(* images of both (Media), the pages of the lists (Paging); and about the  *)
(* short ids (IdsCounter).                                                 *)
(***************************************************************************)
EXTENDS MCServices, FiniteSetTheorems, SequenceTheorems, TLAPS

-----------------------------------------------------------------------------
(* Availability                                                            *)

LEMMA StaysFollow == ServicesSpec => Space!Spec
<1>1. ServicesInit => Space!Init
  BY DEF ServicesInit
<1>2. [ServicesNext]_servicesVars => [Space!Next]_(Space!stayVars)
  BY DEF ServicesNext, servicesVars, stayVars, Space!stayVars
<1> QED
  BY <1>1, <1>2, PTL DEF ServicesSpec, Space!Spec

LEMMA StaysCount == \A S : Space!Cardinality(S) = Cardinality(S)
BY DEF Space!Cardinality, Cardinality

(* The bookings a search must count: getActiveBookingsWhere, of one        *)
(* booking.                                                                *)
InTheWay(c, in, out) ==
    \/ Space!Covers(c, in)
    \/ out # Space!Open /\ (Space!Covers(c, out) \/ (stay[c].in > in /\ stay[c].out < out))

(* The last day the search of a customer looked at.                        *)
LooksUntil(c) == IF c \in openly THEN Space!Open ELSE stay[c].out

(* The bookings in the way of a customer's that his search could count:    *)
(* those of earlier customers who were not deciding when he came.          *)
Counted(e) ==
    {c \in Space!Held : /\ c < e /\ <<c, e>> \notin fMet
                        /\ InTheWay(c, stay[e].in + 1, LooksUntil(e))}

(* Customers come one after the other, and who has not decided yet when    *)
(* another comes has met him.                                              *)
StaysOrder ==
    \A c, e \in StayCustomers :
        /\ c < e /\ ask[e] # "idle" => ask[c] # "idle"
        /\ c < e /\ ask[c] = "offered" /\ ask[e] \in {"offered", "held"} => <<c, e>> \in fMet

(* Only who searched without a move-out date stays without one.            *)
StaysOpen ==
    \A c \in StayCustomers :
        /\ ask[c] = "idle" => c \notin openly
        /\ stay[c].out = Space!Open => c \in openly

(* What a search counted left a unit, and the count never grows.           *)
StaysCounted ==
    \A e \in StayCustomers :
        ask[e] \in {"offered", "held"} => Cardinality(Counted(e)) < StayUnits

StaysInv == Space!TypeOK /\ StaysOrder /\ StaysOpen /\ StaysCounted

LEMMA CountedFinite ==
    ASSUME NEW S, S \subseteq StayCustomers
    PROVE  IsFiniteSet(S) /\ Cardinality(S) \in Nat
<1>1. IsFiniteSet(S)
  BY StaysAssumption, FS_Subset
<1> QED
  BY <1>1, FS_CardinalityType

(* A set of bookings within one that leaves a unit leaves a unit.          *)
LEMMA CountShrinks ==
    ASSUME NEW S, NEW T, T \subseteq StayCustomers, S \subseteq T, Cardinality(T) < StayUnits
    PROVE  Cardinality(S) < StayUnits
<1>1. IsFiniteSet(T) /\ Cardinality(T) \in Nat /\ Cardinality(S) \in Nat
  BY CountedFinite
<1>2. Cardinality(S) <= Cardinality(T)
  BY <1>1, FS_Subset
<1> QED
  BY <1>1, <1>2, StaysAssumption

LEMMA StaysInitially == Space!Init => StaysInv
<1> SUFFICES ASSUME Space!Init PROVE StaysInv
  OBVIOUS
<1>1. Space!TypeOK
  BY StaysAssumption DEF Space!Init, Space!TypeOK, Space!Days, Space!Open, Space!NoStay
<1>2. StaysOrder
  BY DEF Space!Init, StaysOrder
<1>3. StaysOpen
  BY StaysAssumption DEF Space!Init, StaysOpen, Space!NoStay, Space!Open
<1>4. StaysCounted
  BY DEF Space!Init, StaysCounted
<1> QED
  BY <1>1, <1>2, <1>3, <1>4 DEF StaysInv

LEMMA SearchKeepsStays ==
    ASSUME StaysInv, NEW c \in StayCustomers, NEW in \in 0..(StayLastDay - 1),
           NEW out \in Space!Days \cup {Space!Open}, out > in, Space!Search(c, in, out)
    PROVE  StaysInv'
<1> USE StaysAssumption
<1> DEFINE Met == {e \in StayCustomers : ask[e] = "offered"}
<1>1. PICK end \in Space!Days \cup {Space!Open} :
         /\ stay' = [stay EXCEPT ![c] = [in |-> in, out |-> end]]
         /\ out # Space!Open => end = out
  BY DEF Space!Search
<1>2. /\ ask \in [StayCustomers -> {"idle", "offered", "held", "gone"}]
      /\ stay \in [StayCustomers -> [in : Space!Days, out : Space!Days \cup {Space!Open}]]
      /\ openly \subseteq StayCustomers /\ fMet \subseteq StayCustomers \X StayCustomers
  BY DEF StaysInv, Space!TypeOK
<1>3. /\ ask[c] = "idle" /\ \A e \in StayCustomers : e < c => ask[e] # "idle"
      /\ ask' = [ask EXCEPT ![c] = "offered"]
      /\ openly' = IF out = Space!Open THEN openly \cup {c} ELSE openly
      /\ fMet' = fMet \cup ({c} \X Met) \cup (Met \X {c})
  BY DEF Space!Search, Space!Deciding
<1>4. in \in Space!Days
  BY DEF Space!Days
<1>5. Space!TypeOK'
  <2>1. stay' \in [StayCustomers -> [in : Space!Days, out : Space!Days \cup {Space!Open}]]
    BY <1>1, <1>2, <1>4
  <2>2. ask' \in [StayCustomers -> {"idle", "offered", "held", "gone"}]
    BY <1>2, <1>3
  <2>3. openly' \subseteq StayCustomers /\ fMet' \subseteq StayCustomers \X StayCustomers
    BY <1>2, <1>3
  <2> QED
    BY <2>1, <2>2, <2>3 DEF Space!TypeOK, Space!Days, Space!Open
<1>6. StaysOrder'
  <2> SUFFICES ASSUME NEW a \in StayCustomers, NEW e \in StayCustomers, a < e
               PROVE  /\ ask'[e] # "idle" => ask'[a] # "idle"
                      /\ ask'[a] = "offered" /\ ask'[e] \in {"offered", "held"}
                            => <<a, e>> \in fMet'
    BY DEF StaysOrder
  <2>1. /\ ask[e] # "idle" => ask[a] # "idle"
        /\ ask[a] = "offered" /\ ask[e] \in {"offered", "held"} => <<a, e>> \in fMet
    BY DEF StaysInv, StaysOrder
  <2>2. a # e
    OBVIOUS
  <2>3. ask'[e] # "idle" => ask'[a] # "idle"
    BY <1>2, <1>3, <2>1, <2>2
  <2>4. ask'[a] = "offered" /\ ask'[e] \in {"offered", "held"} => <<a, e>> \in fMet'
    <3>1. CASE e = c
      BY <1>2, <1>3, <2>2, <3>1
    <3>2. CASE e # c /\ a # c
      BY <1>2, <1>3, <2>1, <3>2
    <3>3. CASE a = c
      BY <1>2, <1>3, <2>1, <2>2, <3>3
    <3> QED
      BY <3>1, <3>2, <3>3
  <2> QED
    BY <2>3, <2>4
<1>7. StaysOpen'
  <2> SUFFICES ASSUME NEW a \in StayCustomers
               PROVE  /\ ask'[a] = "idle" => a \notin openly'
                      /\ stay'[a].out = Space!Open => a \in openly'
    BY DEF StaysOpen, Space!Open
  <2>1. /\ ask[a] = "idle" => a \notin openly
        /\ stay[a].out = Space!Open => a \in openly
    BY DEF StaysInv, StaysOpen
  <2>2. CASE a = c
    BY <1>1, <1>2, <1>3, <2>2
  <2>3. CASE a # c
    BY <1>1, <1>2, <1>3, <2>1, <2>3
  <2> QED
    BY <2>2, <2>3
<1>8. StaysCounted'
  <2> SUFFICES ASSUME NEW e \in StayCustomers, ask'[e] \in {"offered", "held"}
               PROVE  Cardinality(Counted(e)') < StayUnits
    BY DEF StaysCounted
  <2>1. CASE e = c
    <3>1. c \notin openly
      BY <1>3 DEF StaysInv, StaysOpen
    <3>2. LooksUntil(c)' = out /\ stay'[c].in = in
      BY <1>1, <1>2, <1>3, <3>1 DEF LooksUntil, Space!Open
    <3>3. Counted(c)' \subseteq Space!ActiveBookings(in + 1, out)
      <4> SUFFICES ASSUME NEW x \in Counted(c)'
                   PROVE  x \in Space!ActiveBookings(in + 1, out)
        OBVIOUS
      <4>1. x \in StayCustomers /\ ask'[x] = "held" /\ InTheWay(x, in + 1, out)'
        BY <3>2 DEF Counted, Space!Held, InTheWay, Space!Covers, Space!Open
      <4>2. x # c /\ ask[x] = "held" /\ stay'[x] = stay[x]
        BY <1>1, <1>2, <1>3, <4>1
      <4>3. InTheWay(x, in + 1, out)
        BY <4>1, <4>2 DEF InTheWay, Space!Covers, Space!Open
      <4> QED
        BY <4>1, <4>2, <4>3 DEF InTheWay, Space!ActiveBookings, Space!Held
    <3>4. /\ Space!ActiveBookings(in + 1, out) \subseteq StayCustomers
          /\ Cardinality(Space!ActiveBookings(in + 1, out)) \in Nat
      BY CountedFinite DEF Space!ActiveBookings, Space!Held
    <3>5. Cardinality(Space!ActiveBookings(in + 1, out)) < StayUnits
      BY <3>4, StaysCount DEF Space!Search, Space!Stock
    <3> QED
      BY <2>1, <3>3, <3>4, <3>5, CountShrinks
  <2>2. CASE e # c
    <3>1. ask[e] \in {"offered", "held"} /\ stay'[e] = stay[e] /\ LooksUntil(e)' = LooksUntil(e)
      BY <1>1, <1>2, <1>3, <2>2 DEF LooksUntil, Space!Open
    <3>2. Counted(e)' \subseteq Counted(e)
      <4> SUFFICES ASSUME NEW x \in Counted(e)' PROVE x \in Counted(e)
        OBVIOUS
      <4>1. /\ x \in StayCustomers /\ ask'[x] = "held" /\ x < e /\ <<x, e>> \notin fMet'
            /\ InTheWay(x, stay[e].in + 1, LooksUntil(e))'
        BY <3>1 DEF Counted, Space!Held
      <4>2. x # c /\ ask[x] = "held" /\ stay'[x] = stay[x] /\ <<x, e>> \notin fMet
        BY <1>1, <1>2, <1>3, <4>1
      <4>3. InTheWay(x, stay[e].in + 1, LooksUntil(e))
        BY <3>1, <4>1, <4>2 DEF InTheWay, Space!Covers, Space!Open
      <4> QED
        BY <4>1, <4>2, <4>3 DEF Counted, Space!Held
    <3>3. Cardinality(Counted(e)) < StayUnits
      BY <3>1 DEF StaysInv, StaysCounted
    <3> QED
      BY <3>2, <3>3, CountShrinks DEF Counted, Space!Held
  <2> QED
    BY <2>1, <2>2
<1> QED
  BY <1>5, <1>6, <1>7, <1>8 DEF StaysInv

(* A customer's bookings are counted by those after him; what they counted *)
(* does not grow when nobody comes.                                        *)
LEMMA CountedKept ==
    ASSUME NEW e \in StayCustomers, StaysInv, ask[e] \in {"offered", "held"},
           \A x \in StayCustomers :
               /\ ask'[x] = "held" => /\ stay'[x] = stay[x]
                                      /\ ask[x] = "held" \/ ~(x < e) \/ <<x, e>> \in fMet'
               /\ <<x, e>> \in fMet /\ ask'[x] = "held" => <<x, e>> \in fMet',
           stay'[e] = stay[e], (e \in openly') <=> (e \in openly)
    PROVE  Cardinality(Counted(e)') < StayUnits
<1>1. LooksUntil(e)' = LooksUntil(e)
  BY DEF LooksUntil, Space!Open
<1>2. Counted(e)' \subseteq Counted(e)
  <2> SUFFICES ASSUME NEW x \in Counted(e)' PROVE x \in Counted(e)
    OBVIOUS
  <2>1. /\ x \in StayCustomers /\ ask'[x] = "held" /\ x < e /\ <<x, e>> \notin fMet'
        /\ InTheWay(x, stay[e].in + 1, LooksUntil(e))'
    BY <1>1 DEF Counted, Space!Held
  <2>2. ask[x] = "held" /\ stay'[x] = stay[x] /\ <<x, e>> \notin fMet
    BY <2>1
  <2>3. InTheWay(x, stay[e].in + 1, LooksUntil(e))
    BY <1>1, <2>1, <2>2 DEF InTheWay, Space!Covers, Space!Open
  <2> QED
    BY <2>1, <2>2, <2>3 DEF Counted, Space!Held
<1>3. Cardinality(Counted(e)) < StayUnits
  BY DEF StaysInv, StaysCounted
<1> QED
  BY <1>2, <1>3, CountShrinks DEF Counted, Space!Held

LEMMA BookKeepsStays ==
    ASSUME StaysInv, NEW c \in StayCustomers, Space!Book(c)
    PROVE  StaysInv'
<1>1. /\ ask \in [StayCustomers -> {"idle", "offered", "held", "gone"}]
      /\ ask[c] = "offered" /\ ask' = [ask EXCEPT ![c] = "held"]
      /\ stay' = stay /\ openly' = openly /\ fMet' = fMet
  BY DEF StaysInv, Space!TypeOK, Space!Book
<1>2. Space!TypeOK'
  BY <1>1 DEF StaysInv, Space!TypeOK, Space!Days, Space!Open
<1>3. StaysOrder'
  BY <1>1 DEF StaysInv, StaysOrder
<1>4. StaysOpen'
  BY <1>1 DEF StaysInv, StaysOpen, Space!Open
<1>5. StaysCounted'
  <2> SUFFICES ASSUME NEW e \in StayCustomers, ask'[e] \in {"offered", "held"}
               PROVE  Cardinality(Counted(e)') < StayUnits
    BY DEF StaysCounted
  <2>1. ask[e] \in {"offered", "held"}
    BY <1>1
  <2>2. c < e => <<c, e>> \in fMet
    BY <1>1, <2>1 DEF StaysInv, StaysOrder
  <2>3. ASSUME NEW x \in StayCustomers, ask'[x] = "held"
        PROVE  ask[x] = "held" \/ ~(x < e) \/ <<x, e>> \in fMet'
    BY <1>1, <2>2, <2>3
  <2> QED
    BY <1>1, <2>1, <2>3, CountedKept
<1> QED
  BY <1>2, <1>3, <1>4, <1>5 DEF StaysInv

LEMMA GoesKeepsStays ==
    ASSUME StaysInv, NEW c \in StayCustomers, Space!Goes(c)
    PROVE  StaysInv'
<1>1. /\ ask \in [StayCustomers -> {"idle", "offered", "held", "gone"}]
      /\ stay \in [StayCustomers -> [in : Space!Days, out : Space!Days \cup {Space!Open}]]
      /\ openly \subseteq StayCustomers /\ fMet \subseteq StayCustomers \X StayCustomers
  BY DEF StaysInv, Space!TypeOK
<1>2. /\ ask[c] \in {"offered", "held"} /\ ask' = [ask EXCEPT ![c] = "gone"]
      /\ stay' = [stay EXCEPT ![c] = [in |-> 0, out |-> 0]]
      /\ openly' = openly \ {c} /\ fMet' = {p \in fMet : c \notin {p[1], p[2]}}
  BY DEF Space!Goes, Space!NoStay
<1>3. 0 \in Space!Days /\ 0 # Space!Open
  BY StaysAssumption DEF Space!Days, Space!Open
<1>4. \A a, e \in StayCustomers : a # c /\ e # c /\ <<a, e>> \in fMet => <<a, e>> \in fMet'
  BY <1>2
<1>5. Space!TypeOK'
  <2>1. stay' \in [StayCustomers -> [in : Space!Days, out : Space!Days \cup {Space!Open}]]
    BY <1>1, <1>2, <1>3
  <2>2. ask' \in [StayCustomers -> {"idle", "offered", "held", "gone"}]
    BY <1>1, <1>2
  <2>3. openly' \subseteq StayCustomers /\ fMet' \subseteq StayCustomers \X StayCustomers
    BY <1>1, <1>2
  <2> QED
    BY <2>1, <2>2, <2>3 DEF Space!TypeOK, Space!Days, Space!Open
<1>6. StaysOrder'
  BY <1>1, <1>2, <1>4 DEF StaysInv, StaysOrder
<1>7. StaysOpen'
  BY <1>1, <1>2, <1>3 DEF StaysInv, StaysOpen, Space!Open
<1>8. StaysCounted'
  <2> SUFFICES ASSUME NEW e \in StayCustomers, ask'[e] \in {"offered", "held"}
               PROVE  Cardinality(Counted(e)') < StayUnits
    BY DEF StaysCounted
  <2>1. ask[e] \in {"offered", "held"} /\ e # c
    BY <1>1, <1>2
  <2>2. ASSUME NEW x \in StayCustomers, ask'[x] = "held"
        PROVE  x # c /\ ask[x] = "held" /\ stay'[x] = stay[x]
    BY <1>1, <1>2, <2>2
  <2> QED
    BY <1>1, <1>2, <1>4, <2>1, <2>2, CountedKept
<1> QED
  BY <1>5, <1>6, <1>7, <1>8 DEF StaysInv

(* What a search counted stands, whoever books or leaves after it          *)
(* (spaces/spaces/space.service.ts 537-584, bookings/booking.service.ts    *)
(* 807-1116).                                                              *)
THEOREM StaysInvariant == Space!Spec => []StaysInv
<1>1. StaysInv /\ [Space!Next]_(Space!stayVars) => StaysInv'
  <2> SUFFICES ASSUME StaysInv, [Space!Next]_(Space!stayVars) PROVE StaysInv'
    OBVIOUS
  <2>1. CASE UNCHANGED Space!stayVars
    BY <2>1 DEF Space!stayVars, StaysInv, Space!TypeOK, Space!Days, Space!Open, StaysOrder,
                StaysOpen, StaysCounted, Counted, Space!Held, InTheWay, LooksUntil, Space!Covers
  <2>2. CASE Space!Next
    BY <2>2, SearchKeepsStays, BookKeepsStays, GoesKeepsStays DEF Space!Next
  <2> QED
    BY <2>1, <2>2
<1> QED
  BY <1>1, StaysInitially, PTL DEF Space!Spec

(* The last of some customers: whose followers, he included, are fewest.   *)
LEMMA LastCustomer ==
    ASSUME NEW S, S \subseteq StayCustomers, S # {}
    PROVE  \E e \in S : \A c \in S : c <= e
<1> DEFINE From(e) == {c \in S : c >= e}
           Ends == {From(e) : e \in S}
<1>1. IsFiniteSet(S)
  BY CountedFinite
<1>2. Ends \subseteq FiniteSubsetsOf(S) /\ Ends # {}
  <2>1. \A e \in S : From(e) \in SUBSET S
    OBVIOUS
  <2>2. FiniteSubsetsOf(S) = SUBSET S
    BY <1>1, FS_FiniteSubsetsOfFinite
  <2> HIDE DEF From
  <2>3. Ends \subseteq SUBSET S /\ Ends # {}
    BY <2>1, Zenon
  <2> QED
    BY <2>2, <2>3, Zenon
<1>3. IsWellFoundedOn(StrictSubsetOrdering(S), FiniteSubsetsOf(S))
  BY FS_StrictSubsetOrderingWellFounded
<1> HIDE DEF Ends
<1>4. PICK U \in Ends : \A V \in Ends : <<V, U>> \notin StrictSubsetOrdering(S)
  BY <1>2, <1>3, WFMin
<1> USE DEF Ends
<1>5. PICK e \in S : U = From(e)
  OBVIOUS
<1>6. ASSUME NEW c \in S, ~(c <= e) PROVE FALSE
  <2>1. S \subseteq Nat /\ e \in Nat /\ c \in Nat /\ e < c
    BY <1>6, StaysAssumption
  <2>2. From(c) \subseteq From(e) /\ e \in From(e) /\ e \notin From(c)
    <3>1. \A x \in S : x >= c => x >= e
      BY <2>1
    <3>2. e >= e /\ ~(e >= c)
      BY <2>1
    <3> QED
      BY <3>1, <3>2
  <2>3. <<From(c), From(e)>> \in StrictSubsetOrdering(S)
    BY <2>2 DEF StrictSubsetOrdering
  <2> QED
    BY <1>4, <1>5, <2>3
<1> QED
  BY <1>5, <1>6

(* Whoever comes last of those who sleep in a space in one night had all   *)
(* the others counted, and a unit left.                                    *)
THEOREM SpacesAreNotOverbooked == ServicesSpec => []NotOverbooked
<1>1. StaysInv => Space!NotOverbooked
  <2> SUFFICES ASSUME StaysInv, NEW d \in Space!Days, Space!InTheNightOf(d) # {},
                      \A c, e \in Space!InTheNightOf(d) : <<c, e>> \notin fMet,
                      \A c \in Space!InTheNightOf(d) \cap openly : ~(stay[c].in < d)
               PROVE  Cardinality(Space!InTheNightOf(d)) <= StayUnits
    <3>1. Space!Cardinality({}) = 0
      BY StaysCount, FS_EmptySet
    <3> QED
      BY <3>1, StaysCount, StaysAssumption DEF Space!NotOverbooked
  <2> DEFINE G == Space!InTheNightOf(d)
  <2>1. /\ G = {c \in Space!Held : stay[c].in <= d /\ d < stay[c].out}
        /\ G \subseteq StayCustomers
    BY DEF Space!InTheNightOf, Space!Held
  <2>2. PICK e \in G : \A c \in G : c <= e
    BY <2>1, LastCustomer
  <2>3. \A c \in StayCustomers : /\ c \in Nat /\ stay[c].in \in Space!Days
                                 /\ stay[c].out \in Space!Days \cup {Space!Open}
    BY StaysAssumption DEF StaysInv, Space!TypeOK
  <2>4. ASSUME NEW c \in G \ {e} PROVE c \in Counted(e)
    <3>1. c \in Space!Held /\ c < e /\ <<c, e>> \notin fMet
      BY <2>1, <2>2, <2>3
    <3>2. /\ stay[c].in <= d /\ d < stay[c].out /\ stay[e].in <= d /\ d < stay[e].out
          /\ c \in StayCustomers /\ e \in StayCustomers
      BY <2>1
    <3>3. InTheWay(c, stay[e].in + 1, LooksUntil(e))
      <4>1. CASE e \in openly
        <5>1. stay[e].in = d
          BY <2>3, <3>2, <4>1 DEF Space!Days
        <5>2. Space!Covers(c, d + 1)
          BY <2>3, <3>2, StaysAssumption DEF Space!Covers, Space!Days, Space!Open
        <5> QED
          BY <5>1, <5>2 DEF InTheWay
      <4>2. CASE e \notin openly
        <5>1. LooksUntil(e) = stay[e].out /\ stay[e].out # Space!Open
          BY <3>2, <4>2 DEF LooksUntil, StaysInv, StaysOpen
        <5>2. CASE stay[c].in <= stay[e].in + 1
          BY <2>3, <3>2, <5>2, StaysAssumption DEF InTheWay, Space!Covers, Space!Days, Space!Open
        <5>3. CASE stay[c].out >= stay[e].out
          <6>1. Space!Covers(c, stay[e].out)
            BY <2>3, <3>2, <5>3, StaysAssumption DEF Space!Covers, Space!Days, Space!Open
          <6> QED
            BY <5>1, <6>1 DEF InTheWay
        <5>4. CASE stay[c].in > stay[e].in + 1 /\ stay[c].out < stay[e].out
          BY <5>1, <5>4 DEF InTheWay
        <5> QED
          BY <2>3, <3>2, <5>2, <5>3, <5>4, StaysAssumption DEF Space!Days, Space!Open
      <4> QED
        BY <4>1, <4>2
    <3> QED
      BY <3>1, <3>3 DEF Counted
  <2>5. ask[e] = "held" /\ e \in StayCustomers
    BY <2>1 DEF Space!Held
  <2>6. Cardinality(G \ {e}) < StayUnits
    <3>1. Cardinality(Counted(e)) < StayUnits
      BY <2>5 DEF StaysInv, StaysCounted
    <3>2. Counted(e) \subseteq StayCustomers
      BY DEF Counted, Space!Held
    <3> QED
      BY <2>4, <3>1, <3>2, CountShrinks
  <2>7. IsFiniteSet(G) /\ Cardinality(G) \in Nat
    BY <2>1, CountedFinite
  <2>8. Cardinality(G \ {e}) = Cardinality(G) - 1
    BY <2>2, <2>7, FS_RemoveElement
  <2> QED
    BY <2>6, <2>7, <2>8, StaysAssumption
<1>2. Space!NotOverbooked => NotOverbooked
  BY DEF NotOverbooked
<1> QED
  BY <1>1, <1>2, StaysFollow, StaysInvariant, PTL

-----------------------------------------------------------------------------
(* Features                                                                *)

LEMMA ListsFollow == ServicesSpec => Listing!Spec
<1>1. ServicesInit => Listing!Init
  BY DEF ServicesInit
<1>2. [ServicesNext]_servicesVars => [Listing!Next]_(Listing!vars)
  BY DEF ServicesNext, servicesVars, listVars, Listing!vars, Listing!asked
<1> QED
  BY <1>1, <1>2, PTL DEF ServicesSpec, Listing!Spec

LEMMA ListsCount == \A S : Listing!Cardinality(S) = Cardinality(S)
BY DEF Listing!Cardinality, Cardinality

(* The rows a call is about to commit.                                     *)
Prepared(r) == fPc[r] \in {"written", "saved"} /\ r \notin aborted

(* An array of features is empty or of the features there may be.          *)
ListsGiven ==
    \A r \in ListRequests :
        /\ wanted[r] \subseteq UNION lists[r]
        /\ kind[r] = "copy" => wanted[r] \cap ListUnknown = {}

(* Inserted is what the call missed, and deleted only what is its own.     *)
PreparedAsAsked(r) ==
    /\ Prepared(r) =>
          put[r] = {[of |-> Listing!Entity(r), id |-> i, by |-> r] : i \in Listing!Missing(r)}
    /\ ~Prepared(r) => put[r] = {} /\ gone[r] = {}
    /\ gone[r] \subseteq {x \in Listing!Row : x.of = Listing!Entity(r)}
    /\ Prepared(r) /\ Listing!Entity(r) \notin overlapped => gone[r] = Listing!Unwanted(r)

ListsPrepared ==
    /\ put \in [ListRequests -> SUBSET Listing!Row]
    /\ gone \in [ListRequests -> SUBSET Listing!Row]
    /\ \A r \in ListRequests : PreparedAsAsked(r)

(* Where no two calls overlap, one runs at a time, on what it has read.    *)
ListsAlone ==
    \A r \in ListRequests : Listing!Running(r) /\ Listing!Entity(r) \notin overlapped =>
        /\ fSeen[r] = Listing!FeaturesOf(Listing!Entity(r))
        /\ \A s \in ListRequests \ {r} :
              Listing!Entity(s) = Listing!Entity(r) => ~Listing!Running(s)

(* And a list has every id once.                                           *)
ListsOnce ==
    \A e \in Listing!Entities \ overlapped :
        /\ Listing!FeaturesOf(e) = last[e]
        /\ \A x, y \in Listing!RowsOf(e) : x.id = y.id => x = y

(* Which transactions PostgreSQL may abort unheard, and what was answered. *)
AnsweredTrulySoFar(r) ==
    /\ r \in aborted => /\ kind[r] \in {"space", "new space"}
                        /\ fPc[r] \notin {"idle", "read"}
                        /\ kind[r] = "space" => fPc[r] \in {"written", "error"}
    /\ fPc[r] = "committed" /\ r \notin aborted => r \in applied
    /\ fPc[r] = "ok" => r \in applied
    /\ r \in applied => fPc[r] \in {"committed", "ok", "error"}
    /\ r \in applied /\ fPc[r] = "error" => r \in late

ListsAnswered == \A r \in ListRequests : AnsweredTrulySoFar(r)

ListsInv ==
    /\ Listing!TypeOK
    /\ ListsGiven /\ ListsPrepared /\ ListsAlone /\ ListsOnce /\ ListsAnswered

LEMMA ListsInitially == Listing!Init => ListsInv
<1> SUFFICES ASSUME Listing!Init PROVE ListsInv
  OBVIOUS
<1>1. Listing!TypeOK
  BY DEF Listing!Init, Listing!TypeOK
<1>2. ListsGiven
  BY DEF Listing!Init, ListsGiven
<1>3. ListsPrepared
  BY DEF Listing!Init, ListsPrepared, Prepared, PreparedAsAsked
<1>4. ListsAlone
  BY DEF Listing!Init, ListsAlone, Listing!Running
<1>5. ListsOnce
  BY DEF Listing!Init, ListsOnce, Listing!FeaturesOf, Listing!RowsOf
<1>6. ListsAnswered
  BY DEF Listing!Init, ListsAnswered, AnsweredTrulySoFar
<1> QED
  BY <1>1, <1>2, <1>3, <1>4, <1>5, <1>6 DEF ListsInv

LEMMA EntityTyped ==
    ASSUME NEW r \in ListRequests
    PROVE  Listing!Entity(r) \in Listing!Entities
BY DEF Listing!Entity, Listing!Entities

(* What is asked for does not change, nor therefore whom it is about.      *)
LEMMA EntityKept ==
    ASSUME kind' = kind
    PROVE  \A r : Listing!Entity(r)' = Listing!Entity(r)
BY DEF Listing!Entity

LEMMA RowsKept ==
    ASSUME fRows' = fRows
    PROVE  \A e : /\ Listing!RowsOf(e)' = Listing!RowsOf(e)
                  /\ Listing!FeaturesOf(e)' = Listing!FeaturesOf(e)
BY DEF Listing!RowsOf, Listing!FeaturesOf

LEMMA MissingKept ==
    ASSUME NEW r, lists' = lists, wanted' = wanted, fSeen'[r] = fSeen[r]
    PROVE  Listing!Missing(r)' = Listing!Missing(r)
BY DEF Listing!Missing, Listing!RulesInserted, Listing!PoliciesInserted,
       Listing!FeaturesInserted, Listing!Inserted

LEMMA UnwantedKept ==
    ASSUME NEW r, kind' = kind, lists' = lists, wanted' = wanted,
           Listing!RowsOf(Listing!Entity(r))' = Listing!RowsOf(Listing!Entity(r))
    PROVE  Listing!Unwanted(r)' = Listing!Unwanted(r)
BY DEF Listing!Unwanted

(* What is missing are the ids wanted that were not seen.                  *)
LEMMA MissingIsUnseen ==
    ASSUME ListsInv, NEW r \in ListRequests
    PROVE  Listing!Missing(r) = wanted[r] \ fSeen[r]
<1>1. /\ lists[r] \subseteq {ListRules, ListPolicies, ListFeatures}
      /\ wanted[r] \subseteq UNION lists[r]
  BY DEF ListsInv, Listing!TypeOK, ListsGiven
<1> QED
  BY <1>1 DEF Listing!Missing, Listing!RulesInserted, Listing!PoliciesInserted,
              Listing!FeaturesInserted, Listing!Inserted

LEMMA ReadKeepsLists ==
    ASSUME ListsInv, NEW r \in ListRequests, Listing!Read(r)
    PROVE  ListsInv'
<1>1. /\ fPc[r] = "idle" /\ fPc' = [fPc EXCEPT ![r] = "read"]
      /\ fSeen' = [fSeen EXCEPT ![r] = Listing!FeaturesOf(Listing!Entity(r))]
      /\ kind' = kind /\ lists' = lists /\ wanted' = wanted
      /\ UNCHANGED <<fRows, put, gone, aborted, applied, late, last>>
      /\ overlapped' =
            IF \E s \in ListRequests \ {r} :
                  Listing!Entity(s) = Listing!Entity(r) /\ Listing!Running(s)
            THEN overlapped \cup {Listing!Entity(r)} ELSE overlapped
  BY DEF Listing!Read, Listing!asked
<1>2. /\ fPc \in [ListRequests ->
             {"idle", "read", "written", "saved", "committed", "ok", "error"}]
      /\ fSeen \in [ListRequests -> SUBSET Listing!Ids]
      /\ fRows \subseteq Listing!Row
  BY DEF ListsInv, Listing!TypeOK
<1>3. Listing!FeaturesOf(Listing!Entity(r)) \subseteq Listing!Ids
  BY <1>2 DEF Listing!FeaturesOf, Listing!RowsOf, Listing!Row
<1>4. overlapped \subseteq overlapped' /\ overlapped' \subseteq Listing!Entities
  BY <1>1, EntityTyped DEF ListsInv, Listing!TypeOK
<1>5. \A s \in ListRequests :
         /\ s # r => fPc'[s] = fPc[s] /\ fSeen'[s] = fSeen[s]
         /\ Prepared(s)' = Prepared(s)
         /\ s # r => Listing!Running(s)' = Listing!Running(s)
  BY <1>1, <1>2 DEF Prepared, Listing!Running
<1>6. fPc'[r] = "read" /\ fSeen'[r] = Listing!FeaturesOf(Listing!Entity(r)) /\ ~Prepared(r)
  BY <1>1, <1>2 DEF Prepared
<1>7. Listing!TypeOK'
  BY <1>1, <1>2, <1>3, <1>4
     DEF ListsInv, Listing!TypeOK, Listing!Row, Listing!Entities, Listing!Ids, Listing!Kinds
<1>8. ListsGiven'
  BY <1>1 DEF ListsInv, ListsGiven
<1>9. ListsPrepared'
  <2>1. ASSUME NEW s \in ListRequests PROVE PreparedAsAsked(s)'
    <3>1. s # r => Listing!Missing(s)' = Listing!Missing(s)
      BY <1>1, <1>5, MissingKept
    <3>2. Listing!Unwanted(s)' = Listing!Unwanted(s)
      BY <1>1, RowsKept, EntityKept, UnwantedKept
    <3>3. Listing!Entity(s)' = Listing!Entity(s) /\ Listing!Row' = Listing!Row
      BY <1>1, EntityKept DEF Listing!Row, Listing!Entities, Listing!Ids
    <3>4. PreparedAsAsked(s)
      BY DEF ListsInv, ListsPrepared
    <3> QED
      BY <1>1, <1>4, <1>5, <1>6, <3>1, <3>2, <3>3, <3>4 DEF PreparedAsAsked
  <2>2. Listing!Row' = Listing!Row
    BY DEF Listing!Row, Listing!Entities, Listing!Ids
  <2> QED
    BY <1>1, <2>1, <2>2 DEF ListsInv, ListsPrepared
<1>10. ListsAlone'
  <2> SUFFICES ASSUME NEW s \in ListRequests, Listing!Running(s)',
                      Listing!Entity(s) \notin overlapped'
               PROVE  /\ fSeen'[s] = Listing!FeaturesOf(Listing!Entity(s))
                      /\ \A t \in ListRequests \ {s} :
                            Listing!Entity(t) = Listing!Entity(s) => ~Listing!Running(t)'
    BY <1>1, EntityKept, RowsKept DEF ListsAlone
  <2>1. CASE s = r
    BY <1>1, <1>5, <1>6, <2>1
  <2>2. CASE s # r
    BY <1>1, <1>4, <1>5, <2>2 DEF ListsInv, ListsAlone
  <2> QED
    BY <2>1, <2>2
<1>11. ListsOnce'
  BY <1>1, <1>4, RowsKept DEF ListsInv, ListsOnce, Listing!Entities
<1>12. ListsAnswered'
  BY <1>1, <1>5, <1>6 DEF ListsInv, ListsAnswered, AnsweredTrulySoFar
<1> QED
  BY <1>7, <1>8, <1>9, <1>10, <1>11, <1>12 DEF ListsInv

(* A step of one call that commits nothing and starts nobody.              *)
QuietStep(r, s) ==
    /\ fPc' = [fPc EXCEPT ![r] = s]
    /\ s \in {"read", "written", "saved"} => Listing!Running(r)
    /\ UNCHANGED <<kind, lists, wanted, fRows, fSeen, last, overlapped>>
    /\ put' \in [ListRequests -> SUBSET Listing!Row]
    /\ gone' \in [ListRequests -> SUBSET Listing!Row]
    /\ \A q \in ListRequests \ {r} :
          /\ put'[q] = put[q] /\ gone'[q] = gone[q]
          /\ q \in aborted' <=> q \in aborted
          /\ q \in applied' <=> q \in applied
          /\ q \in late' <=> q \in late
    /\ aborted' \cup applied' \cup late' \subseteq ListRequests

LEMMA QuietStepKeepsLists ==
    ASSUME ListsInv, NEW r \in ListRequests,
           NEW s \in {"read", "written", "saved", "committed", "ok", "error"},
           QuietStep(r, s), PreparedAsAsked(r)', AnsweredTrulySoFar(r)'
    PROVE  ListsInv'
<1>1. fPc \in [ListRequests -> {"idle", "read", "written", "saved", "committed", "ok", "error"}]
  BY DEF ListsInv, Listing!TypeOK
<1>2. ASSUME NEW q \in ListRequests \ {r}
      PROVE  /\ fPc'[q] = fPc[q] /\ put'[q] = put[q] /\ gone'[q] = gone[q]
             /\ Prepared(q)' = Prepared(q) /\ Listing!Running(q)' = Listing!Running(q)
  BY <1>1 DEF QuietStep, Prepared, Listing!Running
<1>3. fPc'[r] = s
  BY <1>1 DEF QuietStep
<1>4. \A q : /\ Listing!Entity(q)' = Listing!Entity(q) /\ Listing!Missing(q)' = Listing!Missing(q)
             /\ Listing!Unwanted(q)' = Listing!Unwanted(q)
             /\ Listing!RowsOf(q)' = Listing!RowsOf(q)
             /\ Listing!FeaturesOf(q)' = Listing!FeaturesOf(q)
  BY EntityKept, MissingKept, UnwantedKept, RowsKept DEF QuietStep
<1>5. UNCHANGED <<kind, lists, wanted, fRows, fSeen, last, overlapped>>
  BY DEF QuietStep
<1>6. Listing!Row' = Listing!Row /\ Listing!Entities' = Listing!Entities
  BY DEF Listing!Row, Listing!Entities, Listing!Ids
<1>7. Listing!TypeOK'
  <2>1. fPc' \in [ListRequests ->
             {"idle", "read", "written", "saved", "committed", "ok", "error"}]
    BY <1>1 DEF QuietStep
  <2> QED
    BY <1>5, <2>1
       DEF QuietStep, ListsInv, Listing!TypeOK, Listing!Row, Listing!Entities, Listing!Ids,
           Listing!Kinds
<1>8. ListsGiven'
  BY <1>5 DEF ListsInv, ListsGiven
<1>9. ListsPrepared'
  <2>1. ASSUME NEW q \in ListRequests \ {r} PROVE PreparedAsAsked(q)'
    <3>1. PreparedAsAsked(q)
      BY DEF ListsInv, ListsPrepared
    <3> QED
      BY <1>2, <1>4, <1>5, <1>6, <3>1 DEF PreparedAsAsked
  <2>2. \A q \in ListRequests : PreparedAsAsked(q)'
    BY <2>1, Zenon
  <2> QED
    BY <1>6, <2>2 DEF ListsPrepared, QuietStep
<1>10. ListsAlone'
  <2>1. \A q \in ListRequests : Listing!Running(q)' => Listing!Running(q)
    BY <1>2, <1>3 DEF Listing!Running, QuietStep
  <2> QED
    BY <1>4, <1>5, <2>1 DEF ListsInv, ListsAlone
<1>11. ListsOnce'
  BY <1>4, <1>5, <1>6 DEF ListsInv, ListsOnce
<1>12. ListsAnswered'
  <2>1. ASSUME NEW q \in ListRequests \ {r} PROVE AnsweredTrulySoFar(q)'
    <3>1. AnsweredTrulySoFar(q)
      BY DEF ListsInv, ListsAnswered
    <3> QED
      BY <1>2, <1>5, <3>1 DEF AnsweredTrulySoFar, QuietStep
  <2> QED
    BY <2>1, Zenon DEF ListsAnswered
<1> QED
  BY <1>7, <1>8, <1>9, <1>10, <1>11, <1>12 DEF ListsInv

LEMMA WriteKeepsLists ==
    ASSUME ListsInv, NEW r \in ListRequests, Listing!Write(r)
    PROVE  ListsInv'
<1>1. /\ fPc[r] = "read" /\ fPc' = [fPc EXCEPT ![r] = "written"]
      /\ put' = [put EXCEPT ![r] =
            {[of |-> Listing!Entity(r), id |-> i, by |-> r] : i \in Listing!Missing(r)}]
      /\ gone' = [gone EXCEPT ![r] = Listing!Unwanted(r)]
      /\ UNCHANGED <<kind, lists, wanted, fRows, fSeen, aborted, applied, late, last, overlapped>>
  BY DEF Listing!Write, Listing!asked
<1>2. /\ fPc \in [ListRequests ->
             {"idle", "read", "written", "saved", "committed", "ok", "error"}]
      /\ put \in [ListRequests -> SUBSET Listing!Row]
      /\ gone \in [ListRequests -> SUBSET Listing!Row]
      /\ fRows \subseteq Listing!Row /\ wanted[r] \subseteq Listing!Ids
      /\ aborted \cup applied \cup late \subseteq ListRequests
      /\ AnsweredTrulySoFar(r)
  BY DEF ListsInv, Listing!TypeOK, ListsPrepared, ListsAnswered
<1>3. {[of |-> Listing!Entity(r), id |-> i, by |-> r] : i \in Listing!Missing(r)}
         \in SUBSET Listing!Row
  <2>1. Listing!Missing(r) \subseteq Listing!Ids /\ Listing!Entity(r) \in Listing!Entities
    BY <1>2, MissingIsUnseen, EntityTyped
  <2> QED
    BY <2>1 DEF Listing!Row
<1>4. Listing!Unwanted(r) \in SUBSET {x \in Listing!Row : x.of = Listing!Entity(r)}
  BY <1>2 DEF Listing!Unwanted, Listing!RowsOf
<1>5. QuietStep(r, "written")
  BY <1>1, <1>2, <1>3, <1>4 DEF QuietStep, Listing!Running
<1>6. PreparedAsAsked(r)'
  <2>1. /\ Listing!Entity(r)' = Listing!Entity(r) /\ Listing!Missing(r)' = Listing!Missing(r)
        /\ Listing!Unwanted(r)' = Listing!Unwanted(r) /\ Listing!Row' = Listing!Row
    BY <1>1, EntityKept, MissingKept, UnwantedKept, RowsKept
       DEF Listing!Row, Listing!Entities, Listing!Ids
  <2>2. /\ put'[r] =
              {[of |-> Listing!Entity(r), id |-> i, by |-> r] : i \in Listing!Missing(r)}
        /\ gone'[r] = Listing!Unwanted(r)
    BY <1>1, <1>2
  <2>3. Prepared(r)'
    BY <1>1, <1>2 DEF Prepared, AnsweredTrulySoFar
  <2> QED
    BY <1>4, <2>1, <2>2, <2>3 DEF PreparedAsAsked
<1>7. AnsweredTrulySoFar(r)'
  BY <1>1, <1>2 DEF AnsweredTrulySoFar
<1> QED
  BY <1>5, <1>6, <1>7, QuietStepKeepsLists

(* A step that leaves nothing to be committed, or what was prepared.       *)
LEMMA OtherStepsKeepLists ==
    ASSUME ListsInv, NEW r \in ListRequests,
           \/ Listing!WriteRefused(r) \/ Listing!WriteAborted(r)
           \/ kind[r] = "space" /\ Listing!SaveSpace(r)
           \/ Listing!Answer(r) \/ Listing!AnswerFails(r)
    PROVE  ListsInv'
<1>1. /\ fPc \in [ListRequests ->
             {"idle", "read", "written", "saved", "committed", "ok", "error"}]
      /\ put \in [ListRequests -> SUBSET Listing!Row]
      /\ gone \in [ListRequests -> SUBSET Listing!Row]
      /\ aborted \cup applied \cup late \subseteq ListRequests
      /\ AnsweredTrulySoFar(r) /\ PreparedAsAsked(r)
      /\ kind[r] \in Listing!Kinds
      /\ kind[r] = "copy" => wanted[r] \cap ListUnknown = {}
  BY DEF ListsInv, Listing!TypeOK, ListsPrepared, ListsAnswered, ListsGiven
<1>2. UNCHANGED <<kind, lists, wanted, fRows, fSeen, last, overlapped>>
  BY DEF Listing!WriteRefused, Listing!WriteAborted, Listing!SaveSpace, Listing!Answer,
         Listing!AnswerFails, Listing!asked
<1>3. /\ Listing!Entity(r)' = Listing!Entity(r) /\ Listing!Missing(r)' = Listing!Missing(r)
      /\ Listing!Unwanted(r)' = Listing!Unwanted(r) /\ Listing!Row' = Listing!Row
  BY <1>2, EntityKept, MissingKept, UnwantedKept, RowsKept
     DEF Listing!Row, Listing!Entities, Listing!Ids
<1>4. CASE Listing!WriteRefused(r)
  <2>1. /\ fPc[r] = "read" /\ fPc' = [fPc EXCEPT ![r] = "error"]
        /\ UNCHANGED <<put, gone, aborted, applied, late>>
    BY <1>4 DEF Listing!WriteRefused
  <2>2. QuietStep(r, "error")
    BY <1>1, <1>2, <2>1 DEF QuietStep
  <2>3. ~Prepared(r) /\ ~Prepared(r)'
    BY <1>1, <2>1 DEF Prepared
  <2>4. PreparedAsAsked(r)' /\ AnsweredTrulySoFar(r)'
    BY <1>1, <1>2, <1>3, <2>1, <2>3 DEF PreparedAsAsked, AnsweredTrulySoFar
  <2> QED
    BY <2>2, <2>4, QuietStepKeepsLists
<1>5. CASE Listing!WriteAborted(r)
  <2>1. /\ fPc[r] = "read" /\ fPc' = [fPc EXCEPT ![r] = "written"]
        /\ aborted' = aborted \cup {r}
        /\ UNCHANGED <<put, gone, applied, late>>
    BY <1>5 DEF Listing!WriteAborted
  <2>2. QuietStep(r, "written")
    BY <1>1, <1>2, <2>1 DEF QuietStep, Listing!Running
  <2>3. ~Prepared(r) /\ ~Prepared(r)'
    BY <1>1, <2>1 DEF Prepared
  <2>4. kind[r] \in {"space", "new space"}
    <3>1. kind[r] # "copy"
      <4>1. Listing!Missing(r) \cap ListUnknown # {}
        BY <1>5 DEF Listing!WriteAborted, Listing!Refused
      <4>2. Listing!Missing(r) \subseteq wanted[r]
        BY MissingIsUnseen
      <4> QED
        BY <1>1, <4>1, <4>2
    <3> QED
      BY <1>1, <1>5, <3>1 DEF Listing!WriteAborted, Listing!InsertsAwaited, Listing!Kinds
  <2>5. PreparedAsAsked(r)' /\ AnsweredTrulySoFar(r)'
    BY <1>1, <1>2, <1>3, <2>1, <2>3, <2>4 DEF PreparedAsAsked, AnsweredTrulySoFar
  <2> QED
    BY <2>2, <2>5, QuietStepKeepsLists
<1>6. CASE kind[r] = "space" /\ Listing!SaveSpace(r)
  <2>1. /\ fPc[r] = "written"
        /\ fPc' = [fPc EXCEPT ![r] = IF r \in aborted THEN "error" ELSE "saved"]
        /\ put' = [put EXCEPT ![r] = IF r \in aborted THEN {} ELSE @]
        /\ gone' = [gone EXCEPT ![r] = IF r \in aborted THEN {} ELSE @]
        /\ UNCHANGED <<aborted, applied, late>>
    BY <1>6 DEF Listing!SaveSpace
  <2>2. QuietStep(r, IF r \in aborted THEN "error" ELSE "saved")
    BY <1>1, <1>2, <2>1 DEF QuietStep, Listing!Running
  <2>3. Prepared(r)' = Prepared(r) /\ (Prepared(r) <=> r \notin aborted)
    BY <1>1, <2>1 DEF Prepared
  <2>4. PreparedAsAsked(r)'
    BY <1>1, <1>2, <1>3, <2>1, <2>3 DEF PreparedAsAsked
  <2>5. AnsweredTrulySoFar(r)'
    BY <1>1, <1>2, <1>6, <2>1 DEF AnsweredTrulySoFar
  <2> QED
    BY <2>2, <2>4, <2>5, QuietStepKeepsLists
<1>7. CASE Listing!Answer(r)
  <2>1. /\ fPc[r] = "committed" /\ fPc' = [fPc EXCEPT ![r] = "ok"]
        /\ UNCHANGED <<put, gone, aborted, applied, late>>
    BY <1>7 DEF Listing!Answer
  <2>2. QuietStep(r, "ok")
    BY <1>1, <1>2, <2>1 DEF QuietStep
  <2>3. ~Prepared(r) /\ ~Prepared(r)'
    BY <1>1, <2>1 DEF Prepared
  <2>4. r \notin aborted
    BY <1>1, <1>7, <2>1 DEF Listing!Answer, Listing!Found, AnsweredTrulySoFar
  <2>5. PreparedAsAsked(r)' /\ AnsweredTrulySoFar(r)'
    BY <1>1, <1>2, <1>3, <2>1, <2>3, <2>4 DEF PreparedAsAsked, AnsweredTrulySoFar
  <2> QED
    BY <2>2, <2>5, QuietStepKeepsLists
<1>8. CASE Listing!AnswerFails(r)
  <2>1. /\ fPc[r] = "committed" /\ fPc' = [fPc EXCEPT ![r] = "error"]
        /\ late' = late \cup {r}
        /\ UNCHANGED <<put, gone, aborted, applied>>
    BY <1>8 DEF Listing!AnswerFails
  <2>2. QuietStep(r, "error")
    BY <1>1, <1>2, <2>1 DEF QuietStep
  <2>3. ~Prepared(r) /\ ~Prepared(r)'
    BY <1>1, <2>1 DEF Prepared
  <2>4. PreparedAsAsked(r)' /\ AnsweredTrulySoFar(r)'
    BY <1>1, <1>2, <1>3, <2>1, <2>3 DEF PreparedAsAsked, AnsweredTrulySoFar
  <2> QED
    BY <2>2, <2>4, QuietStepKeepsLists
<1> QED
  BY <1>4, <1>5, <1>6, <1>7, <1>8

(* What a call that ran alone commits: the ids it asked for, each once.    *)
LEMMA CommitAlone ==
    ASSUME ListsInv, NEW r \in ListRequests, Prepared(r), Listing!Entity(r) \notin overlapped,
           NEW R, R = (Listing!RowsOf(Listing!Entity(r)) \ gone[r]) \cup put[r]
    PROVE  /\ {x.id : x \in R} = (last[Listing!Entity(r)] \ UNION lists[r]) \cup wanted[r]
           /\ \A x, y \in R : x.id = y.id => x = y
<1> DEFINE e == Listing!Entity(r)  L == UNION lists[r]  W == wanted[r]
           F == Listing!FeaturesOf(e)  Old == Listing!RowsOf(e)
<1>1. /\ put[r] = {[of |-> e, id |-> i, by |-> r] : i \in Listing!Missing(r)}
      /\ gone[r] = {x \in Old : x.id \in L \ W}
  <2>1. PreparedAsAsked(r)
    BY DEF ListsInv, ListsPrepared
  <2>2. put[r] = {[of |-> e, id |-> i, by |-> r] : i \in Listing!Missing(r)}
    BY <2>1, Zenon DEF PreparedAsAsked
  <2>3. gone[r] = Listing!Unwanted(r)
    BY <2>1, Zenon DEF PreparedAsAsked
  <2>4. gone[r] = {x \in Old : x.id \in L \ W}
    BY <2>3, Zenon DEF Listing!Unwanted
  <2> QED
    BY <2>2, <2>4, Zenon
<1>2. fSeen[r] = F
  BY DEF ListsInv, ListsAlone, Listing!Running, Prepared
<1>3. Listing!Missing(r) = W \ F /\ W \subseteq L
  BY <1>2, MissingIsUnseen DEF ListsInv, ListsGiven
<1>4. e \in Listing!Entities \ overlapped
  BY EntityTyped
<1>5. last[e] = F /\ \A x, y \in Old : x.id = y.id => x = y
  BY <1>4 DEF ListsInv, ListsOnce
<1>6. F = {x.id : x \in Old}
  BY DEF Listing!FeaturesOf
<1> HIDE DEF e, L, W, F, Old
<1>7. \A x \in put[r] : x.id \in W \ F /\ x = [of |-> e, id |-> x.id, by |-> r]
  BY <1>1, <1>3
<1>8. \A x \in Old : x.id \in F
  BY <1>6
<1>9. R = {x \in Old : x.id \notin L \ W} \cup put[r]
  BY <1>1 DEF e, Old
<1>10. \A x, y \in R : x.id = y.id => x = y
  <2> SUFFICES ASSUME NEW x \in R, NEW y \in R, x.id = y.id PROVE x = y
    OBVIOUS
  <2>1. CASE x \in put[r] /\ y \in put[r]
    BY <1>7, <2>1
  <2>2. CASE x \in Old /\ y \in Old
    BY <1>5, <2>2
  <2>3. x \in put[r] \/ x \in Old
    BY <1>9
  <2>4. y \in put[r] \/ y \in Old
    BY <1>9
  <2>5. ~(x \in put[r] /\ y \in Old) /\ ~(y \in put[r] /\ x \in Old)
    BY <1>7, <1>8
  <2> QED
    BY <2>1, <2>2, <2>3, <2>4, <2>5
<1>11. {x.id : x \in R} \subseteq (F \ L) \cup W
  BY <1>7, <1>8, <1>9
<1>12. ASSUME NEW i \in (F \ L) \cup W PROVE i \in {x.id : x \in R}
  <2>1. CASE i \in F
    <3>1. PICK x \in Old : x.id = i
      BY <1>6, <2>1
    <3> QED
      BY <1>9, <3>1
  <2>2. CASE i \notin F
    <3>1. i \in W \ F
      BY <2>2
    <3>2. [of |-> e, id |-> i, by |-> r] \in put[r]
      BY <1>1, <1>3, <3>1
    <3>3. [of |-> e, id |-> i, by |-> r].id = i
      OBVIOUS
    <3> QED
      BY <1>9, <3>2, <3>3
  <2> QED
    BY <2>1, <2>2
<1>13. {x.id : x \in R} = (F \ L) \cup W
  BY <1>11, <1>12, Zenon
<1> QED
  BY <1>5, <1>10, <1>13 DEF e, L, W

LEMMA CommitKeepsLists ==
    ASSUME ListsInv, NEW r \in ListRequests, Listing!Commit(r)
    PROVE  ListsInv'
<1> DEFINE e == Listing!Entity(r)
<1>1. /\ fPc[r] = (IF kind[r] = "space" THEN "saved" ELSE "written")
      /\ fPc' = [fPc EXCEPT ![r] = "committed"]
      /\ IF r \notin aborted
         THEN /\ fRows' = (fRows \ gone[r]) \cup put[r]
              /\ applied' = applied \cup {r}
              /\ last' = [last EXCEPT ![e] = (@ \ UNION lists[r]) \cup wanted[r]]
         ELSE fRows' = fRows /\ applied' = applied /\ last' = last
      /\ put' = [put EXCEPT ![r] = {}] /\ gone' = [gone EXCEPT ![r] = {}]
      /\ UNCHANGED <<kind, lists, wanted, fSeen, aborted, late, overlapped>>
  BY DEF Listing!Commit, Listing!Committed, Listing!asked
<1>2. /\ fPc \in [ListRequests ->
             {"idle", "read", "written", "saved", "committed", "ok", "error"}]
      /\ put \in [ListRequests -> SUBSET Listing!Row]
      /\ gone \in [ListRequests -> SUBSET Listing!Row]
      /\ fRows \subseteq Listing!Row /\ wanted[r] \subseteq Listing!Ids
      /\ last \in [Listing!Entities -> SUBSET Listing!Ids]
      /\ aborted \cup applied \cup late \subseteq ListRequests
      /\ \A q \in ListRequests : AnsweredTrulySoFar(q) /\ PreparedAsAsked(q)
  BY DEF ListsInv, Listing!TypeOK, ListsPrepared, ListsAnswered
<1>3. /\ Listing!Row' = Listing!Row
      /\ Listing!Entities' = Listing!Entities
      /\ Listing!Ids' = Listing!Ids
  BY DEF Listing!Row, Listing!Entities, Listing!Ids
<1>4. e \in Listing!Entities
  BY EntityTyped
<1>5. /\ fPc'[r] = "committed" /\ put'[r] = {} /\ gone'[r] = {}
      /\ \A q \in ListRequests \ {r} :
            /\ fPc'[q] = fPc[q] /\ put'[q] = put[q] /\ gone'[q] = gone[q]
            /\ Prepared(q)' = Prepared(q) /\ Listing!Running(q)' = Listing!Running(q)
  BY <1>1, <1>2 DEF Prepared, Listing!Running
<1>6. Listing!Running(r) /\ (Prepared(r) <=> r \notin aborted)
  BY <1>1 DEF Listing!Running, Prepared
<1>7. \A q : Listing!Entity(q)' = Listing!Entity(q) /\ Listing!Missing(q)' = Listing!Missing(q)
  BY <1>1, EntityKept, MissingKept
<1> HIDE DEF e
<1>8. gone[r] \cup put[r] \subseteq {x \in Listing!Row : x.of = e}
  <2>1. PreparedAsAsked(r)
    BY <1>2
  <2>2. gone[r] \subseteq {x \in Listing!Row : x.of = e}
    BY <2>1 DEF PreparedAsAsked, e
  <2>3. put[r] = {} \/ put[r] = {[of |-> e, id |-> i, by |-> r] : i \in Listing!Missing(r)}
    BY <2>1, Zenon DEF PreparedAsAsked, e
  <2>4. \A x \in put[r] : x.of = e
    BY <2>3
  <2> QED
    BY <1>2, <2>2, <2>4
<1>9. \A d : d # e => /\ Listing!RowsOf(d)' = Listing!RowsOf(d)
                      /\ Listing!FeaturesOf(d)' = Listing!FeaturesOf(d)
  <2>1. ASSUME NEW d, d # e PROVE Listing!RowsOf(d)' = Listing!RowsOf(d)
    BY <1>1, <1>8, <2>1 DEF Listing!RowsOf
  <2> QED
    BY <2>1 DEF Listing!FeaturesOf
<1>10. Listing!TypeOK'
  <2>1. fRows' \subseteq Listing!Row
    BY <1>1, <1>2, <1>8
  <2>2. last' \in [Listing!Entities -> SUBSET Listing!Ids]
    <3>1. (last[e] \ UNION lists[r]) \cup wanted[r] \in SUBSET Listing!Ids
      BY <1>2, <1>4
    <3> QED
      BY <1>1, <1>2, <3>1
  <2>3. fPc' \in [ListRequests ->
             {"idle", "read", "written", "saved", "committed", "ok", "error"}]
    BY <1>1, <1>2
  <2>4. \A q \in ListRequests : put'[q] \subseteq Listing!Row /\ gone'[q] \subseteq Listing!Row
    BY <1>2, <1>5
  <2>5. aborted' \cup applied' \cup late' \subseteq ListRequests
    BY <1>1, <1>2
  <2> QED
    BY <1>1, <1>3, <2>1, <2>2, <2>3, <2>4, <2>5
       DEF ListsInv, Listing!TypeOK, Listing!Kinds
<1>11. ListsGiven'
  BY <1>1 DEF ListsInv, ListsGiven
<1>12. ASSUME NEW q \in ListRequests \ {r}, Listing!Running(q), Listing!Entity(q) \notin overlapped
       PROVE  Listing!Entity(q) # e
  BY <1>6, <1>12 DEF ListsInv, ListsAlone, e
<1>13. ListsPrepared'
  <2>1. /\ put' \in [ListRequests -> SUBSET Listing!Row]
        /\ gone' \in [ListRequests -> SUBSET Listing!Row]
    BY <1>1, <1>2
  <2>2. PreparedAsAsked(r)'
    BY <1>5 DEF PreparedAsAsked, Prepared
  <2>3. ASSUME NEW q \in ListRequests \ {r} PROVE PreparedAsAsked(q)'
    <3>1. PreparedAsAsked(q)
      BY <1>2
    <3>2. Prepared(q) /\ Listing!Entity(q) \notin overlapped =>
             Listing!Unwanted(q)' = Listing!Unwanted(q)
      <4> SUFFICES ASSUME Prepared(q), Listing!Entity(q) \notin overlapped
                   PROVE  Listing!Unwanted(q)' = Listing!Unwanted(q)
        OBVIOUS
      <4>1. Listing!Running(q)
        BY DEF Prepared, Listing!Running
      <4> QED
        BY <1>1, <1>7, <1>9, <1>12, <4>1, UnwantedKept
    <3> QED
      BY <1>1, <1>3, <1>5, <1>7, <3>1, <3>2 DEF PreparedAsAsked
  <2>4. \A q \in ListRequests : PreparedAsAsked(q)'
    BY <2>2, <2>3, Zenon
  <2> QED
    BY <1>3, <2>1, <2>4 DEF ListsPrepared
<1>14. ListsAlone'
  <2> SUFFICES ASSUME NEW q \in ListRequests, Listing!Running(q)',
                      Listing!Entity(q) \notin overlapped
               PROVE  /\ fSeen[q] = Listing!FeaturesOf(Listing!Entity(q))'
                      /\ \A s \in ListRequests \ {q} :
                            Listing!Entity(s) = Listing!Entity(q) => ~Listing!Running(s)'
    BY <1>1, <1>7 DEF ListsAlone
  <2>1. q # r /\ Listing!Running(q)
    BY <1>5 DEF Listing!Running
  <2>2. Listing!FeaturesOf(Listing!Entity(q))' = Listing!FeaturesOf(Listing!Entity(q))
    BY <1>7, <1>9, <1>12, <2>1
  <2>3. ~Listing!Running(r)'
    BY <1>5 DEF Listing!Running
  <2> QED
    BY <1>5, <2>1, <2>2, <2>3 DEF ListsInv, ListsAlone
<1>15. ListsOnce'
  <2> SUFFICES ASSUME NEW d \in Listing!Entities \ overlapped
               PROVE  /\ Listing!FeaturesOf(d)' = last'[d]
                      /\ \A x, y \in Listing!RowsOf(d)' : x.id = y.id => x = y
    BY <1>1, <1>3 DEF ListsOnce
  <2>1. /\ Listing!FeaturesOf(d) = last[d]
        /\ \A x, y \in Listing!RowsOf(d) : x.id = y.id => x = y
    BY DEF ListsInv, ListsOnce
  <2>2. CASE d # e
    BY <1>1, <1>2, <1>9, <2>1, <2>2
  <2>3. CASE d = e /\ r \in aborted
    BY <1>1, <2>1, <2>3, RowsKept
  <2>4. CASE d = e /\ r \notin aborted
    <3>1. Listing!RowsOf(d)' = (Listing!RowsOf(d) \ gone[r]) \cup put[r]
      BY <1>1, <1>8, <2>4 DEF Listing!RowsOf
    <3>2. /\ {x.id : x \in Listing!RowsOf(d)'} = (last[d] \ UNION lists[r]) \cup wanted[r]
          /\ \A x, y \in Listing!RowsOf(d)' : x.id = y.id => x = y
      BY <1>6, <2>4, <3>1, CommitAlone DEF e
    <3>3. Listing!FeaturesOf(d)' = {x.id : x \in Listing!RowsOf(d)'}
      BY DEF Listing!FeaturesOf
    <3>4. last'[d] = (last[d] \ UNION lists[r]) \cup wanted[r]
      BY <1>1, <1>2, <1>4, <2>4
    <3> QED
      BY <3>2, <3>3, <3>4
  <2> QED
    BY <2>2, <2>3, <2>4
<1>16. ListsAnswered'
  <2>1. AnsweredTrulySoFar(r)'
    BY <1>1, <1>2, <1>5 DEF AnsweredTrulySoFar
  <2>2. ASSUME NEW q \in ListRequests \ {r} PROVE AnsweredTrulySoFar(q)'
    <3>1. AnsweredTrulySoFar(q)
      BY <1>2
    <3>2. q \in applied' <=> q \in applied
      BY <1>1
    <3> QED
      BY <1>1, <1>5, <3>1, <3>2 DEF AnsweredTrulySoFar
  <2> QED
    BY <2>1, <2>2, Zenon DEF ListsAnswered
<1> QED
  BY <1>10, <1>11, <1>13, <1>14, <1>15, <1>16 DEF ListsInv

(* The lists of a row are those last asked for, and an answer tells        *)
(* whether they were committed, whoever else writes other rows or the same *)
(* (sites/site-features, spaces/space-features and the services that call  *)
(* them).                                                                  *)
THEOREM ListsInvariant == Listing!Spec => []ListsInv
<1>1. ListsInv /\ [Listing!Next]_(Listing!vars) => ListsInv'
  <2> SUFFICES ASSUME ListsInv, [Listing!Next]_(Listing!vars) PROVE ListsInv'
    OBVIOUS
  <2>1. CASE UNCHANGED Listing!vars
    <3>1. UNCHANGED <<kind, lists, wanted, fRows, fSeen, put, gone, aborted, fPc, applied, late,
                      last, overlapped>>
      BY <2>1 DEF Listing!vars, Listing!asked
    <3>2. Listing!TypeOK'
      BY <3>1 DEF ListsInv, Listing!TypeOK, Listing!Row, Listing!Entities, Listing!Ids,
                  Listing!Kinds
    <3>3. ListsGiven' /\ ListsPrepared'
      BY <3>1 DEF ListsInv, ListsGiven, ListsPrepared, PreparedAsAsked, Prepared, Listing!Row,
                  Listing!Entities, Listing!Ids, Listing!Entity, Listing!Missing,
                  Listing!RulesInserted, Listing!PoliciesInserted, Listing!FeaturesInserted,
                  Listing!Inserted, Listing!Unwanted, Listing!RowsOf
    <3>4. ListsAlone' /\ ListsOnce'
      BY <3>1 DEF ListsInv, ListsAlone, ListsOnce, Listing!Running, Listing!Entity,
                  Listing!Entities, Listing!RowsOf, Listing!FeaturesOf
    <3>5. ListsAnswered'
      BY <3>1 DEF ListsInv, ListsAnswered, AnsweredTrulySoFar
    <3> QED
      BY <3>2, <3>3, <3>4, <3>5 DEF ListsInv
  <2>2. CASE Listing!Next
    <3>1. PICK r \in ListRequests :
             \/ Listing!Read(r) \/ Listing!Write(r) \/ Listing!Commit(r)
             \/ Listing!WriteRefused(r) \/ Listing!WriteAborted(r)
             \/ kind[r] = "space" /\ Listing!SaveSpace(r)
             \/ Listing!Answer(r) \/ Listing!AnswerFails(r)
      BY <2>2 DEF Listing!Next, Listing!CreateSite, Listing!UpdateSite, Listing!CreateSpace,
                  Listing!UpdateSpace, Listing!CopyToBooking, Listing!Upsert
    <3> QED
      BY <3>1, ReadKeepsLists, WriteKeepsLists, CommitKeepsLists, OtherStepsKeepLists
  <2> QED
    BY <2>1, <2>2
<1> QED
  BY <1>1, ListsInitially, PTL DEF Listing!Spec

(* Rows that differ in their ids are as many as their ids.                 *)
LEMMA AsManyRowsAsIds ==
    ASSUME NEW R, \A x, y \in R : x.id = y.id => x = y,
           IsFiniteSet({x.id : x \in R})
    PROVE  Cardinality(R) = Cardinality({x.id : x \in R})
<1> DEFINE I == {x.id : x \in R}
           f == [i \in I |-> CHOOSE x \in R : x.id = i]
<1>1. \A i \in I : f[i] \in R /\ f[i].id = i
  OBVIOUS
<1> HIDE DEF f
<1>2. \A x \in R : x.id \in I /\ f[x.id] = x
  BY <1>1
<1>3. f \in [I -> R]
  BY <1>1 DEF f
<1>4. ExistsBijection(I, R)
  <2>1. f \in Injection(I, R)
    BY <1>1, <1>3 DEF Injection, IsInjective
  <2>2. f \in Surjection(I, R)
    BY <1>2, <1>3 DEF Surjection
  <2> QED
    BY <2>1, <2>2 DEF ExistsBijection, Bijection
<1> QED
  BY <1>4, FS_Bijection

LEMMA ListsInvIsEnough == ListsInv => Listing!AnsweredTruly /\ Listing!FeaturesAsAsked
<1> SUFFICES ASSUME ListsInv PROVE Listing!AnsweredTruly /\ Listing!FeaturesAsAsked
  OBVIOUS
<1>1. Listing!AnsweredTruly
  BY DEF ListsInv, ListsAnswered, AnsweredTrulySoFar, Listing!AnsweredTruly
<1>2. ASSUME NEW e \in Listing!Entities \ overlapped
      PROVE  /\ Listing!FeaturesOf(e) = last[e]
             /\ Listing!Cardinality(Listing!RowsOf(e)) = Listing!Cardinality(last[e])
  <2>1. /\ Listing!FeaturesOf(e) = last[e]
        /\ \A x, y \in Listing!RowsOf(e) : x.id = y.id => x = y
    BY DEF ListsInv, ListsOnce
  <2>2. {x.id : x \in Listing!RowsOf(e)} = last[e]
    BY <2>1 DEF Listing!FeaturesOf
  <2>3. IsFiniteSet(last[e])
    <3>1. last[e] \subseteq Listing!Ids
      BY DEF ListsInv, Listing!TypeOK
    <3> QED
      BY <3>1, ListingAssumption, FS_Subset
  <2>4. Cardinality(Listing!RowsOf(e)) = Cardinality(last[e])
    BY <2>1, <2>2, <2>3, AsManyRowsAsIds
  <2> QED
    BY <2>1, <2>4, ListsCount
<1> QED
  BY <1>1, <1>2, Zenon DEF Listing!FeaturesAsAsked
-----------------------------------------------------------------------------
(* Media                                                                   *)

LEMMA ImagesFollow == ServicesSpec => Images!Spec
<1>1. ServicesInit => Images!Init
  BY DEF ServicesInit
<1>2. [ServicesNext]_servicesVars => [Images!Next]_(Images!mediaVars)
  BY DEF ServicesNext, servicesVars, mediaVars, Images!mediaVars
<1> QED
  BY <1>1, <1>2, PTL DEF ServicesSpec, Images!Spec

(* How far a file is says whether S3 has it, unless the answer was lost.   *)
FilesKept ==
    \A u \in ImageUploads, f \in ImageFiles :
        /\ file[u][f] = "key" => <<u, f>> \in bucket
        /\ file[u][f] = "error" => <<u, f>> \in mUnheard \/ <<u, f>> \notin bucket
        /\ file[u][f] \in {"waiting", "scaled"} => <<u, f>> \notin bucket

(* An object is whole or not there, and an answer means it is there.       *)
StreamsWhole ==
    \A r \in ImageResizes :
        /\ resized[r] \in {0, ImagePieces}
        /\ resize[r] = "answered" => resized[r] = ImagePieces

(* Only the error of a stream cuts a request off.                          *)
CutByCrash ==
    crashed = {} => /\ \A u \in ImageUploads : upload[u] # "cut"
                    /\ \A r \in ImageResizes : resize[r] # "cut"

ImagesInv == Images!TypeOK /\ FilesKept /\ StreamsWhole /\ CutByCrash

LEMMA ImagesInitially == Images!Init => ImagesInv
<1> SUFFICES ASSUME Images!Init PROVE ImagesInv
  OBVIOUS
<1>1. Images!TypeOK
  BY ImagesAssumption DEF Images!Init, Images!TypeOK
<1>2. FilesKept /\ StreamsWhole /\ CutByCrash
  BY DEF Images!Init, FilesKept, StreamsWhole, CutByCrash
<1> QED
  BY <1>1, <1>2 DEF ImagesInv

(* A step of one file of an upload.                                        *)
LEMMA FileStepsKeepImages ==
    ASSUME ImagesInv, NEW u \in ImageUploads, NEW f \in ImageFiles,
           \/ Images!Unsupported(u, f) \/ Images!ScaleImage(u, f)
           \/ Images!UploadBuffer(u, f) \/ Images!UploadBufferFails(u, f)
    PROVE  ImagesInv'
<1> DEFINE States == {"waiting", "scaled", "key", "error"}
<1>1. /\ file \in [ImageUploads -> [ImageFiles -> States]]
      /\ bucket \subseteq ImageUploads \X ImageFiles /\ mUnheard \subseteq bucket
      /\ mFaults \in 0..ImageFaults
  BY DEF ImagesInv, Images!TypeOK
<1>2. PICK s \in {"scaled", "key", "error"} :
         /\ file' = [file EXCEPT ![u][f] = s]
         /\ bucket' = bucket \/ bucket' = bucket \cup {<<u, f>>}
         /\ mUnheard' = mUnheard \/ mUnheard' = mUnheard \cup {<<u, f>>}
         /\ <<u, f>> \in mUnheard' \ mUnheard => <<u, f>> \in bucket'
         /\ s = "key" => <<u, f>> \in bucket'
         /\ s = "error" => <<u, f>> \in mUnheard' \/ <<u, f>> \notin bucket'
         /\ s = "scaled" => <<u, f>> \notin bucket'
         /\ mFaults' \in 0..ImageFaults
  <2>1. file[u][f] \in {"waiting", "scaled"} => <<u, f>> \notin bucket
    BY DEF ImagesInv, FilesKept
  <2>2. CASE Images!Unsupported(u, f)
    BY <1>1, <2>1, <2>2 DEF Images!Unsupported, Images!SetFile
  <2>3. CASE Images!ScaleImage(u, f)
    BY <1>1, <2>1, <2>3 DEF Images!ScaleImage, Images!SetFile
  <2>4. CASE Images!UploadBuffer(u, f)
    BY <1>1, <2>1, <2>4 DEF Images!UploadBuffer, Images!SetFile
  <2>5. CASE Images!UploadBufferFails(u, f)
    <3>1. mFaults' \in 0..ImageFaults
      BY <1>1, <2>5, ImagesAssumption DEF Images!UploadBufferFails, Images!Fault
    <3> QED
      BY <1>1, <2>1, <2>5, <3>1 DEF Images!UploadBufferFails, Images!SetFile
  <2> QED
    BY <2>2, <2>3, <2>4, <2>5
<1>3. upload' = upload /\ Images!streams' = Images!streams
  BY DEF Images!Unsupported, Images!ScaleImage, Images!UploadBuffer, Images!UploadBufferFails
<1>4. \A v \in ImageUploads, g \in ImageFiles :
         /\ file'[v][g] = IF v = u /\ g = f THEN s ELSE file[v][g]
         /\ <<v, g>> = <<u, f>> \/ /\ <<v, g>> \in bucket' <=> <<v, g>> \in bucket
                                   /\ <<v, g>> \in mUnheard' <=> <<v, g>> \in mUnheard
  BY <1>1, <1>2
<1>5. Images!TypeOK'
  <2>1. file' \in [ImageUploads -> [ImageFiles -> States]]
    BY <1>1, <1>2
  <2>2. bucket' \subseteq ImageUploads \X ImageFiles /\ mUnheard' \subseteq bucket'
    BY <1>1, <1>2
  <2> QED
    BY <1>2, <1>3, <2>1, <2>2 DEF ImagesInv, Images!TypeOK, Images!streams
<1>6. FilesKept'
  <2> SUFFICES ASSUME NEW v \in ImageUploads, NEW g \in ImageFiles
               PROVE  /\ file'[v][g] = "key" => <<v, g>> \in bucket'
                      /\ file'[v][g] = "error" => <<v, g>> \in mUnheard' \/ <<v, g>> \notin bucket'
                      /\ file'[v][g] \in {"waiting", "scaled"} => <<v, g>> \notin bucket'
    BY DEF FilesKept
  <2>1. CASE v = u /\ g = f
    BY <1>2, <1>4, <2>1
  <2>2. CASE ~(v = u /\ g = f)
    <3>1. <<v, g>> # <<u, f>>
      BY <2>2
    <3> QED
      BY <1>4, <2>2, <3>1 DEF ImagesInv, FilesKept
  <2> QED
    BY <2>1, <2>2
<1>7. StreamsWhole' /\ CutByCrash'
  BY <1>3 DEF ImagesInv, StreamsWhole, CutByCrash, Images!streams
<1> QED
  BY <1>5, <1>6, <1>7 DEF ImagesInv

LEMMA UploadStepsKeepImages ==
    ASSUME ImagesInv, NEW u \in ImageUploads,
           Images!UploadImages(u) \/ Images!UploadAnswered(u)
    PROVE  ImagesInv'
<1>1. PICK s \in {"storing", "answered"} : upload' = [upload EXCEPT ![u] = s]
  BY DEF Images!UploadImages, Images!UploadAnswered
<1>2. UNCHANGED <<file, bucket, resize, read, scaled, resized, crashed, mFaults, mUnheard>>
  BY DEF Images!UploadImages, Images!UploadAnswered, Images!streams
<1>3. Images!TypeOK'
  BY <1>1, <1>2 DEF ImagesInv, Images!TypeOK
<1>4. FilesKept' /\ StreamsWhole'
  BY <1>2 DEF ImagesInv, FilesKept, StreamsWhole
<1>5. CutByCrash'
  BY <1>1, <1>2 DEF ImagesInv, CutByCrash, Images!TypeOK
<1> QED
  BY <1>3, <1>4, <1>5 DEF ImagesInv

(* A step of a resize that leaves the process alive.                       *)
LEMMA StreamStepsKeepImages ==
    ASSUME ImagesInv, NEW r \in ImageResizes,
           \/ Images!ReadPiece(r) \/ Images!PipePiece(r)
           \/ Images!StreamEnds(r) \/ Images!StreamNotKept(r)
           \/ \E width \in {0, 40} : Images!ResizeImage(r, width)
    PROVE  ImagesInv'
<1>1. /\ resize \in [ImageResizes -> {"idle", "streaming", "answered", "refused", "cut"}]
      /\ read \in [ImageResizes -> 0..ImagePieces]
      /\ scaled \in [ImageResizes -> 0..ImagePieces]
      /\ resized \in [ImageResizes -> 0..ImagePieces]
      /\ mFaults \in 0..ImageFaults
  BY DEF ImagesInv, Images!TypeOK
<1>2. ImagePieces \in Nat
  BY ImagesAssumption
<1>3. /\ resize' \in [ImageResizes -> {"idle", "streaming", "answered", "refused", "cut"}]
      /\ read' \in [ImageResizes -> 0..ImagePieces]
      /\ scaled' \in [ImageResizes -> 0..ImagePieces]
      /\ resized' \in [ImageResizes -> 0..ImagePieces]
      /\ mFaults' \in 0..ImageFaults
      /\ \A q \in ImageResizes :
            /\ resized'[q] \in {resized[q], ImagePieces}
            /\ resize'[q] = "answered" =>
                  resized'[q] = ImagePieces \/ (resize[q] = "answered" /\ resized'[q] = resized[q])
            /\ resize'[q] = "cut" => resize[q] = "cut"
  <2>1. CASE Images!ReadPiece(r)
    <3>1. read[r] + 1 \in 0..ImagePieces
      BY <1>1, <1>2, <2>1 DEF Images!ReadPiece
    <3> QED
      BY <1>1, <2>1, <3>1 DEF Images!ReadPiece
  <2>2. CASE Images!PipePiece(r)
    <3>1. scaled[r] + 1 \in 0..ImagePieces
      BY <1>1, <1>2, <2>2 DEF Images!PipePiece
    <3> QED
      BY <1>1, <2>2, <3>1 DEF Images!PipePiece
  <2>3. CASE Images!StreamEnds(r)
    BY <1>1, <2>3 DEF Images!StreamEnds
  <2>4. CASE Images!StreamNotKept(r)
    <3>1. mFaults' \in 0..ImageFaults
      BY <1>1, <2>4, ImagesAssumption DEF Images!StreamNotKept, Images!Fault
    <3> QED
      BY <1>1, <2>4, <3>1 DEF Images!StreamNotKept
  <2>5. CASE \E width \in {0, 40} : Images!ResizeImage(r, width)
    BY <1>1, <2>5 DEF Images!ResizeImage
  <2> QED
    BY <2>1, <2>2, <2>3, <2>4, <2>5
<1>4. UNCHANGED <<file, bucket, upload, mUnheard, crashed>>
  BY DEF Images!ReadPiece, Images!PipePiece, Images!StreamEnds, Images!StreamNotKept,
         Images!ResizeImage, Images!uploads
<1>5. Images!TypeOK'
  BY <1>3, <1>4 DEF ImagesInv, Images!TypeOK
<1>6. FilesKept'
  BY <1>4 DEF ImagesInv, FilesKept
<1>7. StreamsWhole'
  BY <1>3 DEF ImagesInv, StreamsWhole
<1>8. CutByCrash'
  BY <1>3, <1>4 DEF ImagesInv, CutByCrash
<1> QED
  BY <1>5, <1>6, <1>7, <1>8 DEF ImagesInv

LEMMA CrashesKeepImages ==
    ASSUME ImagesInv, NEW r \in ImageResizes, Images!StreamFails(r) \/ Images!ReadFails(r)
    PROVE  ImagesInv'
<1>1. Images!Dies(r) /\ mFaults' \in 0..ImageFaults
  <2>1. mFaults \in 0..ImageFaults
    BY DEF ImagesInv, Images!TypeOK
  <2> QED
    BY <2>1, ImagesAssumption DEF Images!StreamFails, Images!ReadFails, Images!Fault
<1>2. /\ crashed' = crashed \cup {r}
      /\ UNCHANGED <<file, bucket, mUnheard, read, scaled, resized>>
      /\ upload' = [u \in ImageUploads |-> IF upload[u] = "storing" THEN "cut" ELSE upload[u]]
      /\ resize' = [s \in ImageResizes |-> IF resize[s] = "streaming" THEN "cut" ELSE resize[s]]
  BY <1>1 DEF Images!Dies
<1>3. Images!TypeOK'
  BY <1>1, <1>2 DEF ImagesInv, Images!TypeOK
<1>4. FilesKept' /\ StreamsWhole' /\ CutByCrash'
  BY <1>2 DEF ImagesInv, FilesKept, StreamsWhole, CutByCrash
<1> QED
  BY <1>3, <1>4 DEF ImagesInv

(* A file that has a key is stored and a resized image is whole, whatever  *)
(* fails outside or stops half-way (media/media.service.ts 63-145).        *)
THEOREM ImagesInvariant == Images!Spec => []ImagesInv
<1>1. ImagesInv /\ [Images!Next]_(Images!mediaVars) => ImagesInv'
  <2> SUFFICES ASSUME ImagesInv, [Images!Next]_(Images!mediaVars) PROVE ImagesInv'
    OBVIOUS
  <2>1. CASE UNCHANGED Images!mediaVars
    BY <2>1 DEF Images!mediaVars, ImagesInv, Images!TypeOK, FilesKept, StreamsWhole, CutByCrash
  <2>2. CASE Images!Next
    BY <2>2, FileStepsKeepImages, UploadStepsKeepImages, StreamStepsKeepImages,
       CrashesKeepImages DEF Images!Next
  <2> QED
    BY <2>1, <2>2
<1> QED
  BY <1>1, ImagesInitially, PTL DEF Images!Spec

LEMMA ImagesInvIsEnough == ImagesInv => Images!ImagesAreWhole
BY DEF ImagesInv, FilesKept, StreamsWhole, CutByCrash, Images!ImagesAreWhole

-----------------------------------------------------------------------------
(* Induction: the first number a set has, and FlattenSeq step by step      *)

(* The first number a set has.                                             *)
LEMMA LeastNumber ==
    ASSUME NEW S, S \subseteq Nat, S # {}
    PROVE  \E m \in S : \A k \in S : m <= k
<1> DEFINE Ends == {0..m : m \in S}
<1>1. \A m \in S : 0..m \in FiniteSubsetsOf(Int)
  <2> SUFFICES ASSUME NEW m \in S PROVE 0..m \in FiniteSubsetsOf(Int)
    OBVIOUS
  <2>1. IsFiniteSet(0..m)
    BY FS_Interval
  <2> QED
    BY <2>1 DEF FiniteSubsetsOf
<1>2. Ends \subseteq FiniteSubsetsOf(Int) /\ Ends # {}
  BY <1>1
<1>3. IsWellFoundedOn(StrictSubsetOrdering(Int), FiniteSubsetsOf(Int))
  BY FS_StrictSubsetOrderingWellFounded
<1> HIDE DEF Ends
<1>4. PICK U \in Ends : \A V \in Ends : <<V, U>> \notin StrictSubsetOrdering(Int)
  BY <1>2, <1>3, WFMin
<1> USE DEF Ends
<1>5. PICK m \in S : U = 0..m
  OBVIOUS
<1>6. ASSUME NEW k \in S, ~(m <= k) PROVE FALSE
  <2>1. m \in Nat /\ k \in Nat /\ k < m
    BY <1>6
  <2>2. 0..k \subseteq 0..m /\ m \in 0..m /\ m \notin 0..k
    BY <2>1
  <2>3. <<0..k, 0..m>> \in StrictSubsetOrdering(Int)
    BY <2>1, <2>2 DEF StrictSubsetOrdering
  <2> QED
    BY <1>4, <1>5, <2>3
<1> QED
  BY <1>5, <1>6

(* Induction, over the numbers for which something holds.                  *)
LEMMA UpTo ==
    ASSUME NEW n \in Nat, NEW G, 0 \in G, \A i \in 0..n : i + 1 \in 0..n /\ i \in G => i + 1 \in G
    PROVE  \A i \in 0..n : i \in G
<1> SUFFICES ASSUME (0..n) \ G # {} PROVE FALSE
  OBVIOUS
<1>1. PICK m \in (0..n) \ G : \A k \in (0..n) \ G : m <= k
  <2>1. (0..n) \ G \subseteq Nat
    OBVIOUS
  <2> QED
    BY <2>1, LeastNumber
<1>2. m # 0 /\ m - 1 \in 0..n
  BY <1>1
<1>3. m - 1 \in G
  BY <1>1, <1>2
<1> QED
  BY <1>1, <1>2, <1>3


(* What the sequences up to each are, one after the other: the steps of    *)
(* FlattenSeq.                                                             *)
Flattens(a, n, g) == \A i \in 1..n : g[i] = IF i = 1 THEN a[i] ELSE g[i - 1] \o a[i]

LEMMA FlattenExists ==
    ASSUME NEW X, NEW a \in Seq(Seq(X))
    PROVE  \A n \in 0..Len(a) : \E g \in [1..n -> Seq(X)] : Flattens(a, n, g)
<1> DEFINE G == {n \in 0..Len(a) : \E g \in [1..n -> Seq(X)] : Flattens(a, n, g)}
<1>1. Len(a) \in Nat /\ \A i \in 1..Len(a) : a[i] \in Seq(X)
  OBVIOUS
<1>2. 0 \in G
  <2> DEFINE e == [i \in 1..0 |-> a[i]]
  <2>1. e \in [1..0 -> Seq(X)]
    OBVIOUS
  <2>2. Flattens(a, 0, e)
    BY DEF Flattens
  <2> HIDE DEF e
  <2>3. \E g \in [1..0 -> Seq(X)] : Flattens(a, 0, g)
    BY <2>1, <2>2
  <2>4. 0 \in 0..Len(a)
    BY <1>1
  <2> QED
    BY <2>3, <2>4
<1>3. ASSUME NEW n \in 0..Len(a), n + 1 \in 0..Len(a), n \in G PROVE n + 1 \in G
  <2>1. PICK g \in [1..n -> Seq(X)] : Flattens(a, n, g)
    BY <1>3
  <2>2. \E more \in Seq(X) : more = IF n = 0 THEN a[1] ELSE g[n] \o a[n + 1]
    <3>1. CASE n = 0
      BY <1>1, <1>3, <3>1
    <3>2. CASE n # 0
      <4>1. n \in 1..n /\ n + 1 \in 1..Len(a)
        BY <1>1, <1>3, <3>2
      <4>2. g[n] \in Seq(X) /\ a[n + 1] \in Seq(X)
        BY <1>1, <2>1, <4>1
      <4>3. g[n] \o a[n + 1] \in Seq(X)
        BY <4>2
      <4> QED
        BY <3>2, <4>3
    <3> QED
      BY <3>1, <3>2
  <2>3. PICK more \in Seq(X) : more = IF n = 0 THEN a[1] ELSE g[n] \o a[n + 1]
    BY <2>2
  <2> DEFINE h == [i \in 1..(n + 1) |-> IF i = n + 1 THEN more ELSE g[i]]
  <2>4. /\ h \in [1..(n + 1) -> Seq(X)] /\ h[n + 1] = more
        /\ \A i \in 1..n : h[i] = g[i]
    <3>1. n \in Nat
      BY <1>1
    <3>2. \A i \in 1..n : i \in 1..(n + 1) /\ i # n + 1
      BY <3>1
    <3>3. \A i \in 1..(n + 1) : i # n + 1 => i \in 1..n
      BY <3>1
    <3>4. n + 1 \in 1..(n + 1)
      BY <3>1
    <3>5. ASSUME NEW i \in 1..(n + 1)
          PROVE  (IF i = n + 1 THEN more ELSE g[i]) \in Seq(X)
      <4>1. CASE i = n + 1
        BY <2>3, <4>1
      <4>2. CASE i # n + 1
        BY <2>1, <3>3, <4>2
      <4> QED
        BY <4>1, <4>2
    <3> QED
      BY <3>2, <3>4, <3>5
  <2> HIDE DEF h
  <2>5. Flattens(a, n + 1, h)
    <3> SUFFICES ASSUME NEW i \in 1..(n + 1)
                 PROVE  h[i] = IF i = 1 THEN a[i] ELSE h[i - 1] \o a[i]
      BY DEF Flattens
    <3>1. CASE i \in 1..n
      <4>1. g[i] = IF i = 1 THEN a[i] ELSE g[i - 1] \o a[i]
        BY <2>1, <3>1 DEF Flattens
      <4>2. i # 1 => i - 1 \in 1..n
        BY <3>1
      <4> QED
        BY <2>4, <3>1, <4>1, <4>2
    <3>2. CASE i = n + 1
      <4>1. i = 1 <=> n = 0
        BY <1>1, <3>2
      <4>2. n # 0 => i - 1 = n /\ n \in 1..n
        BY <1>1, <3>2
      <4> QED
        BY <2>3, <2>4, <3>2, <4>1, <4>2
    <3> QED
      BY <3>1, <3>2
  <2> QED
    BY <1>3, <2>4, <2>5
<1> HIDE DEF G
<1>4. \A n \in 0..Len(a) : n \in G
  BY <1>1, <1>2, <1>3, UpTo
<1> QED
  BY <1>4 DEF G

LEMMA FlattenIs ==
    ASSUME NEW X, NEW a \in Seq(Seq(X)), Len(a) # 0
    PROVE  \E g \in [1..Len(a) -> Seq(X)] :
              Walk!FlattenSeq(a) = g[Len(a)] /\ Flattens(a, Len(a), g)
<1> DEFINE Q(g) == g = [i \in 1..Len(a) |-> IF i = 1 THEN a[i] ELSE g[i - 1] \o a[i]]
           f == CHOOSE g : Q(g)
<1>1. PICK g \in [1..Len(a) -> Seq(X)] : Flattens(a, Len(a), g)
  <2>1. Len(a) \in 0..Len(a)
    OBVIOUS
  <2> QED
    BY <2>1, FlattenExists
<1>2. Q(g)
  BY <1>1 DEF Flattens
<1>3. Q(f)
  BY <1>2
<1>4. Walk!FlattenSeq(a) = f[Len(a)]
  BY DEF Walk!FlattenSeq
<1> HIDE DEF f
<1>5. DOMAIN f = 1..Len(a) /\ Flattens(a, Len(a), f)
  BY <1>3 DEF Flattens
<1>6. \A i \in 0..Len(a) : i # 0 => f[i] = g[i]
  <2> DEFINE G == {i \in 0..Len(a) : i # 0 => f[i] = g[i]}
  <2>1. 0 \in G /\ Len(a) \in Nat
    OBVIOUS
  <2>2. ASSUME NEW i \in 0..Len(a), i + 1 \in 0..Len(a), i # 0 => f[i] = g[i]
        PROVE  f[i + 1] = g[i + 1]
    <3>1. i + 1 \in 1..Len(a) /\ (i + 1 = 1 <=> i = 0) /\ (i + 1) - 1 = i
      BY <2>1, <2>2
    <3>2. f[i + 1] = IF i + 1 = 1 THEN a[i + 1] ELSE f[(i + 1) - 1] \o a[i + 1]
      BY <1>5, <3>1 DEF Flattens
    <3>3. g[i + 1] = IF i + 1 = 1 THEN a[i + 1] ELSE g[(i + 1) - 1] \o a[i + 1]
      BY <1>1, <3>1 DEF Flattens
    <3> QED
      BY <2>2, <3>1, <3>2, <3>3
  <2>4. \A i \in 0..Len(a) : i + 1 \in 0..Len(a) /\ i \in G => i + 1 \in G
    BY <2>2
  <2> HIDE DEF G
  <2>3. \A i \in 0..Len(a) : i \in G
    BY <2>1, <2>4, UpTo
  <2> QED
    BY <2>3 DEF G
<1> QED
  BY <1>1, <1>4, <1>6

-----------------------------------------------------------------------------
(* The joined rows of a list                                               *)
(* Of sequences none of which is empty, the joined rows of a list.         *)
Repeats(r, n) == [k \in 1..n |-> r]
JoinedRows(s, w) == [i \in DOMAIN s |-> Repeats(s[i], w[s[i]])]

LEMMA RepeatsAre ==
    ASSUME NEW r \in WalkRows, NEW n \in Nat \ {0}
    PROVE  /\ Repeats(r, n) \in Seq(WalkRows) /\ Len(Repeats(r, n)) = n
           /\ \A k \in 1..n : Repeats(r, n)[k] = r
BY DEF Repeats

LEMMA ConcatIs ==
    ASSUME NEW p \in Seq(WalkRows), NEW q \in Seq(WalkRows)
    PROVE  /\ p \o q \in Seq(WalkRows) /\ Len(p \o q) = Len(p) + Len(q)
           /\ Len(p) \in Nat /\ Len(q) \in Nat
           /\ \A j \in 1..(Len(p) + Len(q)) :
                 (p \o q)[j] = IF j <= Len(p) THEN p[j] ELSE q[j - Len(p)]
OBVIOUS

(* What SelectJoined sees of the row at i of a list, when it and those     *)
(* before it are joined to one row each.                                   *)
Leads(s, i, n, seq) ==
    /\ n <= i => Len(seq) = n /\ \A j \in 1..n : seq[j] = s[j]
    /\ n >= i => /\ Len(seq) >= i /\ seq[i] = s[i]
                 /\ \A j \in 1..Len(seq) : j # i => seq[j] # s[i]

LEMMA JoinedStep ==
    ASSUME NEW N \in Nat, NEW s \in [1..N -> WalkRows], NEW w \in [WalkRows -> Nat \ {0}],
           NEW n \in Nat, n + 1 \in 1..N, NEW seq \in Seq(WalkRows), NEW i \in 1..N,
           \A j, k \in 1..N : s[j] = s[k] => j = k, \A j \in 1..i : w[s[j]] = 1,
           Leads(s, i, n, seq), n >= 1
    PROVE  Leads(s, i, n + 1, seq \o Repeats(s[n + 1], w[s[n + 1]]))
<1> DEFINE m == w[s[n + 1]]
           row1 == Repeats(s[n + 1], m)
           longer == seq \o row1
<1>1. s[n + 1] \in WalkRows /\ m \in Nat \ {0} /\ Len(seq) \in Nat
  OBVIOUS
<1>2. row1 \in Seq(WalkRows) /\ Len(row1) = m /\ \A k \in 1..m : row1[k] = s[n + 1]
  <2> HIDE DEF m
  <2> QED
    BY <1>1, RepeatsAre
<1> HIDE DEF m, row1
<1>3. /\ longer \in Seq(WalkRows) /\ Len(longer) = Len(seq) + m
      /\ \A j \in 1..Len(seq) : longer[j] = seq[j]
      /\ \A j \in 1..Len(longer) : j > Len(seq) => longer[j] = s[n + 1]
  <2>1. longer \in Seq(WalkRows) /\ Len(longer) = Len(seq) + m
    BY <1>1, <1>2, ConcatIs
  <2>2. \A j \in 1..(Len(seq) + m) :
            longer[j] = IF j <= Len(seq) THEN seq[j] ELSE row1[j - Len(seq)]
    BY <1>1, <1>2, ConcatIs
  <2>3. \A j \in 1..(Len(seq) + m) : j > Len(seq) => j - Len(seq) \in 1..m
    BY <1>1
  <2>4. \A j \in 1..Len(seq) : j \in 1..(Len(seq) + m) /\ j <= Len(seq)
    BY <1>1
  <2>5. \A j \in 1..(Len(seq) + m) : j > Len(seq) => ~(j <= Len(seq))
    BY <1>1
  <2> HIDE DEF longer
  <2> QED
    BY <1>2, <2>1, <2>2, <2>3, <2>4, <2>5
<1> HIDE DEF longer
<1>4. CASE n + 1 <= i
  <2>1. Len(seq) = n /\ \A j \in 1..n : seq[j] = s[j]
    BY <1>4 DEF Leads
  <2>2. m = 1
    <3>1. n + 1 \in 1..i
      BY <1>4
    <3> QED
      BY <3>1 DEF m
  <2>3. Len(longer) = n + 1 /\ \A j \in 1..(n + 1) : longer[j] = s[j]
    <3>1. Len(longer) = n + 1
      BY <1>3, <2>1, <2>2
    <3>2. ASSUME NEW j \in 1..(n + 1) PROVE longer[j] = s[j]
      <4>1. CASE j = n + 1
        BY <1>3, <2>1, <3>1, <4>1
      <4>2. CASE j # n + 1
        <5>1. j \in 1..n
          BY <4>2
        <5> QED
          BY <1>3, <2>1, <5>1
      <4> QED
        BY <4>1, <4>2
    <3> QED
      BY <3>1, <3>2
  <2>4. ASSUME n + 1 >= i
        PROVE  /\ Len(longer) >= i /\ longer[i] = s[i]
               /\ \A j \in 1..Len(longer) : j # i => longer[j] # s[i]
    <3>1. i = n + 1
      BY <1>4, <2>4
    <3>2. \A j \in 1..(n + 1) : j \in 1..N
      OBVIOUS
    <3> QED
      BY <2>3, <3>1, <3>2
  <2>5. Leads(s, i, n + 1, longer)
    BY <2>3, <2>4 DEF Leads
  <2> QED
    BY <2>5 DEF longer, row1, m
<1>5. CASE ~(n + 1 <= i)
  <2>1. /\ Len(seq) >= i /\ seq[i] = s[i]
        /\ \A j \in 1..Len(seq) : j # i => seq[j] # s[i]
    <3>1. n >= i
      BY <1>5
    <3> QED
      BY <3>1 DEF Leads
  <2>2. s[n + 1] # s[i]
    BY <1>5
  <2>3. Len(longer) >= i /\ longer[i] = s[i]
    BY <1>1, <1>3, <2>1
  <2>4. ASSUME NEW j \in 1..Len(longer), j # i PROVE longer[j] # s[i]
    <3>1. CASE j > Len(seq)
      BY <1>3, <2>2, <3>1
    <3>2. CASE ~(j > Len(seq))
      <4>1. j \in 1..Len(seq)
        BY <1>1, <1>3, <3>2
      <4> QED
        BY <1>3, <2>1, <2>4, <4>1
    <3> QED
      BY <3>1, <3>2
  <2>5. Leads(s, i, n + 1, longer)
    BY <1>5, <2>3, <2>4 DEF Leads
  <2> QED
    BY <2>5 DEF longer, row1, m
<1> QED
  BY <1>4, <1>5

(* The joined rows are sequences none of which is empty.                   *)
LEMMA JoinedRowsAre ==
    ASSUME NEW N \in Nat, NEW s \in [1..N -> WalkRows], NEW w \in [WalkRows -> Nat \ {0}]
    PROVE  /\ JoinedRows(s, w) \in Seq(Seq(WalkRows))
           /\ Len(JoinedRows(s, w)) = N
           /\ \A n \in 1..N : /\ JoinedRows(s, w)[n] = Repeats(s[n], w[s[n]])
                              /\ JoinedRows(s, w)[n] \in Seq(WalkRows)
                              /\ Len(JoinedRows(s, w)[n]) >= 1
<1>1. ASSUME NEW n \in 1..N
      PROVE  /\ Repeats(s[n], w[s[n]]) \in Seq(WalkRows)
             /\ Len(Repeats(s[n], w[s[n]])) >= 1
  <2>1. s[n] \in WalkRows /\ w[s[n]] \in Nat \ {0}
    OBVIOUS
  <2>2. /\ Repeats(s[n], w[s[n]]) \in Seq(WalkRows)
        /\ Len(Repeats(s[n], w[s[n]])) = w[s[n]]
    BY <2>1, RepeatsAre, Zenon
  <2> QED
    BY <2>1, <2>2
<1>2. JoinedRows(s, w) = [n \in 1..N |-> Repeats(s[n], w[s[n]])]
  BY DEF JoinedRows
<1>3. ASSUME NEW a \in [1..N -> Seq(WalkRows)] PROVE a \in Seq(Seq(WalkRows)) /\ Len(a) = N
  OBVIOUS
<1>4. JoinedRows(s, w) \in [1..N -> Seq(WalkRows)]
  BY <1>1, <1>2
<1> QED
  BY <1>1, <1>2, <1>3, <1>4

LEMMA JoinedLeads ==
    ASSUME NEW N \in Nat, NEW s \in [1..N -> WalkRows], NEW w \in [WalkRows -> Nat \ {0}],
           NEW i \in 1..N,
           \A j, k \in 1..N : s[j] = s[k] => j = k, \A j \in 1..i : w[s[j]] = 1
    PROVE  /\ Walk!FlattenSeq(JoinedRows(s, w)) \in Seq(WalkRows)
           /\ Leads(s, i, N, Walk!FlattenSeq(JoinedRows(s, w)))
<1>a. PICK a : a = JoinedRows(s, w)
  OBVIOUS
<1>1. /\ a \in Seq(Seq(WalkRows)) /\ Len(a) = N
      /\ \A n \in 1..N : a[n] = Repeats(s[n], w[s[n]]) /\ a[n] \in Seq(WalkRows)
  BY <1>a, JoinedRowsAre
<1>b. N \in Nat /\ N # 0 /\ 1 \in 1..N /\ 1 \in 1..i /\ N \in 1..N
  OBVIOUS
<1>2. PICK g \in [1..N -> Seq(WalkRows)] :
          Walk!FlattenSeq(a) = g[N] /\ Flattens(a, N, g)
  <2>1. \E g \in [1..Len(a) -> Seq(WalkRows)] :
            Walk!FlattenSeq(a) = g[Len(a)] /\ Flattens(a, Len(a), g)
    BY <1>1, <1>b, FlattenIs
  <2> QED
    BY <1>1, <2>1
<1> DEFINE G == {n \in 0..N : n # 0 => Leads(s, i, n, g[n])}
<1>3. 0 \in G
  OBVIOUS
<1>4. ASSUME NEW n \in 0..N, n + 1 \in 0..N, n # 0 => Leads(s, i, n, g[n])
      PROVE  Leads(s, i, n + 1, g[n + 1])
  <2>1. CASE n = 0
    <3>1. g[1] = a[1] /\ 1 \in 1..N /\ 1 \in 1..i
      BY <1>2, <1>b DEF Flattens
    <3>2. w[s[1]] = 1
      BY <3>1
    <3>3. g[1] = Repeats(s[1], 1) /\ s[1] \in WalkRows
      BY <1>1, <3>1, <3>2
    <3>4. Len(g[1]) = 1 /\ g[1][1] = s[1]
      <4>1. 1 \in Nat \ {0} /\ 1 \in 1..1
        OBVIOUS
      <4>2. Len(Repeats(s[1], 1)) = 1 /\ Repeats(s[1], 1)[1] = s[1]
        BY <3>3, <4>1, RepeatsAre, Zenon
      <4> QED
        BY <3>3, <4>2
    <3>5. Leads(s, i, 1, g[1])
      BY <3>4 DEF Leads
    <3> QED
      BY <2>1, <3>5
  <2>2. CASE n # 0
    <3>1. n \in 1..N /\ n + 1 \in 1..N /\ n + 1 # 1 /\ (n + 1) - 1 = n /\ n >= 1 /\ n \in Nat
      BY <1>4, <2>2
    <3>2. g[n + 1] = g[n] \o a[n + 1]
      BY <1>2, <3>1 DEF Flattens
    <3>3. g[n] \in Seq(WalkRows) /\ Leads(s, i, n, g[n])
      BY <1>2, <1>4, <2>2, <3>1
    <3>4. Leads(s, i, n + 1, g[n] \o Repeats(s[n + 1], w[s[n + 1]]))
      BY <3>1, <3>3, JoinedStep
    <3> QED
      BY <1>1, <3>1, <3>2, <3>4
  <2> QED
    BY <2>1, <2>2
<1>5. \A n \in 0..N : n + 1 \in 0..N /\ n \in G => n + 1 \in G
  BY <1>4
<1> HIDE DEF G
<1>6. \A n \in 0..N : n \in G
  BY <1>3, <1>5, UpTo
<1>7. N # 0 => Leads(s, i, N, g[N])
  BY <1>6 DEF G
<1>8. N # 0 /\ N \in 1..N
  OBVIOUS
<1>9. g[N] \in Seq(WalkRows)
  BY <1>2, <1>8
<1> QED
  BY <1>2, <1>7, <1>8, <1>9, <1>a

LEMMA JoinedTyped ==
    ASSUME NEW N \in Nat, NEW s \in [1..N -> WalkRows], NEW w \in [WalkRows -> Nat \ {0}]
    PROVE  Walk!FlattenSeq(JoinedRows(s, w)) \in Seq(WalkRows)
<1>a. PICK a : a = JoinedRows(s, w)
  OBVIOUS
<1>1. a \in Seq(Seq(WalkRows)) /\ Len(a) = N
  BY <1>a, JoinedRowsAre
<1>2. CASE N = 0
  <2>1. Walk!FlattenSeq(a) = a /\ a = <<>>
    BY <1>1, <1>2 DEF Walk!FlattenSeq
  <2> QED
    BY <1>a, <2>1
<1>3. CASE N # 0
  <2>1. PICK g \in [1..N -> Seq(WalkRows)] : Walk!FlattenSeq(a) = g[N]
    BY <1>1, <1>3, FlattenIs
  <2>2. N \in 1..N
    BY <1>3
  <2> QED
    BY <1>a, <2>1, <2>2
<1> QED
  BY <1>2, <1>3

(* A COUNT of joined rows finds no fewer than there are rows.              *)
LEMMA JoinedLength ==
    ASSUME NEW N \in Nat, NEW s \in [1..N -> WalkRows], NEW w \in [WalkRows -> Nat \ {0}]
    PROVE  /\ Len(Walk!FlattenSeq(JoinedRows(s, w))) \in Nat
           /\ Len(Walk!FlattenSeq(JoinedRows(s, w))) >= N
<1>a. PICK a : a = JoinedRows(s, w)
  OBVIOUS
<1>1. /\ a \in Seq(Seq(WalkRows)) /\ Len(a) = N
      /\ \A n \in 1..N : a[n] \in Seq(WalkRows) /\ Len(a[n]) >= 1
  BY <1>a, JoinedRowsAre
<1>2. CASE N = 0
  <2>1. Walk!FlattenSeq(a) = a
    BY <1>1, <1>2 DEF Walk!FlattenSeq
  <2> QED
    BY <1>1, <1>2, <1>a, <2>1
<1>3. CASE N # 0
  <2>1. PICK g \in [1..N -> Seq(WalkRows)] :
            Walk!FlattenSeq(a) = g[N] /\ Flattens(a, N, g)
    BY <1>1, <1>3, FlattenIs
  <2> DEFINE G == {n \in 0..N : n # 0 => Len(g[n]) >= n}
  <2>2. 0 \in G
    OBVIOUS
  <2>3. ASSUME NEW n \in 0..N, n + 1 \in 0..N, n # 0 => Len(g[n]) >= n
        PROVE  Len(g[n + 1]) >= n + 1
    <3>1. n + 1 \in 1..N /\ a[n + 1] \in Seq(WalkRows) /\ Len(a[n + 1]) >= 1
      BY <1>1, <2>3
    <3>2. CASE n = 0
      <4>0. 1 \in 1..N
        BY <3>1, <3>2
      <4>1. g[1] = a[1]
        BY <2>1, <4>0 DEF Flattens
      <4> QED
        BY <3>1, <3>2, <4>1
    <3>3. CASE n # 0
      <4>1. n \in 1..N /\ n + 1 # 1 /\ (n + 1) - 1 = n
        BY <2>3, <3>3
      <4>2. g[n + 1] = g[n] \o a[n + 1] /\ g[n] \in Seq(WalkRows)
        BY <2>1, <3>1, <4>1 DEF Flattens
      <4>3. /\ Len(g[n + 1]) = Len(g[n]) + Len(a[n + 1])
            /\ Len(g[n]) \in Nat /\ Len(a[n + 1]) \in Nat
        BY <3>1, <4>2, ConcatIs
      <4>4. Len(g[n]) >= n /\ Len(a[n + 1]) >= 1 /\ n \in Nat
        BY <2>3, <3>1, <3>3
      <4>5. ASSUME NEW x \in Nat, NEW y \in Nat, NEW k \in Nat, x >= k, y >= 1
            PROVE  x + y >= k + 1
        BY <4>5
      <4>6. Len(g[n]) + Len(a[n + 1]) >= n + 1
        BY <4>3, <4>4, <4>5
      <4> QED
        BY <4>3, <4>6, Zenon
    <3> QED
      BY <3>2, <3>3
  <2>4. \A n \in 0..N : n + 1 \in 0..N /\ n \in G => n + 1 \in G
    BY <2>3
  <2> HIDE DEF G
  <2>5. \A n \in 0..N : n \in G
    BY <2>2, <2>4, UpTo
  <2>6. Len(g[N]) >= N /\ g[N] \in Seq(WalkRows)
    BY <1>3, <2>1, <2>5 DEF G
  <2> QED
    BY <2>1, <2>6, <1>a
<1> QED
  BY <1>2, <1>3

-----------------------------------------------------------------------------
(* The pages of a list                                                     *)

LEMMA WalkFollows == ServicesSpec => Walk!Spec
<1>1. ServicesInit => Walk!Init
  BY DEF ServicesInit
<1>2. [ServicesNext]_servicesVars => [Walk!Next]_(Walk!pagingVars)
  BY DEF ServicesNext, servicesVars, pageVars, Walk!pagingVars
<1> QED
  BY <1>1, <1>2, PTL DEF ServicesSpec, Walk!Spec

LEMMA WalkCount == \A S : Walk!Cardinality(S) = Cardinality(S)
BY DEF Walk!Cardinality, Cardinality

(* Rows come in the order of their keys, those of one key together.        *)
LEMMA LeastTied ==
    ASSUME WalkTied # {}
    PROVE  Walk!Min(WalkTied) \in WalkTied /\ \A t \in WalkTied : Walk!Min(WalkTied) <= t
<1>1. WalkTied \subseteq Nat
  BY WalkAssumption
<1>2. \E m \in WalkTied : \A k \in WalkTied : m <= k
  BY <1>1, LeastNumber
<1> QED
  BY <1>2 DEF Walk!Min

LEMMA Orderings ==
    ASSUME pList \in Walk!Lists
    PROVE  /\ pList.order \in {"id", "column", "nothing"}
           /\ pList.window \in {"rows", "or the largest", "joined", "kept", "all"}
           /\ pList.window = "or the largest" => pList.counts = "rows"
           /\ pList.window = "kept" <=> pList.counts = "kept"
<1>1. \/ pList = Walk!List("nothing", "rows", "rows")
      \/ pList = Walk!List("nothing", "rows", "joined")
      \/ pList = Walk!List("column", "rows", "joined")
      \/ pList = Walk!List("column", "rows", "rows")
      \/ pList = Walk!List("column", "or the largest", "rows")
      \/ pList = Walk!List("id", "joined", "rows")
      \/ pList = Walk!List("column", "joined", "rows")
      \/ pList = Walk!List("id", "kept", "kept")
      \/ pList = Walk!List("nothing", "all", "rows")
  BY DEF Walk!Lists, Walk!Bookings, Walk!Services, Walk!SpaceCategories,
         Walk!FeatureCategories, Walk!Promotions, Walk!Banks, Walk!PropertyTypes,
         Walk!Insurances, Walk!SiteDoors, Walk!Transactions, Walk!Sites, Walk!SpaceTypes,
         Walk!Spaces, Walk!SortedSpaces, Walk!SpacesWithUnits, Walk!Countries
<1>2. ASSUME NEW o \in {"id", "column", "nothing"}, NEW c \in {"rows", "joined"},
             NEW w \in {"rows", "or the largest", "joined", "all"},
             w = "or the largest" => c = "rows", pList = Walk!List(o, w, c)
      PROVE  /\ pList.order \in {"id", "column", "nothing"}
             /\ pList.window \in {"rows", "or the largest", "joined", "kept", "all"}
             /\ pList.window = "or the largest" => pList.counts = "rows"
             /\ pList.window = "kept" <=> pList.counts = "kept"
  BY <1>2 DEF Walk!List
<1>3. CASE pList = Walk!List("id", "kept", "kept")
  BY <1>3 DEF Walk!List
<1>4. CASE pList # Walk!List("id", "kept", "kept")
  <2>1. \E o \in {"id", "column", "nothing"}, c \in {"rows", "joined"},
           w \in {"rows", "or the largest", "joined", "all"} :
              (w = "or the largest" => c = "rows") /\ pList = Walk!List(o, w, c)
    BY <1>1, <1>4
  <2> QED
    BY <1>2, <2>1
<1> QED
  BY <1>3, <1>4

LEMMA KeyTyped ==
    ASSUME pList \in Walk!Lists, NEW r \in WalkRows
    PROVE  /\ Walk!Key(r) \in Nat
           /\ pList.order = "id" => Walk!Key(r) = r
           /\ pList.order = "column" =>
                Walk!Key(r) = IF r \in WalkTied THEN Walk!Min(WalkTied) ELSE r
           /\ pList.order = "nothing" => Walk!Key(r) = 0
<1>1. pList.order \in {"id", "column", "nothing"}
  BY Orderings
<1>2. r \in Nat /\ WalkTied \subseteq Nat
  BY WalkAssumption
<1>3. r \in WalkTied => Walk!Min(WalkTied) \in Nat
  BY <1>2, LeastTied
<1> QED
  BY <1>1, <1>2, <1>3 DEF Walk!Key

LEMMA KeysInOrder ==
    ASSUME pList \in Walk!Lists, NEW r \in WalkRows, NEW s \in WalkRows, s >= r
    PROVE  Walk!Key(s) >= Walk!Key(r)
<1>1. pList.order \in {"id", "column", "nothing"}
  BY Orderings
<1>2. r \in Nat /\ s \in Nat /\ WalkTied \subseteq Nat
  BY WalkAssumption
<1>3. CASE pList.order # "column"
  BY <1>1, <1>2, <1>3, KeyTyped
<1>4. CASE pList.order = "column"
  <2> DEFINE m == Walk!Min(WalkTied)
  <2>1. WalkTied # {} => m \in WalkTied /\ m \in Nat /\ \A t \in WalkTied : m <= t
    BY <1>2, LeastTied
  <2>2. /\ Walk!Key(r) = IF r \in WalkTied THEN m ELSE r
        /\ Walk!Key(s) = IF s \in WalkTied THEN m ELSE s
    BY <1>4, KeyTyped
  <2> HIDE DEF m
  <2>3. CASE r \in WalkTied
    BY <1>2, <2>1, <2>2, <2>3
  <2>4. CASE r \notin WalkTied /\ s \notin WalkTied
    BY <1>2, <2>2, <2>4
  <2>5. CASE r \notin WalkTied /\ s \in WalkTied
    <3>1. ~(m < r)
      <4>1. ASSUME m < r PROVE FALSE
        <5>1. r < s
          BY <1>2, <2>5
        <5>2. \E x, y \in WalkTied : x < r /\ r < y
          BY <2>1, <2>5, <4>1, <5>1
        <5> QED
          BY <2>5, <5>2, WalkAssumption
      <4> QED
        BY <4>1
    <3> QED
      BY <1>2, <2>1, <2>2, <2>5, <3>1
  <2> QED
    BY <2>3, <2>4, <2>5
<1> QED
  BY <1>3, <1>4

(* A row no other shares its key with is, in every order of a list, where  *)
(* the rows before it leave it.                                            *)
PlacedAt(L, s, r, N, i) ==
    /\ N = Cardinality(L) /\ s \in [1..N -> L]
    /\ \A j, k \in 1..N : s[j] = s[k] => j = k
    /\ s[i] = r /\ i = Cardinality({x \in L : Walk!Key(x) < Walk!Key(r)}) + 1
    /\ \A j \in 1..i : Walk!Key(s[j]) <= Walk!Key(r)

LEMMA PlaceInOrder ==
    ASSUME pList \in Walk!Lists, NEW L, L \subseteq WalkRows, NEW s \in Walk!Orders(L),
           NEW r \in L, \A x \in L : Walk!Key(x) = Walk!Key(r) => x = r
    PROVE  \E N \in Nat : \E i \in 1..N : PlacedAt(L, s, r, N, i)
<1> DEFINE N == Cardinality(L)
           B == {x \in L : Walk!Key(x) < Walk!Key(r)}
<1>1. IsFiniteSet(L) /\ N \in Nat
  BY WalkAssumption, FS_Subset, FS_CardinalityType
<1>2. /\ s \in [1..N -> L] /\ \A j, k \in 1..N : s[j] = s[k] => j = k
      /\ \A j, k \in 1..N : j < k => Walk!Key(s[j]) <= Walk!Key(s[k])
  <2>1. s \in [1..N -> L] /\ \A j, k \in 1..N : j # k => s[j] # s[k]
    BY WalkCount DEF Walk!Orders, Walk!SetToSeqs
  <2>2. \A j, k \in DOMAIN s : j < k => Walk!Key(s[j]) <= Walk!Key(s[k])
    BY DEF Walk!Orders
  <2>3. DOMAIN s = 1..N
    BY <2>1
  <2> QED
    BY <2>1, <2>2, <2>3
<1>3. \A x \in L : Walk!Key(x) \in Nat
  BY KeyTyped
<1> HIDE DEF N
<1>4. PICK i \in 1..N : s[i] = r
  <2>1. s \in Injection(1..N, L)
    BY <1>2 DEF Injection, IsInjective
  <2>2. Cardinality(1..N) = N
    BY <1>1, FS_Interval
  <2>3. s \in Surjection(1..N, L)
    BY <1>1, <2>1, <2>2, FS_Injection DEF N
  <2> QED
    BY <2>3 DEF Surjection
<1>5. \A j \in 1..N : j < i <=> Walk!Key(s[j]) < Walk!Key(r)
  <2> SUFFICES ASSUME NEW j \in 1..N PROVE j < i <=> Walk!Key(s[j]) < Walk!Key(r)
    OBVIOUS
  <2>1. Walk!Key(s[j]) \in Nat /\ Walk!Key(r) \in Nat
    BY <1>2, <1>3
  <2>2. CASE j < i
    <3>1. s[j] # r
      BY <1>2, <1>4, <2>2
    <3> QED
      BY <1>2, <1>4, <2>1, <2>2, <3>1
  <2>3. CASE j = i
    BY <1>4, <2>1, <2>3
  <2>4. CASE j > i
    BY <1>2, <1>4, <2>1, <2>4
  <2> QED
    BY <2>2, <2>3, <2>4
<1>6. Cardinality(B) = i - 1
  <2> DEFINE f == [j \in 1..(i - 1) |-> s[j]]
  <2>1. \A j \in 1..(i - 1) : j \in 1..N /\ j < i
    BY <1>1
  <2>2. f \in [1..(i - 1) -> B]
    BY <1>2, <1>5, <2>1
  <2>3. f \in Injection(1..(i - 1), B)
    BY <1>2, <2>1, <2>2 DEF Injection, IsInjective
  <2>4. \A x \in B : \E j \in 1..(i - 1) : f[j] = x
    <3> SUFFICES ASSUME NEW x \in B PROVE \E j \in 1..(i - 1) : f[j] = x
      OBVIOUS
    <3>1. PICK j \in 1..N : s[j] = x
      <4>1. s \in Injection(1..N, L)
        BY <1>2 DEF Injection, IsInjective
      <4>2. Cardinality(1..N) = N
        BY <1>1, FS_Interval
      <4>3. s \in Surjection(1..N, L)
        BY <1>1, <4>1, <4>2, FS_Injection DEF N
      <4> QED
        BY <4>3 DEF Surjection
    <3>2. j < i
      BY <1>5, <3>1
    <3> QED
      BY <3>1, <3>2
  <2>5. f \in Surjection(1..(i - 1), B)
    BY <2>2, <2>4 DEF Surjection
  <2>6. ExistsBijection(1..(i - 1), B)
    BY <2>3, <2>5 DEF ExistsBijection, Bijection
  <2>7. IsFiniteSet(1..(i - 1)) /\ Cardinality(1..(i - 1)) = i - 1
    BY FS_Interval
  <2> QED
    BY <2>6, <2>7, FS_Bijection
<1>7. \A j \in 1..i : Walk!Key(s[j]) <= Walk!Key(r)
  <2> SUFFICES ASSUME NEW j \in 1..i PROVE Walk!Key(s[j]) <= Walk!Key(r)
    OBVIOUS
  <2>1. j \in 1..N /\ (j < i \/ j = i)
    BY <1>1
  <2>2. Walk!Key(s[j]) \in Nat /\ Walk!Key(r) \in Nat
    BY <1>2, <1>3, <2>1
  <2> QED
    BY <1>4, <1>5, <2>1, <2>2
<1>8. N \in Nat /\ N = Cardinality(L)
  BY <1>1 DEF N
<1>9. i = Cardinality(B) + 1
  <2>1. ASSUME NEW x, x = i - 1 PROVE i = x + 1
    BY <1>8, <2>1
  <2> QED
    BY <1>6, <2>1
<1> HIDE DEF N
<1>10. PlacedAt(L, s, r, N, i)
  BY <1>2, <1>4, <1>7, <1>8, <1>9 DEF PlacedAt
<1> QED
  BY <1>8, <1>10

(* What LIMIT and OFFSET cut out.                                          *)
LEMMA CutHas ==
    ASSUME NEW seq \in Seq(WalkRows), NEW m \in Nat, NEW n \in Nat, m >= 1, n <= Len(seq),
           NEW i \in 1..Len(seq), \A j \in 1..Len(seq) : j # i => seq[j] # seq[i]
    PROVE  seq[i] \in Walk!ToSet(SubSeq(seq, m, n)) <=> m <= i /\ i <= n
<1> DEFINE cut == SubSeq(seq, m, n)
<1>1. Len(seq) \in Nat /\ \A k \in m..n : seq[k] \in WalkRows
  OBVIOUS
<1>2. /\ cut \in Seq(WalkRows) /\ Len(cut) = IF m <= n THEN n - m + 1 ELSE 0
      /\ \A k \in 1..(n - m + 1) : cut[k] = seq[m + k - 1]
  BY <1>1, SubSeqProperties
<1>3. Walk!ToSet(SubSeq(seq, m, n)) = {cut[k] : k \in DOMAIN cut}
  BY DEF Walk!ToSet
<1> HIDE DEF cut
<1>4. DOMAIN cut = 1..Len(cut)
  BY <1>2
<1>5. CASE m <= i /\ i <= n
  <2>1. i - m + 1 \in 1..Len(cut) /\ i - m + 1 \in 1..(n - m + 1) /\ m + (i - m + 1) - 1 = i
    BY <1>1, <1>2, <1>5
  <2>2. cut[i - m + 1] = seq[i]
    BY <1>2, <2>1
  <2> QED
    BY <1>3, <1>4, <1>5, <2>1, <2>2
<1>6. CASE ~(m <= i /\ i <= n)
  <2>1. ASSUME NEW k \in DOMAIN cut PROVE cut[k] # seq[i]
    <3>1. m <= n /\ k \in 1..(n - m + 1)
      BY <1>2, <1>4, <2>1
    <3>2. m + k - 1 \in m..n
      BY <3>1
    <3>3. m + k - 1 \in 1..Len(seq) /\ m + k - 1 # i
      BY <1>1, <1>6, <3>2
    <3> QED
      BY <1>2, <3>1, <3>3
  <2> QED
    BY <1>3, <1>6, <2>1
<1> QED
  BY <1>5, <1>6

LEMMA WindowHas ==
    ASSUME NEW seq \in Seq(WalkRows), page.skip \in Nat, page.limit \in Nat,
           NEW i \in 1..Len(seq), \A j \in 1..Len(seq) : j # i => seq[j] # seq[i]
    PROVE  seq[i] \in Walk!Window(seq) <=> page.skip <= i - 1 /\ i - 1 < page.skip + page.limit
<1> DEFINE n == IF page.skip + page.limit < Len(seq) THEN page.skip + page.limit ELSE Len(seq)
<1>1. Len(seq) \in Nat /\ n \in Nat /\ n <= Len(seq)
  OBVIOUS
<1>2. i <= n <=> i <= page.skip + page.limit
  BY <1>1
<1>3. Walk!Window(seq) = Walk!ToSet(SubSeq(seq, page.skip + 1, n))
  BY DEF Walk!Window
<1> HIDE DEF n
<1>4. page.skip + 1 \in Nat /\ page.skip + 1 >= 1
  OBVIOUS
<1>5. seq[i] \in Walk!Window(seq) <=> page.skip + 1 <= i /\ i <= n
  BY <1>1, <1>3, <1>4, CutHas
<1> QED
  BY <1>2, <1>5

(* The rows a list shows, and how many of them come before a row.          *)
Shows == IF pList.window = "kept" THEN Walk!Kept ELSE pRows
Before(r) == {x \in Shows : Walk!Key(x) < Walk!Key(r)}
Place(r) == Cardinality(Before(r))

(* A row whose own place is certain has been seen once if the pages so far *)
(* reach to it, is in the page just read if that one does, and has been    *)
(* counted.                                                                *)
Reaches(r) == page.skip <= Place(r) /\ Place(r) < page.skip + page.limit
WalksOn(r) ==
    /\ pShown[r] = IF ended \/ Place(r) < page.skip THEN 1 ELSE 0
    /\ ~ended => \A e \in edges : r \in e <=> Reaches(r)
    /\ \A t \in total : Place(r) < t

(* And no page of space types is made up while no row comes or goes.       *)
NothingMadeUp ==
    pList.window = "or the largest" /\ moved = {} /\ page.limit > 0 /\ pRows # {} /\ ~ended =>
        page.skip < Cardinality(pRows) /\ total \subseteq {Cardinality(pRows)}

RowsWalked ==
    page.limit > 0 /\ pList.window # "all" =>
        \A r \in pRows : Walk!InPlace(r) => WalksOn(r)

WalkInv ==
    /\ Walk!TypeOK
    /\ ended => total = {} /\ edges = {}
    /\ NothingMadeUp
    /\ RowsWalked

LEMMA RowsFinite ==
    ASSUME Walk!TypeOK
    PROVE  /\ IsFiniteSet(pRows) /\ Cardinality(pRows) \in Nat
           /\ Shows \subseteq pRows /\ Shows \subseteq WalkRows /\ pRows \subseteq WalkRows
           /\ IsFiniteSet(Shows) /\ Cardinality(Shows) \in Nat
<1>1. pRows \subseteq WalkRows /\ Shows \subseteq pRows
  BY DEF Walk!TypeOK, Shows, Walk!Kept
<1> QED
  BY <1>1, WalkAssumption, FS_Subset, FS_CardinalityType

LEMMA PlaceBelow ==
    ASSUME Walk!TypeOK, NEW r \in Shows
    PROVE  Place(r) \in Nat /\ Place(r) < Cardinality(Shows)
<1>1. IsFiniteSet(Shows) /\ Cardinality(Shows) \in Nat /\ Shows \subseteq WalkRows
  BY RowsFinite
<1>2. Before(r) \subseteq Shows \ {r}
  <2>1. Walk!Key(r) \in Nat
    BY <1>1, KeyTyped DEF Walk!TypeOK
  <2> QED
    BY <2>1 DEF Before
<1>3. IsFiniteSet(Shows \ {r}) /\ Cardinality(Shows \ {r}) = Cardinality(Shows) - 1
  BY <1>1, FS_RemoveElement
<1>4. IsFiniteSet(Before(r)) /\ Cardinality(Before(r)) <= Cardinality(Shows \ {r})
  BY <1>2, <1>3, FS_Subset
<1>5. Cardinality(Before(r)) \in Nat
  BY <1>4, FS_CardinalityType
<1> QED
  BY <1>1, <1>3, <1>4, <1>5 DEF Place

LEMMA Single == \A x : Walk!Cardinality({x}) = 1 /\ Walk!Cardinality({}) = 0
BY FS_Singleton, FS_EmptySet, WalkCount

LEMMA WalkInitially == Walk!Init => WalkInv
<1> SUFFICES ASSUME Walk!Init PROVE WalkInv
  OBVIOUS
<1>1. PICK l \in WalkLimits : page = Walk!InitPagination(l, Walk!None)
  BY DEF Walk!Init
<1>2. page \in [limit : Nat, skip : Nat] /\ page.skip = 0
  BY <1>1, WalkAssumption DEF Walk!InitPagination, Walk!None
<1>3. joined \in [WalkRows -> Nat \ {0}]
  BY WalkAssumption DEF Walk!Init
<1>4. Walk!TypeOK
  <2>1. Walk!Cardinality({}) = 0
    BY Single
  <2>2. /\ pShown = [r \in WalkRows |-> 0] /\ ended = FALSE /\ moved = {}
        /\ total = {} /\ edges = {} /\ pList \in Walk!Lists /\ pRows \subseteq WalkRows
    BY DEF Walk!Init
  <2>3. pShown \in [WalkRows -> 0..2]
    BY <2>2
  <2>4. Walk!Cardinality(total) <= 1 /\ Walk!Cardinality(edges) <= 1
    BY <2>1, <2>2
  <2>5. (\A t \in total : t \in Nat) /\ edges \subseteq SUBSET WalkRows
        /\ moved \subseteq WalkRows /\ ended \in BOOLEAN
    BY <2>2
  <2> QED
    BY <1>2, <1>3, <2>2, <2>3, <2>4, <2>5 DEF Walk!TypeOK
<1>5. NothingMadeUp
  <2>1. pRows # {} => 0 < Cardinality(pRows)
    BY <1>4, RowsFinite, FS_EmptySet
  <2> QED
    BY <1>2, <2>1 DEF NothingMadeUp, Walk!Init
<1>6. RowsWalked
  <2> SUFFICES ASSUME NEW r \in pRows, Walk!InPlace(r) PROVE WalksOn(r)
    BY DEF RowsWalked
  <2>1. r \in Shows
    BY <2>1 DEF Shows, Walk!InPlace
  <2>2. Place(r) \in Nat
    BY <1>4, <2>1, PlaceBelow
  <2>3. r \in WalkRows
    BY <1>4 DEF Walk!TypeOK
  <2> QED
    BY <1>2, <2>2, <2>3 DEF WalksOn, Walk!Init
<1> QED
  BY <1>4, <1>5, <1>6 DEF WalkInv, Walk!Init

(* A row in its place is shown, and counted by every COUNT.                *)
LEMMA InPlaceShown ==
    ASSUME Walk!TypeOK, NEW r \in pRows, Walk!InPlace(r)
    PROVE  /\ r \in Shows /\ r \in WalkRows /\ Place(r) \in Nat
           /\ Place(r) < Cardinality(Shows)
           /\ \A x \in Shows : Walk!Key(x) = Walk!Key(r) => x = r
<1>1. r \in Shows /\ Shows \subseteq pRows /\ pRows \subseteq WalkRows
  BY RowsFinite DEF Shows, Walk!InPlace
<1> QED
  BY <1>1, PlaceBelow DEF Walk!InPlace

(* While list and rows stay, so do the places.                             *)
Stays ==
    /\ pList' = pList /\ pRows' = pRows /\ joined' = joined /\ page' = page
    /\ pShown' = pShown /\ ended' = ended /\ moved' = moved

LEMMA PlacesStay ==
    ASSUME pList' = pList, pRows' = pRows, joined' = joined, moved' = moved
    PROVE  /\ Shows' = Shows
           /\ \A r : Place(r)' = Place(r) /\ (Walk!InPlace(r)' <=> Walk!InPlace(r))
<1>1. \A r : Walk!Key(r)' = Walk!Key(r)
  BY DEF Walk!Key
<1>2. Walk!Kept' = Walk!Kept
  BY DEF Walk!Kept, Walk!Stock
<1>3. Shows' = Shows
  BY <1>2 DEF Shows
<1>4. \A r : Before(r)' = Before(r)
  BY <1>1, <1>3 DEF Before
<1>5. \A r : Place(r)' = Place(r)
  BY <1>4 DEF Place
<1>6. \A r : Walk!InPlace(r)' <=> Walk!InPlace(r)
  BY <1>1, <1>2 DEF Walk!InPlace
<1> QED
  BY <1>3, <1>5, <1>6

(* Where a row is certain of its place, every order of the list puts it    *)
(* into the page that reaches to it.                                       *)
LEMMA OrderIs ==
    ASSUME Walk!TypeOK, NEW L, L \subseteq WalkRows, NEW s \in Walk!Orders(L)
    PROVE  /\ Cardinality(L) \in Nat /\ s \in [1..Cardinality(L) -> L]
           /\ \A j, k \in 1..Cardinality(L) : s[j] = s[k] => j = k
           /\ s \in Seq(WalkRows) /\ Len(s) = Cardinality(L)
<1>1. Cardinality(L) \in Nat
  BY WalkAssumption, FS_Subset, FS_CardinalityType
<1>2. /\ s \in [1..Cardinality(L) -> L]
      /\ \A j, k \in 1..Cardinality(L) : j # k => s[j] # s[k]
  BY WalkCount DEF Walk!Orders, Walk!SetToSeqs
<1>3. ASSUME NEW N \in Nat, NEW q \in [1..N -> L] PROVE q \in Seq(WalkRows) /\ Len(q) = N
  BY <1>3
<1> QED
  BY <1>1, <1>2, <1>3

LEMMA WindowOfRows ==
    ASSUME Walk!TypeOK, NEW s \in Walk!Orders(Shows), NEW r \in pRows, Walk!InPlace(r)
    PROVE  r \in Walk!Window(s) <=> Reaches(r)
<1>1. pList \in Walk!Lists /\ page.skip \in Nat /\ page.limit \in Nat
  BY DEF Walk!TypeOK
<1>2. Shows \subseteq WalkRows
  BY RowsFinite
<1>3. r \in Shows /\ \A x \in Shows : Walk!Key(x) = Walk!Key(r) => x = r
  BY InPlaceShown
<1>a. PICK N \in Nat : \E i \in 1..N : PlacedAt(Shows, s, r, N, i)
  BY <1>1, <1>2, <1>3, PlaceInOrder
<1>5. PICK i \in 1..N : PlacedAt(Shows, s, r, N, i)
  BY <1>a
<1>4. /\ N = Cardinality(Shows) /\ s \in [1..N -> Shows]
      /\ \A j, k \in 1..N : s[j] = s[k] => j = k
      /\ s[i] = r /\ i = Place(r) + 1
  BY <1>5 DEF PlacedAt, Place, Before
<1>6. s \in Seq(WalkRows) /\ Len(s) = N
  BY <1>2, <1>4, OrderIs
<1>7. i \in 1..Len(s) /\ \A j \in 1..Len(s) : j # i => s[j] # s[i]
  BY <1>4, <1>6
<1>8. s[i] \in Walk!Window(s) <=> page.skip <= i - 1 /\ i - 1 < page.skip + page.limit
  BY <1>1, <1>6, <1>7, WindowHas
<1>9. i - 1 = Place(r)
  BY <1>3, <1>4, PlaceBelow
<1> QED
  BY <1>4, <1>8, <1>9 DEF Reaches

LEMMA WindowOfJoined ==
    ASSUME Walk!TypeOK, pList.window = "joined", NEW s \in Walk!Orders(pRows),
           NEW r \in pRows, Walk!InPlace(r)
    PROVE  r \in Walk!Window(Walk!Joined(s)) <=> Reaches(r)
<1>1. /\ pList \in Walk!Lists /\ page.skip \in Nat /\ page.limit \in Nat
      /\ joined \in [WalkRows -> Nat \ {0}] /\ Shows = pRows
  BY DEF Walk!TypeOK, Shows
<1>2. Shows \subseteq WalkRows
  BY RowsFinite
<1>3. r \in Shows /\ \A x \in Shows : Walk!Key(x) = Walk!Key(r) => x = r
  BY InPlaceShown
<1>a. PICK N \in Nat : \E i \in 1..N : PlacedAt(Shows, s, r, N, i)
  BY <1>1, <1>2, <1>3, PlaceInOrder
<1>b. PICK i \in 1..N : PlacedAt(Shows, s, r, N, i)
  BY <1>a
<1>4. /\ N = Cardinality(Shows) /\ s \in [1..N -> Shows]
      /\ \A j, k \in 1..N : s[j] = s[k] => j = k
  BY <1>b DEF PlacedAt
<1>5. /\ s[i] = r /\ i = Place(r) + 1
      /\ \A j \in 1..i : Walk!Key(s[j]) <= Walk!Key(r)
  BY <1>b DEF PlacedAt, Place, Before
<1>6. s \in [1..N -> WalkRows] /\ \A j, k \in 1..N : s[j] = s[k] => j = k
  BY <1>2, <1>4
<1>7. \A j \in 1..i : joined[s[j]] = 1
  <2> SUFFICES ASSUME NEW j \in 1..i PROVE joined[s[j]] = 1
    OBVIOUS
  <2>1. j \in 1..N
    BY <1>4
  <2>2. s[j] \in pRows /\ s[j] \in WalkRows /\ s[j] \in Nat /\ r \in WalkRows /\ r \in Nat
    BY <1>1, <1>2, <1>3, <1>4, <2>1, WalkAssumption
  <2>3. s[j] <= r
    <3>1. ASSUME ~(s[j] <= r) PROVE FALSE
      <4>1. s[j] >= r
        BY <2>2, <3>1
      <4>2. Walk!Key(s[j]) >= Walk!Key(r)
        BY <1>1, <2>2, <4>1, KeysInOrder
      <4>3. Walk!Key(s[j]) \in Nat /\ Walk!Key(r) \in Nat
        BY <1>1, <2>2, KeyTyped
      <4>4. s[j] = r
        BY <1>1, <1>3, <1>5, <2>2, <4>2, <4>3
      <4> QED
        BY <2>2, <3>1, <4>4
    <3> QED
      BY <3>1
  <2> QED
    BY <2>2, <2>3 DEF Walk!InPlace
<1> DEFINE q == Walk!FlattenSeq(JoinedRows(s, joined))
<1>8. q \in Seq(WalkRows) /\ Leads(s, i, N, q)
  BY <1>1, <1>6, <1>7, JoinedLeads
<1>9. Walk!Joined(s) = q
  BY DEF Walk!Joined, JoinedRows, Repeats
<1> HIDE DEF q
<1>10. /\ i \in 1..Len(q) /\ q[i] = r
       /\ \A j \in 1..Len(q) : j # i => q[j] # q[i]
  <2>1. N >= i /\ i \in Nat /\ i >= 1
    BY <1>4
  <2>2. /\ Len(q) >= i /\ q[i] = s[i]
        /\ \A j \in 1..Len(q) : j # i => q[j] # s[i]
    BY <1>8, <2>1 DEF Leads
  <2>3. Len(q) \in Nat
    BY <1>8
  <2> QED
    BY <1>5, <2>1, <2>2, <2>3
<1>11. q[i] \in Walk!Window(q) <=> page.skip <= i - 1 /\ i - 1 < page.skip + page.limit
  BY <1>1, <1>8, <1>10, WindowHas
<1>12. i - 1 = Place(r)
  BY <1>3, <1>5, PlaceBelow
<1> QED
  BY <1>9, <1>10, <1>11, <1>12 DEF Reaches

(* A page that begins at a row of the list is not empty.                   *)
LEMMA WindowNotEmpty ==
    ASSUME Walk!TypeOK, NEW s \in Walk!Orders(pRows), page.limit > 0,
           page.skip < Cardinality(pRows)
    PROVE  Walk!Window(s) # {}
<1>1. page.skip \in Nat /\ page.limit \in Nat /\ pRows \subseteq WalkRows
  BY DEF Walk!TypeOK
<1>2. /\ Cardinality(pRows) \in Nat /\ s \in Seq(WalkRows) /\ Len(s) = Cardinality(pRows)
      /\ \A j, k \in 1..Len(s) : s[j] = s[k] => j = k
  BY <1>1, OrderIs
<1>3. page.skip + 1 \in 1..Len(s)
  BY <1>1, <1>2
<1>4. \A j \in 1..Len(s) : j # page.skip + 1 => s[j] # s[page.skip + 1]
  BY <1>2, <1>3
<1>5. s[page.skip + 1] \in Walk!Window(s) <=>
        page.skip <= (page.skip + 1) - 1 /\ (page.skip + 1) - 1 < page.skip + page.limit
  BY <1>1, <1>2, <1>3, <1>4, WindowHas
<1> QED
  BY <1>1, <1>5

(* What COUNT finds of joined rows.                                        *)
LEMMA JoinedCount ==
    ASSUME Walk!TypeOK
    PROVE  /\ Len(Walk!Joined(Walk!SetToSeq(pRows))) \in Nat
           /\ Len(Walk!Joined(Walk!SetToSeq(pRows))) >= Cardinality(pRows)
<1> DEFINE N == Cardinality(pRows)
           s == Walk!SetToSeq(pRows)
<1>1. IsFiniteSet(pRows) /\ N \in Nat /\ pRows \subseteq WalkRows
  BY RowsFinite
<1>2. PICK f : f \in Bijection(1..N, pRows)
  BY <1>1, FS_CardinalityType DEF ExistsBijection
<1>3. f \in [1..N -> pRows] /\ Walk!IsInjective(f)
  BY <1>2 DEF Bijection, Injection, IsInjective, Walk!IsInjective
<1>4. s \in [1..N -> pRows]
  BY <1>3, WalkCount DEF Walk!SetToSeq
<1>5. Walk!Joined(s) = Walk!FlattenSeq(JoinedRows(s, joined))
  BY DEF Walk!Joined, JoinedRows, Repeats
<1> HIDE DEF s, N
<1>6. s \in [1..N -> WalkRows] /\ joined \in [WalkRows -> Nat \ {0}]
  BY <1>1, <1>4 DEF Walk!TypeOK
<1>7. Len(Walk!Joined(s)) \in Nat /\ Len(Walk!Joined(s)) >= N
  BY <1>1, <1>5, <1>6, JoinedLength
<1> QED
  BY <1>7 DEF s, N

(* A step that answers a query leaves the list and its rows alone.         *)
LEMMA QueryKeepsWalk ==
    ASSUME WalkInv, Stays, Walk!TypeOK', ended' => total' = {} /\ edges' = {},
           NothingMadeUp',
           page.limit > 0 /\ pList.window # "all" =>
              \A r \in pRows : Walk!InPlace(r) /\ r \in Shows =>
                 /\ ~ended => \A e \in edges' : e \in edges \/ (r \in e <=> Reaches(r))
                 /\ \A t \in total' : t \in total \/ Place(r) < t
    PROVE  WalkInv'
<1>1. /\ Shows' = Shows
      /\ \A r : Place(r)' = Place(r) /\ (Walk!InPlace(r)' <=> Walk!InPlace(r))
  BY PlacesStay DEF Stays
<1>2. RowsWalked'
  <2> SUFFICES ASSUME page.limit > 0, pList.window # "all", NEW r \in pRows, Walk!InPlace(r)
               PROVE  WalksOn(r)'
    BY <1>1 DEF RowsWalked, Stays
  <2>1. r \in Shows /\ WalksOn(r)
    BY InPlaceShown DEF WalkInv, RowsWalked
  <2>2. Reaches(r)' <=> Reaches(r)
    BY <1>1 DEF Reaches, Stays
  <2>3. (pShown[r] = IF ended \/ Place(r) < page.skip THEN 1 ELSE 0)'
    BY <1>1, <2>1 DEF WalksOn, Stays
  <2>4. (~ended => \A e \in edges : r \in e <=> Reaches(r))'
    BY <2>1, <2>2 DEF WalksOn, Stays
  <2>5. (\A t \in total : Place(r) < t)'
    BY <1>1, <2>1 DEF WalksOn, Stays
  <2> QED
    BY <2>3, <2>4, <2>5 DEF WalksOn
<1> QED
  BY <1>2 DEF WalkInv

LEMMA CountKeepsWalk == WalkInv /\ Walk!Count => WalkInv'
<1> SUFFICES ASSUME WalkInv, Walk!Count PROVE WalkInv'
  OBVIOUS
<1>1. Stays /\ edges' = edges /\ ~ended /\ pList.counts # "kept"
  BY DEF Walk!Count, Stays
<1>2. Walk!TypeOK /\ NothingMadeUp
  BY DEF WalkInv
<1>3. PICK t : /\ total' = {t} /\ t \in Nat /\ t >= Cardinality(pRows)
               /\ pList.counts = "joined" \/ t = Cardinality(pRows)
  <2>1. Cardinality(pRows) \in Nat /\ Cardinality(pRows) >= Cardinality(pRows)
    BY <1>2, RowsFinite
  <2>2. CASE total' = {Walk!Cardinality(pRows)}
    BY <2>1, <2>2, WalkCount
  <2>3. CASE pList.counts = "joined" /\ total' = {Len(Walk!Joined(Walk!SetToSeq(pRows)))}
    BY <1>2, <2>3, JoinedCount
  <2> QED
    BY <2>2, <2>3 DEF Walk!Count
<1>4. Walk!TypeOK'
  <2>1. (\A x \in total' : x \in Nat) /\ Walk!Cardinality(total') <= 1
    <3>1. Walk!Cardinality({t}) = 1
      BY Single
    <3> QED
      BY <1>3, <3>1
  <2> QED
    BY <1>1, <1>2, <2>1 DEF Walk!TypeOK, Stays, Walk!Lists
<1>5. pList.window # "kept" /\ (pList.window = "or the largest" => pList.counts = "rows")
  BY <1>1, <1>2, Orderings DEF Walk!TypeOK
<1>6. NothingMadeUp'
  BY <1>1, <1>2, <1>3, <1>5 DEF NothingMadeUp, Stays
<1>7. ASSUME NEW r \in pRows, Walk!InPlace(r) PROVE \A x \in total' : Place(r) < x
  <2>1. Shows = pRows
    BY <1>5 DEF Shows
  <2>2. Place(r) \in Nat /\ Place(r) < Cardinality(pRows) /\ Cardinality(pRows) \in Nat
    BY <1>2, <2>1, PlaceBelow, RowsFinite
  <2> QED
    BY <1>3, <2>2
<1> QED
  BY <1>1, <1>4, <1>6, <1>7, QueryKeepsWalk DEF Stays

LEMMA WindowTyped ==
    ASSUME NEW s, Walk!TypeOK, s \in Seq(WalkRows)
    PROVE  Walk!Window(s) \in SUBSET WalkRows
<1> DEFINE n == IF page.skip + page.limit < Len(s) THEN page.skip + page.limit ELSE Len(s)
<1>1. /\ page.skip \in Nat /\ page.limit \in Nat /\ Len(s) \in Nat
  BY DEF Walk!TypeOK
<1>2. n \in Int /\ n <= Len(s) /\ page.skip + 1 \in Int /\ page.skip + 1 >= 1
  BY <1>1
<1>3. Walk!Window(s) = Walk!ToSet(SubSeq(s, page.skip + 1, n))
  BY DEF Walk!Window
<1> HIDE DEF n
<1>4. \A k \in (page.skip + 1)..n : s[k] \in WalkRows
  BY <1>1, <1>2
<1>5. SubSeq(s, page.skip + 1, n) \in Seq(WalkRows)
  BY <1>2, <1>4, SubSeqProperties
<1>6. ASSUME NEW q \in Seq(WalkRows) PROVE Walk!ToSet(q) \in SUBSET WalkRows
  BY DEF Walk!ToSet
<1> QED
  BY <1>3, <1>5, <1>6

(* One answer of SELECT, and of COUNT no more than one.                    *)
LEMMA AnswersTyped ==
    ASSUME Walk!TypeOK, Stays, NEW e \in SUBSET WalkRows, edges' = {e},
           total' = total \/ (\E t \in Nat : total' = {t})
    PROVE  Walk!TypeOK'
<1>1. edges' \subseteq SUBSET WalkRows /\ Walk!Cardinality(edges') <= 1
  BY Single
<1>2. (\A t \in total' : t \in Nat) /\ Walk!Cardinality(total') <= 1
  <2>1. CASE total' = total
    BY <2>1 DEF Walk!TypeOK
  <2>2. ASSUME NEW t \in Nat, total' = {t}
        PROVE  (\A x \in total' : x \in Nat) /\ Walk!Cardinality(total') <= 1
    <3>1. Walk!Cardinality({t}) = 1
      BY Single
    <3> QED
      BY <2>2, <3>1
  <2> QED
    BY <2>1, <2>2
<1> QED
  BY <1>1, <1>2 DEF Walk!TypeOK, Stays, Walk!Lists

LEMMA SelectKeepsWalk == WalkInv /\ Walk!Select => WalkInv'
<1> SUFFICES ASSUME WalkInv, Walk!Select PROVE WalkInv'
  OBVIOUS
<1>1. Stays /\ total' = total /\ ~ended /\ pList.window = "rows" /\ Shows = pRows
  BY DEF Walk!Select, Stays, Shows
<1>2. Walk!TypeOK /\ pRows \subseteq WalkRows
  BY DEF WalkInv, Walk!TypeOK
<1>3. PICK s \in Walk!Orders(pRows) : edges' = {Walk!Window(s)}
  BY DEF Walk!Select
<1>4. Walk!Window(s) \in SUBSET WalkRows
  BY <1>2, OrderIs, WindowTyped
<1>5. Walk!TypeOK'
  BY <1>1, <1>2, <1>3, <1>4, AnswersTyped
<1>6. NothingMadeUp'
  BY <1>1 DEF NothingMadeUp, Stays
<1>7. ASSUME NEW r \in pRows, Walk!InPlace(r) PROVE \A e \in edges' : r \in e <=> Reaches(r)
  BY <1>1, <1>2, <1>3, <1>7, WindowOfRows
<1> QED
  BY <1>1, <1>5, <1>6, <1>7, QueryKeepsWalk DEF Stays

LEMMA SelectJoinedKeepsWalk == WalkInv /\ Walk!SelectJoined => WalkInv'
<1> SUFFICES ASSUME WalkInv, Walk!SelectJoined PROVE WalkInv'
  OBVIOUS
<1>1. Stays /\ total' = total /\ ~ended /\ pList.window = "joined"
  BY DEF Walk!SelectJoined, Stays
<1>2. Walk!TypeOK /\ pRows \subseteq WalkRows /\ joined \in [WalkRows -> Nat \ {0}]
  BY DEF WalkInv, Walk!TypeOK
<1>3. PICK s \in Walk!Orders(pRows) : edges' = {Walk!Window(Walk!Joined(s))}
  BY DEF Walk!SelectJoined
<1>4. Walk!Window(Walk!Joined(s)) \in SUBSET WalkRows
  <2>1. Walk!Joined(s) = Walk!FlattenSeq(JoinedRows(s, joined))
    BY DEF Walk!Joined, JoinedRows, Repeats
  <2>2. Cardinality(pRows) \in Nat /\ s \in [1..Cardinality(pRows) -> WalkRows]
    BY <1>2, OrderIs
  <2>3. Walk!Joined(s) \in Seq(WalkRows)
    BY <1>2, <2>1, <2>2, JoinedTyped
  <2> QED
    BY <1>2, <2>3, WindowTyped
<1>5. Walk!TypeOK'
  BY <1>1, <1>2, <1>3, <1>4, AnswersTyped
<1>6. NothingMadeUp'
  BY <1>1 DEF NothingMadeUp, Stays
<1>7. ASSUME NEW r \in pRows, Walk!InPlace(r) PROVE \A e \in edges' : r \in e <=> Reaches(r)
  BY <1>1, <1>2, <1>3, <1>7, WindowOfJoined
<1> QED
  BY <1>1, <1>5, <1>6, <1>7, QueryKeepsWalk DEF Stays

LEMMA SelectKeptKeepsWalk == WalkInv /\ Walk!SelectKept => WalkInv'
<1> SUFFICES ASSUME WalkInv, Walk!SelectKept PROVE WalkInv'
  OBVIOUS
<1>1. /\ Stays /\ ~ended /\ pList.window = "kept" /\ Shows = Walk!Kept
      /\ total' = {Cardinality(Shows)}
  BY WalkCount DEF Walk!SelectKept, Stays, Shows
<1>2. Walk!TypeOK /\ Shows \subseteq WalkRows /\ Cardinality(Shows) \in Nat
  BY RowsFinite DEF WalkInv
<1>3. PICK s \in Walk!Orders(Shows) : edges' = {Walk!Window(s)}
  BY <1>1 DEF Walk!SelectKept
<1>4. Walk!Window(s) \in SUBSET WalkRows
  BY <1>2, OrderIs, WindowTyped
<1>5. Walk!TypeOK'
  BY <1>1, <1>2, <1>3, <1>4, AnswersTyped
<1>6. NothingMadeUp'
  BY <1>1 DEF NothingMadeUp, Stays
<1>7. ASSUME NEW r \in pRows, Walk!InPlace(r)
      PROVE  /\ \A e \in edges' : r \in e <=> Reaches(r)
             /\ \A t \in total' : Place(r) < t
  BY <1>1, <1>2, <1>3, <1>7, WindowOfRows, InPlaceShown
<1> QED
  BY <1>1, <1>5, <1>6, <1>7, QueryKeepsWalk DEF Stays

LEMMA SelectAllKeepsWalk == WalkInv /\ Walk!SelectAll => WalkInv'
<1> SUFFICES ASSUME WalkInv, Walk!SelectAll PROVE WalkInv'
  OBVIOUS
<1>1. Stays /\ total' = total /\ ~ended /\ pList.window = "all" /\ edges' = {pRows}
  BY DEF Walk!SelectAll, Stays
<1>2. Walk!TypeOK /\ pRows \in SUBSET WalkRows
  BY DEF WalkInv, Walk!TypeOK
<1>3. Walk!TypeOK'
  BY <1>1, <1>2, AnswersTyped
<1>4. NothingMadeUp'
  BY <1>1 DEF NothingMadeUp, Stays
<1> QED
  BY <1>1, <1>3, <1>4, QueryKeepsWalk DEF Stays

(* A page that is made up comes after rows came or went, or after the last.*)
LEMMA SelectOrLargestKeepsWalk == WalkInv /\ Walk!SelectOrLargest => WalkInv'
<1> SUFFICES ASSUME WalkInv, Walk!SelectOrLargest PROVE WalkInv'
  OBVIOUS
<1>1. Stays /\ ~ended /\ pList.window = "or the largest" /\ Shows = pRows
  BY DEF Walk!SelectOrLargest, Stays, Shows
<1>2. Walk!TypeOK /\ pRows \subseteq WalkRows /\ NothingMadeUp
  BY DEF WalkInv, Walk!TypeOK
<1>3. PICK s \in Walk!Orders(pRows) :
          IF Walk!Window(s) = {}
          THEN (\E r \in WalkRows : edges' = {{r}}) /\ total' = {1}
          ELSE edges' = {Walk!Window(s)} /\ total' = total
  BY DEF Walk!SelectOrLargest
<1>4. Walk!Window(s) \in SUBSET WalkRows
  BY <1>2, OrderIs, WindowTyped
<1>5. Walk!TypeOK'
  BY <1>1, <1>2, <1>3, <1>4, AnswersTyped
<1>6. moved = {} /\ page.limit > 0 /\ pRows # {} => Walk!Window(s) # {}
  BY <1>1, <1>2, WindowNotEmpty DEF NothingMadeUp
<1>7. NothingMadeUp'
  BY <1>1, <1>2, <1>3, <1>6 DEF NothingMadeUp, Stays
<1>8. ASSUME NEW r \in pRows, Walk!InPlace(r), page.limit > 0
      PROVE  total' = total /\ \A e \in edges' : r \in e <=> Reaches(r)
  <2>1. moved = {}
    BY <1>1, <1>8 DEF Walk!InPlace
  <2>2. edges' = {Walk!Window(s)} /\ total' = total
    BY <1>3, <1>6, <1>8, <2>1
  <2> QED
    BY <1>1, <1>2, <1>8, <2>2, WindowOfRows
<1> QED
  BY <1>1, <1>5, <1>7, <1>8, QueryKeepsWalk DEF Stays

(* The page that was read is shown, and the next one is asked for or none. *)
LEMMA AnswerKeepsWalk == WalkInv /\ Walk!Answer => WalkInv'
<1> SUFFICES ASSUME WalkInv, Walk!Answer PROVE WalkInv'
  OBVIOUS
<1>1. PICK t \in total, e \in edges :
          /\ pShown' = [r \in WalkRows |-> IF r \in e /\ pShown[r] < 2
                                           THEN pShown[r] + 1 ELSE pShown[r]]
          /\ ended' = (page.limit = 0 \/ ~Walk!HasMore(t, page))
  BY DEF Walk!Answer
<1>2. /\ page' = [page EXCEPT !.skip = IF ended' THEN @ ELSE @ + page.limit]
      /\ total' = {} /\ edges' = {}
      /\ pList' = pList /\ pRows' = pRows /\ joined' = joined /\ moved' = moved
      /\ total # {} /\ edges # {}
  BY DEF Walk!Answer
<1>3. /\ Walk!TypeOK /\ ~ended /\ t \in Nat /\ e \subseteq WalkRows
      /\ page \in [limit : Nat, skip : Nat] /\ pShown \in [WalkRows -> 0..2]
  BY <1>2 DEF WalkInv, Walk!TypeOK
<1>4. /\ ended' \in BOOLEAN
      /\ page' \in [limit : Nat, skip : Nat] /\ page'.limit = page.limit
      /\ ended' => page'.skip = page.skip
      /\ ~ended' => page'.skip = page.skip + page.limit
  <2>1. ended' \in BOOLEAN
    BY <1>1
  <2>2. CASE ended'
    BY <1>2, <1>3, <2>1, <2>2
  <2>3. CASE ~ended'
    BY <1>2, <1>3, <2>1, <2>3
  <2> QED
    BY <2>1, <2>2, <2>3
<1>5. ended' <=> page.limit = 0 \/ ~(t > page.skip + page.limit)
  BY <1>1 DEF Walk!HasMore
<1>6. pShown' \in [WalkRows -> 0..2]
  <2>1. ASSUME NEW r \in WalkRows
        PROVE  (IF r \in e /\ pShown[r] < 2 THEN pShown[r] + 1 ELSE pShown[r]) \in 0..2
    <3>1. pShown[r] \in 0..2
      BY <1>3
    <3> QED
      BY <3>1
  <2> QED
    BY <1>1, <2>1
<1>7. Walk!TypeOK'
  <2>1. Walk!Cardinality({}) <= 1
    BY Single
  <2>2. Walk!Cardinality(total') <= 1 /\ Walk!Cardinality(edges') <= 1
    BY <1>2, <2>1
  <2>3. /\ pList' \in Walk!Lists' /\ pRows' \subseteq WalkRows /\ moved' \subseteq WalkRows
        /\ joined' \in [WalkRows -> Nat \ {0}]
    BY <1>2, <1>3 DEF Walk!TypeOK, Walk!Lists
  <2>4. (\A x \in total' : x \in Nat) /\ edges' \subseteq SUBSET WalkRows
    BY <1>2
  <2> QED
    BY <1>4, <1>6, <2>2, <2>3, <2>4 DEF Walk!TypeOK
<1>8. NothingMadeUp'
  <2> SUFFICES ASSUME pList.window = "or the largest", moved = {}, page.limit > 0,
                      pRows # {}, ~ended'
               PROVE  page'.skip < Cardinality(pRows)
    BY <1>2, <1>4 DEF NothingMadeUp
  <2>1. t = Cardinality(pRows)
    BY <1>3 DEF WalkInv, NothingMadeUp
  <2>2. t > page.skip + page.limit
    BY <1>5
  <2> QED
    BY <1>3, <1>4, <2>1, <2>2
<1>9. RowsWalked'
  <2> SUFFICES ASSUME page.limit > 0, pList.window # "all", NEW r \in pRows, Walk!InPlace(r)
               PROVE  WalksOn(r)'
    <3>1. \A r : Walk!InPlace(r)' <=> Walk!InPlace(r)
      BY <1>2, PlacesStay
    <3> QED
      BY <1>2, <1>4, <3>1 DEF RowsWalked
  <2>1. Place(r)' = Place(r)
    BY <1>2, PlacesStay
  <2>2. r \in WalkRows /\ Place(r) \in Nat
    BY <1>3, InPlaceShown
  <2>3. /\ pShown[r] = IF Place(r) < page.skip THEN 1 ELSE 0
        /\ r \in e <=> page.skip <= Place(r) /\ Place(r) < page.skip + page.limit
        /\ Place(r) < t
    BY <1>3 DEF WalkInv, RowsWalked, WalksOn, Reaches
  <2>4. pShown'[r] = IF Place(r) < page.skip + page.limit THEN 1 ELSE 0
    <3>1. pShown'[r] = IF r \in e /\ pShown[r] < 2 THEN pShown[r] + 1 ELSE pShown[r]
      BY <1>1, <2>2
    <3>2. page.skip \in Nat /\ page.limit \in Nat
      BY <1>3
    <3>3. CASE r \in e
      BY <2>2, <2>3, <3>1, <3>2, <3>3
    <3>4. CASE r \notin e /\ Place(r) < page.skip
      BY <2>2, <2>3, <3>1, <3>2, <3>4
    <3>5. CASE r \notin e /\ ~(Place(r) < page.skip)
      BY <2>2, <2>3, <3>1, <3>2, <3>5
    <3> QED
      BY <3>3, <3>4, <3>5
  <2>5. pShown'[r] = IF ended' \/ Place(r) < page'.skip THEN 1 ELSE 0
    <3>1. page.skip \in Nat /\ page.limit \in Nat
      BY <1>3
    <3>2. CASE ended'
      <4>1. Place(r) < page.skip + page.limit
        BY <1>3, <1>5, <2>2, <2>3, <3>1, <3>2
      <4> QED
        BY <2>4, <3>2, <4>1
    <3>3. CASE ~ended'
      BY <1>4, <2>4, <3>3
    <3> QED
      BY <3>2, <3>3
  <2> QED
    BY <1>2, <2>1, <2>5 DEF WalksOn
<1> QED
  BY <1>2, <1>7, <1>8, <1>9 DEF WalkInv

(* A row that comes or goes after a row in its place leaves it there.      *)
LEMMA MoveKeepsWalk ==
    ASSUME WalkInv, NEW x \in WalkRows, Walk!Move(x)
    PROVE  WalkInv'
<1>1. /\ ~ended /\ moved' = moved \cup {x}
      /\ pRows' = IF x \in pRows THEN pRows \ {x} ELSE pRows \cup {x}
      /\ pList' = pList /\ joined' = joined /\ page' = page /\ total' = total
      /\ edges' = edges /\ pShown' = pShown /\ ended' = ended
  BY DEF Walk!Move
<1>2. Walk!TypeOK
  BY DEF WalkInv
<1>3. Walk!TypeOK'
  BY <1>1, <1>2 DEF Walk!TypeOK, Walk!Lists
<1>4. NothingMadeUp'
  BY <1>1 DEF NothingMadeUp
<1>5. \A r : Walk!Key(r)' = Walk!Key(r) /\ Walk!Stock(r)' = Walk!Stock(r)
  BY <1>1 DEF Walk!Key, Walk!Stock
<1>6. RowsWalked'
  <2> SUFFICES ASSUME page.limit > 0, pList.window # "all", NEW r \in pRows', Walk!InPlace(r)'
               PROVE  WalksOn(r)'
    BY <1>1 DEF RowsWalked
  <2>1. /\ x > r /\ (Walk!Key(x) = Walk!Key(r) => x = r)
        /\ pList.window # "or the largest"
    BY <1>1, <1>5 DEF Walk!InPlace
  <2>2. r \in pRows /\ r \in WalkRows /\ x \in Nat /\ r \in Nat /\ x # r
    <3>1. pRows' \subseteq WalkRows /\ WalkRows \subseteq Nat
      BY <1>3, WalkAssumption DEF Walk!TypeOK
    <3>2. r \in WalkRows /\ r \in Nat /\ x \in Nat
      BY <3>1
    <3>3. x # r
      <4>1. \A y \in Nat : ~(y > y)
        OBVIOUS
      <4> QED
        BY <2>1, <3>2, <4>1, Zenon
    <3> QED
      BY <1>1, <3>2, <3>3
  <2>3. Walk!InPlace(r)
    <3>1. pRows \cup moved \subseteq pRows' \cup moved'
      BY <1>1
    <3>2. \A s \in pRows \cup moved : Walk!Key(s) = Walk!Key(r) => s = r
      BY <1>5, <3>1 DEF Walk!InPlace
    <3>3. \A s \in moved : s > r
      BY <1>1 DEF Walk!InPlace
    <3>4. pList.window = "joined" => \A s \in pRows \cup moved : s <= r => joined[s] = 1
      BY <1>1, <3>1 DEF Walk!InPlace
    <3>5. pList.window = "kept" => r \in Walk!Kept
      BY <1>1, <1>5, <2>2 DEF Walk!InPlace, Walk!Kept
    <3> QED
      BY <2>1, <3>2, <3>3, <3>4, <3>5 DEF Walk!InPlace
  <2>4. Place(r)' = Place(r)
    <3>1. ~(Walk!Key(x) < Walk!Key(r))
      <4>1. Walk!Key(x) >= Walk!Key(r)
        <5>1. \A y, z \in Nat : y > z => y >= z
          OBVIOUS
        <5>2. pList \in Walk!Lists /\ x >= r
          BY <1>2, <2>1, <2>2, <5>1, Zenon DEF Walk!TypeOK
        <5> QED
          BY <2>2, <5>2, KeysInOrder
      <4>2. Walk!Key(x) \in Nat /\ Walk!Key(r) \in Nat
        BY <1>2, <2>2, KeyTyped DEF Walk!TypeOK
      <4> QED
        BY <4>1, <4>2
    <3>2. Shows' \ {x} = Shows \ {x}
      BY <1>1, <1>5 DEF Shows, Walk!Kept
    <3>3. Before(r)' = Before(r)
      BY <1>5, <3>1, <3>2 DEF Before
    <3> QED
      BY <3>3 DEF Place
  <2>5. WalksOn(r)
    BY <2>2, <2>3 DEF WalkInv, RowsWalked
  <2>6. Reaches(r)' <=> Reaches(r)
    BY <1>1, <2>4 DEF Reaches
  <2> QED
    BY <1>1, <2>4, <2>5, <2>6 DEF WalksOn
<1> QED
  BY <1>1, <1>3, <1>4, <1>6 DEF WalkInv

(* What a client who walks through a list has seen, for any rows of any    *)
(* order, pages and number of changes.                                     *)
THEOREM WalkInvariant == Walk!Spec => []WalkInv
<1>1. WalkInv /\ [Walk!Next]_(Walk!pagingVars) => WalkInv'
  <2> SUFFICES ASSUME WalkInv, [Walk!Next]_(Walk!pagingVars) PROVE WalkInv'
    OBVIOUS
  <2>1. CASE Walk!Next
    BY <2>1, CountKeepsWalk, SelectKeepsWalk, SelectOrLargestKeepsWalk, SelectJoinedKeepsWalk,
       SelectKeptKeepsWalk, SelectAllKeepsWalk, AnswerKeepsWalk, MoveKeepsWalk DEF Walk!Next
  <2>2. CASE UNCHANGED Walk!pagingVars
    <3>1. Stays /\ total' = total /\ edges' = edges
      BY <2>2 DEF Walk!pagingVars, Stays
    <3>2. Walk!TypeOK' /\ NothingMadeUp' /\ (ended' => total' = {} /\ edges' = {})
      BY <3>1 DEF WalkInv, Walk!TypeOK, Walk!Lists, NothingMadeUp, Stays
    <3> QED
      BY <3>1, <3>2, QueryKeepsWalk DEF Stays
  <2> QED
    BY <2>1, <2>2
<1> QED
  BY <1>1, WalkInitially, PTL DEF Walk!Spec

LEMMA WalkInvIsEnough == WalkInv => Walk!WalkIsWhole
BY DEF WalkInv, RowsWalked, WalksOn, Walk!WalkIsWhole

(* What is asked for and answered is what is there: every list of          *)
(* features, rules and policies, every list read page by page, every image *)
(* (site-features.service.ts, shared/utils/index.ts, media.service.ts).    *)
THEOREM ListsAreAsAsked == ServicesSpec => []ListsAsAsked
<1>1. ListsInv /\ WalkInv /\ ImagesInv => ListsAsAsked
  BY ListsInvIsEnough, WalkInvIsEnough, ImagesInvIsEnough DEF ListsAsAsked
<1> QED
  BY <1>1, ListsFollow, ListsInvariant, WalkFollows, WalkInvariant, ImagesFollow,
     ImagesInvariant, PTL

-----------------------------------------------------------------------------
(* The short ids, for any number of calls, any assignment of counters to   *)
(* them and any environment                                                *)

(* The types of the variables are kept by every step of the id service     *)
(* (createUpdateCounter, ids_counter.service.ts:66-85).                    *)
THEOREM CountersAreTyped == Spec => []TypeOK
<1>1. Init => TypeOK
  BY DEF Init, TypeOK
<1>2. TypeOK /\ [Next]_vars => TypeOK'
  <2> SUFFICES ASSUME TypeOK, [Next]_vars
               PROVE  TypeOK'
    OBVIOUS
  <2> USE CallsAssumption DEF TypeOK, Types
  <2>1. ASSUME NEW c \in Callers, Increment(c)
        PROVE  TypeOK'
    BY <2>1 DEF Increment, Bumped
  <2>2. ASSUME NEW c \in Callers, FindsNoRow(c)
        PROVE  TypeOK'
    BY <2>2 DEF FindsNoRow
  <2>3. ASSUME NEW c \in Callers, InsertFirst(c)
        PROVE  TypeOK'
    BY <2>3 DEF InsertFirst
  <2>4. ASSUME NEW c \in Callers, InsertRejected(c)
        PROVE  TypeOK'
    BY <2>4 DEF InsertRejected
  <2>5. ASSUME NEW c \in Callers, CallLost(c)
        PROVE  TypeOK'
    BY <2>5 DEF CallLost, Bumped
  <2>6. CASE UNCHANGED vars
    BY <2>6 DEF vars
  <2>7. QED
    BY <2>1, <2>2, <2>3, <2>4, <2>5, <2>6 DEF Next
<1>3. QED
  BY <1>1, <1>2, PTL DEF Spec

-----------------------------------------------------------------------------
(* Two calls for one counter never hold the same number.                   *)
DistinctNumbers ==
    \A c, d \in Callers :
        /\ pc[c] = "done"
        /\ pc[d] = "done"
        /\ c # d
        /\ CallType[c] = CallType[d]
        => given[c] # given[d]

IdInv == TypeOK /\ GivenBelowRow /\ DistinctNumbers

(* A call that finishes takes the number just above the stored one, so it  *)
(* is above every number given before (ids_counter.service.ts:70-81).      *)
LEMMA FinishingStep ==
    ASSUME IdInv, NEW c \in Callers,
           Increment(c) \/ InsertFirst(c)
    PROVE  /\ row' = [row EXCEPT ![CallType[c]] = @ + 1]
           /\ given' = [given EXCEPT ![c] = row[CallType[c]] + 1]
           /\ pc' = [pc EXCEPT ![c] = "done"]
           /\ pc[c] # "done"
<1> USE CallsAssumption DEF IdInv, TypeOK, Types
<1>1. CASE Increment(c)
  BY <1>1 DEF Increment, Bumped
<1>2. CASE InsertFirst(c)
  BY <1>2 DEF InsertFirst, RowAbsent
<1>3. QED
  BY <1>1, <1>2

LEMMA FinishingKeepsIdInv ==
    ASSUME IdInv, TypeOK', NEW c \in Callers,
           Increment(c) \/ InsertFirst(c)
    PROVE  IdInv'
<1> DEFINE t == CallType[c]
<1>1. /\ row' = [row EXCEPT ![t] = @ + 1]
      /\ given' = [given EXCEPT ![c] = row[t] + 1]
      /\ pc' = [pc EXCEPT ![c] = "done"]
  BY FinishingStep
<1>2. /\ row \in [Types -> Nat]
      /\ given \in [Callers -> Nat]
      /\ pc \in [Callers -> {"start", "inserting", "done", "failed"}]
      /\ CallType \in [Callers -> Types]
  BY CallsAssumption DEF IdInv, TypeOK
<1>3. GivenBelowRow'
  <2> SUFFICES ASSUME NEW d \in Callers, pc'[d] = "done"
               PROVE  given'[d] \in 1..row'[CallType[d]]
    BY DEF GivenBelowRow
  <2>1. CASE d = c
    BY <1>1, <1>2, <2>1
  <2>2. CASE d # c
    <3>1. given[d] \in 1..row[CallType[d]]
      BY <1>1, <1>2, <2>2 DEF IdInv, GivenBelowRow
    <3>2. row'[CallType[d]] >= row[CallType[d]] /\ row'[CallType[d]] \in Nat
      BY <1>1, <1>2
    <3>3. QED
      BY <1>1, <1>2, <2>2, <3>1, <3>2
  <2>3. QED
    BY <2>1, <2>2
<1>4. DistinctNumbers'
  <2> SUFFICES ASSUME NEW d \in Callers, NEW e \in Callers,
                      pc'[d] = "done", pc'[e] = "done", d # e,
                      CallType[d] = CallType[e]
               PROVE  given'[d] # given'[e]
    BY DEF DistinctNumbers
  <2>1. ASSUME NEW f \in Callers, f # c, pc'[f] = "done", CallType[f] = t
        PROVE  given'[f] < row[t] + 1
    BY <1>1, <1>2, <2>1 DEF IdInv, GivenBelowRow
  <2>2. CASE d = c
    BY <1>1, <1>2, <2>1, <2>2
  <2>3. CASE e = c
    BY <1>1, <1>2, <2>1, <2>3
  <2>4. CASE d # c /\ e # c
    BY <1>1, <1>2, <2>4 DEF IdInv, DistinctNumbers
  <2>5. QED
    BY <2>2, <2>3, <2>4
<1>5. QED
  BY <1>3, <1>4 DEF IdInv

(* A step that finishes no call leaves the numbers given where they are    *)
(* and never lowers a counter.                                             *)
LEMMA OtherStepKeepsIdInv ==
    ASSUME IdInv, TypeOK', given' = given,
           \A c \in Callers : pc'[c] = "done" => pc[c] = "done",
           \A k \in Types : row'[k] >= row[k]
    PROVE  IdInv'
<1> USE CallsAssumption
<1>1. GivenBelowRow'
  BY DEF IdInv, GivenBelowRow, TypeOK
<1>2. DistinctNumbers'
  BY DEF IdInv, DistinctNumbers
<1>3. QED
  BY <1>1, <1>2 DEF IdInv

(* The inductive invariant holds throughout.                               *)
THEOREM IdInvHolds == Spec => []IdInv
<1>1. Init => IdInv
  BY DEF Init, IdInv, TypeOK, GivenBelowRow, DistinctNumbers
<1>2. IdInv /\ TypeOK' /\ [Next]_vars => IdInv'
  <2> SUFFICES ASSUME IdInv, TypeOK', [Next]_vars
               PROVE  IdInv'
    OBVIOUS
  <2> USE CallsAssumption
  <2>1. ASSUME NEW c \in Callers, Increment(c) \/ InsertFirst(c)
        PROVE  IdInv'
    BY <2>1, FinishingKeepsIdInv
  <2>2. ASSUME NEW c \in Callers, FindsNoRow(c) \/ InsertRejected(c)
        PROVE  IdInv'
    <3>1. /\ given' = given
          /\ row' = row
          /\ \A d \in Callers : pc'[d] = "done" => pc[d] = "done"
      BY <2>2 DEF FindsNoRow, InsertRejected, IdInv, TypeOK
    <3>2. \A k \in Types : row'[k] >= row[k]
      BY <3>1 DEF IdInv, TypeOK
    <3>3. QED
      BY <3>1, <3>2, OtherStepKeepsIdInv
  <2>3. ASSUME NEW c \in Callers, CallLost(c)
        PROVE  IdInv'
    <3>1. /\ given' = given
          /\ \A d \in Callers : pc'[d] = "done" => pc[d] = "done"
      BY <2>3 DEF CallLost, IdInv, TypeOK
    <3>2. \A k \in Types : row'[k] >= row[k]
      BY <2>3 DEF CallLost, IdInv, TypeOK, Bumped, RowAbsent
    <3>3. QED
      BY <3>1, <3>2, OtherStepKeepsIdInv
  <2>4. CASE UNCHANGED vars
    BY <2>4 DEF vars, IdInv, TypeOK, GivenBelowRow, DistinctNumbers
  <2>5. QED
    BY <2>1, <2>2, <2>3, <2>4 DEF Next
<1>3. QED
  BY <1>1, <1>2, CountersAreTyped, PTL DEF Spec

-----------------------------------------------------------------------------
(* Numbers under different prefixes are different ids.                     *)
LEMMA PrefixTellsType ==
    ASSUME NEW s \in Types, NEW t \in Types, s # t
    PROVE  Prefix(s) # Prefix(t)
BY DEF Types, Prefix

(* No id is given out twice, whatever the number of concurrent calls, of   *)
(* first-row races and of lost calls (ids_counter.service.ts:66-111).      *)
THEOREM IdsAreUnique == Spec => []UniqueIds
<1>1. IdInv => UniqueIds
  <2> SUFFICES ASSUME IdInv, NEW c \in Callers, NEW d \in Callers,
                      pc[c] = "done", pc[d] = "done", c # d
               PROVE  LongId(c) # LongId(d)
    BY DEF UniqueIds
  <2>1. /\ given \in [Callers -> Nat]
        /\ CallType \in [Callers -> Types]
    BY CallsAssumption DEF IdInv, TypeOK
  <2>2. CASE CallType[c] = CallType[d]
    <3>1. given[c] # given[d]
      BY <2>2 DEF IdInv, DistinctNumbers
    <3>2. Offset(CallType[c]) \in Int
      BY BaseAssumption DEF Offset
    <3>3. LongId(c).number # LongId(d).number
      BY <2>1, <2>2, <3>1, <3>2 DEF LongId, GetLongId
    <3>4. QED
      BY <3>3
  <2>3. CASE CallType[c] # CallType[d]
    <3>1. LongId(c).prefix # LongId(d).prefix
      BY <2>1, <2>3, PrefixTellsType DEF LongId, GetLongId
    <3>2. QED
      BY <3>1
  <2>4. QED
    BY <2>2, <2>3
<1>2. QED
  BY <1>1, IdInvHolds, PTL

(* A call that finishes gets a number above every number ever stored       *)
(* (ids_counter.service.ts:70-81).                                         *)
THEOREM NumbersNeverReused == Spec => NeverReused
<1>1. IdInv /\ [Next]_vars =>
        [\A c \in Callers :
            pc[c] # "done" /\ pc'[c] = "done"
            => /\ given'[c] > row[CallType[c]]
               /\ row'[CallType[c]] = given'[c]]_vars
  <2> SUFFICES ASSUME IdInv, Next, NEW c \in Callers,
                      pc[c] # "done", pc'[c] = "done"
               PROVE  /\ given'[c] > row[CallType[c]]
                      /\ row'[CallType[c]] = given'[c]
    OBVIOUS
  <2>1. Increment(c) \/ InsertFirst(c)
    BY DEF Next, Increment, InsertFirst, FindsNoRow, InsertRejected, CallLost,
           IdInv, TypeOK
  <2>2. QED
    BY <2>1, FinishingStep, CallsAssumption DEF IdInv, TypeOK
<1>2. QED
  BY <1>1, IdInvHolds, PTL DEF Spec, NeverReused
=============================================================================
