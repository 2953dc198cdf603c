---------------------------- MODULE CustomerProofs ----------------------------
(***************************************************************************)
(* Proofs about a customer's cards (Cards), his ways to sign in (Sessions, *)
(* Accounts), the pick-up orders of his booking (Orders), what they cost   *)
(* (Courier), and the vouchers taken off its price (Promotions).           *)
(***************************************************************************)
EXTENDS MCServices, FiniteSetTheorems, TLAPS

-----------------------------------------------------------------------------
(* The card shown and the card charged                                     *)

LEMMA CardsFollow == ServicesSpec => Wallet!Spec
<1>1. ServicesInit => Wallet!Init
  BY DEF ServicesInit
<1>2. [ServicesNext]_servicesVars => [Wallet!Next]_(Wallet!cardVars)
  BY DEF ServicesNext, servicesVars, cardVars, Wallet!cardVars
<1> QED
  BY <1>1, <1>2, PTL DEF ServicesSpec, Wallet!Spec

LEMMA CardsSets ==
    /\ CardPays \subseteq Wallet!Requests /\ CardBringing \subseteq Wallet!Requests
    /\ "none" \notin CardBringing /\ "first" \notin CardBringing
    /\ "nobody" \notin Wallet!Requests
BY CardsAssumption DEF Wallet!Requests

(* A request that is under way.                                            *)
Flying(r) == cReq[r].pc \in {"read", "upserted", "retrieved", "written", "paying", "charged"}

(* Its card is at Stripe, and its rows are written.                        *)
Upserted(r) == Flying(r) /\ cReq[r].pc # "read"
Wrote(r) == cReq[r].pc \in {"written", "paying", "charged"}

(* Only a request that brings a card locks the rows, once it wrote them.   *)
CardsHeld ==
    /\ shown.customer = user
    /\ holder \in CardBringing \cup {"nobody"} /\ (holder # "nobody" => Wrote(holder))
    /\ \A r \in Wallet!Requests :
          /\ cReq[r].pc \in {"upserted", "retrieved", "written"} => r \in CardBringing
          /\ r \in CardBringing /\ Wrote(r) => holder = r

(* Stripe has a card of every customer that a row or a request knows.      *)
CardSet(r) ==
    /\ cReq[r].known # "none" => default[cReq[r].known] # "none"
    /\ cReq[r].customer # "none" => default[cReq[r].customer] # "none"
    /\ cReq[r].before.customer # "none" => default[cReq[r].before.customer] # "none"
    /\ Flying(r) /\ (r \in CardPays \/ Upserted(r)) =>
           cReq[r].customer # "none" \/ (r \in CardBringing /\ cReq[r].pc = "read")

CardsSet ==
    /\ user # "none" => default[user] # "none"
    /\ \A r \in Wallet!Requests : CardSet(r)

(* A request that crossed no other met none with a card, and none at all   *)
(* if it brings one.  Two cards at a time are never without doubt.         *)
CardsAlone ==
    \A r, s \in Wallet!Requests : r # s /\ Flying(r) /\ Flying(s) =>
        /\ r \in CardBringing => r \in crossed /\ s \in crossed
        /\ r \in CardBringing /\ s \in CardBringing => doubtful

(* A card that is brought alone is Stripe's once it is given to it, and    *)
(* the rows' once they are written.                                        *)
CardBrought(r) ==
    /\ default[cReq[r].customer] = r
    /\ cReq[r].pc # "upserted" => cReq[r].card = r
    /\ Wrote(r) => user = cReq[r].customer /\ shown.card = r

CardsBrought ==
    \A r \in CardBringing :
        Upserted(r) /\ (r \notin crossed \/ ~doubtful) => CardBrought(r)

(* Without doubt, what a request read is there until it writes, and what   *)
(* it would roll back to after.                                            *)
CardsKnown ==
    \A r \in CardBringing : Flying(r) /\ ~doubtful =>
        /\ ~Wrote(r) => user = cReq[r].known
        /\ Wrote(r) => cReq[r].before.customer = cReq[r].known

(* Without doubt, the card shown is Stripe's unless one is on its way.     *)
CardsShown ==
    user # "none" /\ ~doubtful /\ (\A r \in CardBringing : ~Upserted(r)) =>
        shown.card = default[user]

(* What a payment that crossed no card names and charges.                  *)
CardNamed(p) ==
    /\ cReq[p].pc = "paying" => named[p] = default[cReq[p].customer]
    /\ cReq[p].pc = "charged" =>
          named[p] = default[cReq[p].customer] /\ charge[p] = named[p]
    /\ cReq[p].pc = "done" =>
          /\ charge[p] # "none" /\ named[p] = charge[p]
          /\ p \in CardBringing => charge[p] = p

CardsNamed == \A p \in CardPays : p \notin crossed => CardNamed(p)

CardsInv ==
    /\ Wallet!TypeOK /\ CardsHeld /\ CardsSet /\ CardsAlone
    /\ CardsBrought /\ CardsKnown /\ CardsShown /\ CardsNamed

LEMMA CardsInitially == Wallet!Init => CardsInv
<1> SUFFICES ASSUME Wallet!Init PROVE CardsInv
  OBVIOUS
<1> USE CardsSets
<1>1. /\ user \in {"none", "first"} /\ holder = "nobody" /\ crossed = {} /\ doubtful = FALSE
      /\ default = [c \in Wallet!Customers |-> IF c = user THEN "first" ELSE "none"]
      /\ shown = [customer |-> user, card |-> user]
      /\ cReq = [r \in Wallet!Requests |->
             [pc |-> "idle", known |-> "none", customer |-> "none", card |-> "none",
              before |-> [customer |-> "none", card |-> "none"]]]
      /\ charge = [p \in CardPays |-> "none"] /\ named = [p \in CardPays |-> "none"]
  BY DEF Wallet!Init, Wallet!NoCard
<1>2. Wallet!TypeOK
  BY <1>1
     DEF Wallet!TypeOK, Wallet!Customers, Wallet!Known, Wallet!StripeSource,
         Wallet!CustomerRow, Wallet!Request, Wallet!Cards
<1>3. \A r \in Wallet!Requests :
          /\ ~Flying(r) /\ ~Upserted(r) /\ ~Wrote(r) /\ cReq[r].pc = "idle"
          /\ cReq[r].known = "none" /\ cReq[r].customer = "none"
          /\ cReq[r].before.customer = "none"
  BY <1>1 DEF Flying, Upserted, Wrote
<1>4. user # "none" => default[user] = "first" /\ shown.card = "first"
  BY <1>1 DEF Wallet!Customers
<1>5. CardsHeld /\ CardsSet
  BY <1>1, <1>3, <1>4 DEF CardsHeld, CardsSet, CardSet
<1>6. CardsAlone /\ CardsBrought /\ CardsKnown /\ CardsShown /\ CardsNamed
  BY <1>3, <1>4 DEF CardsAlone, CardsBrought, CardBrought, CardsKnown, CardsShown, CardsNamed,
         CardNamed
<1> QED
  BY <1>2, <1>5, <1>6 DEF CardsInv

(* What a step leaves of the requests that do not take it.                 *)
Others(r) == \A s \in Wallet!Requests : s # r => cReq'[s] = cReq[s]

LEMMA CardsRead ==
    ASSUME CardsInv, NEW r \in Wallet!Requests, Wallet!ReadUser(r)
    PROVE  CardsInv'
<1> USE CardsSets DEF CardsInv
<1> DEFINE flying == Wallet!InFlight
<1>1. PICK l \in {"failed", "read"} :
          /\ cReq' = [cReq EXCEPT ![r].pc = l, ![r].known = user, ![r].customer = user,
                                  ![r].before = shown]
          /\ l = "read" /\ r \in CardPays /\ r \notin CardBringing => user # "none"
  BY DEF Wallet!ReadUser
<1>2. /\ cReq[r].pc = "idle" /\ default' = default /\ user' = user /\ shown' = shown
      /\ holder' = holder /\ charge' = charge /\ named' = named
      /\ crossed' = IF \/ flying \cap CardBringing # {}
                       \/ (r \in CardBringing /\ flying # {})
                    THEN crossed \cup {r} \cup flying ELSE crossed
  BY DEF Wallet!ReadUser
<1>3. doubtful' <=> doubtful \/ (r \in CardBringing /\ flying \cap CardBringing # {})
  BY DEF Wallet!ReadUser
<1>4. flying \subseteq Wallet!Requests
  BY DEF Wallet!InFlight
<1>5. /\ cReq'[r].pc = l /\ cReq'[r].known = user /\ cReq'[r].customer = user
      /\ cReq'[r].before = shown
      /\ Others(r)
  BY <1>1 DEF Wallet!TypeOK, Wallet!Request, Others
<1>6. \A s \in Wallet!Requests : Flying(s) => s \in flying
  BY DEF Flying, Wallet!InFlight
<1> HIDE DEF flying
<1>7. Wallet!TypeOK'
  <2>1. doubtful' \in BOOLEAN /\ crossed' \subseteq Wallet!Requests
    BY <1>2, <1>4 DEF Wallet!ReadUser, Wallet!TypeOK
  <2>2. user \in Wallet!Known /\ shown \in Wallet!CustomerRow
    BY DEF Wallet!TypeOK
  <2>3. cReq' \in [Wallet!Requests -> Wallet!Request]
    <3>1. cReq[r] \in Wallet!Request /\ cReq \in [Wallet!Requests -> Wallet!Request]
      BY DEF Wallet!TypeOK
    <3> DEFINE q == [cReq[r] EXCEPT !.pc = l, !.known = user, !.customer = user,
                                    !.before = shown]
    <3>2. q \in Wallet!Request
      BY <2>2, <3>1 DEF Wallet!Request
    <3>3. cReq' = [cReq EXCEPT ![r] = q]
      BY <1>1, <3>1 DEF Wallet!Request
    <3> HIDE DEF q
    <3> QED
      BY <3>1, <3>2, <3>3
  <2> QED
    BY <1>2, <2>1, <2>3 DEF Wallet!TypeOK
<1>8. CardsHeld'
  BY <1>2, <1>5 DEF CardsHeld, Wrote, Others
<1>9. CardsSet'
  <2>1. user' # "none" => default'[user'] # "none"
    BY <1>2 DEF CardsSet, CardSet
  <2>2. ASSUME NEW s \in Wallet!Requests, s # r
        PROVE  CardSet(s)'
    <3>1. CardSet(s) /\ cReq'[s] = cReq[s]
      BY <1>5, <2>2 DEF CardsSet, CardSet, Others
    <3> QED
      BY <1>2, <3>1 DEF CardSet, Flying, Upserted
  <2>3. CardSet(r)'
    <3>1. CardSet(r)
      BY DEF CardsSet, CardSet
    <3> QED
      BY <1>1, <1>2, <1>5, <3>1 DEF CardSet, CardsSet, CardsHeld, Flying, Upserted
  <2> QED
    BY <2>1, <2>2, <2>3 DEF CardsSet, CardSet
<1>10. CardsAlone'
  BY <1>2, <1>3, <1>5, <1>6 DEF CardsAlone, Flying, Others
<1>11. CardsBrought'
  BY <1>2, <1>3, <1>5 DEF CardsBrought, CardBrought, Flying, Upserted, Wrote, Others
<1>12. CardsKnown'
  BY <1>2, <1>3, <1>5 DEF CardsKnown, Flying, Wrote, Others
<1>13. CardsShown'
  BY <1>2, <1>3, <1>5 DEF CardsShown, Flying, Upserted, Others
<1>14. CardsNamed'
  BY <1>2, <1>5 DEF CardsNamed, CardNamed, Others
<1> QED
  BY <1>7, <1>8, <1>9, <1>10, <1>11, <1>12, <1>13, <1>14

LEMMA CardsUpsert ==
    ASSUME CardsInv, NEW r \in Wallet!Requests, Wallet!Upsert(r)
    PROVE  CardsInv'
<1> USE CardsSets DEF CardsInv
<1>1. PICK c : /\ c = IF cReq[r].known = "none" THEN r ELSE cReq[r].known
               /\ default' = [default EXCEPT ![c] = r]
               /\ cReq' = [cReq EXCEPT ![r].pc = "upserted", ![r].customer = c]
  BY DEF Wallet!Upsert
<1>2. /\ cReq[r].pc = "read" /\ r \in CardBringing /\ user' = user /\ shown' = shown
      /\ holder' = holder /\ charge' = charge /\ named' = named /\ crossed' = crossed
      /\ doubtful' = doubtful
  BY DEF Wallet!Upsert
<1>3. c \in Wallet!Customers /\ c # "none"
  BY <1>1, <1>2 DEF Wallet!TypeOK, Wallet!Request, Wallet!Customers, Wallet!Known
<1>4. /\ cReq'[r].pc = "upserted" /\ cReq'[r].customer = c /\ cReq'[r].known = cReq[r].known
      /\ cReq'[r].before = cReq[r].before
      /\ Others(r)
  BY <1>1 DEF Wallet!TypeOK, Wallet!Request, Others
<1>5. default'[c] = r /\ \A d : d # c => default'[d] = default[d]
  BY <1>1, <1>3 DEF Wallet!TypeOK, Wallet!StripeSource
<1>6. \A d : default[d] # "none" => default'[d] # "none"
  BY <1>2, <1>5
<1>7. Wallet!TypeOK'
  <2>1. default' \in Wallet!StripeSource
    BY <1>1, <1>2, <1>3 DEF Wallet!TypeOK, Wallet!StripeSource, Wallet!Cards
  <2>2. cReq' \in [Wallet!Requests -> Wallet!Request]
    <3>1. c \in Wallet!Known /\ cReq[r] \in Wallet!Request
          /\ cReq \in [Wallet!Requests -> Wallet!Request]
      BY <1>3 DEF Wallet!Known, Wallet!TypeOK
    <3> DEFINE q == [cReq[r] EXCEPT !.pc = "upserted", !.customer = c]
    <3>2. q \in Wallet!Request
      BY <3>1 DEF Wallet!Request
    <3>3. cReq' = [cReq EXCEPT ![r] = q]
      BY <1>1, <3>1 DEF Wallet!Request
    <3> HIDE DEF q
    <3> QED
      BY <3>1, <3>2, <3>3
  <2> QED
    BY <1>2, <2>1, <2>2 DEF Wallet!TypeOK
<1>8. CardsHeld'
  BY <1>2, <1>4 DEF CardsHeld, Wrote, Others
<1>9. CardsSet'
  BY <1>2, <1>3, <1>4, <1>5, <1>6 DEF CardsSet, CardSet, Flying, Upserted, Others
<1>10. CardsAlone'
  BY <1>2, <1>4 DEF CardsAlone, Flying, Others
<1>11. \A s \in Wallet!Requests : s # r /\ Flying(s) =>
          s \in crossed /\ (s \in CardBringing => doubtful)
  BY <1>2 DEF CardsAlone, Flying
<1>12. CardsBrought'
  BY <1>2, <1>4, <1>5, <1>11 DEF CardsBrought, CardBrought, Flying, Upserted, Wrote, Others
<1>13. CardsKnown'
  BY <1>2, <1>4 DEF CardsKnown, Flying, Wrote, Others
<1>14. CardsShown'
  BY <1>2, <1>4 DEF CardsShown, Flying, Upserted
<1>15. CardsNamed'
  BY <1>2, <1>4, <1>11 DEF CardsNamed, CardNamed, Flying, Others
<1> QED
  BY <1>7, <1>8, <1>9, <1>10, <1>12, <1>13, <1>14, <1>15

LEMMA CardsRetrieve ==
    ASSUME CardsInv, NEW r \in Wallet!Requests, Wallet!RetrieveCard(r)
    PROVE  CardsInv'
<1> USE CardsSets DEF CardsInv
<1>1. /\ cReq[r].pc = "upserted" /\ default' = default /\ user' = user /\ shown' = shown
      /\ holder' = holder /\ charge' = charge /\ named' = named /\ crossed' = crossed
      /\ doubtful' = doubtful
      /\ cReq' = [cReq EXCEPT ![r].pc = "retrieved",
                              ![r].card = default[cReq[r].customer]]
  BY DEF Wallet!RetrieveCard, Wallet!Retrieved
<1>2. r \in CardBringing /\ cReq[r].customer \in Wallet!Customers
  BY <1>1
     DEF CardsHeld, CardsSet, CardSet, Flying, Upserted, Wallet!TypeOK, Wallet!Request, Wallet!Known
<1>3. /\ cReq'[r].pc = "retrieved" /\ cReq'[r].card = default[cReq[r].customer]
      /\ cReq'[r].customer = cReq[r].customer /\ cReq'[r].known = cReq[r].known
      /\ cReq'[r].before = cReq[r].before
      /\ Others(r)
  BY <1>1 DEF Wallet!TypeOK, Wallet!Request, Others
<1>4. Wallet!TypeOK'
  BY <1>1, <1>2 DEF Wallet!TypeOK, Wallet!StripeSource, Wallet!Request
<1>5. CardsHeld'
  BY <1>1, <1>2, <1>3 DEF CardsHeld, Wrote, Others
<1>6. CardsSet'
  <2>1. user' # "none" => default'[user'] # "none"
    BY <1>1 DEF CardsSet, CardSet
  <2>2. ASSUME NEW s \in Wallet!Requests, s # r
        PROVE  CardSet(s)'
    <3>1. CardSet(s) /\ cReq'[s] = cReq[s]
      BY <1>3, <2>2 DEF CardsSet, CardSet, Others
    <3> QED
      BY <1>1, <3>1 DEF CardSet, Flying, Upserted
  <2>3. CardSet(r)'
    <3>1. CardSet(r)
      BY DEF CardsSet, CardSet
    <3> QED
      BY <1>1, <1>3, <3>1 DEF CardSet, CardsSet, CardsHeld, Flying, Upserted
  <2> QED
    BY <2>1, <2>2, <2>3 DEF CardsSet, CardSet
<1>7. CardsAlone' /\ CardsKnown'
  BY <1>1, <1>3 DEF CardsAlone, CardsKnown, Flying, Wrote, Others
<1>8. CardsBrought'
  <2> SUFFICES ASSUME NEW s \in CardBringing, Upserted(s)', s \notin crossed \/ ~doubtful
               PROVE  CardBrought(s)'
    BY <1>1 DEF CardsBrought
  <2>1. Upserted(s)
    BY <1>1, <1>3 DEF Upserted, Flying, Others
  <2>2. CardBrought(s)
    BY <2>1 DEF CardsBrought
  <2>3. CASE s # r
    BY <1>1, <1>3, <2>2, <2>3 DEF CardBrought, Wrote, Others
  <2>4. CASE s = r
    BY <1>1, <1>3, <2>2, <2>4 DEF CardBrought, Wrote
  <2> QED
    BY <2>3, <2>4
<1>9. CardsShown'
  <2>1. Upserted(r)'
    BY <1>3 DEF Upserted, Flying
  <2> QED
    BY <1>2, <2>1 DEF CardsShown
<1>10. CardsNamed'
  <2>1. ASSUME NEW p \in CardPays, p \notin crossed, p # r PROVE CardNamed(p)'
    <3>1. CardNamed(p) /\ cReq'[p] = cReq[p]
      BY <1>3, <2>1 DEF CardsNamed, Others
    <3> QED
      BY <1>1, <3>1 DEF CardNamed
  <2>2. ASSUME r \in CardPays, r \notin crossed PROVE CardNamed(r)'
    <3>1. CardNamed(r)
      BY <2>2 DEF CardsNamed
    <3> QED
      BY <1>1, <1>3, <3>1 DEF CardNamed
  <2> QED
    BY <1>1, <2>1, <2>2 DEF CardsNamed
<1> QED
  BY <1>4, <1>5, <1>6, <1>7, <1>8, <1>9, <1>10

LEMMA CardsWrite ==
    ASSUME CardsInv, NEW r \in Wallet!Requests, Wallet!WriteCustomer(r)
    PROVE  CardsInv'
<1> USE CardsSets DEF CardsInv
<1>1. /\ cReq[r].pc = "retrieved" /\ holder = "nobody" /\ holder' = r
      /\ cReq' = [cReq EXCEPT ![r].pc = "written", ![r].before = shown]
      /\ user' = cReq[r].customer
      /\ shown' = [customer |-> cReq[r].customer, card |-> cReq[r].card]
      /\ default' = default /\ charge' = charge /\ named' = named /\ crossed' = crossed
      /\ doubtful' = doubtful
  BY DEF Wallet!WriteCustomer
<1>2. r \in CardBringing /\ r # "nobody"
  BY <1>1 DEF CardsHeld
<1>3. /\ cReq'[r].pc = "written" /\ cReq'[r].card = cReq[r].card
      /\ cReq'[r].customer = cReq[r].customer /\ cReq'[r].known = cReq[r].known
      /\ cReq'[r].before = shown
      /\ Others(r)
  BY <1>1 DEF Wallet!TypeOK, Wallet!Request, Others
<1>4. shown'.customer = cReq[r].customer /\ shown'.card = cReq[r].card
  BY <1>1
<1>5. Wallet!TypeOK'
  BY <1>1 DEF Wallet!TypeOK, Wallet!Request, Wallet!CustomerRow
<1>6. CardsHeld'
  BY <1>1, <1>2, <1>3, <1>4 DEF CardsHeld, Wrote, Others
<1>7. CardsSet'
  <2>1. user' # "none" => default'[user'] # "none"
    BY <1>1 DEF CardsSet, CardSet
  <2>2. ASSUME NEW s \in Wallet!Requests, s # r
        PROVE  CardSet(s)'
    <3>1. CardSet(s) /\ cReq'[s] = cReq[s]
      BY <1>3, <2>2 DEF CardsSet, CardSet, Others
    <3> QED
      BY <1>1, <3>1 DEF CardSet, Flying, Upserted
  <2>3. CardSet(r)'
    <3>1. CardSet(r)
      BY DEF CardsSet, CardSet
    <3> QED
      BY <1>1, <1>3, <3>1 DEF CardSet, CardsSet, CardsHeld, Flying, Upserted
  <2> QED
    BY <2>1, <2>2, <2>3 DEF CardsSet, CardSet
<1>8. CardsAlone'
  BY <1>1, <1>3 DEF CardsAlone, Flying, Others
<1>9. \A s \in Wallet!Requests : s # r /\ Flying(s) =>
          s \in crossed /\ (s \in CardBringing => doubtful)
  BY <1>1, <1>2 DEF CardsAlone, Flying
<1>10. CardsBrought'
  <2> SUFFICES ASSUME NEW s \in CardBringing, Upserted(s)', s \notin crossed \/ ~doubtful
               PROVE  CardBrought(s)'
    BY <1>1 DEF CardsBrought
  <2>1. s = r
    BY <1>3, <1>9 DEF Upserted, Flying, Others
  <2>2. CardBrought(r)
    BY <1>1, <1>2, <2>1 DEF CardsBrought, CardBrought, Upserted, Flying
  <2> QED
    BY <1>1, <1>3, <1>4, <2>1, <2>2 DEF CardBrought
<1>11. CardsKnown'
  BY <1>1, <1>2, <1>3, <1>9 DEF CardsHeld, CardsKnown, Flying, Wrote, Others
<1>12. CardsShown'
  <2>1. Upserted(r)'
    BY <1>3 DEF Upserted, Flying
  <2> QED
    BY <1>2, <2>1 DEF CardsShown
<1>13. CardsNamed'
  <2>1. ASSUME NEW p \in CardPays, p \notin crossed, p # r PROVE CardNamed(p)'
    <3>1. CardNamed(p) /\ cReq'[p] = cReq[p]
      BY <1>3, <2>1 DEF CardsNamed, Others
    <3> QED
      BY <1>1, <3>1 DEF CardNamed
  <2>2. ASSUME r \in CardPays, r \notin crossed PROVE CardNamed(r)'
    <3>1. CardNamed(r)
      BY <2>2 DEF CardsNamed
    <3> QED
      BY <1>1, <1>3, <3>1 DEF CardNamed
  <2> QED
    BY <1>1, <2>1, <2>2 DEF CardsNamed
<1> QED
  BY <1>5, <1>6, <1>7, <1>8, <1>10, <1>11, <1>12, <1>13

LEMMA CardsName ==
    ASSUME CardsInv, NEW r \in CardPays, Wallet!NameCard(r)
    PROVE  CardsInv'
<1> USE CardsSets DEF CardsInv
<1>1. /\ cReq[r].pc = "written" \/ (cReq[r].pc = "read" /\ r \notin CardBringing)
      /\ cReq' = [cReq EXCEPT ![r].pc = "paying"]
      /\ named' = [named EXCEPT ![r] = default[cReq[r].customer]]
      /\ default' = default /\ user' = user /\ shown' = shown /\ holder' = holder
      /\ charge' = charge /\ crossed' = crossed /\ doubtful' = doubtful
  BY DEF Wallet!NameCard, Wallet!ReadyToPay, Wallet!Retrieved
<1>2. cReq[r].customer \in Wallet!Customers
  BY <1>1 DEF CardsSet, CardSet, Flying, Upserted, Wallet!TypeOK, Wallet!Request, Wallet!Known
<1>3. /\ cReq'[r].pc = "paying" /\ cReq'[r].card = cReq[r].card
      /\ cReq'[r].customer = cReq[r].customer /\ cReq'[r].known = cReq[r].known
      /\ cReq'[r].before = cReq[r].before
      /\ Others(r)
  BY <1>1 DEF Wallet!TypeOK, Wallet!Request, Others
<1>4. named'[r] = default[cReq[r].customer] /\ \A p \in CardPays : p # r => named'[p] = named[p]
  BY <1>1 DEF Wallet!TypeOK
<1>5. Wallet!TypeOK'
  BY <1>1, <1>2 DEF Wallet!TypeOK, Wallet!Request, Wallet!StripeSource
<1>6. CardsHeld' /\ CardsSet'
  BY <1>1, <1>3 DEF CardsHeld, CardsSet, CardSet, Flying, Upserted, Wrote, Others
<1>7. CardsAlone' /\ CardsKnown'
  BY <1>1, <1>3 DEF CardsAlone, CardsKnown, Flying, Wrote, Others
<1>8. CardsBrought'
  BY <1>1, <1>3 DEF CardsBrought, CardBrought, Flying, Upserted, Wrote, Others
<1>9. CardsShown'
  BY <1>1, <1>3 DEF CardsShown, Flying, Upserted, Others
<1>10. CardsNamed'
  BY <1>1, <1>3, <1>4 DEF CardsNamed, CardNamed, Others
<1> QED
  BY <1>5, <1>6, <1>7, <1>8, <1>9, <1>10

LEMMA CardsCharge ==
    ASSUME CardsInv, NEW r \in CardPays, Wallet!ChargeCard(r)
    PROVE  CardsInv'
<1> USE CardsSets DEF CardsInv
<1>1. /\ cReq[r].pc = "paying" /\ cReq' = [cReq EXCEPT ![r].pc = "charged"]
      /\ charge' = [charge EXCEPT ![r] = default[cReq[r].customer]]
      /\ default' = default /\ user' = user /\ shown' = shown /\ holder' = holder
      /\ named' = named /\ crossed' = crossed /\ doubtful' = doubtful
  BY DEF Wallet!ChargeCard
<1>2. cReq[r].customer \in Wallet!Customers
  BY <1>1 DEF CardsSet, CardSet, Flying, Upserted, Wallet!TypeOK, Wallet!Request, Wallet!Known
<1>3. /\ cReq'[r].pc = "charged" /\ cReq'[r].card = cReq[r].card
      /\ cReq'[r].customer = cReq[r].customer /\ cReq'[r].known = cReq[r].known
      /\ cReq'[r].before = cReq[r].before
      /\ Others(r)
  BY <1>1 DEF Wallet!TypeOK, Wallet!Request, Others
<1>4. /\ charge'[r] = default[cReq[r].customer]
      /\ \A p \in CardPays : p # r => charge'[p] = charge[p]
  BY <1>1 DEF Wallet!TypeOK
<1>5. Wallet!TypeOK'
  BY <1>1, <1>2 DEF Wallet!TypeOK, Wallet!Request, Wallet!StripeSource
<1>6. CardsHeld' /\ CardsSet'
  BY <1>1, <1>3 DEF CardsHeld, CardsSet, CardSet, Flying, Upserted, Wrote, Others
<1>7. CardsAlone' /\ CardsKnown'
  BY <1>1, <1>3 DEF CardsAlone, CardsKnown, Flying, Wrote, Others
<1>8. CardsBrought'
  BY <1>1, <1>3 DEF CardsBrought, CardBrought, Flying, Upserted, Wrote, Others
<1>9. CardsShown'
  BY <1>1, <1>3 DEF CardsShown, Flying, Upserted, Others
<1>10. CardsNamed'
  <2>1. ASSUME NEW p \in CardPays, p \notin crossed, p # r PROVE CardNamed(p)'
    <3>1. CardNamed(p) /\ cReq'[p] = cReq[p]
      BY <1>3, <2>1 DEF CardsNamed, Others
    <3> QED
      BY <1>1, <1>4, <3>1 DEF CardNamed
  <2>2. ASSUME r \in CardPays, r \notin crossed PROVE CardNamed(r)'
    <3>1. CardNamed(r)
      BY <2>2 DEF CardsNamed
    <3> QED
      BY <1>1, <1>3, <1>4, <3>1 DEF CardNamed
  <2> QED
    BY <1>1, <2>1, <2>2 DEF CardsNamed
<1> QED
  BY <1>5, <1>6, <1>7, <1>8, <1>9, <1>10

LEMMA CardsCommit ==
    ASSUME CardsInv, NEW r \in Wallet!Requests, Wallet!Commit(r)
    PROVE  CardsInv'
<1> USE CardsSets DEF CardsInv
<1>1. /\ \/ r \in CardPays /\ cReq[r].pc = "charged"
         \/ r \in CardProfiles /\ cReq[r].pc = "written"
         \/ r \in CardProfiles /\ r \notin CardBringing /\ cReq[r].pc = "read"
      /\ cReq' = [cReq EXCEPT ![r].pc = "done"]
      /\ holder' = IF holder = r THEN "nobody" ELSE holder
      /\ default' = default /\ user' = user /\ shown' = shown /\ charge' = charge
      /\ named' = named /\ crossed' = crossed
  BY DEF Wallet!Commit, Wallet!Finished, Wallet!Released
<1>2. doubtful' <=> doubtful /\ (r \notin CardBringing \/ r \in crossed)
  BY DEF Wallet!Commit
<1>3. /\ cReq'[r].pc = "done" /\ cReq'[r].card = cReq[r].card
      /\ cReq'[r].customer = cReq[r].customer /\ cReq'[r].known = cReq[r].known
      /\ cReq'[r].before = cReq[r].before
      /\ Others(r)
  BY <1>1 DEF Wallet!TypeOK, Wallet!Request, Others
<1>4. Flying(r) /\ (r \in CardBringing => Upserted(r) /\ Wrote(r))
  BY <1>1, CardsAssumption DEF Flying, Upserted, Wrote
<1>5. Wallet!TypeOK'
  <2>1. doubtful' \in BOOLEAN
    BY DEF Wallet!Commit
  <2> QED
    BY <1>1, <2>1 DEF Wallet!TypeOK, Wallet!Request
<1>6. CardsHeld' /\ CardsSet'
  BY <1>1, <1>3 DEF CardsHeld, CardsSet, CardSet, Flying, Upserted, Wrote, Others
(* With doubt gone, no other request is under way.                         *)
<1>7. \A s \in Wallet!Requests : s # r /\ Flying(s) => doubtful' \/ ~doubtful
  BY <1>2, <1>4 DEF CardsAlone
<1>8. CardsAlone'
  BY <1>1, <1>3, <1>7 DEF CardsAlone, Flying, Others
<1>9. CardsBrought'
  BY <1>1, <1>3, <1>7 DEF CardsBrought, CardBrought, Flying, Upserted, Wrote, Others
<1>10. CardsKnown'
  BY <1>1, <1>3, <1>7 DEF CardsKnown, Flying, Wrote, Others
<1>11. CardsShown'
  <2> SUFFICES ASSUME user # "none", ~doubtful', \A s \in CardBringing : ~Upserted(s)'
               PROVE  shown.card = default[user]
    BY <1>1 DEF CardsShown
  <2>1. CASE r \in CardBringing
    BY <1>2, <1>4, <2>1 DEF CardsBrought, CardBrought, Wrote
  <2>2. CASE r \notin CardBringing
    <3>1. \A s \in CardBringing : ~Upserted(s)
      BY <1>3, <2>2 DEF Upserted, Flying, Others
    <3> QED
      BY <1>2, <2>2, <3>1 DEF CardsShown
  <2> QED
    BY <2>1, <2>2
<1>12. CardsNamed'
  <2>1. ASSUME r \in CardPays, r \notin crossed
        PROVE  /\ charge[r] # "none" /\ named[r] = charge[r]
               /\ r \in CardBringing => charge[r] = r
    <3>1. cReq[r].pc = "charged"
      BY <1>1, <2>1, CardsAssumption
    <3>2. charge[r] = default[cReq[r].customer] /\ named[r] = charge[r]
      BY <2>1, <3>1 DEF CardsNamed, CardNamed
    <3>3. default[cReq[r].customer] # "none"
      BY <2>1, <3>1 DEF CardsSet, CardSet, Flying, Upserted
    <3>4. r \in CardBringing => default[cReq[r].customer] = r
      BY <1>4, <2>1 DEF CardsBrought, CardBrought
    <3> QED
      BY <3>2, <3>3, <3>4
  <2> QED
    BY <1>1, <1>3, <2>1 DEF CardsNamed, CardNamed, Others
<1> QED
  BY <1>5, <1>6, <1>8, <1>9, <1>10, <1>11, <1>12

LEMMA CardsFail ==
    ASSUME CardsInv, NEW r \in Wallet!Requests, Wallet!Fail(r)
    PROVE  CardsInv'
<1> USE CardsSets DEF CardsInv
<1>1. /\ Flying(r) /\ cReq' = [cReq EXCEPT ![r].pc = "failed"]
      /\ holder' = IF holder = r THEN "nobody" ELSE holder
      /\ default' = default /\ crossed' = crossed
      /\ holder = r => shown' = cReq[r].before /\ user' = cReq[r].before.customer
      /\ holder # r => shown' = shown /\ user' = user
      /\ charge' = IF r \in CardPays THEN [charge EXCEPT ![r] = "none"] ELSE charge
      /\ named' = IF r \in CardPays THEN [named EXCEPT ![r] = "none"] ELSE named
  BY DEF Wallet!Fail, Wallet!Released, Wallet!InFlight, Flying, Wallet!TypeOK, Wallet!Request
<1>2. doubtful' <=> doubtful \/ (/\ r \in CardBringing /\ cReq[r].pc # "read"
                                 /\ cReq[r].known # "none")
  BY DEF Wallet!Fail
<1>3. /\ cReq'[r].pc = "failed" /\ cReq'[r].card = cReq[r].card
      /\ cReq'[r].customer = cReq[r].customer /\ cReq'[r].known = cReq[r].known
      /\ cReq'[r].before = cReq[r].before
      /\ Others(r)
  BY <1>1 DEF Wallet!TypeOK, Wallet!Request, Others
<1>4. \A p \in CardPays : p # r => charge'[p] = charge[p] /\ named'[p] = named[p]
  BY <1>1 DEF Wallet!TypeOK
<1>5. Wallet!TypeOK'
  <2>1. doubtful' \in BOOLEAN
    BY DEF Wallet!Fail
  <2>2. shown' \in Wallet!CustomerRow /\ user' \in Wallet!Known
    BY <1>1 DEF Wallet!TypeOK, Wallet!Request, Wallet!CustomerRow
  <2>3. cReq' \in [Wallet!Requests -> Wallet!Request]
    BY <1>1 DEF Wallet!TypeOK, Wallet!Request
  <2>4. charge' \in [CardPays -> Wallet!Cards] /\ named' \in [CardPays -> Wallet!Cards]
    BY <1>1 DEF Wallet!TypeOK, Wallet!Cards
  <2> QED
    BY <1>1, <2>1, <2>2, <2>3, <2>4 DEF Wallet!TypeOK
<1>6. shown'.customer = user'
  BY <1>1 DEF CardsHeld
<1>7. CardsHeld'
  BY <1>1, <1>3, <1>6 DEF CardsHeld, Wrote, Others
<1>8. CardsSet'
  BY <1>1, <1>3 DEF CardsSet, CardSet, Flying, Upserted, Others
<1>9. CardsAlone'
  BY <1>1, <1>2, <1>3 DEF CardsAlone, Flying, Others
(* Its rows are rolled back only if it had a card to give.                 *)
<1>10. r \notin CardBringing => shown' = shown /\ user' = user
  BY <1>1 DEF CardsHeld
<1>11. r \in CardBringing =>
          \A s \in Wallet!Requests : s # r /\ Flying(s) =>
              s \in crossed /\ (s \in CardBringing => doubtful)
  BY <1>1 DEF CardsAlone
<1>12. CardsBrought'
  BY <1>1, <1>2, <1>3, <1>10, <1>11 DEF CardsBrought, CardBrought, Flying, Upserted, Wrote, Others
<1>13. CardsKnown'
  BY <1>1, <1>2, <1>3, <1>10, <1>11 DEF CardsKnown, Flying, Wrote, Others
<1>14. CardsShown'
  <2> SUFFICES ASSUME user' # "none", ~doubtful', \A s \in CardBringing : ~Upserted(s)'
               PROVE  shown'.card = default[user']
    BY <1>1 DEF CardsShown
  <2>1. CASE r \in CardBringing /\ Upserted(r)
    <3>1. cReq[r].known = "none" /\ ~doubtful
      BY <1>2, <2>1 DEF Upserted
    <3>2. user' = "none"
      BY <1>1, <2>1, <3>1 DEF CardsKnown, CardsHeld
    <3> QED
      BY <3>2
  <2>2. CASE ~(r \in CardBringing /\ Upserted(r))
    <3>1. \A s \in CardBringing : ~Upserted(s)
      BY <1>3, <2>2 DEF Upserted, Flying, Others
    <3>2. shown' = shown /\ user' = user
      BY <1>1, <1>10, <2>2 DEF CardsHeld, Wrote, Upserted
    <3> QED
      BY <1>2, <3>1, <3>2 DEF CardsShown
  <2> QED
    BY <2>1, <2>2
<1>15. CardsNamed'
  BY <1>1, <1>3, <1>4 DEF CardsNamed, CardNamed, Others
<1> QED
  BY <1>5, <1>7, <1>8, <1>9, <1>12, <1>13, <1>14, <1>15

(* What is known of the cards as long as nobody overlaps anybody.          *)
THEOREM CardsInvariant == Wallet!Spec => []CardsInv
<1>1. Wallet!Init => CardsInv
  BY CardsInitially
<1>2. CardsInv /\ [Wallet!Next]_(Wallet!cardVars) => CardsInv'
  <2> SUFFICES ASSUME CardsInv, [Wallet!Next]_(Wallet!cardVars) PROVE CardsInv'
    OBVIOUS
  <2>1. CASE Wallet!Next
    <3>1. PICK r \in Wallet!Requests :
              \/ Wallet!ReadUser(r) \/ Wallet!Upsert(r) \/ Wallet!RetrieveCard(r)
              \/ Wallet!WriteCustomer(r)
              \/ r \in CardPays /\ (Wallet!NameCard(r) \/ Wallet!ChargeCard(r))
              \/ Wallet!Commit(r) \/ Wallet!Fail(r)
      BY <2>1 DEF Wallet!Next
    <3> QED
      BY <3>1, CardsRead, CardsUpsert, CardsRetrieve, CardsWrite, CardsName, CardsCharge,
         CardsCommit, CardsFail
  <2>2. CASE UNCHANGED Wallet!cardVars
    BY <2>2
       DEF Wallet!cardVars, CardsInv, Wallet!TypeOK, CardsHeld, CardsSet, CardSet, CardsAlone,
           CardSet, CardsBrought, CardBrought, CardsKnown, CardsShown, CardsNamed,
           CardNamed, Flying, Upserted, Wrote
  <2> QED
    BY <2>1, <2>2
<1> QED
  BY <1>1, <1>2, PTL DEF Wallet!Spec

(* The card a customer is shown is the one Stripe charges, and a payment   *)
(* names the card it charged and charges the one that came with it, but    *)
(* for requests that overlap and cards that a failure left at Stripe       *)
(* (auth/users/user.service.ts 258-366, bookings/booking.service.ts        *)
(* 1186-1209), whatever the number of requests.                            *)
THEOREM CardShownIsCharged == ServicesSpec => []ShownIsCharged
<1>1. CardsInv => Wallet!ShownIsCharged
  <2> SUFFICES ASSUME CardsInv PROVE Wallet!ShownIsCharged
    OBVIOUS
  <2> USE CardsSets DEF CardsInv
  <2>1. ASSUME user # "none", ~doubtful, Wallet!InFlight = {}
        PROVE  shown = [customer |-> user, card |-> default[user]]
    <3>1. \A r \in CardBringing : ~Upserted(r)
      BY <2>1 DEF Wallet!InFlight, Upserted, Flying
    <3>2. shown.card = default[user] /\ shown.customer = user
      BY <2>1, <3>1 DEF CardsShown, CardsHeld
    <3>3. shown = [customer |-> shown.customer, card |-> shown.card]
      BY DEF Wallet!TypeOK, Wallet!CustomerRow
    <3> QED
      BY <3>2, <3>3
  <2> QED
    BY <2>1 DEF CardsNamed, CardNamed, Wallet!ShownIsCharged
<1>2. CardsInv => ShownIsCharged
  BY <1>1 DEF ShownIsCharged
<1> QED
  BY <1>2, CardsFollow, CardsInvariant, PTL

-----------------------------------------------------------------------------
(* Signing in                                                              *)

LEMMA SignInsFollow == ServicesSpec => SignIns!Spec
<1>1. ServicesInit => SignIns!Init
  BY DEF ServicesInit
<1>2. [ServicesNext]_servicesVars => [SignIns!Next]_(SignIns!sessionVars)
  BY DEF ServicesNext, servicesVars, signInVars, SignIns!sessionVars
<1> QED
  BY <1>1, <1>2, PTL DEF ServicesSpec, SignIns!Spec

(* A request that is under way; a login whose password was right; and one  *)
(* whose password is used up.                                              *)
Under(r) == req[r].pc \in SignIns!Steps
Verified(r) == req[r].kind = "login"
               /\ req[r].pc \in {"find", "create", "forget", "drop", "save", "done"}
Spent(r) == req[r].kind = "login" /\ req[r].pc \in {"drop", "save", "done"}

(* The same account on the same platform.                                  *)
Alike(q, r) == req[q].user = req[r].user /\ SignPlatform[q] = SignPlatform[r]

StepOfKind(r) ==
    /\ req[r].pc = "verify" => req[r].kind = "login"
    /\ req[r].pc = "forget" => req[r].kind \in {"login", "review"}
    /\ req[r].pc \in {"validate", "revoke"} => req[r].kind = "refresh"
    /\ req[r].pc \in {"find", "create"} =>
          req[r].kind \in {"login", "review", "social", "guest"}

SignInsMet ==
    \A q, r \in SignRequests :
        /\ <<q, r>> \in sMet => <<r, q>> \in sMet
        /\ q # r /\ Under(q) /\ Under(r) => <<q, r>> \in sMet

(* Who is about to create an account met whoever created one since he      *)
(* found none.                                                             *)
SignInsAccounts ==
    /\ \A r \in users : req[r].pc \in {"forget", "drop", "save", "revoke", "done", "failed"}
    /\ \A q, r \in users : q # r => <<q, r>> \in sMet
    /\ \A r \in SignRequests : req[r].pc = "create" => \A q \in users : <<q, r>> \in sMet

(* Who is about to save his session met whoever saved one since he dropped *)
(* the old one.                                                            *)
SignInsSessions ==
    /\ \A r \in tokens : req[r].pc \in {"revoke", "done", "failed"}
    /\ \A q, r \in tokens : q # r /\ Alike(q, r) => <<q, r>> \in sMet
    /\ \A r \in SignRequests : req[r].pc = "save" =>
          \A q \in tokens : Alike(q, r) => <<q, r>> \in sMet

(* A password that was used up does not come back.                         *)
SignInsPasswords ==
    /\ \A s \in otps : sending[s] = "done"
    /\ \A r \in SignRequests :
          /\ Verified(r) => req[r].with \in SignSends /\ sending[req[r].with] = "done"
          /\ Spent(r) => req[r].with \notin otps
    /\ \A q, r \in SignRequests :
          q # r /\ Verified(q) /\ Verified(r) /\ req[q].with = req[r].with =>
              <<q, r>> \in sMet

SignInsInv ==
    /\ SignIns!TypeOK /\ \A r \in SignRequests : StepOfKind(r)
    /\ SignInsMet /\ SignInsAccounts /\ SignInsSessions /\ SignInsPasswords

LEMMA SignInsInitially == SignIns!Init => SignInsInv
<1> SUFFICES ASSUME SignIns!Init PROVE SignInsInv
  OBVIOUS
<1>1. /\ sending = [s \in SignSends |-> "idle"]
      /\ otps = {} /\ expired = {} /\ users = {} /\ tokens = {} /\ sMet = {}
      /\ req = [r \in SignRequests |-> [kind |-> "none", pc |-> "idle", user |-> 0, with |-> 0]]
  BY DEF SignIns!Init, SignIns!Nobody
<1>2. SignIns!TypeOK
  BY <1>1 DEF SignIns!TypeOK, SignIns!Nobody, SignIns!Kinds, SignIns!Steps
<1>3. \A r \in SignRequests : req[r].pc = "idle"
  BY <1>1
<1>4. \A r \in SignRequests : StepOfKind(r) /\ ~Under(r) /\ ~Verified(r) /\ ~Spent(r)
  BY <1>3 DEF StepOfKind, Under, Verified, Spent, SignIns!Steps
<1>5. SignInsMet /\ SignInsAccounts /\ SignInsSessions /\ SignInsPasswords
  BY <1>1, <1>3, <1>4 DEF SignInsMet, SignInsAccounts, SignInsSessions, SignInsPasswords
<1> QED
  BY <1>2, <1>4, <1>5 DEF SignInsInv

LEMMA SignInsTexts ==
    ASSUME NEW s \in SignSends, SignInsInv,
           \/ SignIns!ClearOtps(s) \/ SignIns!SendOtp(s) \/ SignIns!CommitOtp(s)
           \/ SignIns!SendFails(s) \/ SignIns!OtpExpires(s)
    PROVE  SignInsInv'
<1> USE DEF SignInsInv
<1>1. users' = users /\ tokens' = tokens /\ req' = req /\ sMet' = sMet
  BY DEF SignIns!ClearOtps, SignIns!SendOtp, SignIns!CommitOtp, SignIns!SendFails,
         SignIns!OtpExpires
<1>2. SignIns!TypeOK'
  BY <1>1
     DEF SignIns!ClearOtps, SignIns!SendOtp, SignIns!CommitOtp, SignIns!SendFails,
         SignIns!OtpExpires, SignIns!TypeOK
<1>3. \A x \in SignSends : sending[x] = "done" => sending'[x] = "done"
  BY DEF SignIns!ClearOtps, SignIns!SendOtp, SignIns!CommitOtp, SignIns!SendFails,
         SignIns!OtpExpires, SignIns!TypeOK
<1>4. otps' \subseteq otps \/ (otps' = otps \cup {s} /\ sending[s] = "sent" /\ sending'[s] = "done")
  BY DEF SignIns!ClearOtps, SignIns!SendOtp, SignIns!CommitOtp, SignIns!SendFails,
         SignIns!OtpExpires, SignIns!TypeOK
<1>5. SignInsPasswords'
  <2>1. \A x \in otps' : sending'[x] = "done"
    BY <1>3, <1>4 DEF SignInsPasswords, SignIns!TypeOK
  <2>2. ASSUME NEW r \in SignRequests, Verified(r)'
        PROVE  /\ req'[r].with \in SignSends /\ sending'[req'[r].with] = "done"
               /\ Spent(r)' => req'[r].with \notin otps'
    <3>1. req[r].with \in SignSends /\ sending[req[r].with] = "done" /\ (Spent(r)' => req[r].with \notin otps)
      BY <1>1, <2>2 DEF SignInsPasswords, Verified, Spent
    <3>2. req[r].with # s \/ sending[s] # "sent"
      BY <3>1
    <3> QED
      BY <1>1, <1>3, <1>4, <3>1, <3>2
  <2>3. \A r \in SignRequests : Spent(r)' => Verified(r)'
    BY DEF Spent, Verified
  <2>4. \A q, r \in SignRequests :
            q # r /\ Verified(q)' /\ Verified(r)' /\ req'[q].with = req'[r].with =>
                <<q, r>> \in sMet'
    BY <1>1 DEF SignInsPasswords, Verified
  <2> QED
    BY <2>1, <2>2, <2>3, <2>4 DEF SignInsPasswords
<1>6. SignInsMet' /\ SignInsAccounts' /\ SignInsSessions'
  BY <1>1 DEF SignInsMet, SignInsAccounts, SignInsSessions, Under, Alike
<1>7. \A r \in SignRequests : StepOfKind(r)'
  BY <1>1 DEF StepOfKind
<1> QED
  BY <1>2, <1>5, <1>6, <1>7

(* What a step of one request has to be for all of this to stay.           *)
SignInStep(r) ==
    /\ SignIns!TypeOK' /\ Under(r) /\ sMet' = sMet /\ sending' = sending
    /\ otps' \subseteq otps
    /\ \A q \in SignRequests : q # r => req'[q] = req[q]
    /\ StepOfKind(r)'
    /\ users' = users \/ (users' = users \cup {r} /\ req[r].pc = "create")
    /\ r \in users' => req'[r].pc \in {"forget", "drop", "save", "revoke", "done", "failed"}
    /\ req'[r].pc = "create" => users' = {}
    /\ tokens' \subseteq tokens \/ (tokens' = tokens \cup {r} /\ req[r].pc = "save")
    /\ r \in tokens' => /\ req'[r].pc \in {"revoke", "done", "failed"}
                        /\ req'[r].user = req[r].user
    /\ req'[r].pc = "save" => \A q \in tokens' : ~Alike(q, r)'
    /\ Verified(r)' => /\ req'[r].with = req[r].with
                       /\ Verified(r) \/ req[r].with \in otps
    /\ Spent(r)' => Spent(r) \/ otps' = {}

LEMMA SignInsStep ==
    ASSUME SignInsInv, NEW r \in SignRequests, SignInStep(r)
    PROVE  SignInsInv'
<1> USE DEF SignInsInv
<1>1. \A q \in SignRequests : q # r /\ Under(q)' => Under(q) /\ <<q, r>> \in sMet /\ <<r, q>> \in sMet
  BY DEF SignInStep, SignInsMet, Under
<1>2. users \subseteq SignRequests /\ tokens \subseteq SignRequests
  BY DEF SignIns!TypeOK
<1>3. \A q \in SignRequests : StepOfKind(q)'
  BY DEF SignInStep, StepOfKind
<1>4. SignInsMet'
  BY <1>1 DEF SignInStep, SignInsMet, Under
<1>5. SignInsAccounts'
  <2>1. \A q \in users' : req'[q].pc \in {"forget", "drop", "save", "revoke", "done", "failed"}
    BY <1>2 DEF SignInStep, SignInsAccounts
  <2>2. \A p, q \in users' : p # q => <<p, q>> \in sMet'
    BY <1>2 DEF SignInStep, SignInsAccounts, SignInsMet
  <2>3. ASSUME NEW q \in SignRequests, req'[q].pc = "create", NEW p \in users'
        PROVE  <<p, q>> \in sMet'
    <3>1. CASE q = r
      BY <2>3, <3>1 DEF SignInStep
    <3>2. CASE q # r
      <4>1. req[q].pc = "create" /\ Under(q)'
        BY <2>3, <3>2 DEF SignInStep, Under, SignIns!Steps
      <4> QED
        BY <1>1, <2>3, <3>2, <4>1 DEF SignInStep, SignInsAccounts
    <3> QED
      BY <3>1, <3>2
  <2> QED
    BY <2>1, <2>2, <2>3 DEF SignInsAccounts
<1>6. \A p, q \in SignRequests : p # r /\ q # r => (Alike(p, q)' <=> Alike(p, q))
  BY DEF SignInStep, Alike
<1>7. SignInsSessions'
  <2>1. \A q \in tokens' : req'[q].pc \in {"revoke", "done", "failed"}
    BY <1>2 DEF SignInStep, SignInsSessions
  <2>2. ASSUME NEW p \in tokens', NEW q \in tokens', p # q, Alike(p, q)'
        PROVE  <<p, q>> \in sMet'
    <3>1. p \in SignRequests /\ q \in SignRequests
      BY <1>2 DEF SignInStep
    <3>2. Alike(p, q) /\ Alike(q, p)
      BY <2>2, <3>1 DEF SignInStep, Alike
    <3>3. CASE p \in tokens /\ q \in tokens
      BY <2>2, <3>2, <3>3 DEF SignInStep, SignInsSessions
    <3>4. CASE p \notin tokens
      <4>1. p = r /\ req[r].pc = "save" /\ q \in tokens
        BY <2>2, <3>4 DEF SignInStep
      <4> QED
        BY <3>1, <3>2, <4>1 DEF SignInStep, SignInsSessions, SignInsMet
    <3>5. CASE q \notin tokens
      <4>1. q = r /\ req[r].pc = "save" /\ p \in tokens
        BY <2>2, <3>5 DEF SignInStep
      <4> QED
        BY <3>1, <3>2, <4>1 DEF SignInStep, SignInsSessions
    <3> QED
      BY <3>3, <3>4, <3>5
  <2>3. ASSUME NEW q \in SignRequests, req'[q].pc = "save", NEW p \in tokens', Alike(p, q)'
        PROVE  <<p, q>> \in sMet'
    <3>1. CASE q = r
      BY <2>3, <3>1 DEF SignInStep
    <3>2. CASE q # r
      <4>1. req[q].pc = "save" /\ Under(q)'
        BY <2>3, <3>2 DEF SignInStep, Under, SignIns!Steps
      <4>2. CASE p = r
        BY <1>1, <3>2, <4>1, <4>2 DEF SignInStep
      <4>3. CASE p # r
        BY <1>2, <1>6, <2>3, <3>2, <4>1, <4>3 DEF SignInStep, SignInsSessions
      <4> QED
        BY <4>2, <4>3
    <3> QED
      BY <3>1, <3>2
  <2> QED
    BY <2>1, <2>2, <2>3 DEF SignInsSessions
<1>8. SignInsPasswords'
  <2>1. \A x \in otps' : sending'[x] = "done"
    BY DEF SignInStep, SignInsPasswords
  <2>2. ASSUME NEW q \in SignRequests
        PROVE  /\ Verified(q)' => /\ req'[q].with \in SignSends
                                  /\ sending'[req'[q].with] = "done"
               /\ Spent(q)' => req'[q].with \notin otps'
    <3>1. CASE q = r
      <4>1. Spent(r)' => Verified(r)'
        BY DEF Spent, Verified
      <4> QED
        BY <3>1, <4>1 DEF SignInStep, SignInsPasswords, SignIns!TypeOK
    <3>2. CASE q # r
      BY <3>2 DEF SignInStep, SignInsPasswords, Verified, Spent
    <3> QED
      BY <3>1, <3>2
  <2>3. ASSUME NEW q \in SignRequests, q # r, Verified(q)', Verified(r)',
               req'[q].with = req'[r].with
        PROVE  <<q, r>> \in sMet /\ <<r, q>> \in sMet
    <3>1. Verified(q) /\ req[q].with = req[r].with
      BY <2>3 DEF SignInStep, Verified
    <3>2. CASE Verified(r)
      BY <2>3, <3>1, <3>2 DEF SignInsPasswords, SignInsMet
    <3>3. CASE req[r].with \in otps
      <4>1. ~Spent(q)
        BY <3>1, <3>3 DEF SignInsPasswords
      <4>2. Under(q)'
        BY <2>3, <3>1, <4>1 DEF SignInStep, Verified, Spent, Under, SignIns!Steps
      <4> QED
        BY <1>1, <2>3, <4>2
    <3> QED
      BY <2>3, <3>2, <3>3 DEF SignInStep
  <2>4. ASSUME NEW p \in SignRequests, NEW q \in SignRequests, p # q, p # r, q # r,
               Verified(p)', Verified(q)', req'[p].with = req'[q].with
        PROVE  <<p, q>> \in sMet
    BY <2>4 DEF SignInStep, SignInsPasswords, Verified
  <2> QED
    BY <2>1, <2>2, <2>3, <2>4 DEF SignInsPasswords, SignInStep
<1> QED
  BY <1>3, <1>4, <1>5, <1>7, <1>8 DEF SignInStep

LEMMA FirstSteps ==
    /\ SignIns!FirstStep("login") = "verify" /\ SignIns!FirstStep("social") = "find"
    /\ SignIns!FirstStep("refresh") = "validate" /\ SignIns!FirstStep("admin") = "drop"
    /\ SignIns!FirstStep("guest") = "find" /\ SignIns!FirstStep("review") = "find"
BY DEF SignIns!FirstStep

LEMMA HasAccounts ==
    ASSUME NEW r
    PROVE  /\ req[r].kind = "login" => SignIns!HasAccount(r) = "forget"
           /\ req[r].kind = "review" => SignIns!HasAccount(r) = "forget"
           /\ req[r].kind = "social" => SignIns!HasAccount(r) = "drop"
           /\ req[r].kind = "guest" => SignIns!HasAccount(r) = "done"
BY DEF SignIns!HasAccount

LEMMA SignInsStart ==
    ASSUME SignInsInv, NEW r \in SignRequests, NEW k \in SignIns!Kinds,
           NEW h \in SignSends \cup SignRequests \cup {SignIns!Nobody},
           SignIns!Start(r, k, h)
    PROVE  SignInsInv'
<1> USE DEF SignInsInv
<1> DEFINE far == SignIns!UnderWay
<1>1. /\ req[r].pc = "idle" /\ sMet' = sMet \cup ({r} \X far) \cup (far \X {r})
      /\ sending' = sending /\ otps' = otps /\ expired' = expired /\ users' = users
      /\ tokens' = tokens /\ h \in SignIns!Holds(k)
      /\ req' = [req EXCEPT ![r] =
             [kind |-> k, pc |-> SignIns!FirstStep(k), with |-> h,
              user |-> IF k = "admin" THEN h ELSE 0]]
  BY DEF SignIns!Start, SignIns!Nobody
<1>2. far \subseteq SignRequests /\ \A q \in SignRequests : Under(q) => q \in far
  BY DEF SignIns!UnderWay, Under
<1>3. k = "admin" => h \in users
  BY <1>1 DEF SignIns!Holds
<1>4. PICK f \in {"verify", "find", "validate", "drop"}, u \in SignRequests \cup {0} :
          /\ req' = [req EXCEPT ![r] = [kind |-> k, pc |-> f, with |-> h, user |-> u]]
          /\ k = "login" <=> f = "verify"
          /\ f = "validate" => k = "refresh"
          /\ f = "find" => k \in {"review", "social", "guest"}
  <2>1. users \subseteq SignRequests
    BY DEF SignIns!TypeOK
  <2> QED
    BY <1>1, <1>3, <2>1, FirstSteps DEF SignIns!Kinds
<1> HIDE DEF far
<1>5. /\ req'[r].pc = f /\ req'[r].kind = k
      /\ \A q \in SignRequests : q # r => req'[q] = req[q]
  BY <1>4 DEF SignIns!TypeOK
<1>6. SignIns!TypeOK'
  <2>1. req' \in [SignRequests -> [kind: SignIns!Kinds \cup {"none"},
                                   pc: SignIns!Steps \cup {"idle", "done", "failed"},
                                   user: SignRequests \cup {SignIns!Nobody},
                                   with: SignSends \cup SignRequests \cup {SignIns!Nobody}]]
    <3>1. f \in SignIns!Steps
      BY DEF SignIns!Steps
    <3> QED
      BY <1>4, <3>1 DEF SignIns!TypeOK, SignIns!Nobody
  <2> QED
    BY <1>1, <1>2, <2>1 DEF SignIns!TypeOK
<1>7. sMet \subseteq sMet'
  BY <1>1
<1>8. ~Verified(r)' /\ ~Spent(r)' /\ ~(r \in users) /\ ~(r \in tokens)
  BY <1>1, <1>4, <1>5 DEF Verified, Spent, SignInsAccounts, SignInsSessions
<1>9. \A q \in SignRequests : StepOfKind(q)'
  <2>1. StepOfKind(r)'
    BY <1>4, <1>5 DEF StepOfKind
  <2> QED
    BY <1>5, <2>1 DEF StepOfKind
<1>10. SignInsMet'
  <2>1. \A q \in SignRequests : q # r /\ Under(q)' => <<q, r>> \in sMet' /\ <<r, q>> \in sMet'
    BY <1>1, <1>2, <1>5 DEF Under
  <2>2. \A p, q \in SignRequests : <<p, q>> \in sMet' => <<q, p>> \in sMet'
    BY <1>1 DEF SignInsMet
  <2> QED
    BY <1>5, <1>7, <2>1, <2>2 DEF SignInsMet, Under
<1>11. users \subseteq SignRequests /\ tokens \subseteq SignRequests
  BY DEF SignIns!TypeOK
<1>12. SignInsAccounts'
  BY <1>1, <1>5, <1>7, <1>8, <1>11 DEF SignInsAccounts
<1>13. SignInsSessions'
  BY <1>1, <1>5, <1>7, <1>8, <1>11 DEF SignInsSessions, Alike
<1>14. SignInsPasswords'
  <2>1. \A q \in SignRequests : Verified(q)' => q # r /\ Verified(q) /\ req'[q] = req[q]
    BY <1>5, <1>8 DEF Verified
  <2>2. \A q \in SignRequests : Spent(q)' => q # r /\ Spent(q) /\ req'[q] = req[q]
    BY <1>5, <1>8 DEF Spent
  <2> QED
    BY <1>1, <1>7, <2>1, <2>2 DEF SignInsPasswords
<1> QED
  BY <1>6, <1>9, <1>10, <1>12, <1>13, <1>14

LEMMA SignInsGivesUp ==
    ASSUME SignInsInv, NEW r \in SignRequests, Under(r), SignIns!GivesUp(r),
           UNCHANGED <<sending, otps, expired, users, tokens, sMet>>
    PROVE  SignInStep(r)
<1> USE DEF SignInsInv
<1>1. /\ req' = [req EXCEPT ![r] = [req[r] EXCEPT !.pc = "failed", !.kind = "none",
                                                  !.with = 0]]
      /\ sending' = sending /\ otps' = otps /\ expired' = expired /\ users' = users
      /\ tokens' = tokens /\ sMet' = sMet
  BY DEF SignIns!GivesUp, SignIns!Ended, SignIns!Nobody
<1> DEFINE q == [req[r] EXCEPT !.pc = "failed", !.kind = "none", !.with = 0]
<1>2. /\ q \in [kind: SignIns!Kinds \cup {"none"},
                pc: SignIns!Steps \cup {"idle", "done", "failed"},
                user: SignRequests \cup {SignIns!Nobody},
                with: SignSends \cup SignRequests \cup {SignIns!Nobody}]
      /\ q.pc = "failed" /\ q.kind = "none" /\ q.user = req[r].user
  BY DEF SignIns!TypeOK, SignIns!Nobody
<1> HIDE DEF q
<1>3. SignIns!TypeOK' /\ req'[r] = q /\ \A x \in SignRequests : x # r => req'[x] = req[x]
  BY <1>1, <1>2 DEF SignIns!TypeOK, q
<1> QED
  BY <1>1, <1>2, <1>3 DEF SignInStep, StepOfKind, Verified, Spent

(* A step that moves on, or also tells the request its account.            *)
LEMMA SignInsGoes ==
    ASSUME SignInsInv, NEW r \in SignRequests,
           NEW l \in SignIns!Steps \cup {"done"}, NEW u \in SignRequests \cup {0},
           req' = [req EXCEPT ![r].pc = l] \/ req' = [req EXCEPT ![r].pc = l, ![r].user = u]
    PROVE  /\ req' \in [SignRequests ->
                  [kind: SignIns!Kinds \cup {"none"},
                   pc: SignIns!Steps \cup {"idle", "done", "failed"},
                   user: SignRequests \cup {SignIns!Nobody},
                   with: SignSends \cup SignRequests \cup {SignIns!Nobody}]]
           /\ req'[r].pc = l /\ req'[r].kind = req[r].kind /\ req'[r].with = req[r].with
           /\ req' = [req EXCEPT ![r].pc = l] => req'[r].user = req[r].user
           /\ \A q \in SignRequests : q # r => req'[q] = req[q]
BY DEF SignInsInv, SignIns!TypeOK, SignIns!Nobody

LEMMA SignInsChecks ==
    ASSUME SignInsInv, NEW r \in SignRequests, SignIns!Verify(r) \/ SignIns!Validate(r)
    PROVE  SignInStep(r)
<1> USE DEF SignInsInv
<1>1. /\ Under(r) /\ UNCHANGED <<sending, otps, expired, users, tokens, sMet>>
      /\ req[r].pc \in {"verify", "validate"} /\ StepOfKind(r)
  BY DEF SignIns!Verify, SignIns!Validate, Under, SignIns!Steps
<1>2. CASE SignIns!GivesUp(r)
  BY <1>1, <1>2, SignInsGivesUp
<1>3. r \notin users /\ r \notin tokens
  BY <1>1 DEF SignInsAccounts, SignInsSessions
<1>4. CASE SignIns!Verify(r) /\ ~SignIns!GivesUp(r)
  <2>1. req[r].with \in otps /\ req' = [req EXCEPT ![r].pc = "find"] /\ req[r].pc = "verify"
    BY <1>4 DEF SignIns!Verify, SignIns!Goes
  <2>2. /\ req'[r].pc = "find" /\ req'[r].kind = req[r].kind /\ req'[r].with = req[r].with
        /\ \A q \in SignRequests : q # r => req'[q] = req[q]
        /\ SignIns!TypeOK'
    BY <1>1, <2>1, SignInsGoes DEF SignIns!TypeOK, SignIns!Steps
  <2> QED
    BY <1>1, <1>3, <2>1, <2>2 DEF SignInStep, StepOfKind, Verified, Spent
<1>5. CASE SignIns!Validate(r) /\ ~SignIns!GivesUp(r)
  <2>1. PICK u : req' = [req EXCEPT ![r].pc = "drop", ![r].user = u]
                 /\ req[r].with \in tokens /\ u = req[req[r].with].user
    BY <1>5 DEF SignIns!Validate
  <2>2. u \in SignRequests \cup {0} /\ req[r].kind = "refresh"
    BY <1>1, <1>5, <2>1 DEF SignIns!TypeOK, SignIns!Nobody, StepOfKind, SignIns!Validate
  <2>3. /\ req'[r].pc = "drop" /\ req'[r].kind = req[r].kind
        /\ \A q \in SignRequests : q # r => req'[q] = req[q]
        /\ req' \in [SignRequests ->
               [kind: SignIns!Kinds \cup {"none"},
                pc: SignIns!Steps \cup {"idle", "done", "failed"},
                user: SignRequests \cup {SignIns!Nobody},
                with: SignSends \cup SignRequests \cup {SignIns!Nobody}]]
    BY <2>1, <2>2, SignInsGoes DEF SignIns!Steps
  <2>4. SignIns!TypeOK'
    BY <1>1, <2>3 DEF SignIns!TypeOK
  <2> QED
    BY <1>1, <1>3, <2>2, <2>3, <2>4 DEF SignInStep, StepOfKind, Verified, Spent
<1> QED
  BY <1>2, <1>4, <1>5

LEMMA SignInsAccountFound ==
    ASSUME SignInsInv, NEW r \in SignRequests, SignIns!FindUser(r) \/ SignIns!CreateUser(r)
    PROVE  SignInStep(r)
<1> USE DEF SignInsInv
<1>1. /\ req[r].pc \in {"find", "create"} /\ StepOfKind(r) /\ Under(r)
      /\ UNCHANGED <<sending, otps, expired, tokens, sMet>>
  BY DEF SignIns!FindUser, SignIns!CreateUser, Under, SignIns!Steps
<1>2. r \notin users /\ r \notin tokens /\ users \subseteq SignRequests
  BY <1>1 DEF SignInsAccounts, SignInsSessions, SignIns!TypeOK
<1>3. PICK l \in {"forget", "drop", "done"} :
          /\ l = SignIns!HasAccount(r)
          /\ req[r].kind \in {"login", "review"} <=> l = "forget"
  BY <1>1, HasAccounts DEF StepOfKind
<1>4. CASE req' = [req EXCEPT ![r].pc = "create"] /\ users = {} /\ users' = users
           /\ req[r].pc = "find"
  <2>1. /\ req'[r].pc = "create" /\ req'[r].kind = req[r].kind /\ req'[r].with = req[r].with
        /\ \A q \in SignRequests : q # r => req'[q] = req[q]
        /\ SignIns!TypeOK'
    BY <1>1, <1>4, SignInsGoes DEF SignIns!TypeOK, SignIns!Steps
  <2> QED
    BY <1>1, <1>2, <1>4, <2>1 DEF SignInStep, StepOfKind, Verified, Spent
<1>5. ASSUME NEW u \in SignRequests, req' = [req EXCEPT ![r].pc = l, ![r].user = u],
             users' = users \/ (users' = users \cup {r} /\ req[r].pc = "create")
      PROVE  SignInStep(r)
  <2>1. /\ req'[r].pc = l /\ req'[r].kind = req[r].kind /\ req'[r].with = req[r].with
        /\ \A q \in SignRequests : q # r => req'[q] = req[q]
        /\ SignIns!TypeOK'
    BY <1>1, <1>5, SignInsGoes DEF SignIns!TypeOK, SignIns!Steps
  <2> QED
    BY <1>1, <1>2, <1>3, <1>5, <2>1 DEF SignInStep, StepOfKind, Verified, Spent
<1> QED
  BY <1>2, <1>3, <1>4, <1>5 DEF SignIns!FindUser, SignIns!CreateUser, SignIns!Goes

LEMMA SignInsSession ==
    ASSUME SignInsInv, NEW r \in SignRequests,
           \/ SignIns!ForgetOtps(r) \/ SignIns!DropSession(r) \/ SignIns!SaveSession(r)
           \/ SignIns!RevokeOld(r)
    PROVE  SignInStep(r)
<1> USE DEF SignInsInv
<1>1. PICK l \in {"drop", "save", "revoke", "done"} :
          /\ req' = [req EXCEPT ![r].pc = l]
          /\ SignIns!ForgetOtps(r) => l = "drop"
          /\ SignIns!DropSession(r) => l = "save"
          /\ SignIns!SaveSession(r) => l \in {"revoke", "done"}
                                       /\ (l = "revoke" => req[r].kind = "refresh")
          /\ SignIns!RevokeOld(r) => l = "done"
  <2>1. CASE SignIns!ForgetOtps(r)
    BY <2>1
       DEF SignIns!ForgetOtps, SignIns!DropSession, SignIns!SaveSession, SignIns!RevokeOld,
           SignIns!Goes
  <2>2. CASE SignIns!DropSession(r)
    BY <2>2
       DEF SignIns!ForgetOtps, SignIns!DropSession, SignIns!SaveSession, SignIns!RevokeOld,
           SignIns!Goes
  <2>3. CASE SignIns!SaveSession(r)
    BY <2>3
       DEF SignIns!ForgetOtps, SignIns!DropSession, SignIns!SaveSession, SignIns!RevokeOld,
           SignIns!Goes
  <2>4. CASE SignIns!RevokeOld(r)
    BY <2>4
       DEF SignIns!ForgetOtps, SignIns!DropSession, SignIns!SaveSession, SignIns!RevokeOld,
           SignIns!Goes
  <2> QED
    BY <2>1, <2>2, <2>3, <2>4
<1>2. /\ req[r].pc \in {"forget", "drop", "save", "revoke"} /\ Under(r) /\ StepOfKind(r)
      /\ UNCHANGED <<sending, expired, users, sMet>>
      /\ otps' = otps \/ otps' = {}
  BY DEF SignIns!ForgetOtps, SignIns!DropSession, SignIns!SaveSession, SignIns!RevokeOld,
         Under, SignIns!Steps
<1>3. /\ req'[r].pc = l /\ req'[r].kind = req[r].kind /\ req'[r].with = req[r].with
      /\ req'[r].user = req[r].user
      /\ \A q \in SignRequests : q # r => req'[q] = req[q]
      /\ req' \in [SignRequests ->
             [kind: SignIns!Kinds \cup {"none"},
              pc: SignIns!Steps \cup {"idle", "done", "failed"},
              user: SignRequests \cup {SignIns!Nobody},
              with: SignSends \cup SignRequests \cup {SignIns!Nobody}]]
  BY <1>1, SignInsGoes DEF SignIns!Steps
<1>4. tokens \subseteq SignRequests /\ (r \in tokens => req[r].pc = "revoke")
  BY <1>2 DEF SignIns!TypeOK, SignInsSessions
<1>5. /\ tokens' \subseteq tokens \/ (tokens' = tokens \cup {r} /\ req[r].pc = "save")
      /\ r \in tokens' => l \in {"revoke", "done"}
      /\ l = "revoke" => req[r].kind = "refresh"
  <2>1. CASE SignIns!ForgetOtps(r)
    BY <1>1, <1>4, <2>1 DEF SignIns!ForgetOtps
  <2>2. CASE SignIns!DropSession(r)
    BY <1>1, <1>4, <2>2 DEF SignIns!DropSession
  <2>3. CASE SignIns!SaveSession(r)
    BY <1>1, <1>4, <2>3 DEF SignIns!SaveSession
  <2>4. CASE SignIns!RevokeOld(r)
    BY <1>1, <1>4, <2>4 DEF SignIns!RevokeOld
  <2> QED
    BY <2>1, <2>2, <2>3, <2>4
<1>6. l = "save" => \A q \in tokens' : ~Alike(q, r)'
  <2> SUFFICES ASSUME l = "save", NEW q \in tokens', Alike(q, r)' PROVE FALSE
    OBVIOUS
  <2>1. SignIns!DropSession(r)
    BY <1>1
  <2>2. q \in tokens /\ q \notin SignIns!Rivals(r) /\ q # r
    BY <1>4, <2>1 DEF SignIns!DropSession
  <2>3. Alike(q, r)
    BY <1>3, <1>4, <2>2 DEF Alike
  <2> QED
    BY <2>2, <2>3 DEF SignIns!Rivals, Alike
<1>7. SignIns!TypeOK'
  BY <1>2, <1>3, <1>4, <1>5 DEF SignIns!TypeOK
<1>8. /\ Verified(r)' => Verified(r)
      /\ Spent(r)' => Spent(r) \/ otps' = {}
  <2>1. CASE SignIns!ForgetOtps(r)
    BY <1>2, <1>3, <2>1 DEF SignIns!ForgetOtps, Verified, Spent
  <2>2. CASE ~SignIns!ForgetOtps(r)
    <3>1. req[r].pc \in {"drop", "save", "revoke"}
      BY <2>2 DEF SignIns!DropSession, SignIns!SaveSession, SignIns!RevokeOld
    <3>2. req[r].pc = "revoke" => req[r].kind = "refresh"
      BY <1>2 DEF StepOfKind
    <3> QED
      BY <1>3, <3>1, <3>2 DEF Verified, Spent
  <2> QED
    BY <2>1, <2>2
<1> QED
  BY <1>1, <1>2, <1>3, <1>5, <1>6, <1>7, <1>8 DEF SignInStep, StepOfKind

LEMMA SignInsNext ==
    ASSUME SignInsInv, SignIns!Next
    PROVE  SignInsInv'
<1>1. CASE \E s \in SignSends :
              \/ SignIns!ClearOtps(s) \/ SignIns!SendOtp(s) \/ SignIns!CommitOtp(s)
              \/ SignIns!SendFails(s) \/ SignIns!OtpExpires(s)
  BY <1>1, SignInsTexts
<1>2. CASE \E r \in SignRequests :
              \E k \in SignIns!Kinds, h \in SignSends \cup SignRequests \cup {SignIns!Nobody} :
                  SignIns!Start(r, k, h)
  BY <1>2, SignInsStart
<1>3. ASSUME NEW r \in SignRequests, SignIns!Verify(r) \/ SignIns!Validate(r) PROVE SignInsInv'
  BY <1>3, SignInsChecks, SignInsStep
<1>4. ASSUME NEW r \in SignRequests, SignIns!FindUser(r) \/ SignIns!CreateUser(r)
      PROVE  SignInsInv'
  BY <1>4, SignInsAccountFound, SignInsStep
<1>5. ASSUME NEW r \in SignRequests,
             \/ SignIns!ForgetOtps(r) \/ SignIns!DropSession(r) \/ SignIns!SaveSession(r)
             \/ SignIns!RevokeOld(r)
      PROVE  SignInsInv'
  BY <1>5, SignInsSession, SignInsStep
<1>6. ASSUME NEW r \in SignRequests, SignIns!Fails(r) PROVE SignInsInv'
  <2>1. Under(r) /\ SignIns!GivesUp(r) /\ UNCHANGED <<sending, otps, expired, users, tokens, sMet>>
    BY <1>6 DEF SignIns!Fails, SignIns!UnderWay, Under
  <2> QED
    BY <2>1, SignInsGivesUp, SignInsStep
<1> QED
  BY <1>1, <1>2, <1>3, <1>4, <1>5, <1>6 DEF SignIns!Next

(* Who signs in, met whoever else does what it does.                       *)
THEOREM SignInsInvariant == SignIns!Spec => []SignInsInv
<1>1. SignIns!Init => SignInsInv
  BY SignInsInitially
<1>2. SignInsInv /\ [SignIns!Next]_(SignIns!sessionVars) => SignInsInv'
  <2> SUFFICES ASSUME SignInsInv, [SignIns!Next]_(SignIns!sessionVars) PROVE SignInsInv'
    OBVIOUS
  <2>1. CASE SignIns!Next
    BY <2>1, SignInsNext
  <2>2. CASE UNCHANGED SignIns!sessionVars
    BY <2>2
       DEF SignIns!sessionVars, SignInsInv, SignIns!TypeOK, StepOfKind, SignInsMet,
           SignInsAccounts, SignInsSessions, SignInsPasswords, Under, Verified, Spent, Alike
  <2> QED
    BY <2>1, <2>2
<1> QED
  BY <1>1, <1>2, PTL DEF SignIns!Spec

LEMMA SignInsImply == SignInsInv => SignIns!SignInsAreSingle
<1> SUFFICES ASSUME SignInsInv PROVE SignIns!SignInsAreSingle
  OBVIOUS
<1> USE DEF SignInsInv
<1>1. \A q, r \in users : q # r => <<q, r>> \in sMet
  BY DEF SignInsAccounts
<1>2. \A r \in tokens, q \in SignRequests : q \in SignIns!Rivals(r) \ {r} => <<q, r>> \in sMet
  BY DEF SignInsSessions, SignIns!Rivals, Alike
<1>3. ASSUME NEW q \in SignRequests, NEW r \in SignRequests, q # r,
             req[q].with = req[r].with,
             \A x \in {q, r} : req[x].kind = "login" /\ req[x].pc = "done"
      PROVE  <<q, r>> \in sMet
  BY <1>3 DEF SignInsPasswords, Verified
<1> QED
  BY <1>1, <1>2, <1>3 DEF SignIns!SignInsAreSingle

-----------------------------------------------------------------------------
(* Whose account a caller gets                                             *)

LEMMA AccountsFollow == ServicesSpec => People!Spec
<1>1. ServicesInit => People!Init
  BY DEF ServicesInit
<1>2. [ServicesNext]_servicesVars => [People!Next]_(People!vars)
  BY DEF ServicesNext, servicesVars, accountVars, People!vars
<1> QED
  BY <1>1, <1>2, PTL DEF ServicesSpec, People!Spec

(* What the last caller got has the number or the address he gave.         *)
AccountsFound ==
    found # People!Nobody =>
        \/ found.phone # People!Null /\ found.account.phone = found.phone
        \/ /\ found.email # People!NoAddress
           /\ People!Lower(found.account.email) = People!Lower(found.email)

(* Two accounts have not one number.                                       *)
AccountsNumbered ==
    \A s, t \in People!Taken : s # t =>
        (accounts[s].phone \in LoginPhones => accounts[s].phone # accounts[t].phone)

(* The addresses neither the profile page nor a provider wrote are in      *)
(* lower case, and no two of them are one.                                 *)
Plain(s) == s \notin renamed \cup social

AccountsAddressed ==
    /\ \A s \in People!Slots : Plain(s) => ~accounts[s].email.capitals
    /\ \A s, t \in People!Taken : s # t /\ Plain(s) /\ Plain(t) =>
          (accounts[s].email # People!NoAddress => accounts[s].email # accounts[t].email)

AccountsInv == People!TypeOK /\ AccountsFound /\ AccountsNumbered /\ AccountsAddressed

LEMMA AccountsInitially == People!Init => AccountsInv
<1> SUFFICES ASSUME People!Init PROVE AccountsInv
  OBVIOUS
<1> USE AccountsAssumption
<1>1. PICK a \in LoginAddresses :
          accounts = [s \in People!Slots |->
             IF s = 1 THEN [People!None EXCEPT !.email = [address |-> a, capitals |-> FALSE],
                                               !.phone = People!Empty]
             ELSE People!None]
  BY DEF People!Init
<1>2. found = People!Nobody /\ renamed = {} /\ social = {}
  BY DEF People!Init
<1>3. People!TypeOK
  BY <1>1, <1>2
     DEF People!TypeOK, People!Row, People!Written, People!None, People!NoAddress,
         People!Null, People!Empty, People!Nobody
<1>4. \A s \in People!Taken : s = 1
  BY <1>1 DEF People!Taken
<1>5. \A s \in People!Slots : ~accounts[s].email.capitals
  BY <1>1 DEF People!None, People!NoAddress
<1> QED
  BY <1>2, <1>3, <1>4, <1>5 DEF AccountsInv, AccountsFound, AccountsNumbered, AccountsAddressed

(* A free account is found for a new row.                                  *)
LEMMA AccountsFree == People!Free # {} => People!Next0 \in People!Free
BY DEF People!Next0

(* A new row keeps numbers and addresses apart if nobody has its own, or   *)
(* a provider wrote its address.                                           *)
LEMMA AccountsAdd ==
    ASSUME AccountsInv, NEW rec \in People!Row, rec # People!None, People!Create(rec),
           rec.phone \in LoginPhones => People!WithPhone(rec.phone) = {},
           UNCHANGED renamed, found'.account \in People!Row,
           \/ /\ UNCHANGED social /\ ~rec.email.capitals
              /\ rec.email # People!NoAddress => People!WithEmail(rec.email) = {}
           \/ social' = social \cup {People!Next0}
    PROVE  People!TypeOK' /\ AccountsNumbered' /\ AccountsAddressed'
<1>1. PICK n \in People!Slots : n = People!Next0 /\ n \notin People!Taken
  BY AccountsFree DEF People!Create, People!Free
<1>2. accounts' = [accounts EXCEPT ![n] = rec] /\ accounts \in [People!Slots -> People!Row]
  BY <1>1 DEF People!Create, AccountsInv, People!TypeOK
<1>3. /\ accounts'[n] = rec
      /\ \A s \in People!Slots : s # n => accounts'[s] = accounts[s]
  BY <1>1, <1>2
<1>4. People!Taken' = People!Taken \cup {n}
  BY <1>1, <1>3 DEF People!Taken
<1>5. People!TypeOK'
  BY <1>1, <1>2 DEF People!TypeOK, AccountsInv
<1>6. \A s \in People!Taken : s \in People!Slots /\ s # n /\ accounts'[s] = accounts[s]
  BY <1>1, <1>3 DEF People!Taken
<1>7. AccountsNumbered'
  <2>1. rec.phone \in LoginPhones => \A s \in People!Taken : accounts[s].phone # rec.phone
    BY DEF People!WithPhone
  <2> QED
    BY <1>3, <1>4, <1>6, <2>1 DEF AccountsNumbered, AccountsInv
<1>8. \A s \in People!Slots : Plain(s)' => Plain(s)
  BY DEF Plain
<1>9. Plain(n)' =>
          /\ ~rec.email.capitals
          /\ rec.email # People!NoAddress =>
                \A s \in People!Taken : accounts[s].email # rec.email
  BY <1>1 DEF Plain, People!WithEmail
<1>10. AccountsAddressed'
  <2>1. \A s \in People!Slots : Plain(s)' => ~accounts'[s].email.capitals
    BY <1>3, <1>8, <1>9 DEF AccountsAddressed, AccountsInv
  <2>2. ASSUME NEW s \in People!Taken', NEW t \in People!Taken', s # t, Plain(s)', Plain(t)',
               accounts'[s].email # People!NoAddress
        PROVE  accounts'[s].email # accounts'[t].email
    <3>1. CASE s = n
      BY <1>3, <1>4, <1>6, <1>9, <2>2, <3>1
    <3>2. CASE t = n
      BY <1>3, <1>4, <1>6, <1>9, <2>2, <3>2
    <3>3. CASE s # n /\ t # n
      BY <1>4, <1>6, <1>8, <2>2, <3>3 DEF AccountsAddressed, AccountsInv
    <3> QED
      BY <3>1, <3>2, <3>3
  <2> QED
    BY <2>1, <2>2 DEF AccountsAddressed, Plain
<1> QED
  BY <1>5, <1>7, <1>10

(* A row that is found as it is.                                           *)
LEMMA AccountsKeep ==
    ASSUME AccountsInv, UNCHANGED <<accounts, renamed, social>>, found'.account \in People!Row
    PROVE  People!TypeOK' /\ AccountsNumbered' /\ AccountsAddressed'
BY DEF AccountsInv, People!TypeOK, AccountsNumbered, AccountsAddressed, Plain, People!Taken

(* What a new row is.                                                      *)
LEMMA AccountsNew ==
    /\ \A e \in People!Written : [People!None EXCEPT !.email = e] \in People!Row
    /\ \A p \in LoginPhones : [People!None EXCEPT !.phone = p] \in People!Row
    /\ \A e \in People!Written, p \in LoginPhones \cup {People!Empty} :
          [People!None EXCEPT !.email = e, !.phone = p] \in People!Row
    /\ \A e \in People!Written, id \in LoginProfiles :
          [People!None EXCEPT !.email = e, !.profile = id] \in People!Row
BY DEF People!None, People!Row

LEMMA AccountsFields ==
    ASSUME NEW e, NEW p, NEW id
    PROVE  /\ LET rec == [People!None EXCEPT !.email = e] IN
              rec.email = e /\ rec.phone = People!Null
           /\ LET rec == [People!None EXCEPT !.phone = p] IN
              rec.email = People!NoAddress /\ rec.phone = p
           /\ LET rec == [People!None EXCEPT !.email = e, !.phone = p] IN
              rec.email = e /\ rec.phone = p
           /\ LET rec == [People!None EXCEPT !.email = e, !.profile = id] IN
              rec.email = e /\ rec.phone = People!Null
BY DEF People!None

(* What is given is not null, and what is in lower case stays so.          *)
LEMMA AccountsGiven ==
    /\ People!None.email = People!NoAddress /\ People!None.phone = People!Null
    /\ ~People!NoAddress.capitals
    /\ People!Lower(People!NoAddress).address = People!Null
    /\ People!Null \notin LoginPhones \cup {People!Empty}
    /\ People!Null \notin LoginAddresses
BY AccountsAssumption
   DEF People!None, People!NoAddress, People!Null, People!Empty, People!Lower

LEMMA AccountsWritten ==
    ASSUME NEW e \in People!Written
    PROVE  /\ e.address \in LoginAddresses /\ e # People!NoAddress
           /\ People!Lower(e) \in People!Written /\ ~People!Lower(e).capitals
           /\ People!Lower(e).address = e.address
           /\ ~e.capitals => People!Lower(e) = e
<1>1. e.address \in LoginAddresses /\ e # People!NoAddress
  BY AccountsAssumption DEF People!Written, People!NoAddress, People!Null
<1>2. People!Lower(e) \in People!Written /\ People!Lower(e).address = e.address
  BY DEF People!Written, People!Lower
<1>3. ~People!Lower(e).capitals
  BY DEF People!Written, People!Lower
<1>4. \A f, g \in People!Written :
          f.address = g.address /\ (f.capitals <=> g.capitals) => f = g
  BY DEF People!Written
<1> QED
  BY <1>1, <1>2, <1>3, <1>4

LEMMA AccountsLogin ==
    ASSUME AccountsInv,
           \/ \E e \in People!Written : People!LoginByEmail(e)
           \/ \E p \in LoginPhones : People!LoginByPhone(p)
    PROVE  AccountsInv'
<1>0. accounts \in [People!Slots -> People!Row] /\ People!Taken \subseteq People!Slots
  BY DEF AccountsInv, People!TypeOK, People!Taken
<1>1. ASSUME NEW e \in People!Written, People!LoginByEmail(e) PROVE AccountsInv'
  <2> DEFINE name == People!Lower(e)
             rec == [People!None EXCEPT !.email = name]
  <2>1. UNCHANGED <<renamed, social>>
    BY <1>1 DEF People!LoginByEmail
  <2>4. e # People!NoAddress /\ People!Lower(name) = name
    BY AccountsWritten
  <2>2. CASE People!WithEmail(name) # {}
    <3>1. PICK s \in People!WithEmail(name) :
              found' = [account |-> accounts[s], email |-> e, phone |-> People!Null]
      BY <1>1, <2>2 DEF People!LoginByEmail, People!Returns
    <3>2. UNCHANGED accounts /\ accounts[s] \in People!Row /\ accounts[s].email = name
      BY <1>0, <1>1, <2>2, <3>1 DEF People!LoginByEmail, People!WithEmail
    <3>3. AccountsFound'
      BY <3>1, <3>2, <2>4 DEF AccountsFound
    <3> QED
      BY <2>1, <3>1, <3>2, <3>3, AccountsKeep DEF AccountsInv
  <2>3. CASE People!WithEmail(name) = {}
    <3>1. People!Create(rec) /\ found' = [account |-> rec, email |-> e, phone |-> People!Null]
      BY <1>1, <2>3 DEF People!LoginByEmail, People!Returns
    <3>2. rec.email = name /\ rec.phone = People!Null
      BY AccountsFields
    <3>3. /\ name \in People!Written /\ ~name.capitals /\ People!Lower(name) = name
          /\ name # People!NoAddress /\ e # People!NoAddress
      BY AccountsWritten
    <3>4. rec \in People!Row /\ rec # People!None
      BY <3>2, <3>3, AccountsNew, AccountsGiven
    <3> HIDE DEF name, rec
    <3>5. AccountsFound'
      BY <3>1, <3>2, <3>3 DEF AccountsFound, name
    <3>6. People!TypeOK' /\ AccountsNumbered' /\ AccountsAddressed'
      BY <2>1, <2>3, <3>1, <3>2, <3>3, <3>4, AccountsAdd, AccountsGiven
    <3> QED
      BY <3>5, <3>6 DEF AccountsInv
  <2> QED
    BY <2>2, <2>3
<1>2. ASSUME NEW p \in LoginPhones, People!LoginByPhone(p) PROVE AccountsInv'
  <2> DEFINE rec == [People!None EXCEPT !.phone = p]
  <2>1. UNCHANGED <<renamed, social>> /\ p # People!Null
    BY <1>2, AccountsGiven DEF People!LoginByPhone
  <2>2. CASE People!WithPhone(p) # {}
    <3>1. PICK s \in People!WithPhone(p) :
              found' = [account |-> accounts[s], email |-> People!NoAddress, phone |-> p]
      BY <1>2, <2>2 DEF People!LoginByPhone, People!Returns
    <3>2. UNCHANGED accounts /\ accounts[s] \in People!Row /\ accounts[s].phone = p
      BY <1>0, <1>2, <2>2, <3>1 DEF People!LoginByPhone, People!WithPhone
    <3>3. AccountsFound'
      BY <2>1, <3>1, <3>2 DEF AccountsFound
    <3> QED
      BY <2>1, <3>1, <3>2, <3>3, AccountsKeep DEF AccountsInv
  <2>3. CASE People!WithPhone(p) = {}
    <3>1. People!Create(rec)
          /\ found' = [account |-> rec, email |-> People!NoAddress, phone |-> p]
      BY <1>2, <2>3 DEF People!LoginByPhone, People!Returns
    <3>2. rec.email = People!NoAddress /\ rec.phone = p
      BY AccountsFields
    <3>3. rec \in People!Row /\ rec # People!None
      BY <2>1, <3>2, AccountsNew, AccountsGiven
    <3> HIDE DEF rec
    <3>4. AccountsFound'
      BY <2>1, <3>1, <3>2 DEF AccountsFound
    <3>5. People!TypeOK' /\ AccountsNumbered' /\ AccountsAddressed'
      BY <2>1, <2>3, <3>1, <3>2, <3>3, AccountsAdd, AccountsGiven
    <3> QED
      BY <3>4, <3>5 DEF AccountsInv
  <2> QED
    BY <2>2, <2>3
<1> QED
  BY <1>1, <1>2

LEMMA AccountsGuest ==
    ASSUME AccountsInv, NEW e \in People!Written, NEW p \in LoginPhones \cup {People!Empty},
           People!Guest(e, p)
    PROVE  AccountsInv'
<1> DEFINE name == People!Lower(e)
           rec == [People!None EXCEPT !.email = name, !.phone = p]
           some == IF People!WithPhone(p) # {} THEN People!WithPhone(p)
                   ELSE People!WithEmail(name)
<1>1. UNCHANGED <<renamed, social>> /\ p # People!Null
  BY AccountsGiven DEF People!Guest
<1>2. /\ name \in People!Written /\ ~name.capitals /\ People!Lower(name) = name
      /\ name # People!NoAddress /\ e # People!NoAddress
  BY AccountsWritten
<1>3. CASE some # {}
  <2>1. PICK s \in some : found' = [account |-> accounts[s], email |-> e, phone |-> p]
    BY <1>3 DEF People!Guest, People!GuestEmail, People!Returns
  <2>2. s \in People!Slots /\ (accounts[s].phone = p \/ accounts[s].email = name)
    BY <2>1 DEF People!WithPhone, People!WithEmail, People!Taken
  <2>3. UNCHANGED accounts /\ accounts[s] \in People!Row
    BY <1>3, <2>2 DEF People!Guest, People!GuestEmail, AccountsInv, People!TypeOK
  <2>4. AccountsFound'
    BY <1>1, <1>2, <2>1, <2>2 DEF AccountsFound
  <2> QED
    BY <1>1, <2>1, <2>3, <2>4, AccountsKeep DEF AccountsInv
<1>4. CASE some = {}
  <2>1. People!Create(rec) /\ found' = [account |-> rec, email |-> e, phone |-> p]
    BY <1>4 DEF People!Guest, People!GuestEmail, People!Returns
  <2>2. rec.email = name /\ rec.phone = p
    BY AccountsFields
  <2>3. People!WithPhone(p) = {} /\ People!WithEmail(name) = {}
    BY <1>4
  <2>4. rec \in People!Row /\ rec # People!None
    BY <1>2, <2>2, AccountsNew, AccountsGiven
  <2> HIDE DEF name, rec
  <2>5. AccountsFound'
    BY <1>1, <2>1, <2>2 DEF AccountsFound
  <2>6. People!TypeOK' /\ AccountsNumbered' /\ AccountsAddressed'
    BY <1>1, <1>2, <2>1, <2>2, <2>3, <2>4, AccountsAdd
  <2> QED
    BY <2>5, <2>6 DEF AccountsInv
<1> QED
  BY <1>3, <1>4

LEMMA AccountsSocial ==
    ASSUME AccountsInv, NEW e \in People!Written, NEW id \in LoginProfiles,
           People!LoginWithSocial(e, id)
    PROVE  AccountsInv'
<1> DEFINE both == {s \in People!WithEmail(e) : accounts[s].profile = id}
           any == IF both # {} THEN both ELSE People!WithEmail(e)
<1>1. UNCHANGED renamed /\ People!UpsertSocial(e, id)
  BY DEF People!LoginWithSocial
<1>2. e # People!NoAddress
  BY AccountsWritten
<1>3. CASE any # {}
  <2>1. PICK s \in any :
            LET rec == [accounts[s] EXCEPT !.profile =
                           IF @ = People!Null THEN id ELSE @] IN
            /\ accounts' = [accounts EXCEPT ![s] = rec]
            /\ found' = [account |-> rec, email |-> e, phone |-> People!Null]
    BY <1>1, <1>3 DEF People!UpsertSocial, People!Returns
  <2> DEFINE rec == [accounts[s] EXCEPT !.profile =
                        IF accounts[s].profile = People!Null THEN id ELSE accounts[s].profile]
  <2>2. s \in People!Slots /\ s \in People!Taken /\ accounts[s].email = e /\ UNCHANGED social
    BY <1>1, <1>3, <2>1 DEF People!UpsertSocial, People!WithEmail, People!Taken
  <2>3. accounts \in [People!Slots -> People!Row] /\ accounts[s] \in People!Row
    BY <2>2 DEF AccountsInv, People!TypeOK
  <2>4. rec \in People!Row /\ rec.email = e /\ rec.phone = accounts[s].phone
    BY <2>2, <2>3 DEF People!Row
  <2>5. /\ accounts' = [accounts EXCEPT ![s] = rec]
        /\ found' = [account |-> rec, email |-> e, phone |-> People!Null]
    BY <2>1
  <2> HIDE DEF rec
  <2>6. People!TypeOK'
    BY <1>1, <2>2, <2>3, <2>4, <2>5 DEF AccountsInv, People!TypeOK
  <2>7. \A t \in People!Slots : accounts'[t].email = accounts[t].email
                                /\ accounts'[t].phone = accounts[t].phone
    BY <2>2, <2>3, <2>4, <2>5
  <2>8. People!Taken' = People!Taken
    <3>1. rec # People!None
      BY <1>2, <2>4, AccountsGiven
    <3> QED
      BY <2>2, <2>3, <2>5, <3>1 DEF People!Taken
  <2>9. AccountsFound'
    BY <1>2, <2>4, <2>5 DEF AccountsFound
  <2>10. AccountsNumbered' /\ AccountsAddressed'
    BY <1>1, <2>2, <2>7, <2>8
       DEF AccountsInv, AccountsNumbered, AccountsAddressed, Plain, People!Taken
  <2> QED
    BY <2>6, <2>9, <2>10 DEF AccountsInv
<1>4. CASE any = {}
  <2> DEFINE rec == [People!None EXCEPT !.email = e, !.profile = id]
  <2>1. /\ People!Create(rec) /\ found' = [account |-> rec, email |-> e, phone |-> People!Null]
        /\ social' = social \cup {People!Next0}
    BY <1>1, <1>4 DEF People!UpsertSocial, People!Returns
  <2>2. rec.email = e /\ rec.phone = People!Null
    BY AccountsFields
  <2>3. rec \in People!Row /\ rec # People!None
    BY <1>2, <2>2, AccountsNew, AccountsGiven
  <2> HIDE DEF rec
  <2>4. AccountsFound'
    BY <1>2, <2>1, <2>2 DEF AccountsFound
  <2>5. People!TypeOK' /\ AccountsNumbered' /\ AccountsAddressed'
    BY <1>1, <2>1, <2>2, <2>3, AccountsAdd, AccountsGiven
  <2> QED
    BY <2>4, <2>5 DEF AccountsInv
<1> QED
  BY <1>3, <1>4

LEMMA AccountsProfile ==
    ASSUME AccountsInv, NEW s \in People!Slots, NEW e \in People!Written,
           People!UpdateProfile(s, e)
    PROVE  AccountsInv'
<1> DEFINE rec == [accounts[s] EXCEPT !.email = e]
<1>1. /\ s \in People!Taken /\ UNCHANGED <<found, social>> /\ renamed' = renamed \cup {s}
      /\ accounts' = [accounts EXCEPT ![s] = rec]
  BY DEF People!UpdateProfile
<1>2. accounts \in [People!Slots -> People!Row] /\ accounts[s] \in People!Row
  BY DEF AccountsInv, People!TypeOK
<1>3. rec \in People!Row /\ rec.phone = accounts[s].phone /\ rec.email = e
  BY <1>2 DEF People!Row
<1> HIDE DEF rec
<1>4. People!TypeOK' /\ AccountsFound'
  BY <1>1, <1>2, <1>3 DEF AccountsInv, People!TypeOK, AccountsFound
<1>5. \A t \in People!Slots : /\ accounts'[t].phone = accounts[t].phone
                              /\ t # s => accounts'[t] = accounts[t]
  BY <1>1, <1>2, <1>3
<1>6. People!Taken' \subseteq People!Taken
  BY <1>1, <1>5 DEF People!Taken
<1>7. AccountsNumbered'
  BY <1>5, <1>6 DEF AccountsInv, AccountsNumbered, People!Taken
<1>8. \A t \in People!Slots : Plain(t)' => Plain(t) /\ t # s
  BY <1>1 DEF Plain
<1>9. AccountsAddressed'
  <2>1. \A t \in People!Slots : Plain(t)' => ~accounts'[t].email.capitals
    BY <1>5, <1>8 DEF AccountsInv, AccountsAddressed
  <2>2. \A t, u \in People!Taken : t # u /\ Plain(t)' /\ Plain(u)' =>
            (accounts'[t].email # People!NoAddress => accounts'[t].email # accounts'[u].email)
    BY <1>5, <1>8 DEF AccountsInv, AccountsAddressed, People!Taken
  <2> QED
    BY <1>6, <2>1, <2>2 DEF AccountsAddressed, Plain
<1> QED
  BY <1>4, <1>7, <1>9 DEF AccountsInv

(* A sign-in, a guest's request and the profile page keep addresses and    *)
(* numbers single, as far as each looks for them first (user.service.ts    *)
(* 43-331, auth.resolver.ts 107-196).                                      *)
THEOREM AccountsInvariant == People!Spec => []AccountsInv
<1>1. People!Init => AccountsInv
  BY AccountsInitially
<1>2. AccountsInv /\ [People!Next]_(People!vars) => AccountsInv'
  <2> SUFFICES ASSUME AccountsInv, [People!Next]_(People!vars) PROVE AccountsInv'
    OBVIOUS
  <2>1. CASE People!Next
    BY <2>1, AccountsLogin, AccountsGuest, AccountsSocial, AccountsProfile
       DEF People!Next, People!GoogleCallback, People!FacebookCallback
  <2>2. CASE UNCHANGED People!vars
    BY <2>2
       DEF People!vars, AccountsInv, People!TypeOK, AccountsFound, AccountsNumbered,
           AccountsAddressed, Plain, People!Taken
  <2> QED
    BY <2>1, <2>2
<1> QED
  BY <1>1, <1>2, PTL DEF People!Spec

LEMMA AccountsImply == AccountsInv => People!AccountsHold
<1> SUFFICES ASSUME AccountsInv PROVE People!AccountsHold
  OBVIOUS
<1> USE DEF AccountsInv
<1>1. ASSUME NEW s \in People!Taken, NEW t \in People!Taken, s # t, Plain(s), Plain(t),
             accounts[s].email # People!NoAddress
      PROVE  People!Lower(accounts[s].email) # People!Lower(accounts[t].email)
  <2>1. /\ accounts[s].email # accounts[t].email
        /\ ~accounts[s].email.capitals /\ ~accounts[t].email.capitals
    BY <1>1 DEF AccountsAddressed, People!Taken
  <2>2. \A x \in {s, t} : accounts[x].email \in People!Written \cup {People!NoAddress}
    BY DEF People!TypeOK, People!Row, People!Taken
  <2>3. \A x \in {s, t} : accounts[x].email \in People!Written =>
            /\ People!Lower(accounts[x].email) = accounts[x].email
            /\ People!Lower(accounts[x].email).address # People!Null
    BY <2>1, AccountsWritten, AccountsGiven
  <2> QED
    BY <1>1, <2>1, <2>2, <2>3, AccountsGiven
<1> QED
  BY <1>1 DEF People!AccountsHold, AccountsFound, AccountsNumbered, Plain

(* A password, an account and a session have one taker each, but for those *)
(* who met on the way, and the account a caller gets is his own            *)
(* (auth/auth.service.ts, auth/users/user.service.ts): the run's property. *)
THEOREM SignInsAndAccountsAreSingle == ServicesSpec => []SignInsAreSingle
<1>1. SignInsInv /\ AccountsInv => SignInsAreSingle
  BY SignInsImply, AccountsImply DEF SignInsAreSingle
<1> QED
  BY <1>1, SignInsFollow, SignInsInvariant, AccountsFollow, AccountsInvariant, PTL

-----------------------------------------------------------------------------
(* Orders                                                                  *)

LEMMA OrdersFollow == ServicesSpec => PickUps!Spec
<1>1. ServicesInit => PickUps!Init
  BY DEF ServicesInit
<1>2. [ServicesNext]_servicesVars => [PickUps!Next]_(PickUps!orderVars)
  BY DEF ServicesNext, servicesVars, pickUpVars, PickUps!orderVars, PickUps!money
<1> QED
  BY <1>1, <1>2, PTL DEF ServicesSpec, PickUps!Spec

OrderPayers == PickOrderPays \cup PickBookingPays

OrdersTyped ==
    /\ order \in [PickOrders -> PickUps!OrderStatus \cup {"NONE"}]
    /\ courier \in [PickOrders -> PickUps!CourierStatus \cup {"none"}]
    /\ oBooked \subseteq OrderPayers
    /\ returned \in [OrderPayers -> Nat]
    /\ oPc \in [PickOrders \cup OrderPayers \cup PickCancels ->
                    {"idle", "placed", "undoing", "opened", "charged", "refunding", "checked",
                     "asking", "calledOff", "closing", "active", "cancelled", "completed",
                     "done", "failed", "cut"}]
    /\ of \in [OrderPayers \cup PickCancels -> PickOrders \cup {NoOrder}]

(* An order that has no row yet is nobody's: a request names an order it   *)
(* has found, and keeps to it.                                             *)
OrdersNamed ==
    /\ \A o \in PickOrders :
          /\ oPc[o] \in {"idle", "placed"} => order[o] = "NONE"
          /\ oPc[o] = "idle" <=> courier[o] = "none"
          /\ order[o] = "NONE" => \A r \in OrderPayers \cup PickCancels : of[r] # o
    /\ \A p \in oBooked : oPc[p] # "idle"
    /\ \A c \in PickCancels : oPc[c] = "idle" <=> of[c] = NoOrder

(* A payment confirms its order and nothing makes it PENDING again.        *)
OrdersPaid ==
    \A o \in PickOrders :
        /\ order[o] = "CONFIRMED" => \E p \in oBooked : of[p] = o
        /\ order[o] = "PENDING" => \A p \in oBooked : of[p] # o

(* The courier calls an order off once: one request at most is between     *)
(* that and the refund, and before it no payment was given back.           *)
OrdersCalledOff ==
    /\ \A c, d \in PickCancels :
          oPc[c] = "calledOff" /\ oPc[d] = "calledOff" /\ of[c] = of[d] => c = d
    /\ \A c \in PickCancels : oPc[c] = "calledOff" => courier[of[c]] = "cancelled"
    /\ \A p \in OrderPayers : returned[p] > 0 =>
          /\ p \in oBooked /\ of[p] # NoOrder /\ courier[of[p]] = "cancelled"
          /\ returned[p] = 1
          /\ \A c \in PickCancels : of[c] = of[p] => oPc[c] # "calledOff"

OrdersInv == OrdersTyped /\ OrdersNamed /\ OrdersPaid /\ OrdersCalledOff

LEMMA OrdersInitially == PickUps!Init => OrdersInv
BY OrdersAssumption
   DEF PickUps!Init, PickUps!Payers, PickUps!Requests, OrderPayers, OrdersInv, OrdersTyped,
       OrdersNamed, OrdersPaid, OrdersCalledOff

OrderSteps ==
    {"idle", "placed", "undoing", "opened", "charged", "refunding", "checked", "asking",
     "calledOff", "closing", "active", "cancelled", "completed", "done", "failed", "cut"}

(* A step of a request leaves the others where they are.                   *)
LEMMA OthersStay ==
    ASSUME OrdersTyped, NEW r \in PickOrders \cup OrderPayers \cup PickCancels,
           NEW l \in OrderSteps, oPc' = [oPc EXCEPT ![r] = l]
    PROVE  /\ oPc' \in [PickOrders \cup OrderPayers \cup PickCancels -> OrderSteps]
           /\ oPc'[r] = l
           /\ \A q \in PickOrders \cup OrderPayers \cup PickCancels : q # r => oPc'[q] = oPc[q]
BY DEF OrdersTyped, OrderSteps

(* The order is placed, written, or given up.                              *)
LEMMA OrdersPlaced ==
    ASSUME OrdersInv, NEW o \in PickOrders,
           \/ PickUps!PlaceOrder(o) \/ PickUps!CreateCommit(o) \/ PickUps!CreateFails(o)
           \/ PickUps!UndoPlace(o)
    PROVE  OrdersInv'
<1> USE DEF OrdersInv
<1>1. PICK l \in OrderSteps :
          /\ oPc' = [oPc EXCEPT ![o] = l]
          /\ UNCHANGED <<oBooked, returned, of>>
          /\ \/ /\ oPc[o] = "idle" /\ l \in {"placed", "failed"}
                /\ courier' = [courier EXCEPT ![o] = "pending"] /\ UNCHANGED order
             \/ /\ oPc[o] = "placed" /\ l = "done"
                /\ order' = [order EXCEPT ![o] = "PENDING"] /\ UNCHANGED courier
             \/ /\ oPc[o] \in {"placed", "undoing"} /\ l \in {"undoing", "failed"}
                /\ courier' \in {courier, [courier EXCEPT ![o] = "cancelled"]}
                /\ UNCHANGED order
  <2> USE DEF OrderSteps, PickUps!Goto, PickUps!SetOrder, PickUps!SetCourier, PickUps!money
  <2>1. CASE PickUps!PlaceOrder(o)
    BY <2>1 DEF PickUps!PlaceOrder
  <2>2. CASE PickUps!CreateCommit(o)
    BY <2>2 DEF PickUps!CreateCommit
  <2>3. CASE PickUps!CreateFails(o)
    BY <2>3 DEF PickUps!CreateFails
  <2>4. CASE PickUps!UndoPlace(o)
    BY <2>4 DEF PickUps!UndoPlace
  <2> QED
    BY <2>1, <2>2, <2>3, <2>4
<1>2. /\ oPc' \in [PickOrders \cup OrderPayers \cup PickCancels -> OrderSteps]
      /\ oPc'[o] = l
      /\ \A q \in PickOrders \cup OrderPayers \cup PickCancels : q # o => oPc'[q] = oPc[q]
  BY <1>1, OthersStay
<1>3. \A q \in OrderPayers \cup PickCancels : q # o /\ oPc'[q] = oPc[q]
  BY <1>2, OrdersAssumption DEF OrderPayers
<1>4. OrdersTyped'
  BY <1>1, <1>2 DEF OrdersTyped, OrderSteps, PickUps!OrderStatus, PickUps!CourierStatus
<1>5. OrdersNamed'
  BY <1>1, <1>2, <1>3 DEF OrdersTyped, OrdersNamed
<1>6. OrdersPaid'
  BY <1>1 DEF OrdersTyped, OrdersNamed, OrdersPaid
<1>7. \A c \in PickCancels : oPc[c] = "calledOff" => of[c] \in PickOrders
  BY DEF OrdersTyped, OrdersNamed
<1>8. \A x \in PickOrders : courier[x] = "cancelled" => courier'[x] = "cancelled"
  BY <1>1 DEF OrdersTyped, OrdersNamed
<1>9. OrdersCalledOff'
  BY <1>1, <1>3, <1>7, <1>8 DEF OrdersTyped, OrdersCalledOff
<1> QED
  BY <1>4, <1>5, <1>6, <1>9

(* The jobs and the courier.                                               *)
LEMMA OrdersElsewhere ==
    ASSUME OrdersInv,
           \/ PickUps!JobCancelsBooking
           \/ \E o \in PickOrders : PickUps!JobCancelsOrder(o) \/ PickUps!CourierMoves(o)
    PROVE  OrdersInv'
<1> USE DEF OrdersInv
<1>1. CASE PickUps!JobCancelsBooking
  BY <1>1
     DEF PickUps!JobCancelsBooking, PickUps!money, OrdersTyped, OrdersNamed, OrdersPaid,
         OrdersCalledOff
<1>2. ASSUME NEW o \in PickOrders, PickUps!JobCancelsOrder(o)
      PROVE  OrdersInv'
  <2>1. /\ order[o] = "PENDING" /\ order' = [order EXCEPT ![o] = "CANCELLED"]
        /\ UNCHANGED <<courier, oBooked, returned, oPc, of>>
    BY <1>2 DEF PickUps!JobCancelsOrder, PickUps!SetOrder, PickUps!money
  <2>2. OrdersTyped' /\ OrdersNamed' /\ OrdersPaid'
    BY <2>1 DEF OrdersTyped, OrdersNamed, OrdersPaid, PickUps!OrderStatus
  <2>3. OrdersCalledOff'
    BY <2>1 DEF OrdersCalledOff
  <2> QED
    BY <2>2, <2>3
<1>3. ASSUME NEW o \in PickOrders, PickUps!CourierMoves(o)
      PROVE  OrdersInv'
  <2>1. /\ courier[o] \in {"pending", "active"}
        /\ \E s \in {"active", "completed"} : courier' = [courier EXCEPT ![o] = s]
        /\ UNCHANGED <<order, oBooked, returned, oPc, of>>
    BY <1>3 DEF PickUps!CourierMoves, PickUps!SetCourier, PickUps!money
  <2>2. OrdersTyped' /\ OrdersNamed' /\ OrdersPaid'
    BY <2>1 DEF OrdersTyped, OrdersNamed, OrdersPaid, PickUps!CourierStatus
  <2>3. \A x \in PickOrders : courier[x] = "cancelled" => courier'[x] = "cancelled"
    BY <2>1 DEF OrdersTyped
  <2>4. \A c \in PickCancels : oPc[c] = "calledOff" => of[c] \in PickOrders
    BY DEF OrdersTyped, OrdersNamed
  <2>5. OrdersCalledOff'
    BY <2>1, <2>3, <2>4 DEF OrdersTyped, OrdersCalledOff
  <2> QED
    BY <2>2, <2>5
<1> QED
  BY <1>1, <1>2, <1>3

(* A payment names its order once, and confirms it when it is booked.      *)
LEMMA OrdersPayments ==
    ASSUME OrdersInv, NEW p \in OrderPayers,
           \/ \E o \in PickOrders : PickUps!PayOrder(p, o)
           \/ PickUps!PayBooking(p) \/ PickUps!PayDeclined(p) \/ PickUps!PayCharge(p)
           \/ PickUps!PayCommit(p) \/ PickUps!PayFails(p) \/ PickUps!PayRefund(p)
    PROVE  OrdersInv'
<1> USE DEF OrdersInv
<1>1. PICK l \in OrderSteps \ {"idle"} :
          /\ oPc' = [oPc EXCEPT ![p] = l]
          /\ UNCHANGED <<courier, returned>>
          /\ \/ /\ oPc[p] = "idle"
                /\ \E o \in PickOrders \cup {NoOrder} :
                      of' = [of EXCEPT ![p] = o] /\ (o # NoOrder => order[o] # "NONE")
                /\ UNCHANGED <<order, oBooked>>
             \/ oPc[p] # "idle" /\ UNCHANGED <<order, oBooked, of>>
             \/ /\ oPc[p] # "idle" /\ oBooked' = oBooked \cup {p} /\ UNCHANGED of
                /\ order' = IF of[p] = NoOrder THEN order ELSE [order EXCEPT ![of[p]] = "CONFIRMED"]
  <2> USE DEF OrderSteps, PickUps!Goto, PickUps!SetOrder, PickUps!money
  <2>1. ASSUME NEW o \in PickOrders, PickUps!PayOrder(p, o)
        PROVE  /\ oPc' = [oPc EXCEPT ![p] = "opened"] /\ oPc[p] = "idle"
               /\ of' = [of EXCEPT ![p] = o] /\ order[o] # "NONE"
               /\ UNCHANGED <<courier, returned, order, oBooked>>
    BY <2>1 DEF PickUps!PayOrder
  <2>2. CASE PickUps!PayBooking(p)
    BY <2>2 DEF PickUps!PayBooking
  <2>3. CASE PickUps!PayDeclined(p)
    BY <2>3 DEF PickUps!PayDeclined
  <2>4. CASE PickUps!PayCharge(p)
    BY <2>4 DEF PickUps!PayCharge
  <2>5. CASE PickUps!PayCommit(p)
    BY <2>5 DEF PickUps!PayCommit
  <2>6. CASE PickUps!PayFails(p)
    BY <2>6 DEF PickUps!PayFails
  <2>7. CASE PickUps!PayRefund(p)
    BY <2>7 DEF PickUps!PayRefund
  <2> QED
    BY <2>1, <2>2, <2>3, <2>4, <2>5, <2>6, <2>7
<1>2. /\ oPc' \in [PickOrders \cup OrderPayers \cup PickCancels -> OrderSteps]
      /\ oPc'[p] = l
      /\ \A q \in PickOrders \cup OrderPayers \cup PickCancels : q # p => oPc'[q] = oPc[q]
  BY <1>1, OthersStay
<1>3. \A q \in PickOrders \cup PickCancels : q # p /\ oPc'[q] = oPc[q]
  BY <1>2, OrdersAssumption DEF OrderPayers
<1>4. \A q \in OrderPayers \cup PickCancels :
          \/ of'[q] = of[q]
          \/ q = p /\ p \notin oBooked /\ oBooked' = oBooked
                /\ (of'[p] # NoOrder => of'[p] \in PickOrders /\ order[of'[p]] # "NONE")
  BY <1>1 DEF OrdersTyped, OrdersNamed
<1>5. OrdersTyped'
  BY <1>1, <1>2 DEF OrdersTyped, OrderSteps, PickUps!OrderStatus
<1>6. \A o \in PickOrders : order[o] = "NONE" <=> order'[o] = "NONE"
  BY <1>1 DEF OrdersTyped, OrdersNamed, PickUps!OrderStatus
<1>7. OrdersNamed'
  <2>1. \A o \in PickOrders :
            order'[o] = "NONE" => \A r \in OrderPayers \cup PickCancels : of'[r] # o
    BY <1>4, <1>6, OrdersAssumption DEF OrdersNamed
  <2>2. \A q \in oBooked' : oPc'[q] # "idle"
    BY <1>1, <1>2 DEF OrdersTyped, OrdersNamed
  <2>3. \A c \in PickCancels : of'[c] = of[c]
    BY <1>3, <1>4
  <2> QED
    BY <1>1, <1>3, <1>6, <2>1, <2>2, <2>3 DEF OrdersNamed
<1>8. OrdersPaid'
  <2> SUFFICES ASSUME NEW o \in PickOrders
               PROVE  /\ order'[o] = "CONFIRMED" => \E q \in oBooked' : of'[q] = o
                      /\ order'[o] = "PENDING" => \A q \in oBooked' : of'[q] # o
    BY DEF OrdersPaid
  <2>1. \A q \in oBooked : of'[q] = of[q]
    BY <1>4 DEF OrdersTyped
  <2>2. CASE UNCHANGED <<order, oBooked>>
    BY <2>1, <2>2 DEF OrdersPaid
  <2>3. CASE /\ oBooked' = oBooked \cup {p} /\ UNCHANGED of
             /\ order' = IF of[p] = NoOrder THEN order ELSE [order EXCEPT ![of[p]] = "CONFIRMED"]
    <3>1. CASE of[p] = o
      BY <2>3, <3>1, OrdersAssumption DEF OrdersTyped
    <3>2. CASE of[p] # o
      BY <2>3, <3>2 DEF OrdersTyped, OrdersPaid
    <3> QED
      BY <3>1, <3>2
  <2> QED
    BY <1>1, <2>2, <2>3
<1>9. OrdersCalledOff'
  <2>1. \A c \in PickCancels : of'[c] = of[c] /\ oPc'[c] = oPc[c]
    BY <1>3, <1>4
  <2>2. \A q \in OrderPayers : returned[q] > 0 => q \in oBooked' /\ of'[q] = of[q]
    BY <1>1, <1>4 DEF OrdersCalledOff
  <2> QED
    BY <1>1, <2>1, <2>2 DEF OrdersCalledOff
<1> QED
  BY <1>5, <1>7, <1>8, <1>9

(* A cancellation up to the courier's answer.                              *)
LEMMA OrdersAsked ==
    ASSUME OrdersInv, NEW c \in PickCancels,
           \/ \E o \in PickOrders : PickUps!CancelOrder(c, o)
           \/ PickUps!AskCourier(c) \/ PickUps!TakeOver(c) \/ PickUps!CancelCommit(c)
    PROVE  OrdersInv'
<1> USE DEF OrdersInv
<1>1. PICK l \in OrderSteps \ {"idle", "calledOff"} :
          /\ oPc' = [oPc EXCEPT ![c] = l]
          /\ UNCHANGED <<courier, returned, oBooked>>
          /\ \/ /\ oPc[c] = "idle"
                /\ \E o \in PickOrders : of' = [of EXCEPT ![c] = o] /\ order[o] # "NONE"
                /\ UNCHANGED order
             \/ /\ oPc[c] # "idle" /\ UNCHANGED of
                /\ \/ UNCHANGED order
                   \/ \E s \in {"ACTIVE", "CANCELLED", "COMPLETED"} :
                         order' = [order EXCEPT ![of[c]] = s]
  <2> USE DEF OrderSteps, PickUps!Goto, PickUps!SetOrder, PickUps!money
  <2>1. ASSUME NEW o \in PickOrders, PickUps!CancelOrder(c, o)
        PROVE  /\ oPc' = [oPc EXCEPT ![c] = "checked"] /\ oPc[c] = "idle"
               /\ of' = [of EXCEPT ![c] = o] /\ order[o] # "NONE"
               /\ UNCHANGED <<courier, returned, order, oBooked>>
    BY <2>1 DEF PickUps!CancelOrder
  <2>2. CASE PickUps!AskCourier(c)
    <3>1. of[c] \in PickOrders /\ oPc[c] = "checked" /\ order[of[c]] # "NONE"
      BY <2>2 DEF PickUps!AskCourier, OrdersTyped, OrdersNamed
    <3>2. oPc[of[c]] # "idle"
      BY <3>1 DEF OrdersTyped, OrdersNamed
    <3>3. courier[of[c]] \in PickUps!CourierStatus \cup {"none"}
      BY <3>1 DEF OrdersTyped
    <3>4. courier[of[c]] = "none" => FALSE
      BY <3>1, <3>2 DEF OrdersNamed
    <3> QED
      BY <2>2, <3>1, <3>3, <3>4 DEF PickUps!AskCourier, PickUps!CourierStatus
  <2>3. CASE PickUps!TakeOver(c)
    <3>1. oPc[c] \in {"active", "cancelled", "completed"}
          /\ PickUps!Mapped(oPc[c]) \in {"ACTIVE", "CANCELLED", "COMPLETED"}
      BY <2>3 DEF PickUps!TakeOver, PickUps!Mapped
    <3> QED
      BY <2>3, <3>1 DEF PickUps!TakeOver
  <2>4. CASE PickUps!CancelCommit(c)
    BY <2>4 DEF PickUps!CancelCommit
  <2> QED
    BY <2>1, <2>2, <2>3, <2>4
<1>2. /\ oPc' \in [PickOrders \cup OrderPayers \cup PickCancels -> OrderSteps]
      /\ oPc'[c] = l
      /\ \A q \in PickOrders \cup OrderPayers \cup PickCancels : q # c => oPc'[q] = oPc[q]
  BY <1>1, OthersStay
<1>3. \A q \in PickOrders \cup OrderPayers : q # c /\ oPc'[q] = oPc[q]
  BY <1>2, OrdersAssumption DEF OrderPayers
<1>4. \A q \in OrderPayers \cup PickCancels :
          \/ of'[q] = of[q]
          \/ q = c /\ oPc[c] = "idle" /\ of'[c] \in PickOrders /\ order[of'[c]] # "NONE"
  BY <1>1 DEF OrdersTyped
<1>5. OrdersTyped'
  BY <1>1, <1>2 DEF OrdersTyped, OrderSteps, PickUps!OrderStatus
<1>6. /\ of[c] \in PickOrders \/ UNCHANGED order
      /\ \A o \in PickOrders : order[o] = "NONE" <=> order'[o] = "NONE"
      /\ \A o \in PickOrders : order'[o] \in {"CONFIRMED", "PENDING"} => order'[o] = order[o]
  BY <1>1 DEF OrdersTyped, OrdersNamed, PickUps!OrderStatus
<1>7. OrdersNamed'
  <2>1. \A o \in PickOrders :
            order'[o] = "NONE" => \A r \in OrderPayers \cup PickCancels : of'[r] # o
    BY <1>4, <1>6 DEF OrdersNamed
  <2>2. \A q \in PickCancels : oPc'[q] = "idle" <=> of'[q] = NoOrder
    BY <1>1, <1>2, <1>4, OrdersAssumption DEF OrdersTyped, OrdersNamed
  <2> QED
    BY <1>1, <1>3, <1>6, <2>1, <2>2 DEF OrdersTyped, OrdersNamed
<1>8. \A q \in OrderPayers : of'[q] = of[q]
  BY <1>3, <1>4
<1>9. OrdersPaid'
  BY <1>1, <1>6, <1>8 DEF OrdersTyped, OrdersPaid
<1>10. OrdersCalledOff'
  <2>1. \A d \in PickCancels : oPc'[d] = "calledOff" => oPc[d] = "calledOff" /\ of'[d] = of[d]
    BY <1>1, <1>2, <1>4
  <2> QED
    BY <1>1, <1>8, <2>1 DEF OrdersTyped, OrdersCalledOff
<1> QED
  BY <1>5, <1>7, <1>9, <1>10

(* The courier calls an order off, and its payment goes back.              *)
LEMMA OrdersReturned ==
    ASSUME OrdersInv, NEW c \in PickCancels,
           PickUps!CallOff(c) \/ PickUps!RefundOrder(c) \/ PickUps!CancelFails(c)
    PROVE  OrdersInv'
<1> USE DEF OrdersInv
<1>1. PICK l \in {"calledOff", "closing", "cut"} :
          /\ oPc' = [oPc EXCEPT ![c] = l] /\ oPc[c] # "idle"
          /\ UNCHANGED <<order, oBooked, of>>
          /\ \/ /\ courier[of[c]] = "pending"
                /\ courier' = [courier EXCEPT ![of[c]] = "cancelled"] /\ UNCHANGED returned
             \/ /\ l # "calledOff" /\ UNCHANGED <<courier, returned>>
             \/ /\ l # "calledOff" /\ oPc[c] = "calledOff" /\ UNCHANGED courier
                /\ \E p \in oBooked : of[p] = of[c] /\ returned' = [returned EXCEPT ![p] = @ + 1]
  <2> USE DEF PickUps!Goto, PickUps!SetCourier, PickUps!money, PickUps!PaymentsOf, PickUps!Return
  <2>1. CASE PickUps!CallOff(c)
    BY <2>1 DEF PickUps!CallOff
  <2>2. CASE PickUps!RefundOrder(c)
    BY <2>2 DEF PickUps!RefundOrder
  <2>3. CASE PickUps!CancelFails(c)
    BY <2>3 DEF PickUps!CancelFails
  <2> QED
    BY <2>1, <2>2, <2>3
<1>2. /\ oPc' \in [PickOrders \cup OrderPayers \cup PickCancels -> OrderSteps]
      /\ oPc'[c] = l
      /\ \A q \in PickOrders \cup OrderPayers \cup PickCancels : q # c => oPc'[q] = oPc[q]
  BY <1>1, OthersStay DEF OrderSteps
<1>3. \A q \in PickOrders \cup OrderPayers : q # c /\ oPc'[q] = oPc[q]
  BY <1>2, OrdersAssumption DEF OrderPayers
<1>4. of[c] \in PickOrders /\ \A d \in PickCancels : oPc[d] = "calledOff" => of[d] \in PickOrders
  BY <1>1 DEF OrdersTyped, OrdersNamed
<1>5. OrdersTyped'
  BY <1>1, <1>2 DEF OrdersTyped, OrderSteps, PickUps!CourierStatus
<1>6. OrdersNamed' /\ OrdersPaid'
  <2>1. \A o \in PickOrders : courier[o] = "none" <=> courier'[o] = "none"
    BY <1>1 DEF OrdersTyped
  <2> QED
    BY <1>1, <1>2, <1>3, <2>1 DEF OrdersTyped, OrdersNamed, OrdersPaid
<1>7. CASE /\ courier[of[c]] = "pending"
           /\ courier' = [courier EXCEPT ![of[c]] = "cancelled"] /\ UNCHANGED returned
  <2>1. /\ \A d \in PickCancels : oPc[d] = "calledOff" => of[d] # of[c]
        /\ \A p \in OrderPayers : returned[p] > 0 => of[p] # of[c]
    BY <1>7 DEF OrdersCalledOff
  <2>2. /\ courier'[of[c]] = "cancelled"
        /\ \A o \in PickOrders : courier[o] = "cancelled" => courier'[o] = "cancelled"
    BY <1>4, <1>7 DEF OrdersTyped
  <2>3. \A d \in PickCancels : oPc'[d] = "calledOff" => d = c \/ oPc[d] = "calledOff"
    BY <1>2
  <2>4. \A p \in OrderPayers : of[p] # NoOrder => of[p] \in PickOrders
    BY DEF OrdersTyped
  <2> QED
    BY <1>1, <1>4, <1>5, <1>6, <1>7, <2>1, <2>2, <2>3, <2>4 DEF OrdersCalledOff
<1>8. CASE l # "calledOff" /\ UNCHANGED <<courier, returned>>
  <2>1. \A d \in PickCancels : oPc'[d] = "calledOff" => oPc[d] = "calledOff"
    BY <1>2, <1>8
  <2> QED
    BY <1>1, <1>5, <1>6, <1>8, <2>1 DEF OrdersCalledOff
<1>9. ASSUME l # "calledOff", oPc[c] = "calledOff", UNCHANGED courier, NEW p \in oBooked,
             of[p] = of[c], returned' = [returned EXCEPT ![p] = @ + 1]
      PROVE  OrdersInv'
  <2>1. \A d \in PickCancels : oPc'[d] = "calledOff" => oPc[d] = "calledOff" /\ of[d] # of[c]
    BY <1>2, <1>9 DEF OrdersCalledOff
  <2>2. /\ p \in OrderPayers /\ returned[p] = 0 /\ returned'[p] = 1
        /\ \A q \in OrderPayers : q # p => returned'[q] = returned[q]
    BY <1>9 DEF OrdersTyped, OrdersCalledOff
  <2>3. of[p] # NoOrder /\ courier[of[p]] = "cancelled"
    BY <1>4, <1>9, OrdersAssumption DEF OrdersCalledOff
  <2> QED
    BY <1>1, <1>5, <1>6, <1>9, <2>1, <2>2, <2>3 DEF OrdersCalledOff
<1> QED
  BY <1>1, <1>7, <1>8, <1>9

(* The invariant of the orders holds of every behaviour.                   *)
THEOREM OrdersInvariant == ServicesSpec => []OrdersInv
<1>1. PickUps!Init => OrdersInv
  BY OrdersInitially
<1>2. OrdersInv /\ [PickUps!Next]_(PickUps!orderVars) => OrdersInv'
  <2> SUFFICES ASSUME OrdersInv, [PickUps!Next]_(PickUps!orderVars)
               PROVE  OrdersInv'
    OBVIOUS
  <2>1. CASE PickUps!Next
    BY <2>1, OrdersPlaced, OrdersElsewhere, OrdersPayments, OrdersAsked, OrdersReturned
       DEF PickUps!Next, PickUps!Payers, OrderPayers
  <2>2. CASE UNCHANGED PickUps!orderVars
    BY <2>2
       DEF OrdersInv, OrdersTyped, OrdersNamed, OrdersPaid, OrdersCalledOff,
           PickUps!orderVars, PickUps!money
  <2> QED
    BY <2>1, <2>2
<1> QED
  BY <1>1, <1>2, OrdersFollow, PTL DEF PickUps!Spec

(* What is kept is of those who pay, and none is given back where nobody   *)
(* cancels.                                                                *)
OrdersKept ==
    /\ booking \in {"RESERVED", "CONFIRMED", "CANCELLED"}
    /\ oKept \subseteq OrderPayers
    /\ PickCancels = {} => \A p \in OrderPayers : returned[p] = 0

LEMMA OrdersKeep == ServicesSpec => []OrdersKept
<1>1. PickUps!Init => OrdersKept
  BY DEF PickUps!Init, PickUps!Payers, OrderPayers, OrdersKept
<1>2. OrdersKept /\ [PickUps!Next]_(PickUps!orderVars) => OrdersKept'
  <2> SUFFICES ASSUME OrdersKept, [PickUps!Next]_(PickUps!orderVars)
               PROVE  OrdersKept'
    OBVIOUS
  <2> USE DEF PickUps!money
  <2>1. ASSUME NEW o \in PickOrders,
               \/ PickUps!PlaceOrder(o) \/ PickUps!CreateCommit(o) \/ PickUps!CreateFails(o)
               \/ PickUps!UndoPlace(o) \/ PickUps!JobCancelsOrder(o) \/ PickUps!CourierMoves(o)
        PROVE  OrdersKept'
    BY <2>1 DEF OrdersKept, PickUps!PlaceOrder, PickUps!CreateCommit, PickUps!CreateFails,
                PickUps!UndoPlace, PickUps!JobCancelsOrder, PickUps!CourierMoves
  <2>2. ASSUME NEW p \in OrderPayers,
               \/ \E o \in PickOrders : PickUps!PayOrder(p, o)
               \/ PickUps!PayBooking(p) \/ PickUps!PayDeclined(p) \/ PickUps!PayFails(p)
        PROVE  OrdersKept'
    BY <2>2 DEF OrdersKept, PickUps!PayOrder, PickUps!PayBooking, PickUps!PayDeclined,
                PickUps!PayFails
  <2>3. ASSUME NEW p \in OrderPayers,
               PickUps!PayCharge(p) \/ PickUps!PayCommit(p) \/ PickUps!PayRefund(p)
        PROVE  OrdersKept'
    BY <2>3 DEF OrdersKept, PickUps!PayCharge, PickUps!PayCommit, PickUps!PayRefund
  <2>4. ASSUME NEW c \in PickCancels,
               \/ \E o \in PickOrders : PickUps!CancelOrder(c, o)
               \/ PickUps!AskCourier(c) \/ PickUps!TakeOver(c) \/ PickUps!CallOff(c)
               \/ PickUps!RefundOrder(c) \/ PickUps!CancelCommit(c) \/ PickUps!CancelFails(c)
        PROVE  OrdersKept'
    <3>1. UNCHANGED <<booking, oKept>>
      BY <2>4 DEF PickUps!CancelOrder, PickUps!AskCourier, PickUps!TakeOver, PickUps!CallOff,
                  PickUps!RefundOrder, PickUps!CancelCommit, PickUps!CancelFails
    <3> QED
      BY <3>1 DEF OrdersKept
  <2>5. CASE PickUps!JobCancelsBooking
    BY <2>5 DEF OrdersKept, PickUps!JobCancelsBooking
  <2>6. CASE UNCHANGED PickUps!orderVars
    BY <2>6 DEF OrdersKept, PickUps!orderVars
  <2> QED
    BY <2>1, <2>2, <2>3, <2>4, <2>5, <2>6 DEF PickUps!Next, PickUps!Payers, OrderPayers
<1> QED
  BY <1>1, <1>2, OrdersFollow, PTL DEF PickUps!Spec

LEMMA OrdersTypeOK == ASSUME OrdersInv, OrdersKept PROVE PickUps!TypeOK
<1>1. PickUps!Cardinality(PickCancels) = Cardinality(PickCancels)
  BY DEF PickUps!Cardinality, Cardinality
<1>2. /\ Cardinality(PickCancels) \in Nat
      /\ Cardinality(PickCancels) = 0 => PickCancels = {}
  BY OrdersAssumption, FS_CardinalityType, FS_EmptySet
<1>3. \A p \in OrderPayers : returned[p] \in 0..Cardinality(PickCancels)
  BY <1>2 DEF OrdersInv, OrdersTyped, OrdersCalledOff, OrdersKept
<1>4. returned \in [OrderPayers -> 0..PickUps!Cardinality(PickCancels)]
  BY <1>1, <1>3 DEF OrdersInv, OrdersTyped
<1> QED
  BY <1>4 DEF OrdersInv, OrdersTyped, OrdersKept, OrderPayers, PickUps!TypeOK, PickUps!Payers,
              PickUps!Requests

-----------------------------------------------------------------------------
(* The price of a pick-up                                                  *)

LEMMA DriveFollows == ServicesSpec => Drive!Spec
<1>1. ServicesInit => Drive!Init
  BY DEF ServicesInit
<1>2. [ServicesNext]_servicesVars => [Drive!Next]_(Drive!courierVars)
  BY DEF ServicesNext, servicesVars, courierVars, Drive!courierVars
<1> QED
  BY <1>1, <1>2, PTL DEF ServicesSpec, Drive!Spec

(* The share and the tax are added to what the courier asks.               *)
LEMMA PercentageAdds ==
    ASSUME NEW n \in Nat, NEW k \in Nat
    PROVE  /\ Drive!Percentage(n, k) \in Nat
           /\ (n * (100 + k) + 50) \div 100 \in Nat /\ (n * (100 + k) + 50) \div 100 >= n
<1>1. n * k \in Nat /\ n * (100 + k) = n * 100 + n * k
  OBVIOUS
<1> QED
  BY <1>1 DEF Drive!Percentage

(* A price that is not higher makes no higher amount, nor a higher tax.    *)
LEMMA PercentageKeepsOrder ==
    ASSUME NEW n \in Nat, NEW m \in Nat, n <= m, NEW k \in Nat
    PROVE  /\ Drive!Percentage(n, k) <= Drive!Percentage(m, k)
           /\ (n * (100 + k) + 50) \div 100 <= (m * (100 + k) + 50) \div 100
<1>1. n * k \in Nat /\ m * k \in Nat /\ n * k <= m * k
  OBVIOUS
<1>2. n * (100 + k) = n * 100 + n * k /\ m * (100 + k) = m * 100 + m * k
  OBVIOUS
<1> QED
  BY <1>1, <1>2 DEF Drive!Percentage

LEMMA WithTaxKeepsOrder ==
    ASSUME NEW n \in Nat, NEW m \in Nat, n <= m
    PROVE  Drive!WithTax(n) <= Drive!WithTax(m) /\ Drive!WithTax(n) >= n /\ Drive!WithTax(n) \in Nat
<1>1. /\ Drive!Percentage(n, DriveTax) \in Nat /\ Drive!Percentage(m, DriveTax) \in Nat
      /\ Drive!Percentage(n, DriveTax) <= Drive!Percentage(m, DriveTax)
  <2>1. DriveTax \in Nat
    BY DriveAssumption
  <2> QED
    BY <2>1, PercentageAdds, PercentageKeepsOrder
<1> QED
  BY <1>1 DEF Drive!WithTax

DriveTyped ==
    /\ type \in DriveTypes /\ cPrice \in DrivePrices
    /\ cQuote = Drive!Nothing \/
         cQuote \in [vehicle: Drive!Vehicles, movers: Drive!Movers, amount: Nat]
    /\ request = Drive!Nothing \/
         request \in [vehicle: Drive!Vehicles, movers: Drive!Movers, day: 0..DriveLastDay,
                      type: DriveTypes]

(* A quote holds for the courier's price of today, unless it rose.         *)
DriveQuoted ==
    cQuote # Drive!Nothing =>
        /\ ~dearer => Drive!QuotedAmount(Drive!Asked(cQuote.movers)) <= cQuote.amount
        /\ ~retyped =>
              /\ Drive!VehicleTypeValidate(type, cQuote.vehicle)
              /\ request # Drive!Nothing => request.type = type

DriveInv == DriveTyped /\ DriveQuoted /\ Drive!QuoteIsHonoured

LEMMA DriveInitially == Drive!Init => DriveInv
BY DEF Drive!Init, DriveInv, DriveTyped, DriveQuoted, Drive!QuoteIsHonoured

LEMMA DriveAsks ==
    ASSUME DriveTyped, NEW m \in Drive!Movers
    PROVE  /\ Drive!Asked(m) \in Nat
           /\ Drive!QuotedAmount(Drive!Asked(m)) \in Nat
           /\ Drive!QuotedAmount(Drive!Asked(m)) >= Drive!Asked(m)
<1>1. m \in Nat /\ m * DriveMover \in Nat /\ cPrice \in Nat
  BY DriveAssumption DEF DriveTyped, Drive!Movers
<1>2. Drive!Asked(m) \in Nat
  BY <1>1 DEF Drive!Asked
<1> QED
  BY <1>2, PercentageAdds, DriveAssumption DEF Drive!QuotedAmount

LEMMA DriveSteps ==
    ASSUME DriveInv, Drive!Next
    PROVE  DriveInv'
<1> USE DEF DriveInv
<1>1. ASSUME NEW v \in Drive!Vehicles, NEW m \in Drive!Movers, NEW day \in 0..DriveLastDay,
             Drive!Quote(v, m, day)
      PROVE  DriveInv'
  <2>1. /\ cRow = Drive!Nothing /\ request = Drive!Nothing /\ Drive!VehicleTypeValidate(type, v)
        /\ cQuote' = [vehicle |-> v, movers |-> m, amount |-> Drive!QuotedAmount(Drive!Asked(m))]
        /\ dearer' = FALSE /\ retyped' = FALSE /\ refused' = FALSE
        /\ UNCHANGED <<type, cPrice, request, cRow>>
    BY <1>1 DEF Drive!Quote
  <2>2. Drive!QuotedAmount(Drive!Asked(m)) \in Nat
    BY DriveAsks
  <2>3. DriveTyped'
    BY <2>1, <2>2 DEF DriveTyped
  <2>4. DriveQuoted'
    BY <2>1, <2>2 DEF DriveQuoted, Drive!Asked, Drive!VehicleTypeValidate
  <2>5. Drive!QuoteIsHonoured'
    BY <2>1 DEF Drive!QuoteIsHonoured
  <2> QED
    BY <2>3, <2>4, <2>5
<1>2. ASSUME NEW v \in Drive!Vehicles, NEW m \in Drive!Movers, NEW day \in 0..DriveLastDay,
             Drive!ReadBooking(v, m, day)
      PROVE  DriveInv'
  <2>1. /\ cRow = Drive!Nothing
        /\ request' = [vehicle |-> v, movers |-> m, day |-> day, type |-> type]
        /\ UNCHANGED <<type, cPrice, cQuote, cRow, dearer, retyped, refused>>
    BY <1>2 DEF Drive!ReadBooking
  <2> QED
    BY <2>1
       DEF DriveTyped, DriveQuoted, Drive!QuoteIsHonoured, Drive!Asked, Drive!VehicleTypeValidate
<1>3. CASE Drive!TooSmall
  <2>1. /\ request # Drive!Nothing /\ ~Drive!VehicleTypeValidate(request.type, request.vehicle)
        /\ refused' <=> refused \/ cQuote.vehicle = request.vehicle
        /\ request' = Drive!Nothing
        /\ UNCHANGED <<type, cPrice, cQuote, cRow, dearer, retyped>>
    BY <1>3 DEF Drive!TooSmall
  <2>2. cQuote.vehicle = request.vehicle => retyped
    <3>1. cQuote # Drive!Nothing /\ ~retyped => cQuote.vehicle # request.vehicle
      BY <2>1 DEF DriveQuoted
    <3>2. cQuote = Drive!Nothing => cQuote.vehicle # request.vehicle
      BY <2>1 DEF DriveTyped, Drive!Nothing, Drive!Vehicles
    <3> QED
      BY <3>1, <3>2
  <2> QED
    BY <2>1, <2>2
       DEF DriveTyped, DriveQuoted, Drive!QuoteIsHonoured, Drive!Asked, Drive!VehicleTypeValidate
<1>4. CASE Drive!PlaceOrder
  <2> DEFINE cost == Drive!Asked(request.movers)
             sum == Drive!WithTax(Drive!OrderedAmount(cost))
  <2>1. /\ request # Drive!Nothing /\ request' = Drive!Nothing
        /\ \E priced \in BOOLEAN :
              cRow' = [vehicle |-> request.vehicle, movers |-> request.movers, priced |-> priced,
                       cost |-> cost, total |-> IF priced THEN sum ELSE 0]
        /\ UNCHANGED <<type, cPrice, cQuote, dearer, retyped, refused>>
    BY <1>4 DEF Drive!PlaceOrder
  <2>2. request.movers \in Drive!Movers
    BY <2>1 DEF DriveTyped
  <2>3. /\ cost \in Nat /\ Drive!OrderedAmount(cost) \in Nat /\ Drive!OrderedAmount(cost) >= cost
        /\ Drive!OrderedAmount(cost) = Drive!QuotedAmount(cost)
    BY <2>2, DriveAsks DEF Drive!OrderedAmount, Drive!QuotedAmount
  <2>4. sum \in Nat /\ sum >= cost
    BY <2>3, WithTaxKeepsOrder
  <2>5. ASSUME cQuote # Drive!Nothing, ~dearer, request.movers = cQuote.movers
        PROVE  sum <= Drive!WithTax(cQuote.amount)
    <3>1. Drive!OrderedAmount(cost) <= cQuote.amount /\ cQuote.amount \in Nat
      BY <2>3, <2>5 DEF DriveQuoted, DriveTyped
    <3> QED
      BY <2>3, <3>1, WithTaxKeepsOrder
  <2>6. cQuote = Drive!Nothing => request.vehicle # cQuote.vehicle
    BY <2>1 DEF DriveTyped, Drive!Nothing, Drive!Vehicles
  <2> HIDE DEF cost, sum
  <2>7. Drive!QuoteIsHonoured'
    <3>1. /\ cRow'.priced => cRow'.total = sum /\ cRow'.cost = cost
          /\ cRow'.vehicle = request.vehicle /\ cRow'.movers = request.movers
      BY <2>1
    <3>2. Drive!WithTax(cQuote.amount)' = Drive!WithTax(cQuote.amount)
      BY <2>1 DEF Drive!WithTax, Drive!Percentage
    <3> QED
      BY <2>1, <2>4, <2>5, <2>6, <3>1, <3>2 DEF Drive!QuoteIsHonoured
  <2> QED
    BY <2>1, <2>7 DEF DriveTyped, DriveQuoted, Drive!Asked, Drive!VehicleTypeValidate
<1>5. CASE Drive!CourierRefuses
  BY <1>5
     DEF Drive!CourierRefuses, DriveTyped, DriveQuoted, Drive!QuoteIsHonoured, Drive!Asked,
         Drive!VehicleTypeValidate
<1>6. CASE Drive!NextDay
  BY <1>6
     DEF Drive!NextDay, DriveTyped, DriveQuoted, Drive!QuoteIsHonoured, Drive!Asked,
         Drive!VehicleTypeValidate
<1>7. ASSUME NEW p \in DrivePrices, Drive!PriceMoves(p)
      PROVE  DriveInv'
  <2>1. /\ cRow = Drive!Nothing /\ cPrice' = p
        /\ dearer' <=> dearer \/ p > cPrice
        /\ UNCHANGED <<type, cQuote, request, cRow, retyped, refused>>
    BY <1>7 DEF Drive!PriceMoves
  <2>2. ASSUME cQuote # Drive!Nothing, ~dearer, p <= cPrice
        PROVE  Drive!QuotedAmount(Drive!Asked(cQuote.movers))' <= cQuote.amount
    <3> DEFINE m == cQuote.movers
    <3>1. m \in Drive!Movers /\ cQuote.amount \in Nat
      BY <2>2 DEF DriveTyped
    <3>2. m * DriveMover \in Nat /\ p \in Nat /\ cPrice \in Nat
      BY <3>1, DriveAssumption DEF DriveTyped, Drive!Movers
    <3> HIDE DEF m
    <3>3. /\ p + m * DriveMover \in Nat /\ cPrice + m * DriveMover \in Nat
          /\ p + m * DriveMover <= cPrice + m * DriveMover
      BY <3>2, <2>2
    <3>4. Drive!QuotedAmount(p + m * DriveMover) <= Drive!QuotedAmount(cPrice + m * DriveMover)
      BY <3>3, PercentageKeepsOrder, DriveAssumption DEF Drive!QuotedAmount
    <3>5. Drive!QuotedAmount(p + m * DriveMover) \in Nat
          /\ Drive!QuotedAmount(cPrice + m * DriveMover) \in Nat
      BY <3>3, PercentageAdds, DriveAssumption DEF Drive!QuotedAmount
    <3>6. Drive!QuotedAmount(cPrice + m * DriveMover) <= cQuote.amount
      BY <2>2 DEF DriveQuoted, Drive!Asked, m
    <3>7. Drive!QuotedAmount(Drive!Asked(cQuote.movers))' = Drive!QuotedAmount(p + m * DriveMover)
      BY <2>1 DEF Drive!Asked, Drive!QuotedAmount, m
    <3> QED
      BY <3>1, <3>4, <3>5, <3>6, <3>7
  <2>3. cPrice \in Nat /\ p \in Nat
    BY DriveAssumption DEF DriveTyped
  <2>4. DriveQuoted'
    BY <2>1, <2>2, <2>3 DEF DriveQuoted, Drive!VehicleTypeValidate
  <2> QED
    BY <2>1, <2>4 DEF DriveTyped, Drive!QuoteIsHonoured
<1>8. ASSUME NEW t \in DriveTypes, Drive!Resize(t)
      PROVE  DriveInv'
  BY <1>8 DEF Drive!Resize, DriveTyped, DriveQuoted, Drive!QuoteIsHonoured, Drive!Asked
<1> QED
  BY <1>1, <1>2, <1>3, <1>4, <1>5, <1>6, <1>7, <1>8 DEF Drive!Next

(* The invariant of the price of a pick-up holds of every behaviour.       *)
THEOREM DriveInvariant == ServicesSpec => []DriveInv
<1>1. Drive!Init => DriveInv
  BY DriveInitially
<1>2. DriveInv /\ [Drive!Next]_(Drive!courierVars) => DriveInv'
  <2> SUFFICES ASSUME DriveInv, UNCHANGED Drive!courierVars
               PROVE  DriveInv'
    BY DriveSteps
  <2> QED
    BY DEF DriveInv, DriveTyped, DriveQuoted, Drive!QuoteIsHonoured, Drive!courierVars,
           Drive!Asked, Drive!VehicleTypeValidate
<1> QED
  BY <1>1, <1>2, DriveFollows, PTL DEF Drive!Spec

(* A CONFIRMED order has a payment, a PENDING one none, a payment is given *)
(* back at most once (orders/order.service.ts), and an order costs no more *)
(* than was quoted (logistics/logistics.service.ts): whatever the orders,  *)
(* payments and cancellations, the courier's prices and the percentages.   *)
THEOREM OrdersArePaidOnce == ServicesSpec => []OrdersPaidOnce
<1>1. OrdersInv /\ DriveInv => OrdersPaidOnce
  BY DEF OrdersInv, OrdersTyped, OrdersPaid, OrdersCalledOff, DriveInv, OrdersPaidOnce,
         PickUps!PaidIffConfirmed, PickUps!RefundedOnce, PickUps!PaymentsOf, PickUps!Payers,
         OrderPayers
<1> QED
  BY <1>1, OrdersInvariant, DriveInvariant, PTL

(* A row has what the courier asked of a request, on a day there is.       *)
DriveSettled ==
    /\ cNow \in 0..DriveLastDay
    /\ cRow = Drive!Nothing \/
         cRow \in [vehicle: Drive!Vehicles, movers: Drive!Movers, priced: BOOLEAN, cost: Nat,
                   total: Nat]
    /\ dearer \in BOOLEAN /\ retyped \in BOOLEAN /\ refused \in BOOLEAN

LEMMA DriveSettles == ServicesSpec => []DriveSettled
<1>1. ASSUME Drive!Init PROVE DriveSettled
  <2>1. 0 \in 0..DriveLastDay
    BY DriveAssumption
  <2>2. cNow = 0 /\ cRow = Drive!Nothing /\ dearer = FALSE /\ retyped = FALSE /\ refused = FALSE
    BY <1>1 DEF Drive!Init
  <2> QED
    BY <2>1, <2>2 DEF DriveSettled
<1>2. DriveInv /\ DriveSettled /\ [Drive!Next]_(Drive!courierVars) => DriveSettled'
  <2> SUFFICES ASSUME DriveInv, DriveSettled, [Drive!Next]_(Drive!courierVars)
               PROVE  DriveSettled'
    OBVIOUS
  <2>1. dearer' \in BOOLEAN /\ retyped' \in BOOLEAN /\ refused' \in BOOLEAN
    BY Zenon DEF Drive!Next, Drive!Quote, Drive!ReadBooking, Drive!TooSmall, Drive!PlaceOrder,
           Drive!CourierRefuses, Drive!NextDay, Drive!PriceMoves, Drive!Resize,
           Drive!courierVars, DriveSettled
  <2>2. cNow' \in 0..DriveLastDay
    <3>1. cNow' = cNow \/ (cNow < DriveLastDay /\ cNow' = cNow + 1)
      BY DEF Drive!Next, Drive!Quote, Drive!ReadBooking, Drive!TooSmall, Drive!PlaceOrder,
             Drive!CourierRefuses, Drive!NextDay, Drive!PriceMoves, Drive!Resize,
             Drive!courierVars
    <3> QED
      BY <3>1, DriveAssumption DEF DriveSettled
  <2>3. cRow' = cRow \/ Drive!PlaceOrder
    BY DEF Drive!Next, Drive!Quote, Drive!ReadBooking, Drive!TooSmall,
           Drive!CourierRefuses, Drive!NextDay, Drive!PriceMoves, Drive!Resize,
           Drive!courierVars
  <2>4. CASE Drive!PlaceOrder
    <3> DEFINE cost == Drive!Asked(request.movers)
               sum == Drive!WithTax(Drive!OrderedAmount(cost))
    <3>1. /\ request.vehicle \in Drive!Vehicles /\ request.movers \in Drive!Movers
          /\ \E priced \in BOOLEAN :
                cRow' = [vehicle |-> request.vehicle, movers |-> request.movers, priced |-> priced,
                         cost |-> cost, total |-> IF priced THEN sum ELSE 0]
      BY <2>4 DEF Drive!PlaceOrder, DriveInv, DriveTyped
    <3>2. cost \in Nat /\ Drive!OrderedAmount(cost) \in Nat
      BY <3>1, DriveAsks DEF DriveInv, Drive!OrderedAmount, Drive!QuotedAmount
    <3>3. sum \in Nat
      BY <3>2, WithTaxKeepsOrder
    <3> HIDE DEF cost, sum
    <3>4. cRow' \in [vehicle: Drive!Vehicles, movers: Drive!Movers, priced: BOOLEAN, cost: Nat,
                     total: Nat]
      BY <3>1, <3>2, <3>3
    <3> QED
      BY <2>1, <2>2, <3>4 DEF DriveSettled
  <2> QED
    BY <2>1, <2>2, <2>3, <2>4 DEF DriveSettled
<1> QED
  BY <1>1, <1>2, DriveFollows, DriveInvariant, PTL DEF Drive!Spec

LEMMA DriveTypeOK == ASSUME DriveInv, DriveSettled PROVE Drive!TypeOK
BY Zenon DEF DriveInv, DriveTyped, DriveSettled, Drive!TypeOK

-----------------------------------------------------------------------------
(* Vouchers                                                                *)

LEMMA CouponsFollow == ServicesSpec => Coupons!Spec
<1>1. ServicesInit => Coupons!Init
  BY DEF ServicesInit
<1>2. [ServicesNext]_servicesVars => [Coupons!Next]_(Coupons!promoVars)
  BY DEF ServicesNext, servicesVars, couponVars, Coupons!promoVars
<1> QED
  BY <1>1, <1>2, PTL DEF ServicesSpec, Coupons!Spec

LEMMA CouponsCount == \A S : Coupons!Cardinality(S) = Cardinality(S)
BY DEF Coupons!Cardinality, Cardinality

(* Bookings that are priced or reserved with a voucher.                    *)
Holding(v) == {b \in CouponBookers : uses[b] = v /\ booker[b] \in {"priced", "reserved"}}
AddsMet(b) ==
    \E a, c \in CouponAdds :
        <<a, c>> \in vMet /\ CouponBookingOf[a] = b /\ CouponBookingOf[c] = b

(* Edits that are under way together have met.                             *)
CouponsMet ==
    \A e, f \in Coupons!EditsUnderWay : e # f => <<e, f>> \in vMet

(* Whoever is about to make a voucher ACTIVE met whoever made another so   *)
(* with its code.                                                          *)
CouponsChecked ==
    \A e \in CouponEdits :
        /\ vEdit[e].pc # "idle" => vEdit[e].voucher \in CouponVouchers
        /\ vEdit[e].pc = "checked" /\ vEdit[e].status = "ACTIVE" =>
              \A w \in CouponVouchers \ {vEdit[e].voucher} :
                  promo[w] = [status |-> "ACTIVE", code |-> vEdit[e].code] =>
                      w \in loose \/ {<<wrote[w], e>>, <<e, wrote[w]>>} \subseteq vMet

CouponsSingle ==
    \A v, w \in CouponVouchers :
        v # w /\ promo[v].status = "ACTIVE" /\ promo[w] = promo[v] =>
            v \in loose \/ w \in loose \/ <<wrote[v], wrote[w]>> \in vMet

(* A booking that is not made has no copy; one of two got them by two      *)
(* requests, and only a booking that is paid is read by them.              *)
CouponsCopied ==
    /\ \A b \in CouponBookers :
          /\ booker[b] \in {"idle", "priced"} => copies[b] = {}
          /\ copies[b] = {} \/ (\E v \in CouponVouchers : copies[b] = {v}) \/ AddsMet(b)
    /\ \A a \in CouponAdds : adding[a].pc = "read" =>
          /\ adding[a].voucher \in CouponVouchers
          /\ booker[CouponBookingOf[a]] = "paid"
          /\ copies[CouponBookingOf[a]] = {} \/ AddsMet(CouponBookingOf[a])
    /\ \A a, c \in CouponAdds :
          /\ a # c /\ adding[a].pc = "read" /\ adding[c].pc = "read"
          /\ CouponBookingOf[a] = CouponBookingOf[c]
          => <<a, c>> \in vMet

(* Who holds a voucher unpaid may still redeem it.                         *)
CouponsLimited ==
    /\ \A b \in CouponBookers :
          booker[b] \in {"priced", "reserved"} => uses[b] \in CouponVouchers
    /\ \A v \in CouponVouchers :
          /\ \A b \in redeemed[v] : booker[b] = "paid"
          /\ redeemed[v] \cup Holding(v) # {} =>
                Cardinality(redeemed[v]) + Cardinality(Holding(v)) <= CouponLimit - 1 + peak[v]

CouponsInv ==
    /\ Coupons!TypeOK /\ CouponsMet /\ CouponsChecked /\ CouponsSingle
    /\ CouponsCopied /\ CouponsLimited

LEMMA CouponsInitially == Coupons!Init => CouponsInv
<1> SUFFICES ASSUME Coupons!Init PROVE CouponsInv
  OBVIOUS
<1> USE CouponsAssumption DEF Coupons!Init
<1>1. Cardinality(CouponBookers) \in Nat
  BY FS_CardinalityType
<1>2. Coupons!TypeOK
  BY <1>1, CouponsCount DEF Coupons!TypeOK, Coupons!Statuses, Coupons!Nothing
<1>3. CouponsMet
  BY DEF CouponsMet, Coupons!EditsUnderWay
<1>4. CouponsChecked /\ CouponsSingle
  BY DEF CouponsChecked, CouponsSingle
<1>5. CouponsCopied
  BY DEF CouponsCopied
<1>6. \A v \in CouponVouchers : redeemed[v] = {} /\ Holding(v) = {}
  BY DEF Holding
<1>7. CouponsLimited
  BY <1>6 DEF CouponsLimited
<1> QED
  BY <1>2, <1>3, <1>4, <1>5, <1>7 DEF CouponsInv

(* What administrators do is nothing to bookings, and the other way round. *)
LEMMA BookersAlone ==
    ASSUME CouponsCopied, CouponsLimited, vMet \subseteq vMet',
           UNCHANGED <<booker, uses, copies, redeemed, adding, peak>>
    PROVE  CouponsCopied' /\ CouponsLimited'
<1>1. \A v : Holding(v)' = Holding(v)
  BY DEF Holding
<1>2. \A b : AddsMet(b) => AddsMet(b)'
  BY DEF AddsMet
<1> QED
  BY <1>1, <1>2 DEF CouponsCopied, CouponsLimited

LEMMA EditsAlone ==
    ASSUME CouponsMet, CouponsChecked, CouponsSingle, vMet \subseteq vMet',
           UNCHANGED <<promo, vEdit, loose, wrote>>
    PROVE  CouponsMet' /\ CouponsChecked' /\ CouponsSingle'
<1>1. CouponsMet'
  BY DEF CouponsMet, Coupons!EditsUnderWay
<1>2. CouponsChecked'
  BY DEF CouponsChecked
<1>3. CouponsSingle'
  BY DEF CouponsSingle
<1> QED
  BY <1>1, <1>2, <1>3

(* Administrators.                                                         *)
LEMMA CouponsEdited ==
    ASSUME CouponsInv, NEW e \in CouponEdits,
           \/ \E v \in CouponVouchers, s \in {"ACTIVE", "IN_ACTIVE", Coupons!Nothing},
                 k \in CouponCodes : Coupons!StartEdit(e, v, s, k)
           \/ Coupons!CheckCode(e) \/ Coupons!WritePromotion(e) \/ Coupons!EditFails(e)
    PROVE  CouponsInv'
<1> USE DEF CouponsInv
<1>0. /\ vEdit \in [CouponEdits -> [pc: {"idle", "started", "checked", "done"},
                           voucher: CouponVouchers \cup {Coupons!Nothing},
                           status: Coupons!Statuses \cup {Coupons!Nothing},
                           code: CouponCodes \cup {Coupons!NoCode}]]
      /\ promo \in [CouponVouchers -> [status: Coupons!Statuses \cup {"NONE"},
                                       code: CouponCodes \cup {Coupons!NoCode}]]
      /\ loose \subseteq CouponVouchers
      /\ wrote \in [CouponVouchers -> CouponEdits \cup {Coupons!Nothing}]
  BY DEF Coupons!TypeOK
<1>1. ASSUME NEW v \in CouponVouchers, NEW s \in {"ACTIVE", "IN_ACTIVE", Coupons!Nothing},
             NEW k \in CouponCodes, Coupons!StartEdit(e, v, s, k)
      PROVE  CouponsInv'
  <2>1. /\ vEdit' = [vEdit EXCEPT ![e] = [pc |-> "started", voucher |-> v, status |-> s,
                                         code |-> k]]
        /\ vMet' = vMet \cup ({e} \X Coupons!EditsUnderWay) \cup (Coupons!EditsUnderWay \X {e})
        /\ vEdit[e].pc = "idle"
        /\ UNCHANGED <<promo, booker, uses, copies, redeemed, adding, loose, wrote, peak>>
    BY <1>1 DEF Coupons!StartEdit, Coupons!Meets
  <2>2. vMet \subseteq vMet'
    BY <2>1
  <2>3. CouponsCopied' /\ CouponsLimited'
    BY <2>1, <2>2, BookersAlone
  <2>4. /\ vEdit'[e] = [pc |-> "started", voucher |-> v, status |-> s, code |-> k]
        /\ \A f \in CouponEdits : f # e => vEdit'[f] = vEdit[f]
    BY <1>0, <2>1
  <2>5. vEdit' \in [CouponEdits -> [pc: {"idle", "started", "checked", "done"},
                           voucher: CouponVouchers \cup {Coupons!Nothing},
                           status: Coupons!Statuses \cup {Coupons!Nothing},
                           code: CouponCodes \cup {Coupons!NoCode}]]
    BY <1>0, <2>1 DEF Coupons!Statuses
  <2>6. vMet' \subseteq (CouponEdits \cup CouponAdds) \X (CouponEdits \cup CouponAdds)
    BY <2>1 DEF Coupons!TypeOK, Coupons!EditsUnderWay
  <2>7. Coupons!TypeOK'
    BY <2>1, <2>5, <2>6 DEF Coupons!TypeOK
  <2>8. CouponsMet'
    BY <2>1, <2>2, <2>4 DEF CouponsMet, Coupons!EditsUnderWay
  <2>9. CouponsChecked'
    BY <2>1, <2>2, <2>4 DEF CouponsChecked
  <2>10. CouponsSingle'
    BY <2>1, <2>2 DEF CouponsSingle
  <2> QED
    BY <2>3, <2>7, <2>8, <2>9, <2>10
<1>2. CASE Coupons!CheckCode(e)
  <2> DEFINE l == IF vEdit[e].status = "ACTIVE" /\ Coupons!Taken(vEdit[e].code, vEdit[e].voucher)
                  THEN "done" ELSE "checked"
  <2>1. /\ vEdit[e].pc = "started" /\ vEdit' = [vEdit EXCEPT ![e].pc = l]
        /\ UNCHANGED <<promo, booker, uses, copies, redeemed, adding, loose, wrote, vMet, peak>>
    BY <1>2 DEF Coupons!CheckCode
  <2>2. l \in {"done", "checked"}
    OBVIOUS
  <2>3. l = "checked" /\ vEdit[e].status = "ACTIVE" =>
            \A w \in CouponVouchers \ {vEdit[e].voucher} :
                promo[w] # [status |-> "ACTIVE", code |-> vEdit[e].code]
    BY DEF Coupons!Taken
  <2> HIDE DEF l
  <2>4. /\ vEdit'[e].pc = l /\ vEdit'[e].voucher = vEdit[e].voucher
        /\ vEdit'[e].status = vEdit[e].status /\ vEdit'[e].code = vEdit[e].code
        /\ \A f \in CouponEdits : f # e => vEdit'[f] = vEdit[f]
    BY <1>0, <2>1
  <2>5. vEdit' \in [CouponEdits -> [pc: {"idle", "started", "checked", "done"},
                           voucher: CouponVouchers \cup {Coupons!Nothing},
                           status: Coupons!Statuses \cup {Coupons!Nothing},
                           code: CouponCodes \cup {Coupons!NoCode}]]
    BY <1>0, <2>1, <2>2
  <2>6. Coupons!TypeOK'
    BY <2>1, <2>5 DEF Coupons!TypeOK
  <2>7. CouponsMet'
    BY <2>1, <2>4 DEF CouponsMet, Coupons!EditsUnderWay
  <2>8. CouponsChecked'
    BY <2>1, <2>3, <2>4 DEF CouponsChecked
  <2>9. CouponsSingle'
    BY <2>1 DEF CouponsSingle
  <2> QED
    BY <2>1, <2>6, <2>7, <2>8, <2>9, BookersAlone
<1>3. CASE Coupons!WritePromotion(e)
  <2> DEFINE v == vEdit[e].voucher
             new == Coupons!Written(e)
  <2>1. /\ vEdit[e].pc = "checked" /\ vEdit' = [vEdit EXCEPT ![e].pc = "done"]
        /\ promo' = [promo EXCEPT ![v] = new]
        /\ loose' = IF vEdit[e].status = Coupons!Nothing THEN loose \cup {v} ELSE loose \ {v}
        /\ wrote' = [wrote EXCEPT ![v] = e]
        /\ UNCHANGED <<booker, uses, copies, redeemed, adding, vMet, peak>>
    BY <1>3 DEF Coupons!WritePromotion
  <2>2. v \in CouponVouchers
    BY <2>1 DEF CouponsChecked
  <2>3. /\ new.code = vEdit[e].code
        /\ vEdit[e].status # Coupons!Nothing => new.status = vEdit[e].status
    BY DEF Coupons!Written
  <2>4. new \in [status: Coupons!Statuses \cup {"NONE"}, code: CouponCodes \cup {Coupons!NoCode}]
    BY <1>0, <2>2 DEF Coupons!Written, Coupons!Statuses
  <2> HIDE DEF new
  <2>5. /\ promo'[v] = new /\ wrote'[v] = e
        /\ v \notin loose' => vEdit[e].status # Coupons!Nothing
        /\ \A w \in CouponVouchers : w # v =>
              promo'[w] = promo[w] /\ wrote'[w] = wrote[w] /\ (w \in loose' <=> w \in loose)
    BY <1>0, <2>1, <2>2
  <2>6. /\ vEdit'[e].pc = "done" /\ vEdit'[e].voucher = v
        /\ \A f \in CouponEdits : f # e => vEdit'[f] = vEdit[f]
    BY <1>0, <2>1
  <2>7. Coupons!TypeOK'
    <3>1. vEdit' \in [CouponEdits -> [pc: {"idle", "started", "checked", "done"},
                           voucher: CouponVouchers \cup {Coupons!Nothing},
                           status: Coupons!Statuses \cup {Coupons!Nothing},
                           code: CouponCodes \cup {Coupons!NoCode}]]
      BY <1>0, <2>1
    <3>2. /\ promo' \in [CouponVouchers -> [status: Coupons!Statuses \cup {"NONE"},
                                            code: CouponCodes \cup {Coupons!NoCode}]]
          /\ loose' \subseteq CouponVouchers
          /\ wrote' \in [CouponVouchers -> CouponEdits \cup {Coupons!Nothing}]
      BY <1>0, <2>1, <2>2, <2>4
    <3> QED
      BY <2>1, <3>1, <3>2 DEF Coupons!TypeOK
  <2>8. CouponsMet'
    BY <2>1, <2>6 DEF CouponsMet, Coupons!EditsUnderWay
  <2>9. \A f \in CouponEdits : f # e /\ vEdit[f].pc = "checked" =>
            {<<e, f>>, <<f, e>>} \subseteq vMet
    BY <2>1 DEF CouponsMet, Coupons!EditsUnderWay
  <2>10. CouponsChecked'
    <3> SUFFICES ASSUME NEW f \in CouponEdits
                 PROVE  /\ vEdit'[f].pc # "idle" => vEdit'[f].voucher \in CouponVouchers
                        /\ vEdit'[f].pc = "checked" /\ vEdit'[f].status = "ACTIVE" =>
                             \A w \in CouponVouchers \ {vEdit'[f].voucher} :
                               promo'[w] = [status |-> "ACTIVE", code |-> vEdit'[f].code] =>
                                 \/ w \in loose'
                                 \/ {<<wrote'[w], f>>, <<f, wrote'[w]>>} \subseteq vMet'
      BY DEF CouponsChecked
    <3>1. CASE f = e
      BY <2>2, <2>6, <3>1
    <3>2. CASE f # e
      <4>1. vEdit'[f] = vEdit[f] /\ vMet' = vMet
        BY <2>1, <2>6, <3>2
      <4>2. vEdit[f].pc # "idle" => vEdit[f].voucher \in CouponVouchers
        BY DEF CouponsChecked
      <4>3. ASSUME vEdit[f].pc = "checked", vEdit[f].status = "ACTIVE",
                   NEW w \in CouponVouchers \ {vEdit[f].voucher},
                   promo'[w] = [status |-> "ACTIVE", code |-> vEdit[f].code]
            PROVE  w \in loose' \/ {<<wrote'[w], f>>, <<f, wrote'[w]>>} \subseteq vMet
        <5>1. CASE w = v
          BY <2>5, <2>9, <3>2, <4>3, <5>1
        <5>2. CASE w # v
          BY <2>5, <4>3, <5>2 DEF CouponsChecked
        <5> QED
          BY <5>1, <5>2
      <4> QED
        BY <4>1, <4>2, <4>3
    <3> QED
      BY <3>1, <3>2
  <2>11. CouponsSingle'
    <3>1. ASSUME NEW w \in CouponVouchers, w # v, new.status = "ACTIVE", promo'[w] = new,
                 v \notin loose', w \notin loose'
          PROVE  <<wrote'[v], wrote'[w]>> \in vMet' /\ <<wrote'[w], wrote'[v]>> \in vMet'
      <4>1. vEdit[e].status = "ACTIVE" /\ promo[w] = new /\ w \notin loose
        BY <2>3, <2>5, <3>1
      <4>2. new = [status |-> "ACTIVE", code |-> vEdit[e].code]
        BY <2>3, <2>4, <3>1
      <4> QED
        BY <2>1, <2>5, <3>1, <4>1, <4>2 DEF CouponsChecked
    <3> SUFFICES ASSUME NEW x \in CouponVouchers, NEW w \in CouponVouchers,
                        x # w, promo'[x].status = "ACTIVE", promo'[w] = promo'[x],
                        x \notin loose', w \notin loose'
                 PROVE  <<wrote'[x], wrote'[w]>> \in vMet'
      BY DEF CouponsSingle
    <3>2. CASE x = v
      <4>1. w # v /\ new.status = "ACTIVE" /\ promo'[w] = new /\ v \notin loose'
        BY <2>5, <3>2
      <4> QED
        BY <3>1, <3>2, <4>1
    <3>3. CASE w = v
      <4>1. x # v /\ new.status = "ACTIVE" /\ promo'[x] = new /\ v \notin loose'
        BY <2>5, <3>3
      <4> QED
        BY <3>1, <3>3, <4>1
    <3>4. CASE x # v /\ w # v
      BY <2>1, <2>5, <3>4 DEF CouponsSingle
    <3> QED
      BY <3>2, <3>3, <3>4
  <2> QED
    BY <2>1, <2>7, <2>8, <2>10, <2>11, BookersAlone
<1>4. CASE Coupons!EditFails(e)
  <2>1. /\ vEdit[e].pc = "checked" /\ vEdit' = [vEdit EXCEPT ![e].pc = "done"]
        /\ UNCHANGED <<promo, booker, uses, copies, redeemed, adding, loose, wrote, vMet, peak>>
    BY <1>4 DEF Coupons!EditFails
  <2>2. /\ vEdit'[e].pc = "done" /\ vEdit'[e].voucher = vEdit[e].voucher
        /\ \A f \in CouponEdits : f # e => vEdit'[f] = vEdit[f]
    BY <1>0, <2>1
  <2>3. vEdit' \in [CouponEdits -> [pc: {"idle", "started", "checked", "done"},
                           voucher: CouponVouchers \cup {Coupons!Nothing},
                           status: Coupons!Statuses \cup {Coupons!Nothing},
                           code: CouponCodes \cup {Coupons!NoCode}]]
    BY <1>0, <2>1
  <2>4. Coupons!TypeOK'
    BY <2>1, <2>3 DEF Coupons!TypeOK
  <2>5. CouponsMet' /\ CouponsSingle'
    BY <2>1, <2>2 DEF CouponsMet, CouponsSingle, Coupons!EditsUnderWay
  <2>6. CouponsChecked'
    BY <2>1, <2>2 DEF CouponsChecked
  <2> QED
    BY <2>1, <2>4, <2>5, <2>6, BookersAlone
<1> QED
  BY <1>1, <1>2, <1>3, <1>4

(* A set of bookings and one more.                                         *)
LEMMA OneMore ==
    ASSUME NEW S \in SUBSET CouponBookers, NEW b \in CouponBookers
    PROVE  /\ IsFiniteSet(S) /\ Cardinality(S) \in Nat
           /\ Cardinality(S) <= Cardinality(CouponBookers)
           /\ Cardinality(S \cup {b}) = IF b \in S THEN Cardinality(S) ELSE Cardinality(S) + 1
           /\ Cardinality(S \ {b}) = IF b \in S THEN Cardinality(S) - 1 ELSE Cardinality(S)
<1>1. IsFiniteSet(S) /\ Cardinality(S) <= Cardinality(CouponBookers)
  BY CouponsAssumption, FS_Subset
<1> QED
  BY <1>1, FS_CardinalityType, FS_AddElement, FS_RemoveElement

(* Bookings are made and paid with a voucher or without.                   *)
LEMMA CouponsBooked ==
    ASSUME CouponsInv, NEW b \in CouponBookers,
           \/ \E k \in CouponCodes : Coupons!Price(b, k)
           \/ Coupons!Reserve(b) \/ Coupons!GiveUp(b) \/ Coupons!Redeem(b)
           \/ Coupons!BookPlainly(b)
    PROVE  CouponsInv'
<1> USE CouponsAssumption DEF CouponsInv
<1>0. /\ booker \in [CouponBookers -> {"idle", "priced", "reserved", "paid", "gone"}]
      /\ uses \in [CouponBookers -> CouponVouchers \cup {Coupons!Nothing}]
      /\ copies \in [CouponBookers -> SUBSET CouponVouchers]
      /\ redeemed \in [CouponVouchers -> SUBSET CouponBookers]
      /\ peak \in [CouponVouchers -> 0..Cardinality(CouponBookers)]
      /\ Cardinality(CouponBookers) \in Nat
  BY FS_CardinalityType, CouponsCount DEF Coupons!TypeOK
<1>u. UNCHANGED <<promo, vEdit, adding, loose, wrote, vMet>>
  BY DEF Coupons!Price, Coupons!Reserve, Coupons!GiveUp, Coupons!Redeem, Coupons!BookPlainly
<1>e. CouponsMet' /\ CouponsChecked' /\ CouponsSingle'
  BY <1>u, EditsAlone
<1>h. \A v : Holding(v) \in SUBSET CouponBookers
  BY DEF Holding
<1>a. \A c : AddsMet(c)' = AddsMet(c)
  BY <1>u DEF AddsMet
<1>1. ASSUME NEW k \in CouponCodes, Coupons!Price(b, k)
      PROVE  CouponsInv'
  <2> DEFINE unpaid(v) == {c \in CouponBookers :
                              uses[c] = v /\ booker[c] \in {"priced", "reserved"}}
  <2>1. PICK v \in CouponVouchers :
          /\ Coupons!NotUsedUp(v) /\ uses' = [uses EXCEPT ![b] = v]
    BY <1>1 DEF Coupons!Price, Coupons!Applicable, Coupons!Filtered, Coupons!Found
  <2>2. uses'[b] = v
    BY <1>0, <2>1
  <2>3. /\ booker[b] = "idle" /\ booker' = [booker EXCEPT ![b] = "priced"]
        /\ UNCHANGED <<copies, redeemed>>
    BY <1>1 DEF Coupons!Price
  <2>4. peak' = [peak EXCEPT ![v] = IF Cardinality(Holding(v)) + 1 > @
                                    THEN Cardinality(Holding(v)) + 1 ELSE @]
    <3>1. peak' = [peak EXCEPT ![uses'[b]] =
                IF Coupons!Cardinality(unpaid(uses'[b])) + 1 > @
                THEN Coupons!Cardinality(unpaid(uses'[b])) + 1 ELSE @]
      BY <1>1 DEF Coupons!Price
    <3>2. unpaid(uses'[b]) = Holding(v)
      BY <2>2 DEF Holding
    <3> HIDE DEF unpaid
    <3> QED
      BY <2>2, <3>1, <3>2, CouponsCount
  <2>5. Cardinality(redeemed[v]) \in Nat /\ Cardinality(redeemed[v]) <= CouponLimit - 1
    <3>1. Cardinality(redeemed[v]) < CouponLimit
      BY <2>1, CouponsCount DEF Coupons!NotUsedUp
    <3>2. Cardinality(redeemed[v]) \in Nat
      BY <1>0, OneMore
    <3> QED
      BY <3>1, <3>2
  <2>6. /\ Holding(v)' = Holding(v) \cup {b} /\ b \notin Holding(v)
        /\ \A w \in CouponVouchers : w # v => Holding(w)' = Holding(w)
    BY <1>0, <2>1, <2>3 DEF Holding
  <2>7. /\ Cardinality(Holding(v)) \in Nat
        /\ Cardinality(Holding(v)') = Cardinality(Holding(v)) + 1
        /\ Cardinality(Holding(v)) + 1 <= Cardinality(CouponBookers)
    <3>1. /\ Cardinality(Holding(v)) \in Nat
          /\ Cardinality(Holding(v) \cup {b}) = Cardinality(Holding(v)) + 1
      BY <1>h, <2>6, OneMore
    <3>2. Holding(v) \cup {b} \in SUBSET CouponBookers
      BY <1>h
    <3> QED
      BY <2>6, <3>1, <3>2, OneMore
  <2>8. /\ peak' \in [CouponVouchers -> 0..Cardinality(CouponBookers)]
        /\ peak'[v] >= Cardinality(Holding(v)')
        /\ \A w \in CouponVouchers : w # v => peak'[w] = peak[w]
    BY <1>0, <2>4, <2>7
  <2>9. Coupons!TypeOK'
    BY <1>0, <1>u, <2>1, <2>3, <2>8, CouponsCount DEF Coupons!TypeOK
  <2>10. CouponsCopied'
    BY <1>0, <1>a, <1>u, <2>3 DEF CouponsCopied
  <2>11. CouponsLimited'
    <3>1. Cardinality(redeemed[v]) + Cardinality(Holding(v)') <= CouponLimit - 1 + peak'[v]
      BY <1>0, <2>5, <2>7, <2>8
    <3>2. \A c \in CouponBookers :
            booker'[c] \in {"priced", "reserved"} => uses'[c] \in CouponVouchers
      BY <1>0, <2>1, <2>3 DEF CouponsLimited
    <3>3. \A w \in CouponVouchers : \A c \in redeemed[w] : booker'[c] = "paid"
      BY <1>0, <2>3 DEF CouponsLimited
    <3>4. \A w \in CouponVouchers : w # v => Holding(w)' = Holding(w) /\ peak'[w] = peak[w]
      BY <2>6, <2>8
    <3> QED
      BY <2>3, <3>1, <3>2, <3>3, <3>4 DEF CouponsLimited
  <2> QED
    BY <1>e, <2>9, <2>10, <2>11
<1>2. CASE Coupons!Reserve(b)
  <2>1. /\ booker[b] = "priced" /\ booker' = [booker EXCEPT ![b] = "reserved"]
        /\ copies' = [copies EXCEPT ![b] = @ \cup {uses[b]}]
        /\ UNCHANGED <<uses, redeemed, peak>>
    BY <1>2 DEF Coupons!Reserve
  <2>2. uses[b] \in CouponVouchers /\ copies[b] = {}
    BY <2>1 DEF CouponsLimited, CouponsCopied
  <2>3. /\ copies'[b] = {uses[b]} /\ booker'[b] = "reserved"
        /\ \A c \in CouponBookers : c # b => copies'[c] = copies[c] /\ booker'[c] = booker[c]
    BY <1>0, <2>1, <2>2
  <2>4. Coupons!TypeOK'
    BY <1>0, <1>u, <2>1, <2>2, CouponsCount DEF Coupons!TypeOK
  <2>5. CouponsCopied'
    <3>1. \A c \in CouponBookers :
            /\ booker'[c] \in {"idle", "priced"} => copies'[c] = {}
            /\ copies'[c] = {} \/ (\E v \in CouponVouchers : copies'[c] = {v}) \/ AddsMet(c)'
      BY <1>a, <2>2, <2>3 DEF CouponsCopied
    <3>2. \A a \in CouponAdds : adding[a].pc = "read" => CouponBookingOf[a] # b
      BY <2>1 DEF CouponsCopied
    <3> QED
      BY <1>a, <1>u, <2>3, <3>1, <3>2 DEF CouponsCopied
  <2>6. \A v \in CouponVouchers : Holding(v)' = Holding(v)
    BY <2>1, <2>3 DEF Holding
  <2>7. CouponsLimited'
    BY <1>0, <2>1, <2>3, <2>6 DEF CouponsLimited
  <2> QED
    BY <1>e, <2>4, <2>5, <2>7
<1>3. CASE Coupons!GiveUp(b)
  <2>1. /\ booker[b] \in {"priced", "reserved"} /\ booker' = [booker EXCEPT ![b] = "gone"]
        /\ UNCHANGED <<uses, copies, redeemed, peak>>
    BY <1>3 DEF Coupons!GiveUp
  <2>2. booker'[b] = "gone" /\ \A c \in CouponBookers : c # b => booker'[c] = booker[c]
    BY <1>0, <2>1
  <2>3. Coupons!TypeOK'
    BY <1>0, <1>u, <2>1, CouponsCount DEF Coupons!TypeOK
  <2>4. CouponsCopied'
    <3>1. \A a \in CouponAdds : adding[a].pc = "read" => CouponBookingOf[a] # b
      BY <2>1 DEF CouponsCopied
    <3> QED
      BY <1>a, <1>u, <2>1, <2>2, <3>1 DEF CouponsCopied
  <2>5. \A v \in CouponVouchers : Holding(v)' = Holding(v) \ {b}
    BY <2>1, <2>2 DEF Holding
  <2>6. ASSUME NEW v \in CouponVouchers, redeemed[v] \cup Holding(v)' # {}
        PROVE  Cardinality(redeemed[v]) + Cardinality(Holding(v)') <= CouponLimit - 1 + peak[v]
    <3>1. redeemed[v] \cup Holding(v) # {}
      BY <2>5, <2>6
    <3>2. Cardinality(redeemed[v]) + Cardinality(Holding(v)) <= CouponLimit - 1 + peak[v]
      BY <3>1 DEF CouponsLimited
    <3>3. /\ Cardinality(Holding(v)) \in Nat /\ Cardinality(Holding(v)') \in Nat
          /\ Cardinality(Holding(v)') <= Cardinality(Holding(v))
      <4>1. Holding(v) \in SUBSET CouponBookers /\ Holding(v)' \in SUBSET CouponBookers
        BY <1>h, <2>5
      <4>2. Cardinality(Holding(v)) \in Nat /\ Cardinality(Holding(v)') \in Nat
        BY <4>1, OneMore
      <4>3. Cardinality(Holding(v) \ {b})
              = IF b \in Holding(v) THEN Cardinality(Holding(v)) - 1 ELSE Cardinality(Holding(v))
        BY <4>1, OneMore
      <4> QED
        BY <2>5, <4>2, <4>3
    <3>4. Cardinality(redeemed[v]) \in Nat
      BY <1>0, OneMore
    <3>5. peak[v] \in Nat
      BY <1>0
    <3> QED
      BY <3>2, <3>3, <3>4, <3>5
  <2>7. CouponsLimited'
    <3>1. \A v \in CouponVouchers : \A c \in redeemed[v] : booker'[c] = "paid"
      BY <1>0, <2>1, <2>2 DEF CouponsLimited
    <3> QED
      BY <2>1, <2>2, <2>6, <3>1 DEF CouponsLimited
  <2> QED
    BY <1>e, <2>3, <2>4, <2>7
<1>4. CASE Coupons!Redeem(b)
  <2> DEFINE u == uses[b]
  <2>1. /\ booker[b] = "reserved" /\ booker' = [booker EXCEPT ![b] = "paid"]
        /\ redeemed' = [redeemed EXCEPT ![u] = @ \cup {b}]
        /\ UNCHANGED <<uses, copies, peak>>
    BY <1>4 DEF Coupons!Redeem
  <2>2. booker'[b] = "paid" /\ \A c \in CouponBookers : c # b => booker'[c] = booker[c]
    BY <1>0, <2>1
  <2>3. u \in CouponVouchers
    BY <2>1 DEF CouponsLimited
  <2>4. /\ redeemed'[u] = redeemed[u] \cup {b}
        /\ \A v \in CouponVouchers : v # u => redeemed'[v] = redeemed[v]
    BY <1>0, <2>1, <2>3
  <2>5. Coupons!TypeOK'
    BY <1>0, <1>u, <2>1, <2>3, CouponsCount DEF Coupons!TypeOK
  <2>6. CouponsCopied'
    <3>1. \A a \in CouponAdds : adding[a].pc = "read" => CouponBookingOf[a] # b
      BY <2>1 DEF CouponsCopied
    <3> QED
      BY <1>a, <1>u, <2>1, <2>2, <3>1 DEF CouponsCopied
  <2>7. \A v \in CouponVouchers :
            /\ v = u => Holding(v)' = Holding(v) \ {b} /\ b \in Holding(v)
            /\ v # u => Holding(v)' = Holding(v)
    BY <2>1, <2>2 DEF Holding
  <2> HIDE DEF u
  <2>8. ASSUME NEW v \in CouponVouchers, v = u
        PROVE  Cardinality(redeemed'[v]) + Cardinality(Holding(v)') <= CouponLimit - 1 + peak[v]
    <3>1. Holding(v)' = Holding(v) \ {b} /\ b \in Holding(v) /\ redeemed'[v] = redeemed[v] \cup {b}
      BY <2>4, <2>7, <2>8
    <3>2. Cardinality(redeemed[v]) + Cardinality(Holding(v)) <= CouponLimit - 1 + peak[v]
      BY <3>1 DEF CouponsLimited
    <3>3. redeemed[v] \in SUBSET CouponBookers /\ b \notin redeemed[v]
      BY <1>0, <2>1 DEF CouponsLimited
    <3>4. /\ Cardinality(redeemed[v]) \in Nat /\ Cardinality(Holding(v)) \in Nat
          /\ Cardinality(redeemed[v] \cup {b}) = Cardinality(redeemed[v]) + 1
          /\ Cardinality(Holding(v) \ {b}) = Cardinality(Holding(v)) - 1
      BY <1>h, <3>1, <3>3, OneMore
    <3>5. peak[v] \in Nat
      BY <1>0
    <3> QED
      BY <3>1, <3>2, <3>4, <3>5
  <2>9. \A v \in CouponVouchers : \A c \in redeemed'[v] : booker'[c] = "paid"
    BY <1>0, <2>2, <2>3, <2>4 DEF CouponsLimited
  <2>10. CouponsLimited'
    <3>1. \A c \in CouponBookers :
            booker'[c] \in {"priced", "reserved"} => uses'[c] \in CouponVouchers
      BY <2>1, <2>2 DEF CouponsLimited
    <3>2. ASSUME NEW v \in CouponVouchers, redeemed'[v] \cup Holding(v)' # {}
          PROVE  Cardinality(redeemed'[v]) + Cardinality(Holding(v)') <= CouponLimit - 1 + peak'[v]
      <4>1. CASE v = u
        BY <2>1, <2>8, <4>1
      <4>2. CASE v # u
        BY <2>1, <2>4, <2>7, <3>2, <4>2 DEF CouponsLimited
      <4> QED
        BY <4>1, <4>2
    <3> QED
      BY <2>9, <3>1, <3>2 DEF CouponsLimited
  <2> QED
    BY <1>e, <2>5, <2>6, <2>10
<1>5. CASE Coupons!BookPlainly(b)
  <2>1. /\ booker[b] = "idle" /\ booker' = [booker EXCEPT ![b] = "paid"]
        /\ UNCHANGED <<uses, copies, redeemed, peak>>
    BY <1>5 DEF Coupons!BookPlainly
  <2>2. booker'[b] = "paid" /\ \A c \in CouponBookers : c # b => booker'[c] = booker[c]
    BY <1>0, <2>1
  <2>3. Coupons!TypeOK'
    BY <1>0, <1>u, <2>1, CouponsCount DEF Coupons!TypeOK
  <2>4. CouponsCopied'
    <3>1. \A a \in CouponAdds : adding[a].pc = "read" => CouponBookingOf[a] # b
      BY <2>1 DEF CouponsCopied
    <3> QED
      BY <1>a, <1>u, <2>1, <2>2, <3>1 DEF CouponsCopied
  <2>5. \A v \in CouponVouchers : Holding(v)' = Holding(v)
    BY <2>1, <2>2 DEF Holding
  <2>6. CouponsLimited'
    BY <1>0, <2>1, <2>2, <2>5 DEF CouponsLimited
  <2> QED
    BY <1>e, <2>3, <2>4, <2>6
<1> QED
  BY <1>1, <1>2, <1>3, <1>4, <1>5

(* A voucher is added to a booking that is paid.                           *)
LEMMA CouponsAdded ==
    ASSUME CouponsInv, NEW a \in CouponAdds,
           (\E k \in CouponCodes : Coupons!AddReads(a, k)) \/ Coupons!AddWrites(a)
    PROVE  CouponsInv'
<1> USE CouponsAssumption DEF CouponsInv
<1> DEFINE b == CouponBookingOf[a]
<1>0. /\ adding \in [CouponAdds -> [pc: {"idle", "read", "done"},
                                    voucher: CouponVouchers \cup {Coupons!Nothing}]]
      /\ copies \in [CouponBookers -> SUBSET CouponVouchers]
      /\ b \in CouponBookers
  BY DEF Coupons!TypeOK
<1>l. UNCHANGED <<booker, uses, redeemed, peak>> => CouponsLimited'
  <2> SUFFICES ASSUME UNCHANGED <<booker, uses, redeemed, peak>> PROVE CouponsLimited'
    OBVIOUS
  <2>1. \A v : Holding(v)' = Holding(v)
    BY DEF Holding
  <2> QED
    BY <2>1 DEF CouponsLimited
<1>1. ASSUME NEW k \in CouponCodes, Coupons!AddReads(a, k)
      PROVE  CouponsInv'
  <2> DEFINE others == Coupons!AddsUnderWay(b)
  <2>1. PICK v \in CouponVouchers : adding' = [adding EXCEPT ![a] = [pc |-> "read", voucher |-> v]]
    BY <1>1 DEF Coupons!AddReads, Coupons!Applicable, Coupons!Filtered, Coupons!Found
  <2>2. /\ adding[a].pc = "idle" /\ booker[b] = "paid" /\ copies[b] = {}
        /\ vMet' = vMet \cup ({a} \X others) \cup (others \X {a})
        /\ UNCHANGED <<promo, vEdit, booker, uses, copies, redeemed, loose, wrote, peak>>
    BY <1>1 DEF Coupons!AddReads, Coupons!Meets
  <2>3. others = {c \in CouponAdds : adding[c].pc = "read" /\ CouponBookingOf[c] = b}
    BY DEF Coupons!AddsUnderWay
  <2> HIDE DEF others
  <2>4. /\ adding'[a].pc = "read" /\ adding'[a].voucher = v
        /\ \A c \in CouponAdds : c # a => adding'[c] = adding[c]
    BY <1>0, <2>1
  <2>5. Coupons!TypeOK'
    <3>1. vMet' \subseteq (CouponEdits \cup CouponAdds) \X (CouponEdits \cup CouponAdds)
      BY <2>2, <2>3 DEF Coupons!TypeOK
    <3>2. adding' \in [CouponAdds -> [pc: {"idle", "read", "done"},
                                     voucher: CouponVouchers \cup {Coupons!Nothing}]]
      BY <1>0, <2>1
    <3> QED
      BY <2>2, <3>1, <3>2 DEF Coupons!TypeOK
  <2>6. \A c : AddsMet(c) => AddsMet(c)'
    BY <2>2 DEF AddsMet
  <2>7. CouponsCopied'
    <3>1. \A c \in CouponBookers :
            /\ booker'[c] \in {"idle", "priced"} => copies'[c] = {}
            /\ copies'[c] = {} \/ (\E w \in CouponVouchers : copies'[c] = {w}) \/ AddsMet(c)'
      BY <2>2, <2>6 DEF CouponsCopied
    <3>2. \A c \in CouponAdds : adding'[c].pc = "read" =>
            /\ adding'[c].voucher \in CouponVouchers /\ booker'[CouponBookingOf[c]] = "paid"
            /\ copies'[CouponBookingOf[c]] = {} \/ AddsMet(CouponBookingOf[c])'
      BY <2>2, <2>4, <2>6 DEF CouponsCopied
    <3>3. \A c, d \in CouponAdds :
            /\ c # d /\ adding'[c].pc = "read" /\ adding'[d].pc = "read"
            /\ CouponBookingOf[c] = CouponBookingOf[d]
            => <<c, d>> \in vMet'
      BY <2>2, <2>3, <2>4 DEF CouponsCopied
    <3> QED
      BY <3>1, <3>2, <3>3 DEF CouponsCopied
  <2> QED
    BY <1>l, <2>2, <2>5, <2>7, EditsAlone
<1>2. CASE Coupons!AddWrites(a)
  <2>1. /\ adding[a].pc = "read" /\ adding' = [adding EXCEPT ![a].pc = "done"]
        /\ copies' = [copies EXCEPT ![b] = @ \cup {adding[a].voucher}]
        /\ UNCHANGED <<promo, vEdit, booker, uses, redeemed, loose, wrote, vMet, peak>>
    BY <1>2 DEF Coupons!AddWrites
  <2>2. /\ adding[a].voucher \in CouponVouchers /\ booker[b] = "paid"
        /\ copies[b] = {} \/ AddsMet(b)
    BY <2>1 DEF CouponsCopied
  <2>3. /\ copies'[b] = copies[b] \cup {adding[a].voucher}
        /\ \A c \in CouponBookers : c # b => copies'[c] = copies[c]
    BY <1>0, <2>1
  <2>4. adding'[a].pc = "done" /\ \A c \in CouponAdds : c # a => adding'[c] = adding[c]
    BY <1>0, <2>1
  <2>5. Coupons!TypeOK'
    <3>1. /\ copies' \in [CouponBookers -> SUBSET CouponVouchers]
          /\ adding' \in [CouponAdds -> [pc: {"idle", "read", "done"},
                                         voucher: CouponVouchers \cup {Coupons!Nothing}]]
      BY <1>0, <2>1, <2>2
    <3> QED
      BY <2>1, <3>1 DEF Coupons!TypeOK
  <2>6. \A c : AddsMet(c)' = AddsMet(c)
    BY <2>1 DEF AddsMet
  <2>7. CouponsCopied'
    <3>1. \A c \in CouponBookers :
            /\ booker'[c] \in {"idle", "priced"} => copies'[c] = {}
            /\ copies'[c] = {} \/ (\E w \in CouponVouchers : copies'[c] = {w}) \/ AddsMet(c)'
      BY <2>1, <2>2, <2>3, <2>6 DEF CouponsCopied
    <3>2. ASSUME NEW c \in CouponAdds, adding'[c].pc = "read"
          PROVE  /\ adding'[c].voucher \in CouponVouchers /\ booker'[CouponBookingOf[c]] = "paid"
                 /\ copies'[CouponBookingOf[c]] = {} \/ AddsMet(CouponBookingOf[c])'
      <4>1. c # a /\ adding[c] = adding'[c] /\ CouponBookingOf[c] \in CouponBookers
        BY <2>4, <3>2
      <4>2. CouponBookingOf[c] = b => <<c, a>> \in vMet
        BY <2>1, <3>2, <4>1 DEF CouponsCopied
      <4>3. CouponBookingOf[c] = b => AddsMet(b)
        BY <4>2 DEF AddsMet
      <4> QED
        BY <2>1, <2>3, <2>6, <3>2, <4>1, <4>3 DEF CouponsCopied
    <3>3. \A c, d \in CouponAdds :
            /\ c # d /\ adding'[c].pc = "read" /\ adding'[d].pc = "read"
            /\ CouponBookingOf[c] = CouponBookingOf[d]
            => <<c, d>> \in vMet'
      BY <2>1, <2>4 DEF CouponsCopied
    <3> QED
      BY <3>1, <3>2, <3>3 DEF CouponsCopied
  <2> QED
    BY <1>l, <2>1, <2>5, <2>7, EditsAlone
<1> QED
  BY <1>1, <1>2

(* Every step of an administrator, a booking and an added voucher keeps    *)
(* who met whom and how many may still redeem (promotions/promotion/       *)
(* promotion.service.ts 402-409, bookings/booking.service.ts 2433-2440).   *)
THEOREM CouponsInvariant == Coupons!Spec => []CouponsInv
<1>1. Coupons!Init => CouponsInv
  BY CouponsInitially
<1>2. CouponsInv /\ [Coupons!Next]_(Coupons!promoVars) => CouponsInv'
  <2> SUFFICES ASSUME CouponsInv, [Coupons!Next]_(Coupons!promoVars) PROVE CouponsInv'
    OBVIOUS
  <2>1. CASE Coupons!Next
    BY <2>1, CouponsEdited, CouponsBooked, CouponsAdded DEF Coupons!Next
  <2>2. CASE UNCHANGED Coupons!promoVars
    <3>1. /\ UNCHANGED <<promo, vEdit, booker, uses, copies, redeemed, adding, loose, wrote, peak>>
          /\ vMet' = vMet
      BY <2>2 DEF Coupons!promoVars
    <3>2. Coupons!TypeOK'
      BY <3>1 DEF Coupons!TypeOK, CouponsInv
    <3> QED
      BY <3>1, <3>2, BookersAlone, EditsAlone DEF CouponsInv
  <2> QED
    BY <2>1, <2>2
<1> QED
  BY <1>1, <1>2, PTL DEF Coupons!Spec

(* Two ACTIVE vouchers have one code, or a booking two vouchers, only      *)
(* where their writers met or made no check, and a voucher is redeemed no  *)
(* more often than its limit allows but for those who held it at once      *)
(* (promotions/promotion/promotion.service.ts 402-409 and 561).            *)
THEOREM VouchersAreLimited == ServicesSpec => []VouchersHold
<1>1. CouponsInv => VouchersHold
  <2> SUFFICES ASSUME CouponsInv PROVE Coupons!VouchersUnique /\ Coupons!LimitKept
    BY DEF VouchersHold
  <2> USE CouponsAssumption DEF CouponsInv
  <2>1. ASSUME NEW b \in CouponBookers
        PROVE  \/ Cardinality(copies[b]) <= 1
               \/ \E a, c \in CouponAdds :
                     <<a, c>> \in vMet /\ CouponBookingOf[a] = b /\ CouponBookingOf[c] = b
    <3>1. copies[b] = {} \/ (\E v \in CouponVouchers : copies[b] = {v}) \/ AddsMet(b)
      BY DEF CouponsCopied
    <3>2. Cardinality({}) = 0 /\ \A v : Cardinality({v}) = 1
      BY FS_EmptySet, FS_Singleton
    <3>3. CASE copies[b] = {} \/ \E v \in CouponVouchers : copies[b] = {v}
      <4>1. Cardinality(copies[b]) = 0 \/ Cardinality(copies[b]) = 1
        BY <3>2, <3>3
      <4>2. Cardinality(copies[b]) <= 1
        BY <4>1
      <4> QED
        BY <4>2
    <3>4. CASE AddsMet(b)
      BY <3>4 DEF AddsMet
    <3> QED
      BY <3>1, <3>3, <3>4
  <2>2. Coupons!VouchersUnique
    BY <2>1, CouponsCount DEF Coupons!VouchersUnique, CouponsSingle
  <2>3. ASSUME NEW v \in CouponVouchers, redeemed[v] # {}
        PROVE  Cardinality(redeemed[v]) <= CouponLimit - 1 + peak[v]
    <3>1. Cardinality(redeemed[v]) + Cardinality(Holding(v)) <= CouponLimit - 1 + peak[v]
      BY <2>3 DEF CouponsLimited
    <3>2. redeemed[v] \in SUBSET CouponBookers /\ Holding(v) \in SUBSET CouponBookers
      BY DEF Coupons!TypeOK, Holding
    <3>3. IsFiniteSet(redeemed[v]) /\ IsFiniteSet(Holding(v))
      BY <3>2, FS_Subset
    <3>4. Cardinality(redeemed[v]) \in Nat /\ Cardinality(Holding(v)) \in Nat
      BY <3>3, FS_CardinalityType
    <3>5. peak[v] \in Nat
      BY CouponsCount, FS_CardinalityType DEF Coupons!TypeOK
    <3> QED
      BY <3>1, <3>4, <3>5
  <2>4. Coupons!LimitKept
    BY <2>3, CouponsCount DEF Coupons!LimitKept
  <2> QED
    BY <2>2, <2>4
<1> QED
  BY <1>1, CouponsFollow, CouponsInvariant, PTL

=============================================================================
