------------------------- MODULE ConsoleCreate_proofs -------------------------
(***************************************************************************)
(* What the fares of Pricing promise for every distance, and the proof     *)
(* that the create modal sends the fare it shows for the journey it was    *)
(* asked about, one create per estimate.                                   *)
(***************************************************************************)
EXTENDS ConsoleCreate, TLAPS, SequenceTheorems, WellFoundedInduction

-----------------------------------------------------------------------------
(* Fares. *)

\* A longer journey never costs less, whatever the vehicle: the tiers of
\* calculateSaloonFare and calculateMpvFare join (pricing.ts:26, 43).
THEOREM FareMonotone ==
  ASSUME NEW g \in Int, NEW h \in Int, g <= h, NEW v \in VEHICLE_TYPES
  PROVE  TieredFare(g, v) <= TieredFare(h, v)
<1>1. FirstRate[v] \in {15, 20} /\ AdditionalRate[v] \in {6, 15}
  BY DEF VEHICLE_TYPES, FirstRate, AdditionalRate
<1> QED
  BY <1>1 DEF TieredFare, FirstMiles, NonNegative

\* For one distance the saloon is never dearer than the executive, nor the
\* executive than the MPV: the order in which the console and the app offer them.
THEOREM FareOrder ==
  ASSUME NEW h \in Int
  PROVE  /\ TieredFare(h, "saloon") <= TieredFare(h, "executive")
         /\ TieredFare(h, "executive") <= TieredFare(h, "mpv")
BY DEF TieredFare, FirstMiles, FirstRate, AdditionalRate, NonNegative

LEMMA FareNat ==
  ASSUME NEW h \in Int, NEW v \in VEHICLE_TYPES
  PROVE  TieredFare(NonNegative(h), v) \in Nat
<1>1. FirstRate[v] \in {15, 20} /\ AdditionalRate[v] \in {6, 15}
  BY DEF VEHICLE_TYPES, FirstRate, AdditionalRate
<1> QED
  BY <1>1 DEF TieredFare, FirstMiles, NonNegative

LEMMA FareType ==
  ASSUME NEW h \in Int, NEW v \in VEHICLE_TYPES
  PROVE  CalculateFare(h, v) \subseteq Nat
<1> DEFINE amount == TieredFare(NonNegative(h), v)
<1>1. amount \in Nat
  BY FareNat
<1>2. amount \div 2 \in Nat /\ (amount + 1) \div 2 \in Nat
  <2> HIDE DEF amount
  <2> QED BY <1>1
<1> QED
  BY <1>2 DEF CalculateFare, RoundToPence

LEMMA AllFares ==
  ASSUME NEW h \in Int, NEW f \in CalculateAllFares(h)
  PROVE  f \in Fares /\ \A v \in VEHICLE_TYPES : f[v] \in CalculateFare(h, v)
<1>1. PICK s \in CalculateFare(h, "saloon"), e \in CalculateFare(h, "executive"), m \in CalculateFare(h, "mpv") :
        f = [saloon |-> s, executive |-> e, mpv |-> m]
  BY DEF CalculateAllFares
<1>2. s \in Nat /\ e \in Nat /\ m \in Nat
  BY FareType DEF VEHICLE_TYPES
<1>3. f.saloon \in CalculateFare(h, "saloon") /\ f.executive \in CalculateFare(h, "executive") /\ f.mpv \in CalculateFare(h, "mpv")
  BY <1>1
<1> QED
  BY <1>1, <1>2, <1>3 DEF Fares, VEHICLE_TYPES

LEMMA MilesNat ==
  ASSUME NEW m \in Nat
  PROVE  MilesFromMeters(m) \in Nat
BY DEF MilesFromMeters

LEMMA ReturnedFares ==
  ASSUME NEW S, NEW O,
         \A f \in S : \E o \in O : o.data.fares = f,
         \A o \in O : o.data.fares \in S
  PROVE  {o.data.fares : o \in O} = S
OBVIOUS

\* The app's POST /routing/fare for the miles of a quote has the fares that the
\* quote may have: no journey is priced twice in two ways (routing.service.ts:75).
THEOREM FareAgreesWithQuote ==
  ASSUME NEW meters \in Nat, NEW v \in VEHICLE_TYPES
  PROVE  {o.data.fares : o \in GetFare([distanceMiles |-> MilesFromMeters(meters), vehicleType |-> v])}
           = {o.data.fares : o \in Quotes(meters, v)}
<1> DEFINE h == MilesFromMeters(meters)
<1>1. NonNegative(h) = h
  BY MilesNat DEF NonNegative
<1>2. {o.data.fares : o \in Quotes(meters, v)} = CalculateAllFares(h)
  <2> DEFINE O == Quotes(meters, v)
             R(f) == Returns([distanceMiles |-> h, distanceKm |-> KmFromMiles(h), vehicleType |-> v,
                              fares |-> f, estimatedFare |-> f[v]])
  <2>1. (\A f \in CalculateAllFares(h) : R(f) \in O) /\ (\A o \in O : \E f \in CalculateAllFares(h) : o = R(f))
    BY DEF Quotes, CalculateAllFaresFromMeters
  <2>2. \A f : R(f).data.fares = f
    BY DEF Returns
  <2> HIDE DEF R
  <2>3. /\ \A f \in CalculateAllFares(h) : \E o \in O : o.data.fares = f
        /\ \A o \in O : o.data.fares \in CalculateAllFares(h)
    BY <2>1, <2>2
  <2> QED  BY <2>3, ReturnedFares
<1>3. {o.data.fares : o \in GetFare([distanceMiles |-> h, vehicleType |-> v])} = CalculateAllFares(NonNegative(h))
  <2> DEFINE n == NonNegative(h)
             O == GetFare([distanceMiles |-> h, vehicleType |-> v])
             R(f) == Returns([distanceMiles |-> n, distanceKm |-> KmFromMiles(n), vehicleType |-> v,
                              fares |-> f, estimatedFare |-> f[v]])
  <2>1. (\A f \in CalculateAllFares(n) : R(f) \in O) /\ (\A o \in O : \E f \in CalculateAllFares(n) : o = R(f))
    BY DEF GetFare
  <2>2. \A f : R(f).data.fares = f
    BY DEF Returns
  <2> HIDE DEF R
  <2>3. /\ \A f \in CalculateAllFares(n) : \E o \in O : o.data.fares = f
        /\ \A o \in O : o.data.fares \in CalculateAllFares(n)
    BY <2>1, <2>2
  <2> QED  BY <2>3, ReturnedFares
<1> QED
  BY <1>1, <1>2, <1>3

-----------------------------------------------------------------------------
(* Distances.  A fold is a chain of steps, and what holds of the first link  *)
(* and from one link to the next holds of all.                               *)

LEMMA SetInduction ==
  ASSUME NEW S, 0 \in S, \A n \in Nat : n \in S => n + 1 \in S
  PROVE  Nat \subseteq S
<1> DEFINE T == Nat \ S
<1> DEFINE R == {ss \in Nat \X Nat : ss[1] < ss[2]}
<1> SUFFICES ASSUME T # {} PROVE FALSE
  OBVIOUS
<1>1. IsWellFoundedOn(R, Nat)
  BY NatLessThanWellFounded DEF OpToRel
<1>2. \E x \in T : \A y \in T : ~(<<y, x>> \in R)
  <2> HIDE DEF R
  <2> QED BY <1>1, WFMin
<1>3. PICK x \in T : \A y \in T : ~(<<y, x>> \in R)
  BY <1>2
<1>4. x - 1 \in T
  OBVIOUS
<1>5. <<x - 1, x>> \in R
  BY <1>4
<1> QED BY <1>3, <1>4, <1>5

LEMMA MaxOfPrefix ==
  ASSUME NEW n \in Nat, NEW t \in SUBSET (1 .. n + 1), n + 1 \in t
  PROVE  Max(t) = n + 1
<1>1. \A y \in t : n + 1 >= y
  OBVIOUS
<1>2. \A x \in t : (\A y \in t : x >= y) => x = n + 1
  OBVIOUS
<1>3. Max(t) \in t /\ \A y \in t : Max(t) >= y
  BY <1>1 DEF Max
<1> QED
  BY <1>2, <1>3

\* DistanceMeters adds one leg after the other.
LEMMA DistanceChain ==
  ASSUME NEW s, NEW n \in Nat, DOMAIN s = 1 .. n
  PROVE  \E f : /\ f[0] = 0
                /\ \A i \in 1 .. n : f[i] = AddLeg(f[i - 1], s[i])
                /\ DistanceMeters(s) = f[n]
<1> DEFINE Is(g, k) == g = [t \in SUBSET (1 .. k) |->
                              IF t = {} THEN 0 ELSE AddLeg(g[t \ {Max(t)}], s[Max(t)])]
<1> DEFINE K == {k \in Nat : \E g : Is(g, k)}
<1>1. 0 \in K
  <2>1. Is([t \in {{}} |-> 0], 0)
    <3>1. SUBSET (1 .. 0) = {{}}
      OBVIOUS
    <3> QED BY <3>1
  <2> QED BY <2>1
<1>2. ASSUME NEW k \in Nat, k \in K PROVE k + 1 \in K
  <2>1. PICK g : Is(g, k)
    BY <1>2
  <2> DEFINE h == [t \in SUBSET (1 .. k + 1) |->
                    IF k + 1 \in t THEN AddLeg(g[t \ {k + 1}], s[k + 1]) ELSE g[t]]
  <2>2. ASSUME NEW t \in SUBSET (1 .. k + 1)
        PROVE  h[t] = IF t = {} THEN 0 ELSE AddLeg(h[t \ {Max(t)}], s[Max(t)])
    <3>1. CASE k + 1 \in t
      <4>1. Max(t) = k + 1
        BY <3>1, MaxOfPrefix
      <4>2. t \ {k + 1} \in SUBSET (1 .. k + 1) /\ k + 1 \notin t \ {k + 1}
        OBVIOUS
      <4>3. h[t \ {k + 1}] = g[t \ {k + 1}]
        BY <4>2
      <4> QED BY <3>1, <4>1, <4>3
    <3>2. CASE k + 1 \notin t
      <4>0. \A e \in t : e \in 1 .. k
        BY <3>2
      <4>1. t \in SUBSET (1 .. k) /\ t \ {Max(t)} \in SUBSET (1 .. k + 1) /\ k + 1 \notin t \ {Max(t)}
        BY <3>2, <4>0
      <4>2. h[t] = g[t] /\ h[t \ {Max(t)}] = g[t \ {Max(t)}]
        BY <3>2, <4>1
      <4> QED BY <4>1, <4>2, <2>1
    <3> QED BY <3>1, <3>2
  <2>3. Is(h, k + 1)
    <3> DEFINE B(t) == IF t = {} THEN 0 ELSE AddLeg(h[t \ {Max(t)}], s[Max(t)])
    <3>1. \A t \in SUBSET (1 .. k + 1) : h[t] = B(t)
      BY <2>2
    <3>2. h = [t \in SUBSET (1 .. k + 1) |-> h[t]]
      OBVIOUS
    <3> HIDE DEF h, B
    <3>3. h = [t \in SUBSET (1 .. k + 1) |-> B(t)]
      BY <3>1, <3>2
    <3> QED BY <3>3 DEF B
  <2> HIDE DEF h, Is
  <2> QED BY <2>3
<1>3. PICK g0 : Is(g0, n)
  <2> HIDE DEF K
  <2>1. Nat \subseteq K
    BY <1>1, <1>2, SetInduction
  <2> QED BY <2>1 DEF K
<1> DEFINE iter == CHOOSE g : Is(g, n)
<1>4. iter = [t \in SUBSET (1 .. n) |->
          IF t = {} THEN 0 ELSE AddLeg(iter[t \ {Max(t)}], s[Max(t)])]
  BY <1>3
<1>5. DistanceMeters(s) = iter[1 .. n]
  BY Zenon DEF DistanceMeters, FoldLeft, MapThenFoldSet
<1> HIDE DEF iter
<1> DEFINE f == [i \in 0 .. n |-> iter[1 .. i]]
<1>6. f[0] = 0
  BY <1>4
<1>7. ASSUME NEW i \in 1 .. n PROVE f[i] = AddLeg(f[i - 1], s[i])
  <2>1. Max(1 .. i) = i /\ (1 .. i) \ {i} = 1 .. i - 1 /\ 1 .. i # {} /\ 1 .. i \in SUBSET (1 .. n)
    <3>0. i - 1 \in Nat /\ (i - 1) + 1 = i /\ i \in 1 .. i /\ i \in Nat
      OBVIOUS
    <3>1. Max(1 .. i) = i
      BY <3>0, MaxOfPrefix
    <3>2. (1 .. i) \ {i} = 1 .. i - 1
      BY <3>0
    <3> QED BY <3>0, <3>1, <3>2
  <2>2. iter[1 .. i] = AddLeg(iter[(1 .. i) \ {Max(1 .. i)}], s[Max(1 .. i)])
    BY <1>4, <2>1
  <2>3. iter[1 .. i] = AddLeg(iter[1 .. i - 1], s[i])
    BY <2>1, <2>2
  <2> QED BY <2>3
<1>8. DistanceMeters(s) = f[n]
  BY <1>5
<1> QED BY <1>6, <1>7, <1>8

\* The distance of a route is that of its legs added up, none left out: it grows
\* with every leg by that leg (google-directions-api.client.ts:67).
THEOREM LegsAddUp ==
  ASSUME NEW legs \in Seq(Nat)
  PROVE  /\ DistanceMeters(<<>>) = 0
         /\ DistanceMeters(legs) \in Nat
         /\ \A m \in Nat : DistanceMeters(Append(legs, m)) = DistanceMeters(legs) + m
         /\ \A i \in DOMAIN legs : legs[i] <= DistanceMeters(legs)
<1> DEFINE n == Len(legs)
<1>1. n \in Nat /\ DOMAIN legs = 1 .. n /\ \A i \in 1 .. n : legs[i] \in Nat
  OBVIOUS
<1>2. PICK f : /\ f[0] = 0
               /\ \A i \in 1 .. n : f[i] = AddLeg(f[i - 1], legs[i])
               /\ DistanceMeters(legs) = f[n]
  BY <1>1, DistanceChain
<1> HIDE DEF n
<1>3. f[n] \in Nat /\ \A i \in 1 .. n : legs[i] <= f[n]
  <2> DEFINE Good(k) == f[k] \in Nat /\ \A i \in 1 .. k : legs[i] <= f[k]
             K == {k \in Nat : k <= n => Good(k)}
  <2>1. 0 \in K
    BY <1>2
  <2>2. ASSUME NEW k \in Nat, k \in K  PROVE k + 1 \in K
    <3>1. ASSUME k + 1 <= n  PROVE Good(k + 1)
      <4>1. Good(k) /\ k + 1 \in 1 .. n
        BY <1>1, <2>2, <3>1
      <4>2. f[k + 1] = f[k] + legs[k + 1] /\ legs[k + 1] \in Nat
        BY <1>1, <1>2, <4>1 DEF AddLeg
      <4>3. \A i \in 1 .. k + 1 : i \in 1 .. k \/ i = k + 1
        BY <2>2
      <4>4. \A i \in 1 .. k : legs[i] \in Nat
        BY <1>1, <2>2, <3>1
      <4> QED  BY <4>1, <4>2, <4>3, <4>4
    <3> HIDE DEF Good
    <3> QED  BY <3>1
  <2> HIDE DEF K
  <2>3. Nat \subseteq K
    BY <2>1, <2>2, SetInduction
  <2>4. n \in K
    BY <1>1, <2>3
  <2> QED  BY <1>1, <2>4 DEF K
<1>4. ASSUME NEW m \in Nat  PROVE DistanceMeters(Append(legs, m)) = f[n] + m
  <2> DEFINE s == Append(legs, m)
  <2>1. DOMAIN s = 1 .. n + 1 /\ s[n + 1] = m /\ \A i \in 1 .. n : s[i] = legs[i]
    BY AppendProperties DEF n
  <2>2. n + 1 \in Nat
    BY <1>1
  <2>3. PICK g : /\ g[0] = 0
                 /\ \A i \in 1 .. n + 1 : g[i] = AddLeg(g[i - 1], s[i])
                 /\ DistanceMeters(s) = g[n + 1]
    BY <2>1, <2>2, DistanceChain
  <2> HIDE DEF s
  <2> DEFINE K == {k \in Nat : k <= n => g[k] = f[k]}
  <2>4. 0 \in K
    BY <1>2, <2>3
  <2>5. ASSUME NEW k \in Nat, k \in K  PROVE k + 1 \in K
    <3>1. ASSUME k + 1 <= n  PROVE g[k + 1] = f[k + 1]
      <4>1. g[k] = f[k] /\ k + 1 \in 1 .. n /\ k + 1 \in 1 .. n + 1 /\ (k + 1) - 1 = k
        BY <1>1, <2>5, <3>1
      <4>2. g[k + 1] = AddLeg(g[(k + 1) - 1], s[k + 1])
        BY <2>3, <4>1
      <4>3. f[k + 1] = AddLeg(f[(k + 1) - 1], legs[k + 1])
        BY <1>2, <4>1
      <4> QED  BY <2>1, <4>1, <4>2, <4>3
    <3> QED  BY <3>1
  <2> HIDE DEF K
  <2>6. Nat \subseteq K
    BY <2>4, <2>5, SetInduction
  <2>7. g[n] = f[n]
    BY <1>1, <2>6 DEF K
  <2>8. n + 1 \in 1 .. n + 1 /\ (n + 1) - 1 = n
    BY <1>1
  <2>9. g[n + 1] = AddLeg(g[(n + 1) - 1], s[n + 1])
    BY <2>3, <2>8
  <2>10. g[n + 1] = f[n] + m
    BY <2>1, <2>7, <2>8, <2>9 DEF AddLeg
  <2> QED  BY <2>3, <2>10 DEF s
<1>5. DistanceMeters(<<>>) = 0
  <2>1. DOMAIN <<>> = 1 .. 0
    OBVIOUS
  <2>2. \E h : h[0] = 0 /\ DistanceMeters(<<>>) = h[0]
    BY <2>1, DistanceChain
  <2> QED  BY <2>2
<1> QED  BY <1>1, <1>2, <1>3, <1>4, <1>5

\* A route no longer than another is quoted the same miles or fewer, and fewer
\* quoted miles are a lower fare for every vehicle, to the penny, also across the
\* end of a tier (pricing.ts:59-109).
THEOREM QuoteMonotone ==
  ASSUME NEW m \in Nat, NEW n \in Nat, m <= n, NEW v \in VEHICLE_TYPES,
         NEW f \in CalculateAllFaresFromMeters(m), NEW g \in CalculateAllFaresFromMeters(n)
  PROVE  \/ MilesFromMeters(m) = MilesFromMeters(n)
         \/ MilesFromMeters(m) < MilesFromMeters(n) /\ f[v] < g[v]
<1> DEFINE p == MilesFromMeters(m)
           q == MilesFromMeters(n)
<1>1. p \in Nat /\ q \in Nat
  BY MilesNat
<1>2. p <= q
  BY DEF MilesFromMeters
<1>3. f[v] \in CalculateFare(p, v) /\ g[v] \in CalculateFare(q, v)
  BY <1>1, AllFares DEF CalculateAllFaresFromMeters
<1> HIDE DEF p, q
<1>4. NonNegative(p) = p /\ NonNegative(q) = q
  BY <1>1 DEF NonNegative
<1> DEFINE a == TieredFare(p, v)
           b == TieredFare(q, v)
<1>5. FirstRate[v] \in {15, 20} /\ AdditionalRate[v] \in {6, 15}
  BY DEF VEHICLE_TYPES, FirstRate, AdditionalRate
<1>6. a \in Nat /\ b \in Nat
  BY <1>1, <1>4, FareNat
<1>7. p < q => a + 6 <= b
  BY <1>1, <1>4, <1>5 DEF TieredFare, FirstMiles
<1>8. f[v] \in RoundToPence(a) /\ g[v] \in RoundToPence(b)
  BY <1>3, <1>4 DEF CalculateFare
<1> HIDE DEF a, b
<1>9. p < q => f[v] < g[v]
  BY <1>6, <1>7, <1>8 DEF RoundToPence
<1> QED  BY <1>1, <1>2, <1>9 DEF p, q

-----------------------------------------------------------------------------
(* The modal.  The quote has the fares of its distance; it and the estimate  *)
(* awaited are of the form's journey unless overtaken; the label follows the *)
(* quote; and every post is excused when the button is enabled.              *)

QuoteInv ==
  quote.known =>
    /\ quote.fares \in CalculateAllFares(quote.distanceMiles)
    /\ ~quote.overtaken => quote.distanceMiles = MilesFromMeters(Distance(JourneyOf(form)))

EstimateInv ==
  estimating.known /\ ~estimating.overtaken => form.from = estimating.from /\ form.to = estimating.to

ShownInv == quote.known => shown = FareDisplay(quote, form)

PostsInv ==
  /\ NoDoubleSubmit
  /\ submitEnabled => \A i \in DOMAIN posts : posts[i]

IInv == TypeOK /\ QuoteInv /\ EstimateInv /\ ShownInv /\ PostsInv

Points(d) == <<[label |-> "pickup", input |-> d.from], [label |-> "drop-off", input |-> d.to]>>

LEMMA QuoteOutcomes ==
  ASSUME NEW d, NEW g, NEW o \in GetQuote(d, g)
  PROVE  \/ \E p \in Unresolved(Points(d), g) : o = CouldNotLocate(Points(d)[p])
         \/ Unresolved(Points(d), g) = {} /\ o = ThrowsHttp(400, Generic("route failed"))
         \/ Unresolved(Points(d), g) = {} /\ g.legs # <<>> /\ o \in Quotes(DistanceMeters(g.legs), d.vehicleType)
<1> DEFINE U == Unresolved(Points(d), g)
           L == {CouldNotLocate(Points(d)[p]) : p \in U}
           R == {ThrowsHttp(400, Generic("route failed"))}
           Q == Quotes(DistanceMeters(g.legs), d.vehicleType)
<1>1. GetQuote(d, g) = IF U # {} THEN L ELSE IF ~g.key \/ g.legs = <<>> THEN R ELSE Q
  BY DEF GetQuote, Points
<1>2. \A x \in L : \E p \in U : x = CouldNotLocate(Points(d)[p])
  OBVIOUS
<1> HIDE DEF L, U, Q
<1>3. CASE U # {}
  BY <1>1, <1>2, <1>3 DEF U
<1>4. CASE U = {}
  BY <1>1, <1>4 DEF U, Q
<1> QED
  BY <1>3, <1>4

LEMMA Answered ==
  ASSUME NEW e, e.from \in Addresses, e.to \in Addresses,
         NEW g \in Google(JourneyOf(e)), NEW o \in QuoteOf(e, g), Api(o).tag = "data"
  PROVE  /\ Api(o).data.distanceMiles = MilesFromMeters(Distance(JourneyOf(e)))
         /\ Api(o).data.distanceMiles \in Nat
         /\ Api(o).data.fares \in CalculateAllFares(Api(o).data.distanceMiles)
<1>1. o.tag # "error"
  BY DEF Api, ParseApiResponse, Sent
<1>2. o \in Quotes(DistanceMeters(g.legs), "executive") /\ g.legs # <<>>
  <2>1. (\A p : CouldNotLocate(p).tag = "error") /\ (\A s, m : ThrowsHttp(s, m).tag = "error")
    BY DEF CouldNotLocate, ThrowsHttp
  <2> DEFINE d == [from |-> e.from, to |-> e.to, vehicleType |-> "executive"]
  <2>2. o \in GetQuote(d, g) /\ d.vehicleType = "executive"
    BY DEF QuoteOf
  <2> HIDE DEF d
  <2>3. \/ \E p \in Unresolved(Points(d), g) : o = CouldNotLocate(Points(d)[p])
        \/ o = ThrowsHttp(400, Generic("route failed"))
        \/ g.legs # <<>> /\ o \in Quotes(DistanceMeters(g.legs), d.vehicleType)
    BY <2>2, QuoteOutcomes
  <2>4. g.legs # <<>> /\ o \in Quotes(DistanceMeters(g.legs), d.vehicleType)
    BY <1>1, <2>1, <2>3
  <2> QED  BY <2>2, <2>4
<1>3. JourneyOf(e) \in Journeys /\ g.legs = Legs[JourneyOf(e)]
  BY <1>2 DEF Google, JourneyOf, Journeys
<1>4. DistanceMeters(g.legs) = Distance(JourneyOf(e)) /\ Distance(JourneyOf(e)) \in Nat
  BY <1>3, LegsAssumption, LegsAddUp DEF Distance
<1>5. PICK f \in CalculateAllFaresFromMeters(Distance(JourneyOf(e))) :
        o = Returns([distanceMiles |-> MilesFromMeters(Distance(JourneyOf(e))),
                     distanceKm |-> KmFromMiles(MilesFromMeters(Distance(JourneyOf(e)))),
                     vehicleType |-> "executive", fares |-> f, estimatedFare |-> f["executive"]])
  BY <1>2, <1>4 DEF Quotes
<1>6. Api(o) = Returns(o.data)
  BY <1>1 DEF Api, ParseApiResponse, Sent
<1>7. Api(o).data = o.data
  BY <1>6 DEF Returns
<1>8. o.data.distanceMiles = MilesFromMeters(Distance(JourneyOf(e))) /\ o.data.fares = f
  BY <1>5 DEF Returns
<1> QED
  BY <1>4, <1>5, <1>7, <1>8, MilesNat DEF CalculateAllFaresFromMeters

LEMMA FareDisplayType ==
  ASSUME NEW q \in Quote, NEW f \in Form, shown \in {Nothing} \union [known : {TRUE}, pence : Nat]
  PROVE  FareDisplay(q, f) \in {Nothing} \union [known : {TRUE}, pence : Nat]
<1>1. CASE q.known
  <2>a. q # Nothing
    BY <1>1 DEF Nothing
  <2>b. q.fares \in Fares
    BY <2>a DEF Quote
  <2>c. f.vehicleType \in VEHICLE_TYPES
    BY DEF Form
  <2>1. q.fares \in Fares /\ f.vehicleType \in VEHICLE_TYPES
    BY <2>b, <2>c
  <2>2. q.fares[f.vehicleType] \in Nat
    BY <2>1 DEF Fares, VEHICLE_TYPES
  <2>3. ApplyTripFareMultiplier(q.fares[f.vehicleType], f.tripType) \in Nat
    BY <2>2 DEF ApplyTripFareMultiplier
  <2> QED  BY <1>1, <2>3 DEF FareDisplay
<1>2. CASE ~q.known
  BY <1>2 DEF FareDisplay
<1> QED
  BY <1>1, <1>2

-----------------------------------------------------------------------------

LEMMA ExcusedFacts ==
  ASSUME posts \in Seq(BOOLEAN)
  PROVE  /\ Excused \in Seq(BOOLEAN) /\ Len(Excused) = Len(posts)
         /\ \A i \in DOMAIN Excused : Excused[i]
<1>1. Len(posts) \in Nat
  OBVIOUS
<1> QED
  BY <1>1, IsASeq DEF Excused

LEMMA TailIndices ==
  ASSUME NEW n \in Nat, NEW i \in 1..n
  PROVE  /\ (IF i + 1 <= n THEN n - (i + 1) + 1 ELSE 0) = n - i
         /\ \A j \in 1..(n - i) : j \in 1..(n - (i + 1) + 1) /\ (i + 1) + j - 1 = j + i
<1>1. n - (i + 1) + 1 = n - i
  OBVIOUS
<1>2. ~(i + 1 <= n) => n - i = 0
  OBVIOUS
<1> QED
  BY <1>1, <1>2

LEMMA RemoveFacts ==
  ASSUME NEW S, NEW s \in Seq(S), NEW i \in 1..Len(s)
  PROVE  /\ RemoveAt(s, i) \in Seq(S) /\ Len(RemoveAt(s, i)) = Len(s) - 1
         /\ \A j \in 1..(Len(s) - 1) : RemoveAt(s, i)[j] = IF j < i THEN s[j] ELSE s[j + 1]
<1> DEFINE a == SubSeq(s, 1, i - 1)
           b == SubSeq(s, i + 1, Len(s))
<1>1. s \in [1..Len(s) -> S] /\ Len(s) \in Nat
  OBVIOUS
<1>2. a \in Seq(S) /\ Len(a) = i - 1 /\ \A j \in 1..(i - 1) : a[j] = s[j]
  <2>1. \A k \in 1..(i - 1) : s[k] \in S
    BY <1>1
  <2>2. /\ a \in Seq(S) /\ Len(a) = IF 1 <= i - 1 THEN (i - 1) - 1 + 1 ELSE 0
        /\ \A j \in 1..((i - 1) - 1 + 1) : a[j] = s[1 + j - 1]
    BY <2>1, SubSeqProperties
  <2> HIDE DEF a
  <2> QED  BY <2>2
<1>3. b \in Seq(S) /\ Len(b) = Len(s) - i /\ \A j \in 1..(Len(s) - i) : b[j] = s[j + i]
  <2>1. \A k \in (i + 1)..Len(s) : s[k] \in S
    BY <1>1
  <2>2. /\ b \in Seq(S) /\ Len(b) = IF i + 1 <= Len(s) THEN Len(s) - (i + 1) + 1 ELSE 0
        /\ \A j \in 1..(Len(s) - (i + 1) + 1) : b[j] = s[(i + 1) + j - 1]
    BY <1>1, <2>1, SubSeqProperties
  <2> DEFINE n == Len(s)
  <2>3. /\ (IF i + 1 <= n THEN n - (i + 1) + 1 ELSE 0) = n - i
        /\ \A j \in 1..(n - i) : j \in 1..(n - (i + 1) + 1) /\ (i + 1) + j - 1 = j + i
    BY <1>1, TailIndices
  <2> HIDE DEF b
  <2>4. Len(b) = n - i
    BY <2>2, <2>3
  <2>5. ASSUME NEW j \in 1..(n - i)  PROVE b[j] = s[j + i]
    <3>1. j \in 1..(n - (i + 1) + 1) /\ (i + 1) + j - 1 = j + i
      BY <2>3
    <3>2. b[j] = s[(i + 1) + j - 1]
      BY <2>2, <3>1
    <3> QED  BY <3>1, <3>2
  <2> QED  BY <2>2, <2>4, <2>5
<1> HIDE DEF a, b
<1>4. /\ a \o b \in Seq(S) /\ Len(a \o b) = Len(a) + Len(b)
      /\ \A j \in 1..(Len(a) + Len(b)) : (a \o b)[j] = IF j <= Len(a) THEN a[j] ELSE b[j - Len(a)]
  BY <1>2, <1>3, ConcatProperties
<1>5. RemoveAt(s, i) = a \o b
  BY DEF RemoveAt, a, b
<1>6. Len(a) + Len(b) = Len(s) - 1
  BY <1>1, <1>2, <1>3
<1>7. ASSUME NEW j \in 1..(Len(s) - 1)  PROVE (a \o b)[j] = IF j < i THEN s[j] ELSE s[j + 1]
  <2>1. (a \o b)[j] = IF j <= i - 1 THEN a[j] ELSE b[j - (i - 1)]
    BY <1>2, <1>4, <1>6
  <2>2. j <= i - 1 => a[j] = s[j]
    BY <1>2
  <2>3. ~(j <= i - 1) => b[j - (i - 1)] = s[(j - (i - 1)) + i]
    BY <1>1, <1>3
  <2> QED  BY <2>1, <2>2, <2>3
<1> QED
  BY <1>4, <1>5, <1>6, <1>7

LEMMA TypeStep == TypeOK /\ [Next]_vars => TypeOK'
<1> SUFFICES ASSUME TypeOK, [Next]_vars PROVE TypeOK'
  OBVIOUS
<1>1. form' \in Form
  <2>1. FreshForm \in Form
    BY DEF FreshForm, Form, Typed, VEHICLE_TYPES
  <2>2. ASSUME NEW field \in {"from", "to"}, NEW a \in Typed, EditAddress(field, a)  PROVE form' \in Form
    BY <2>2 DEF EditAddress, TypeOK, Form
  <2>3. ASSUME NEW field \in {"from", "to"}, PickSuggestion(field)  PROVE form' \in Form
    <3>1. PICK typed \in Addresses, google \in Places :
            /\ Api(SearchPlaces(typed, google)).tag = "data"
            /\ \E a \in Api(SearchPlaces(typed, google)).data : EditAddress(field, a)
      BY <2>3 DEF PickSuggestion
    <3>2. Api(SearchPlaces(typed, google)).data \subseteq Addresses
      BY <3>1 DEF SearchPlaces, Api, ParseApiResponse, Sent, Returns, Throws, Places
    <3>3. PICK a \in Addresses : EditAddress(field, a)
      BY <3>1, <3>2
    <3> QED  BY <2>2, <3>3 DEF Typed
  <2>4. ASSUME EditBasics \/ EditPickup  PROVE form' \in Form
    BY <2>4 DEF EditBasics, EditPickup, TypeOK, Form
  <2>5. ASSUME NEW t \in {"one-way", "return"}, SetCreateTripType(t)  PROVE form' \in Form
    BY <2>5 DEF SetCreateTripType, TypeOK, Form
  <2>6. ASSUME NEW v \in VEHICLE_TYPES, ChangeVehicle(v)  PROVE form' \in Form
    BY <2>6 DEF ChangeVehicle, TypeOK, Form
  <2>7. form' = form \/ form' = FreshForm \/ EditBasics \/ EditPickup
        \/ (\E field \in {"from", "to"} : PickSuggestion(field) \/ \E a \in Typed : EditAddress(field, a))
        \/ (\E t \in {"one-way", "return"} : SetCreateTripType(t))
        \/ (\E v \in VEHICLE_TYPES : ChangeVehicle(v))
    BY DEF Next, vars, OpenCreateBookingModal, CloseCreateBookingModal, RunCreateEstimate, EstimateAnswered,
           EstimateRefused, EstimateFails, SubmitCreateBooking, CreateAnswered, CreateFails
  <2> QED  BY <2>1, <2>2, <2>3, <2>4, <2>5, <2>6, <2>7 DEF TypeOK
<1>2. quote' \in Quote
  <2>1. ASSUME EstimateAnswered  PROVE quote' \in Quote
    <3>1. estimating \in Estimate /\ estimating # Nothing
      BY <2>1 DEF EstimateAnswered, TypeOK, Nothing
    <3>2. estimating.from \in Addresses /\ estimating.to \in Addresses /\ estimating.overtaken \in BOOLEAN
      BY <3>1 DEF Estimate
    <3>g. PICK g \in Google(JourneyOf(estimating)) : \E o \in QuoteOf(estimating, g) :
            /\ Api(o).tag = "data"
            /\ quote' = [known |-> TRUE, fares |-> Api(o).data.fares, distanceMiles |-> Api(o).data.distanceMiles,
                         overtaken |-> estimating.overtaken]
      BY <2>1 DEF EstimateAnswered
    <3>3. PICK o \in QuoteOf(estimating, g) :
            /\ Api(o).tag = "data"
            /\ quote' = [known |-> TRUE, fares |-> Api(o).data.fares, distanceMiles |-> Api(o).data.distanceMiles,
                         overtaken |-> estimating.overtaken]
      BY <3>g
    <3>4. Api(o).data.distanceMiles \in Nat /\ Api(o).data.fares \in CalculateAllFares(Api(o).data.distanceMiles)
      BY <3>2, <3>3, Answered
    <3>5. Api(o).data.fares \in Fares
      BY <3>4, AllFares
    <3> QED  BY <3>2, <3>3, <3>4, <3>5 DEF Quote
  <2>2. quote' = quote \/ quote' = Nothing \/ EstimateAnswered
    BY DEF Next, vars, OpenCreateBookingModal, CloseCreateBookingModal, PickSuggestion, EditAddress, EditBasics, EditPickup,
           SetCreateTripType, ChangeVehicle, RunCreateEstimate, EstimateRefused, EstimateFails,
           SubmitCreateBooking, CreateAnswered, CreateFails, ResetCreateQuoteState
  <2> QED  BY <2>1, <2>2 DEF Quote, TypeOK
<1>3. estimating' \in Estimate
  <2>1. Overtaken(estimating) \in Estimate
    BY DEF Overtaken, Estimate, TypeOK, Nothing
  <2>2. ASSUME RunCreateEstimate  PROVE estimating' \in Estimate
    <3>1. Valid(form) => form.from \in Addresses /\ form.to \in Addresses
      BY DEF Valid, TypeOK, Form, Typed
    <3>2. estimating' = estimating
          \/ (Valid(form) /\ estimating' = [known |-> TRUE, from |-> form.from, to |-> form.to, overtaken |-> FALSE])
      <4>1. CASE Valid(form)
        BY <2>2, <4>1 DEF RunCreateEstimate
      <4>2. CASE ~Valid(form)
        BY <2>2, <4>2 DEF RunCreateEstimate
      <4> QED  BY <4>1, <4>2
    <3>3. ASSUME NEW f \in Addresses, NEW t \in Addresses
          PROVE  [known |-> TRUE, from |-> f, to |-> t, overtaken |-> FALSE] \in Estimate
      BY DEF Estimate
    <3> QED  BY <3>1, <3>2, <3>3 DEF TypeOK
  <2>3. estimating' = estimating \/ estimating' = Nothing \/ estimating' = Overtaken(estimating) \/ RunCreateEstimate
    BY DEF Next, vars, OpenCreateBookingModal, CloseCreateBookingModal, PickSuggestion, EditAddress, EditBasics, EditPickup,
           SetCreateTripType, ChangeVehicle, EstimateAnswered, EstimateRefused, EstimateFails,
           SubmitCreateBooking, CreateAnswered, CreateFails
  <2> QED  BY <2>1, <2>2, <2>3 DEF Estimate, TypeOK
<1>4. shown' \in {Nothing} \union [known : {TRUE}, pence : Nat]
  <2>1. FareDisplay(quote', form') \in {Nothing} \union [known : {TRUE}, pence : Nat]
    BY <1>1, <1>2, FareDisplayType DEF TypeOK
  <2>2. ASSUME EstimateAnswered  PROVE shown' = FareDisplay(quote', form')
    BY <2>2 DEF EstimateAnswered
  <2>3. ASSUME NEW v \in VEHICLE_TYPES, ChangeVehicle(v)  PROVE shown' = FareDisplay(quote', form')
    BY <2>3 DEF ChangeVehicle
  <2>4. shown' = shown \/ shown' = Nothing \/ EstimateAnswered \/ (\E v \in VEHICLE_TYPES : ChangeVehicle(v))
    BY DEF Next, vars, OpenCreateBookingModal, CloseCreateBookingModal, PickSuggestion, EditAddress, EditBasics, EditPickup,
           SetCreateTripType, RunCreateEstimate, EstimateRefused, EstimateFails,
           SubmitCreateBooking, CreateAnswered, CreateFails, ResetCreateQuoteState
  <2> QED  BY <2>1, <2>2, <2>3, <2>4 DEF TypeOK
<1>5. posts' \in Seq(BOOLEAN) /\ Len(posts') <= MaxPosts
  <2> DEFINE P == BOOLEAN
  <2>1. posts \in Seq(P) /\ Len(posts) <= MaxPosts
    BY DEF TypeOK
  <2>2. Excused \in Seq(P) /\ Len(Excused) = Len(posts)
    BY <2>1, ExcusedFacts
  <2>3. ASSUME NEW i \in DOMAIN posts, CreateAnswered(i) \/ CreateFails(i)
        PROVE  posts' \in Seq(P) /\ Len(posts') <= MaxPosts
    <3>1. posts' = RemoveAt(posts, i) \/ posts' = RemoveAt(Excused, i)
      BY <2>3 DEF CreateAnswered, CreateFails
    <3>2. i \in 1..Len(posts)
      BY <2>1
    <3> HIDE DEF P
    <3>3. RemoveAt(posts, i) \in Seq(P) /\ Len(RemoveAt(posts, i)) = Len(posts) - 1
      BY <2>1, <3>2, RemoveFacts
    <3>4. RemoveAt(Excused, i) \in Seq(P) /\ Len(RemoveAt(Excused, i)) = Len(posts) - 1
      BY <2>2, <3>2, RemoveFacts
    <3>5. MaxPosts \in Nat /\ Len(posts) \in Nat
      BY <2>1, MaxPostsAssumption
    <3> QED  BY <2>1, <3>1, <3>3, <3>4, <3>5
  <2>4. ASSUME SubmitCreateBooking  PROVE posts' \in Seq(P) /\ Len(posts') <= MaxPosts
    <3>1. posts' = posts \/ (Len(posts) < MaxPosts /\ posts' = Append(posts, FALSE))
      BY <2>4 DEF SubmitCreateBooking
    <3>2. Append(posts, FALSE) \in Seq(P) /\ Len(Append(posts, FALSE)) = Len(posts) + 1
      BY <2>1, AppendProperties
    <3>3. Len(posts) \in Nat /\ MaxPosts \in Nat
      BY <2>1, MaxPostsAssumption
    <3> DEFINE n == Append(posts, FALSE)
    <3>4. n \in Seq(P) /\ Len(n) = Len(posts) + 1 /\ (posts' = posts \/ (Len(posts) < MaxPosts /\ posts' = n))
      BY <3>1, <3>2
    <3> HIDE DEF P, n
    <3> QED  BY <2>1, <3>3, <3>4
  <2>5. posts' = posts \/ posts' = Excused \/ SubmitCreateBooking
        \/ (\E i \in DOMAIN posts : CreateAnswered(i) \/ CreateFails(i))
    BY DEF Next, vars, OpenCreateBookingModal, CloseCreateBookingModal, PickSuggestion, EditAddress, EditBasics, EditPickup,
           SetCreateTripType, ChangeVehicle, RunCreateEstimate, EstimateAnswered, EstimateRefused, EstimateFails
  <2>6. ASSUME posts' = Excused  PROVE posts' \in Seq(P) /\ Len(posts') <= MaxPosts
    BY <2>1, <2>2, <2>6
  <2> QED  BY <2>1, <2>3, <2>4, <2>5, <2>6
<1>6. open' \in BOOLEAN
  BY DEF TypeOK, Next, vars, OpenCreateBookingModal, CloseCreateBookingModal, PickSuggestion, EditAddress, EditBasics, EditPickup,
         SetCreateTripType, ChangeVehicle, RunCreateEstimate, EstimateAnswered, EstimateRefused, EstimateFails,
         SubmitCreateBooking, CreateAnswered, CreateFails
<1>7. submitEnabled' \in BOOLEAN
  <2>1. quote.known \in BOOLEAN
    <3>1. quote = Nothing \/ quote \in [known : {TRUE}, fares : Fares, distanceMiles : Nat, overtaken : BOOLEAN]
      BY DEF TypeOK, Quote
    <3>2. Nothing.known = FALSE
      BY DEF Nothing
    <3> QED  BY <3>1, <3>2
  <2>2. submitEnabled' = submitEnabled \/ submitEnabled' \in BOOLEAN \/ submitEnabled' = quote.known
    BY DEF Next, vars, OpenCreateBookingModal, CloseCreateBookingModal, PickSuggestion, EditAddress, EditBasics, EditPickup,
         SetCreateTripType, ChangeVehicle, RunCreateEstimate, EstimateAnswered, EstimateRefused, EstimateFails,
         SubmitCreateBooking, CreateAnswered, CreateFails,
         ResetCreateQuoteState
  <2> QED  BY <2>1, <2>2 DEF TypeOK
<1>8. error'.known \in BOOLEAN
  <2>1. error' = error \/ error' = Nothing \/ (\E m, r : error' = [known |-> TRUE, message |-> m, refused |-> r])
    BY DEF Next, vars, OpenCreateBookingModal, CloseCreateBookingModal, PickSuggestion, EditAddress, EditBasics, EditPickup,
         SetCreateTripType, ChangeVehicle, RunCreateEstimate, EstimateAnswered, EstimateRefused, EstimateFails,
         SubmitCreateBooking, CreateAnswered, CreateFails,
         Says
  <2>2. Nothing.known = FALSE /\ \A m, r : [known |-> TRUE, message |-> m, refused |-> r].known = TRUE
    BY DEF Nothing
  <2>3. CASE error' = error
    BY <2>3 DEF TypeOK
  <2> QED  BY <2>1, <2>2, <2>3
<1> QED
  BY <1>1, <1>2, <1>3, <1>4, <1>5, <1>6, <1>7, <1>8 DEF TypeOK

-----------------------------------------------------------------------------

LEMMA QuoteStep == TypeOK /\ QuoteInv /\ EstimateInv /\ [Next]_vars => QuoteInv'
<1> SUFFICES ASSUME TypeOK, QuoteInv, EstimateInv, [Next]_vars PROVE QuoteInv'
  OBVIOUS
<1>1. CASE EstimateAnswered
  <2>1. estimating # Nothing
    BY <1>1 DEF EstimateAnswered, Nothing
  <2>2. estimating.from \in Addresses /\ estimating.to \in Addresses
    BY <2>1 DEF TypeOK, Estimate
  <2>3. PICK g \in Google(JourneyOf(estimating)) : \E o \in QuoteOf(estimating, g) :
          /\ Api(o).tag = "data"
          /\ quote' = [known |-> TRUE, fares |-> Api(o).data.fares, distanceMiles |-> Api(o).data.distanceMiles,
                       overtaken |-> estimating.overtaken]
    BY <1>1 DEF EstimateAnswered
  <2>4. PICK o \in QuoteOf(estimating, g) :
          /\ Api(o).tag = "data"
          /\ quote' = [known |-> TRUE, fares |-> Api(o).data.fares, distanceMiles |-> Api(o).data.distanceMiles,
                       overtaken |-> estimating.overtaken]
    BY <2>3
  <2>5. /\ quote'.distanceMiles = MilesFromMeters(Distance(JourneyOf(estimating)))
        /\ quote'.fares \in CalculateAllFares(quote'.distanceMiles)
        /\ quote'.overtaken = estimating.overtaken
    BY <2>2, <2>4, Answered
  <2>6. ~estimating.overtaken => JourneyOf(form') = JourneyOf(estimating)
    BY <1>1 DEF EstimateInv, EstimateAnswered, JourneyOf
  <2> QED  BY <2>5, <2>6 DEF QuoteInv
<1>2. CASE quote' = Nothing
  BY <1>2 DEF QuoteInv, Nothing
<1>3. CASE quote' = quote /\ form'.from = form.from /\ form'.to = form.to
  BY <1>3 DEF QuoteInv, JourneyOf
<1>4. EstimateAnswered \/ quote' = Nothing \/ (quote' = quote /\ form'.from = form.from /\ form'.to = form.to)
  BY DEF TypeOK, Form, Next, vars, OpenCreateBookingModal, CloseCreateBookingModal, PickSuggestion, EditAddress,
         EditBasics, EditPickup, SetCreateTripType, ChangeVehicle, RunCreateEstimate, EstimateRefused, EstimateFails,
         SubmitCreateBooking, CreateAnswered, CreateFails, ResetCreateQuoteState
<1> QED
  BY <1>1, <1>2, <1>3, <1>4

LEMMA EstimateStep == TypeOK /\ EstimateInv /\ [Next]_vars => EstimateInv'
<1> SUFFICES ASSUME TypeOK, EstimateInv, [Next]_vars PROVE EstimateInv'
  OBVIOUS
<1>1. CASE estimating' = Nothing
  BY <1>1 DEF EstimateInv, Nothing
<1>2. CASE estimating' = Overtaken(estimating)
  BY <1>2 DEF EstimateInv, Overtaken, TypeOK, Estimate
<1>3. CASE estimating' = estimating /\ form'.from = form.from /\ form'.to = form.to
  BY <1>3 DEF EstimateInv
<1>4. CASE RunCreateEstimate /\ Valid(form)
  BY <1>4 DEF RunCreateEstimate, EstimateInv
<1>5. CASE RunCreateEstimate /\ ~Valid(form)
  BY <1>5 DEF RunCreateEstimate, EstimateInv
<1>6. \/ estimating' = Nothing \/ estimating' = Overtaken(estimating) \/ RunCreateEstimate
      \/ (estimating' = estimating /\ form'.from = form.from /\ form'.to = form.to)
  BY DEF TypeOK, Form, Next, vars, OpenCreateBookingModal, CloseCreateBookingModal, PickSuggestion, EditAddress,
         EditBasics, EditPickup, SetCreateTripType, ChangeVehicle, EstimateAnswered, EstimateRefused, EstimateFails,
         SubmitCreateBooking, CreateAnswered, CreateFails
<1> QED
  BY <1>1, <1>2, <1>3, <1>4, <1>5, <1>6

LEMMA ShownStep == TypeOK /\ ShownInv /\ [Next]_vars => ShownInv'
<1> SUFFICES ASSUME TypeOK, ShownInv, [Next]_vars, quote'.known PROVE shown' = FareDisplay(quote, form)'
  BY DEF ShownInv
<1>1. CASE quote' = Nothing
  BY <1>1 DEF Nothing
<1>2. CASE shown' = FareDisplay(quote', form')
  BY <1>2 DEF FareDisplay
<1>3. CASE quote' = quote /\ shown' = shown /\ form' = form
  BY <1>3 DEF ShownInv, FareDisplay
<1>4. CASE EditPickup
  <2>1. FareDisplay(quote, form') = FareDisplay(quote, form)
    <3>1. form'.vehicleType = form.vehicleType /\ form'.tripType = form.tripType
      <4>1. form \in Form /\ form' = [form EXCEPT !.pickup = ~form.pickup]
        BY <1>4 DEF EditPickup, TypeOK
      <4> QED  BY <4>1 DEF Form
    <3> QED  BY <3>1 DEF FareDisplay
  <2>2. quote' = quote /\ shown' = shown /\ shown = FareDisplay(quote, form)
    BY <1>4 DEF EditPickup, ShownInv
  <2> QED  BY <2>1, <2>2 DEF FareDisplay
<1>5. \/ quote' = Nothing \/ shown' = FareDisplay(quote', form') \/ EditPickup
      \/ (quote' = quote /\ shown' = shown /\ form' = form)
  <2>1. ASSUME EstimateAnswered  PROVE shown' = FareDisplay(quote', form')
    BY <2>1 DEF EstimateAnswered, FareDisplay
  <2>2. ASSUME NEW v \in VEHICLE_TYPES, ChangeVehicle(v)  PROVE shown' = FareDisplay(quote', form')
    BY <2>2 DEF ChangeVehicle, FareDisplay
  <2> QED
    BY <2>1, <2>2 DEF Next, vars, OpenCreateBookingModal, CloseCreateBookingModal, PickSuggestion, EditAddress,
         EditBasics, SetCreateTripType, RunCreateEstimate, EstimateRefused, EstimateFails,
         SubmitCreateBooking, CreateAnswered, CreateFails, ResetCreateQuoteState
<1> QED
  BY <1>1, <1>2, <1>3, <1>4, <1>5

LEMMA PostsStep == TypeOK /\ PostsInv /\ [Next]_vars => PostsInv'
<1> SUFFICES ASSUME TypeOK, PostsInv, [Next]_vars PROVE PostsInv'
  OBVIOUS
<1> DEFINE n == Len(posts)
<1>1. posts \in Seq(BOOLEAN) /\ n \in Nat /\ DOMAIN posts = 1..n
  BY DEF TypeOK
<1>2. /\ \A i, j \in 1..n : i < j => posts[i]
      /\ submitEnabled => \A i \in 1..n : posts[i]
  BY <1>1 DEF PostsInv, NoDoubleSubmit
<1>3. Excused \in Seq(BOOLEAN) /\ Len(Excused) = n /\ \A i \in 1..n : Excused[i]
  BY <1>1, ExcusedFacts
<1>4. CASE posts' = posts /\ (submitEnabled' => submitEnabled)
  BY <1>4 DEF PostsInv, NoDoubleSubmit
<1>5. CASE posts' = Excused
  <2>1. DOMAIN posts' = 1..n /\ \A i \in 1..n : posts'[i]
    BY <1>3, <1>5
  <2> QED  BY <2>1 DEF PostsInv, NoDoubleSubmit
<1>6. ASSUME posts' = Append(posts, FALSE), submitEnabled, ~submitEnabled'  PROVE PostsInv'
  <2>1. DOMAIN posts' = 1..(n + 1) /\ \A i \in 1..n : posts'[i] = posts[i]
    BY <1>1, <1>6, AppendProperties
  <2>2. ASSUME NEW i \in 1..(n + 1), NEW j \in 1..(n + 1), i < j  PROVE posts'[i]
    <3>1. i \in 1..n
      BY <1>1, <2>2
    <3> QED  BY <1>2, <1>6, <2>1, <3>1
  <2> QED  BY <1>6, <2>1, <2>2 DEF PostsInv, NoDoubleSubmit
<1>7. ASSUME NEW i \in 1..n, posts' = RemoveAt(posts, i), ~submitEnabled'  PROVE PostsInv'
  <2>1. DOMAIN posts' = 1..(n - 1) /\ \A j \in 1..(n - 1) : posts'[j] = IF j < i THEN posts[j] ELSE posts[j + 1]
    <3> DEFINE B == BOOLEAN
               r == RemoveAt(posts, i)
    <3>1. posts \in Seq(B) /\ i \in 1..Len(posts)
      BY <1>1
    <3> HIDE DEF B
    <3>2. /\ r \in Seq(B) /\ Len(r) = Len(posts) - 1
          /\ \A j \in 1..(Len(posts) - 1) : r[j] = IF j < i THEN posts[j] ELSE posts[j + 1]
      BY <3>1, RemoveFacts
    <3> HIDE DEF r
    <3>3. posts' = r
      BY <1>7 DEF r
    <3>4. DOMAIN r = 1..Len(r)
      BY <3>2
    <3> QED  BY <3>2, <3>3, <3>4
  <2>2. ASSUME NEW j \in 1..(n - 1), NEW k \in 1..(n - 1), j < k  PROVE posts'[j]
    <3>1. j \in 1..n /\ j + 1 \in 1..n /\ k + 1 \in 1..n /\ j < k + 1 /\ j + 1 < k + 1
      BY <1>1, <2>2
    <3>2. posts[j] /\ posts[j + 1]
      BY <1>2, <3>1
    <3> QED  BY <2>1, <3>2
  <2> QED  BY <1>7, <2>1, <2>2 DEF PostsInv, NoDoubleSubmit
<1>8. ASSUME NEW i \in 1..n, posts' = RemoveAt(Excused, i)  PROVE PostsInv'
  <2>1. DOMAIN posts' = 1..(n - 1) /\ \A j \in 1..(n - 1) : posts'[j] = IF j < i THEN Excused[j] ELSE Excused[j + 1]
    BY <1>1, <1>3, <1>8, RemoveFacts
  <2>2. ASSUME NEW j \in 1..(n - 1)  PROVE posts'[j]
    <3>1. j \in 1..n /\ j + 1 \in 1..n
      BY <1>1
    <3> QED  BY <1>3, <2>1, <3>1
  <2> QED  BY <2>1, <2>2 DEF PostsInv, NoDoubleSubmit
<1>9. \/ posts' = posts /\ (submitEnabled' => submitEnabled)
      \/ posts' = Excused
      \/ posts' = Append(posts, FALSE) /\ submitEnabled /\ ~submitEnabled'
      \/ \E i \in DOMAIN posts : posts' = RemoveAt(posts, i) /\ ~submitEnabled'
      \/ \E i \in DOMAIN posts : posts' = RemoveAt(Excused, i)
  BY DEF Next, vars, OpenCreateBookingModal, CloseCreateBookingModal, PickSuggestion, EditAddress,
         EditBasics, EditPickup, SetCreateTripType, ChangeVehicle, RunCreateEstimate, EstimateAnswered, EstimateRefused,
         EstimateFails, SubmitCreateBooking, CreateAnswered, CreateFails, ResetCreateQuoteState
<1> QED
  BY <1>1, <1>4, <1>5, <1>6, <1>7, <1>8, <1>9

LEMMA BadRequestSays == ASSUME NEW o, o.status = 400 PROVE ByStatus(o) = Generic("check your details")
BY DEF ByStatus

LEMMA FilteredMessage ==
  ASSUME NEW o, NEW x, o = ThrowsHttp(400, x)
  PROVE  /\ x.internal = TRUE => ResolveMessage(o) = Generic("check your details")
         /\ x.internal = FALSE => ResolveMessage(o) = x
<1>1. o.status = 400 /\ o.http = TRUE /\ o.message = x
  BY DEF ThrowsHttp
<1>2. ByStatus(o) = Generic("check your details")
  BY <1>1, BadRequestSays
<1> QED
  BY <1>1, <1>2 DEF ResolveMessage, LooksInternal

\* The error of a refused estimate, from the outcomes of getQuote through the filter.
LEMMA ToldStep == TypeOK /\ ToldWhichAddress /\ [Next]_vars => ToldWhichAddress'
<1> SUFFICES ASSUME TypeOK, ToldWhichAddress, [Next]_vars PROVE ToldWhichAddress'
  OBVIOUS
<1>1. CASE EstimateRefused
  <2> DEFINE e == estimating
             d == [from |-> e.from, to |-> e.to, vehicleType |-> "executive"]
  <2>1. e # Nothing
    BY <1>1 DEF EstimateRefused, Nothing
  <2>2. e.from \in Addresses /\ e.to \in Addresses
    BY <2>1 DEF TypeOK, Estimate
  <2>3. PICK g \in Google(JourneyOf(e)) : \E o \in QuoteOf(e, g) :
          /\ Api(o).tag = "error"
          /\ error' = [known |-> TRUE, message |-> Api(o).message,
                       refused |-> [known |-> TRUE, from |-> e.from, to |-> e.to,
                                    google |-> [key |-> g.key, geocoded |-> g.geocoded]]]
    BY <1>1 DEF EstimateRefused
  <2>4. PICK o \in QuoteOf(e, g) :
          /\ Api(o).tag = "error"
          /\ error' = [known |-> TRUE, message |-> Api(o).message,
                       refused |-> [known |-> TRUE, from |-> e.from, to |-> e.to,
                                    google |-> [key |-> g.key, geocoded |-> g.geocoded]]]
    BY <2>3
  <2> DEFINE m == error'.message
             found(a) == g.key /\ a \in g.geocoded
             blames(label, a) == IF a.internal THEN m = Generic("check your details")
                                 ELSE m.text = "could not locate" /\ m.subject = label
  <2>5. /\ error'.refused.from = e.from /\ error'.refused.to = e.to /\ m = Api(o).message
        /\ error'.refused.google.key = g.key /\ error'.refused.google.geocoded = g.geocoded
    BY <2>4
  <2>6. SUFFICES /\ ~found(e.from) => blames("pickup", e.from)
                 /\ found(e.from) /\ ~found(e.to) => blames("drop-off", e.to)
                 /\ found(e.from) /\ found(e.to) => m = Generic("route failed")
    BY <2>5 DEF ToldWhichAddress
  <2>7. d.from = e.from /\ d.to = e.to /\ o \in GetQuote(d, g)
    BY DEF QuoteOf
  <2>8. /\ Points(d)[1].input = e.from /\ Points(d)[1].label = "pickup"
        /\ Points(d)[2].input = e.to /\ Points(d)[2].label = "drop-off"
        /\ DOMAIN Points(d) = 1..2
    BY DEF Points
  <2>9. Geocodes(e.from, g) = found(e.from) /\ Geocodes(e.to, g) = found(e.to)
    BY <2>2, AddressAssumption DEF Geocodes
  <2>10. \A p : CouldNotLocate(p).tag = "error"
    BY DEF CouldNotLocate, ThrowsHttp
  <2>11. o.tag = "error" => m = ResolveMessage(o)
    BY <2>5 DEF Api, ParseApiResponse, Sent
  <2> HIDE DEF e, d, m
  <2>12. ASSUME NEW p \in Unresolved(Points(d), g), o = CouldNotLocate(Points(d)[p])
         PROVE  /\ (p = 1 /\ ~found(e.from)) \/ (p = 2 /\ found(e.from) /\ ~found(e.to))
                /\ blames(Points(d)[p].label, Points(d)[p].input)
    <3>1. p \in {1, 2}
      BY <2>8, <2>12 DEF Unresolved
    <3>2. (p = 1 /\ ~found(e.from)) \/ (p = 2 /\ found(e.from) /\ ~found(e.to))
      <4>1. ~Geocodes(Points(d)[p].input, g) /\ \A q \in 1..(p - 1) : Geocodes(Points(d)[q].input, g)
        BY <2>12 DEF Unresolved
      <4>2. CASE p = 1
        BY <2>8, <2>9, <4>1, <4>2
      <4>3. CASE p = 2
        <5>1. Geocodes(Points(d)[1].input, g)
          BY <4>1, <4>3
        <5> QED  BY <2>8, <2>9, <4>1, <4>3, <5>1
      <4> QED  BY <3>1, <4>2, <4>3
    <3>3. m = ResolveMessage(o)
      BY <2>10, <2>11, <2>12
    <3>4. Points(d)[p].input.internal \in BOOLEAN
      BY <2>2, <2>8, <3>1, AddressAssumption DEF e
    <3> DEFINE l == Points(d)[p].label
               i == Points(d)[p].input.internal
               x == Message("could not locate", l, i)
    <3>5. o = ThrowsHttp(400, x) /\ x.text = "could not locate" /\ x.subject = l /\ x.internal = i
      BY <2>12 DEF CouldNotLocate, Message
    <3>6. IF i THEN m = Generic("check your details") ELSE m.text = "could not locate" /\ m.subject = l
      <4> HIDE DEF x
      <4>1. CASE i = TRUE
        BY <3>3, <3>5, <4>1, FilteredMessage
      <4>2. CASE i = FALSE
        BY <3>3, <3>5, <4>2, FilteredMessage
      <4> QED  BY <3>4, <4>1, <4>2
    <3> QED  BY <3>2, <3>6
  <2>13. ASSUME Unresolved(Points(d), g) = {}  PROVE found(e.from) /\ found(e.to)
    <3>1. Geocodes(Points(d)[1].input, g)
      BY <2>8, <2>13 DEF Unresolved
    <3>2. Geocodes(Points(d)[2].input, g)
      BY <2>8, <2>13, <3>1 DEF Unresolved
    <3> QED  BY <2>8, <2>9, <3>1, <3>2
  <2>14. ASSUME o = ThrowsHttp(400, Generic("route failed"))  PROVE m = Generic("route failed")
    BY <2>11, <2>14 DEF ThrowsHttp, ResolveMessage, LooksInternal, Generic, Message
  <2>15. o \notin Quotes(DistanceMeters(g.legs), d.vehicleType)
    BY <2>4 DEF Quotes, Returns, Api, ParseApiResponse, Sent
  <2>16. \/ \E p \in Unresolved(Points(d), g) : o = CouldNotLocate(Points(d)[p])
         \/ Unresolved(Points(d), g) = {} /\ o = ThrowsHttp(400, Generic("route failed"))
    BY <2>7, <2>15, QuoteOutcomes
  <2> QED
    BY <2>8, <2>12, <2>13, <2>14, <2>16
<1>2. CASE error' = error
  BY <1>2 DEF ToldWhichAddress
<1>3. CASE error' = Nothing
  BY <1>3 DEF ToldWhichAddress, Nothing
<1>4. ASSUME NEW text, error' = Says(text)  PROVE ToldWhichAddress'
  BY <1>4 DEF ToldWhichAddress, Says, Nothing
<1>5. EstimateRefused \/ error' = error \/ error' = Nothing \/ \E text : error' = Says(text)
  BY DEF Next, vars, OpenCreateBookingModal, CloseCreateBookingModal, PickSuggestion, EditAddress, EditBasics, EditPickup,
         SetCreateTripType, ChangeVehicle, RunCreateEstimate, EstimateAnswered, EstimateFails,
         SubmitCreateBooking, CreateAnswered, CreateFails
<1> QED
  BY <1>1, <1>2, <1>3, <1>4, <1>5

LEMMA InitInv == Init => IInv /\ ToldWhichAddress
<1> SUFFICES ASSUME Init PROVE IInv /\ ToldWhichAddress
  OBVIOUS
<1>1. FreshForm \in Form
  BY DEF FreshForm, Form, Typed, VEHICLE_TYPES
<1>2. Nothing.known = FALSE
  BY DEF Nothing
<1>3. TypeOK
  <2>1. posts \in Seq(BOOLEAN) /\ Len(posts) <= MaxPosts
    BY MaxPostsAssumption DEF Init
  <2>2. Nothing \in Quote /\ Nothing \in Estimate
    BY DEF Quote, Estimate
  <2>3. error.known \in BOOLEAN
    BY <1>2 DEF Init
  <2> QED  BY <1>1, <2>1, <2>2, <2>3 DEF Init, TypeOK
<1> QED
  <2>1. QuoteInv /\ EstimateInv /\ ShownInv /\ ToldWhichAddress
    BY <1>2 DEF Init, QuoteInv, EstimateInv, ShownInv, ToldWhichAddress
  <2>2. PostsInv
    BY DEF Init, PostsInv, NoDoubleSubmit
  <2> QED  BY <1>3, <2>1, <2>2 DEF IInv

LEMMA Inductive == Spec => []IInv
<1>1. IInv /\ [Next]_vars => IInv'
  BY TypeStep, QuoteStep, EstimateStep, ShownStep, PostsStep DEF IInv
<1> QED
  BY InitInv, <1>1, PTL DEF Spec

\* The variables of the modal keep their types.
THEOREM TypeCorrect == Spec => []TypeOK
<1>1. IInv => TypeOK
  BY DEF IInv
<1> QED
  BY Inductive, <1>1, PTL

\* A click on the button sends one create, whatever is under way.
THEOREM OneCreatePerEstimate == Spec => []NoDoubleSubmit
<1>1. IInv => NoDoubleSubmit
  BY DEF IInv, PostsInv
<1> QED
  BY Inductive, <1>1, PTL

\* The error names the address that could not be located, and no other.
THEOREM BlamesTheRightAddress == Spec => []ToldWhichAddress
<1> QED
  BY InitInv, TypeCorrect, ToldStep, PTL DEF Spec

LEMMA SendsBySubmit == TypeOK /\ [Next]_vars /\ Sends => quote.known /\ Valid(form)
<1> SUFFICES ASSUME TypeOK, [Next]_vars, Sends PROVE quote.known /\ Valid(form)
  OBVIOUS
<1>1. posts \in Seq(BOOLEAN) /\ Len(posts) \in Nat
  BY DEF TypeOK
<1>2. posts' # posts
  BY <1>1 DEF Sends
<1>3. posts' # Excused
  BY <1>1, ExcusedFacts DEF Sends
<1>4. ASSUME NEW i \in DOMAIN posts  PROVE posts' # RemoveAt(posts, i) /\ posts' # RemoveAt(Excused, i)
  <2>1. i \in 1..Len(posts)
    BY <1>1
  <2>2. Len(RemoveAt(posts, i)) = Len(posts) - 1
    BY <1>1, <2>1, RemoveFacts
  <2>3. Len(RemoveAt(Excused, i)) = Len(posts) - 1
    BY <1>1, <2>1, ExcusedFacts, RemoveFacts
  <2> QED  BY <1>1, <2>2, <2>3 DEF Sends
<1>5. SubmitCreateBooking
  BY <1>2, <1>3, <1>4 DEF Next, vars, OpenCreateBookingModal, CloseCreateBookingModal, PickSuggestion, EditAddress,
         EditBasics, EditPickup, SetCreateTripType, ChangeVehicle, RunCreateEstimate, EstimateAnswered, EstimateRefused,
         EstimateFails, CreateAnswered, CreateFails
<1> QED
  BY <1>2, <1>5 DEF SubmitCreateBooking

\* Whatever a create carries is a fare of its vehicle and trip for its distance,
\* and its distance is that of its addresses, unless they were edited meanwhile.
THEOREM CarriesTheJourney == Spec => FareForJourney
<1>1. IInv /\ [Next]_vars /\ Sends =>
        LET sent == Payload(quote, form) IN
        /\ \E fare \in CalculateFare(sent.distanceMiles, sent.vehicleType) :
             sent.estimatedFare = IF sent.tripType = "return" THEN fare + fare ELSE fare
        /\ ~quote.overtaken => sent.distanceMiles = MilesFromMeters(Distance(JourneyOf(sent)))
  <2> SUFFICES ASSUME IInv, [Next]_vars, Sends
               PROVE  /\ \E fare \in CalculateFare(Payload(quote, form).distanceMiles, Payload(quote, form).vehicleType) :
                           Payload(quote, form).estimatedFare =
                             IF Payload(quote, form).tripType = "return" THEN fare + fare ELSE fare
                      /\ ~quote.overtaken => Payload(quote, form).distanceMiles =
                                               MilesFromMeters(Distance(JourneyOf(Payload(quote, form))))
    OBVIOUS
  <2>1. TypeOK /\ quote.known
    BY SendsBySubmit DEF IInv
  <2>2. quote.fares \in CalculateAllFares(quote.distanceMiles)
        /\ (~quote.overtaken => quote.distanceMiles = MilesFromMeters(Distance(JourneyOf(form))))
    BY <2>1 DEF IInv, QuoteInv
  <2>3. quote # Nothing
    BY <2>1 DEF Nothing
  <2>4. quote.distanceMiles \in Int /\ form.vehicleType \in VEHICLE_TYPES
    <3>1. quote.distanceMiles \in Nat
      BY <2>1, <2>3 DEF TypeOK, Quote
    <3>2. form.vehicleType \in VEHICLE_TYPES
      BY <2>1 DEF TypeOK, Form
    <3> QED  BY <3>1, <3>2
  <2> DEFINE fare == quote.fares[form.vehicleType]
  <2>5. fare \in CalculateFare(quote.distanceMiles, form.vehicleType)
    BY <2>2, <2>4, AllFares
  <2>6. fare \in Nat
    BY <2>4, <2>5, FareType
  <2>7. Payload(quote, form).estimatedFare = IF form.tripType = "return" THEN fare + fare ELSE fare
    BY <2>6 DEF Payload, ApplyTripFareMultiplier
  <2>8. /\ Payload(quote, form).distanceMiles = quote.distanceMiles
        /\ Payload(quote, form).vehicleType = form.vehicleType /\ Payload(quote, form).tripType = form.tripType
        /\ JourneyOf(Payload(quote, form)) = JourneyOf(form)
    BY DEF Payload, JourneyOf
  <2> HIDE DEF fare
  <2> QED
    BY <2>2, <2>5, <2>7, <2>8
<1> QED
  BY Inductive, <1>1, PTL DEF Spec, FareForJourney

\* The fare on the label is the fare that is sent.
THEOREM ChargesWhatIsShown == Spec => ShownIsCharged
<1>1. IInv /\ [Next]_vars /\ Sends => shown = [known |-> TRUE, pence |-> Payload(quote, form).estimatedFare]
  <2> SUFFICES ASSUME IInv, [Next]_vars, Sends
               PROVE  shown = [known |-> TRUE, pence |-> Payload(quote, form).estimatedFare]
    OBVIOUS
  <2>1. quote.known
    BY SendsBySubmit DEF IInv
  <2>2. shown = FareDisplay(quote, form)
    BY <2>1 DEF IInv, ShownInv
  <2> QED
    BY <2>1, <2>2 DEF FareDisplay, Payload
<1> QED
  BY Inductive, <1>1, PTL DEF Spec, ShownIsCharged
=============================================================================
