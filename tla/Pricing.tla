------------------------------- MODULE Pricing -------------------------------
(***************************************************************************)
(* common/pricing/pricing.ts in integers: a distance is in hundredths of a *)
(* mile, to which the code rounds it, an amount in half pence, which makes *)
(* every rate a whole number, and a fare in pence.                         *)
(*                                                                         *)
(* An odd number of half pence lies between two fares.  Which of the two   *)
(* the code returns depends on the binary fraction nearest to the product, *)
(* so RoundToPence gives both.                                             *)
(***************************************************************************)
EXTENDS Integers

VEHICLE_TYPES == {"saloon", "executive", "mpv"}

\* Half pence per hundredth of a mile; a tier ends at firstMiles.
FirstMiles == 300
FirstRate == [saloon |-> 15, executive |-> 15, mpv |-> 20]
AdditionalRate == [saloon |-> 6, executive |-> 15, mpv |-> 15]

NonNegative(h) == IF h < 0 THEN 0 ELSE h

\* calculateSaloonFare, calculateExecutiveFare and calculateMpvFare: the
\* executive's single rate is a tier that never changes.
TieredFare(h, v) ==
  IF h <= FirstMiles THEN NonNegative(h) * FirstRate[v]
  ELSE FirstMiles * FirstRate[v] + (h - FirstMiles) * AdditionalRate[v]

RoundToPence(amount) == {amount \div 2, (amount + 1) \div 2}

CalculateFare(h, v) == RoundToPence(TieredFare(NonNegative(h), v))
CalculateAllFares(h) ==
  {[saloon |-> s, executive |-> e, mpv |-> m] :
     s \in CalculateFare(h, "saloon"), e \in CalculateFare(h, "executive"), m \in CalculateFare(h, "mpv")}

\* A mile is 1609.344 m: hundredths of a mile, and of a kilometre, to the nearest.
MilesFromMeters(m) == (m * 6250 + 50292) \div 100584
KmFromMiles(h) == (NonNegative(h) * 50292 + 15625) \div 31250

CalculateAllFaresFromMeters(m) == CalculateAllFares(MilesFromMeters(m))
=============================================================================
