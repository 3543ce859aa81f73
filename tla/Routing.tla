------------------------------- MODULE Routing -------------------------------
(***************************************************************************)
(* POST /routing/quote, /routing/fare and /routing/places (RoutingService  *)
(* and the clients of Google's APIs).  A request keeps no state: what is   *)
(* here are its possible outcomes, as a function of Google's answers.      *)
(*                                                                         *)
(* Google is external: google.geocoded are the addresses it answers for in *)
(* time and with finite coordinates, google.legs the distances in metres   *)
(* of the route's legs, <<>> when there is no answer or no route.  An      *)
(* address has a name, "" when blank, and internal says whether it has a   *)
(* word that looksInternal looks for.                                      *)
(***************************************************************************)
EXTENDS Pricing, ApiAnswers, Sequences, SequencesExt

\* GoogleGeocodingApiClient.geocodeAddress: a missing key, a timeout and an
\* unknown address all throw.
Geocodes(address, google) ==
  address.name # "" /\ google.key /\ address \in google.geocoded

CouldNotLocate(point) ==
  ThrowsHttp(400, Message("could not locate", point.label, point.input.internal))

\* resolveWaypoints: one by one, and the first that fails is the last one tried.
Unresolved(points, google) ==
  {p \in DOMAIN points : /\ ~Geocodes(points[p].input, google)
                         /\ \A q \in 1..(p - 1) : Geocodes(points[q].input, google)}

\* GoogleDirectionsApiClient.getDrivingRoute: the legs in metres are added up.
AddLeg(total, leg) == total + leg
DistanceMeters(legs) == FoldLeft(AddLeg, 0, legs)

Quotes(meters, vehicleType) ==
  {Returns([distanceMiles |-> MilesFromMeters(meters),
            distanceKm |-> KmFromMiles(MilesFromMeters(meters)),
            vehicleType |-> vehicleType, fares |-> f, estimatedFare |-> f[vehicleType]])
     : f \in CalculateAllFaresFromMeters(meters)}

GetQuote(dto, google) ==
  LET points == <<[label |-> "pickup", input |-> dto.from], [label |-> "drop-off", input |-> dto.to]>>
      unresolved == Unresolved(points, google)
  IN  IF unresolved # {} THEN {CouldNotLocate(points[p]) : p \in unresolved}
      ELSE IF ~google.key \/ google.legs = <<>> THEN {ThrowsHttp(400, Generic("route failed"))}
      ELSE Quotes(DistanceMeters(google.legs), dto.vehicleType)

\* getFare: the price of a distance, for the mobile app.
GetFare(dto) ==
  LET miles == NonNegative(dto.distanceMiles)
  IN  {Returns([distanceMiles |-> miles, distanceKm |-> KmFromMiles(miles),
                vehicleType |-> dto.vehicleType, fares |-> f, estimatedFare |-> f[dto.vehicleType]])
         : f \in CalculateAllFares(miles)}

\* searchPlaces: the addresses Google completes the input to, or an error
\* that is no HttpException.
SearchPlaces(input, google) ==
  IF input.name = "" THEN Returns({})
  ELSE IF ~google.key THEN Throws(Message("GOOGLE_MAPS_API_KEY is required", "", FALSE))
  ELSE Returns(google.geocoded)
=============================================================================
