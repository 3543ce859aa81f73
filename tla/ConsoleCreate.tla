---------------------------- MODULE ConsoleCreate ----------------------------
(***************************************************************************)
(* The create modal of the admin console (public/admin/index.html), with   *)
(* the quote and the create requests it awaits.  Everything stays usable   *)
(* while they are awaited: the form, the modal itself, and the estimate    *)
(* button while a create is under way.  Records of an absent value have    *)
(* known = FALSE.                                                          *)
(***************************************************************************)
EXTENDS Routing, FiniteSets

CONSTANTS
  Addresses,   \* what may be typed, or picked from the suggestions
  Legs,        \* Google's route between two addresses
  MaxPosts     \* bound of the creates under way

Blank == [name |-> "", internal |-> FALSE]
Typed == Addresses \union {Blank}
Journeys == Addresses \X Addresses
Distance(journey) == DistanceMeters(Legs[journey])

ASSUME AddressAssumption == \A a \in Addresses : a.name # "" /\ a.internal \in BOOLEAN
ASSUME LegsAssumption == \A j \in Journeys : Legs[j] \in Seq(Nat)
ASSUME MaxPostsAssumption == MaxPosts \in Nat

VARIABLES
  open,            \* the modal is shown
  form,
  quote,           \* createQuoteState
  shown,           \* the fare label, in pence
  submitEnabled,   \* bookingCreateSubmitBtn
  estimating,      \* the quote awaited; its button is disabled meanwhile
  posts,           \* the creates awaited, whose Payload is the server's by then;
                   \* each with whether (history) a second one is excused
  error            \* bookingCreateError, with (history) the estimate refused

vars == <<open, form, quote, shown, submitEnabled, estimating, posts, error>>

Nothing == [known |-> FALSE]
Fares == [saloon : Nat, executive : Nat, mpv : Nat]
Form == [from : Typed, to : Typed, basics : BOOLEAN, pickup : BOOLEAN,
         vehicleType : VEHICLE_TYPES, tripType : {"one-way", "return"}]

\* openCreateBookingModal: the form as it is reset, with a pickup filled in.
FreshForm == [from |-> Blank, to |-> Blank, basics |-> FALSE, pickup |-> TRUE,
              vehicleType |-> "executive", tripType |-> "one-way"]
JourneyOf(f) == <<f.from, f.to>>

\* validateCreateFormBasics; basics: name, contact, e-mail and passengers.
Valid(f) == f.basics /\ f.pickup /\ f.from # Blank /\ f.to # Blank

Init ==
  /\ open = FALSE /\ form = FreshForm
  /\ quote = Nothing /\ shown = Nothing /\ submitEnabled = FALSE
  /\ estimating = Nothing /\ posts = <<>>
  /\ error = Nothing

-----------------------------------------------------------------------------
ApplyTripFareMultiplier(fare, tripType) == IF tripType = "return" THEN 2 * fare ELSE fare

ResetCreateQuoteState ==
  quote' = Nothing /\ shown' = Nothing /\ submitEnabled' = FALSE

\* updateCreateFareDisplay, for the form f
FareDisplay(q, f) ==
  IF q.known THEN [known |-> TRUE, pence |-> ApplyTripFareMultiplier(q.fares[f.vehicleType], f.tripType)]
  ELSE shown

\* History: the addresses asked about are no longer those of the form.
Overtaken(e) == IF e.known THEN [e EXCEPT !.overtaken = TRUE] ELSE e

OpenCreateBookingModal ==
  /\ ~open
  /\ open' = TRUE /\ form' = FreshForm /\ error' = Nothing
  /\ ResetCreateQuoteState
  /\ estimating' = Overtaken(estimating)
  /\ UNCHANGED posts

CloseCreateBookingModal ==
  /\ open
  /\ open' = FALSE /\ error' = Nothing
  /\ ResetCreateQuoteState
  /\ UNCHANGED <<form, estimating, posts>>

-----------------------------------------------------------------------------
(* The form. *)

\* What Google may answer.
Places == [key : BOOLEAN, geocoded : SUBSET Addresses]
Google(journey) == [key : BOOLEAN, geocoded : SUBSET Addresses, legs : {<<>>, Legs[journey]}]

\* Mutant: an edit leaves the estimate as it is.
EditAddressOnly(field, a) ==
  /\ open
  /\ form' = [form EXCEPT ![field] = a]
  /\ estimating' = Overtaken(estimating)
  /\ UNCHANGED <<open, quote, shown, submitEnabled, posts, error>>

\* The input and click listeners of bindPlacesAutocomplete.
EditAddress(field, a) ==
  /\ open
  /\ form' = [form EXCEPT ![field] = a]
  /\ ResetCreateQuoteState
  /\ estimating' = Overtaken(estimating)
  /\ UNCHANGED <<open, posts, error>>

\* One of the places the server answered for what was typed before.
PickSuggestion(field) ==
  \E typed \in Addresses, google \in Places :
    LET suggestions == Api(SearchPlaces(typed, google)) IN
    /\ suggestions.tag = "data"
    /\ \E a \in suggestions.data : EditAddress(field, a)

\* Name, contact, e-mail and passengers reset the quote as well.
EditBasics ==
  /\ open
  /\ form' = [form EXCEPT !.basics = ~@]
  /\ ResetCreateQuoteState
  /\ UNCHANGED <<open, estimating, posts, error>>

\* No listener is told of the date and the time: the quote is kept.
EditPickup ==
  /\ open
  /\ form' = [form EXCEPT !.pickup = ~@]
  /\ UNCHANGED <<open, quote, shown, submitEnabled, estimating, posts, error>>

\* setCreateTripType, syncCreateTripTypeFields
SetCreateTripType(t) ==
  /\ open
  /\ form' = [form EXCEPT !.tripType = t]
  /\ ResetCreateQuoteState
  /\ UNCHANGED <<open, estimating, posts, error>>

\* Mutant: the label is left as it is.
ChangeVehicleOnly(v) ==
  /\ open
  /\ form' = [form EXCEPT !.vehicleType = v]
  /\ UNCHANGED <<open, quote, shown, submitEnabled, estimating, posts, error>>

\* The quote has the fares of every vehicle, and is kept.
ChangeVehicle(v) ==
  /\ open
  /\ form' = [form EXCEPT !.vehicleType = v]
  /\ shown' = FareDisplay(quote, form')
  /\ UNCHANGED <<open, quote, submitEnabled, estimating, posts, error>>

-----------------------------------------------------------------------------
(* The estimate. *)

Says(text) == [known |-> TRUE, message |-> Generic(text), refused |-> Nothing]

RunCreateEstimate ==
  /\ open /\ ~estimating.known
  /\ IF Valid(form)
     THEN /\ estimating' = [known |-> TRUE, from |-> form.from, to |-> form.to, overtaken |-> FALSE]
          /\ error' = Nothing
     ELSE error' = Says("incomplete") /\ UNCHANGED estimating
  /\ UNCHANGED <<open, form, quote, shown, submitEnabled, posts>>

\* The vehicle asked about decides estimatedFare only, which the console does not read.
QuoteOf(e, google) == GetQuote([from |-> e.from, to |-> e.to, vehicleType |-> "executive"], google)

\* An answer, or an error caught, after which a create may be sent though
\* another one is under way: what excuses a second one.
Excused == [i \in 1..Len(posts) |-> TRUE]

\* The quote is kept whatever became of the form since.
EstimateAnswered ==
  /\ estimating.known
  /\ \E google \in Google(JourneyOf(estimating)) : \E outcome \in QuoteOf(estimating, google) :
       LET answer == Api(outcome) IN
       /\ answer.tag = "data"
       /\ quote' = [known |-> TRUE, fares |-> answer.data.fares,
                    distanceMiles |-> answer.data.distanceMiles,
                    overtaken |-> estimating.overtaken]
  /\ shown' = FareDisplay(quote', form)
  /\ submitEnabled' = TRUE
  /\ estimating' = Nothing
  /\ posts' = Excused
  /\ UNCHANGED <<open, form, error>>

\* The server's error, in the words of its exception filter.
EstimateRefused ==
  /\ estimating.known
  /\ \E google \in Google(JourneyOf(estimating)) : \E outcome \in QuoteOf(estimating, google) :
       LET answer == Api(outcome) IN
       /\ answer.tag = "error"
       /\ error' = [known |-> TRUE, message |-> answer.message,
                    refused |-> [known |-> TRUE, from |-> estimating.from, to |-> estimating.to,
                                 google |-> [key |-> google.key, geocoded |-> google.geocoded]]]
  /\ ResetCreateQuoteState
  /\ estimating' = Nothing
  /\ UNCHANGED <<open, form, posts>>

\* The call itself fails.
EstimateFails ==
  /\ estimating.known
  /\ error' = Says("failed to fetch")
  /\ ResetCreateQuoteState
  /\ estimating' = Nothing
  /\ UNCHANGED <<open, form, posts>>

-----------------------------------------------------------------------------
(* The create. *)

\* What the create carries of the quote q and the form f.
Payload(q, f) ==
  [from |-> f.from, to |-> f.to, distanceMiles |-> q.distanceMiles,
   estimatedFare |-> ApplyTripFareMultiplier(q.fares[f.vehicleType], f.tripType),
   vehicleType |-> f.vehicleType, tripType |-> f.tripType]

\* Mutant: the button stays enabled while the create is awaited.
SubmitAgain ==
  /\ open /\ submitEnabled /\ quote.known
  /\ Len(posts) < MaxPosts
  /\ posts' = Append(posts, FALSE) /\ error' = Nothing
  /\ UNCHANGED <<open, form, quote, shown, submitEnabled, estimating>>

SubmitCreateBooking ==
  /\ open /\ submitEnabled /\ quote.known
  /\ Len(posts) < MaxPosts
  /\ IF Valid(form)
     THEN /\ posts' = Append(posts, FALSE)
          /\ submitEnabled' = FALSE /\ error' = Nothing
     ELSE error' = Says("incomplete") /\ UNCHANGED <<posts, submitEnabled>>
  /\ UNCHANGED <<open, form, quote, shown, estimating>>

\* The modal that is open by then is closed, the list loaded, the booking shown.
CreateAnswered(i) ==
  /\ posts' = RemoveAt(posts, i)
  /\ open' = FALSE /\ error' = Nothing
  /\ ResetCreateQuoteState
  /\ UNCHANGED <<form, estimating>>

CreateFails(i) ==
  /\ posts' = RemoveAt(Excused, i)
  /\ error' = Says("could not create")
  /\ submitEnabled' = quote.known
  /\ UNCHANGED <<open, form, quote, shown, estimating>>

Next ==
  \/ OpenCreateBookingModal \/ CloseCreateBookingModal
  \/ \E field \in {"from", "to"} : PickSuggestion(field) \/ \E a \in Typed : EditAddress(field, a)
  \/ EditBasics \/ EditPickup
  \/ \E t \in {"one-way", "return"} : SetCreateTripType(t)
  \/ \E v \in VEHICLE_TYPES : ChangeVehicle(v)
  \/ RunCreateEstimate \/ EstimateAnswered \/ EstimateRefused \/ EstimateFails
  \/ SubmitCreateBooking
  \/ \E i \in DOMAIN posts : CreateAnswered(i) \/ CreateFails(i)

Spec == Init /\ [][Next]_vars

-----------------------------------------------------------------------------
Quote == {Nothing} \union [known : {TRUE}, fares : Fares, distanceMiles : Nat, overtaken : BOOLEAN]
Estimate == {Nothing} \union [known : {TRUE}, from : Addresses, to : Addresses, overtaken : BOOLEAN]

TypeOK ==
  /\ open \in BOOLEAN /\ form \in Form /\ submitEnabled \in BOOLEAN
  /\ quote \in Quote /\ shown \in {Nothing} \union [known : {TRUE}, pence : Nat]
  /\ estimating \in Estimate
  /\ posts \in Seq(BOOLEAN) /\ Len(posts) <= MaxPosts
  /\ error.known \in BOOLEAN

\* A create is sent by this step.
Sends == Len(posts') > Len(posts)

\* A create carries a fare of the vehicle and the trip for the distance that it
\* carries, and the distance is that of its two addresses, unless one of them
\* was edited while the estimate was awaited (index.html:2134): nothing ties
\* the quote to the addresses it was made for but its being reset by every edit.
FareForJourney ==
  [][Sends =>
       LET sent == Payload(quote, form) IN
       /\ \E fare \in CalculateFare(sent.distanceMiles, sent.vehicleType) :
            sent.estimatedFare = IF sent.tripType = "return" THEN fare + fare ELSE fare
       /\ ~quote.overtaken => sent.distanceMiles = MilesFromMeters(Distance(JourneyOf(sent)))]_vars

\* The fare on the label when the create is sent is the fare that it carries,
\* whatever was changed between the estimate and the click (index.html:1908).
ShownIsCharged == [][Sends => shown = [known |-> TRUE, pence |-> Payload(quote, form).estimatedFare]]_vars

\* Two creates are under way only if an estimate was answered, or a create
\* failed, since the first was sent (index.html:2144): clicking alone sends one.
NoDoubleSubmit == \A i, j \in DOMAIN posts : i < j => posts[i]

\* The error of a refused estimate names the first address that could not be
\* looked up, or says that the details are to be checked when its words look
\* internal to the filter, as those of a street may (http-exception.filter.ts:132),
\* and never blames an address that was found.
ToldWhichAddress ==
  error.known /\ error.refused.known =>
    LET r == error.refused
        found(a) == r.google.key /\ a \in r.google.geocoded
        blames(label, a) ==
          IF a.internal THEN error.message = Generic("check your details")
          ELSE error.message.text = "could not locate" /\ error.message.subject = label
    IN  /\ ~found(r.from) => blames("pickup", r.from)
        /\ found(r.from) /\ ~found(r.to) => blames("drop-off", r.to)
        /\ found(r.from) /\ found(r.to) => error.message = Generic("route failed")
=============================================================================
