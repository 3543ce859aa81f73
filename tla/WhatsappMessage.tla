--------------------------- MODULE WhatsappMessage ---------------------------
(***************************************************************************)
(* What the owner is told about a booking, and where: the configuration    *)
(* read from the environment, the recipient, and the twelve parameters of  *)
(* the template.  The text is composed twice in the repository, once by    *)
(* the server (booking-whatsapp.service.ts) and once by the script that    *)
(* tries the template by hand (test-whatsapp.ts); both are here.           *)
(*                                                                         *)
(* A text is a sequence of characters, of which only three kinds matter:   *)
(* " " a space, "n" a line break or a tab, anything else a printing one.   *)
(* A variable of the environment is Unset, blank (the empty text) or a     *)
(* text; instants are <<minute, second>>.                                  *)
(***************************************************************************)
EXTENDS Integers, Sequences, SequencesExt, FiniteSetsExt

CONSTANTS
  DefaultBuffer,   \* 86400 s, in ticks
  TextMax          \* CUSTOM_TEMPLATE_TEXT_MAX_LENGTH, scaled down

ASSUME TextMaxAssumption == TextMax \in Nat /\ TextMax > 1

Unset == <<"unset">>
Null == <<"null">>
Breaks == {"n"}
Spaces == {" "} \union Breaks
None == <<"None">>

\* String.prototype.trim
Trim(s) == LET printing == {i \in DOMAIN s : s[i] \notin Spaces}
           IN  IF printing = {} THEN <<>> ELSE SubSeq(s, Min(printing), Max(printing))

\* `s?.trim() || other`
TrimOr(s, other) == IF s \in {Unset, Null} \/ Trim(s) = <<>> THEN other ELSE Trim(s)
Given(s) == TrimOr(s, <<>>) # <<>>

-----------------------------------------------------------------------------
(* The environment (whatsapp.config.ts, meta-token.config.ts). *)

ReadToken(e) == TrimOr(e.WHATSAPP_TOKEN, TrimOr(e.WHATSAPP_ACCESS_TOKEN, <<>>))

GraphHost == <<"graph">>
ResolveGraphApiUrl(e) ==
  IF Given(e.FACEBOOK_GRAPH_API) THEN Trim(e.FACEBOOK_GRAPH_API)
  ELSE IF Given(e.WHATSAPP_PHONE_NUMBER_ID) THEN GraphHost \o Trim(e.WHATSAPP_PHONE_NUMBER_ID)
  ELSE <<>>

\* A blank WHATSAPP_ENABLED disables, an absent one does not.
Enabled(e) == /\ ReadToken(e) # <<>>
              /\ ResolveGraphApiUrl(e) # <<>>
              /\ \/ e.WHATSAPP_ENABLED = Unset
                 \/ Trim(e.WHATSAPP_ENABLED) \in {<<"1">>, <<"true">>, <<"yes">>}

CountryCode(e) == TrimOr(e.WHATSAPP_DEFAULT_COUNTRY_CODE, <<"4", "4">>)

RefreshConfig(e) == /\ Given(e.META_APP_ID) \/ Given(e.FACEBOOK_APP_ID)
                    /\ Given(e.META_APP_SECRET) \/ Given(e.FACEBOOK_APP_SECRET)
ShouldSkipTokenExchange(e) == Trim(e.WHATSAPP_SKIP_TOKEN_EXCHANGE) \in {<<"1">>, <<"true">>, <<"yes">>}
RefreshEnabled(e) == /\ ~ShouldSkipTokenExchange(e)
                     /\ Trim(e.WHATSAPP_TOKEN_REFRESH_ENABLED) \notin {<<"0">>, <<"false">>, <<"no">>}
                     /\ RefreshConfig(e)

\* An integer below 1 stands for an absent or unreadable number.
RefreshBuffer(e) == IF e.META_TOKEN_REFRESH_BUFFER > 0 THEN e.META_TOKEN_REFRESH_BUFFER
                    ELSE DefaultBuffer

-----------------------------------------------------------------------------
(* The recipient (phone.util.ts). *)

Digits == {"0", "1", "2", "3", "4", "5", "6", "7", "8", "9"}

NormalizeWhatsappRecipient(phone, country) ==
  LET digits == SelectSeq(phone, LAMBDA c : c \in Digits)
  IN  IF digits # <<>> /\ Head(digits) = "0" THEN country \o Tail(digits) ELSE digits

\* The owner's number, or <<>>: never a customer's.
ResolveOwnerWhatsappTo(e) ==
  LET to == NormalizeWhatsappRecipient(TrimOr(e.WHATSAPP_TO, <<>>), CountryCode(e))
  IN  IF Len(to) < 10 THEN <<>> ELSE to

-----------------------------------------------------------------------------
(* The template (booking-confirmation.template.ts, template-parameter.util.ts). *)

\* [\r\n\t]+ becomes one space
JoinBreak(r, c) == IF c \in Breaks /\ r # <<>> /\ Last(r) \in Breaks THEN r ELSE Append(r, c)
JoinBreaks(s) ==
  LET once == FoldLeft(JoinBreak, <<>>, s)
  IN  [i \in DOMAIN once |-> IF once[i] \in Breaks THEN " " ELSE once[i]]

FourSpaces == <<" ", " ", " ", " ">>

\* five spaces or more become four
ShortenRun(r, c) == IF c = " " /\ IsSuffix(FourSpaces, r) THEN r ELSE Append(r, c)
ShortenRuns(s) == FoldLeft(ShortenRun, <<>>, s)

Shorten(s) == IF Len(s) <= TextMax THEN s ELSE Append(SubSeq(s, 1, TextMax - 1), "...")

\* Mutant: the breaks become spaces after the runs have been shortened.
SanitizeLate(s) == Shorten(Trim(JoinBreaks(ShortenRuns(s))))
SanitizeTemplateParameter(s) == Shorten(Trim(ShortenRuns(JoinBreaks(s))))

BodyParameters ==
  <<"customerName", "contactNumber", "email", "roomNo", "passengers", "departureLocation",
    "destinationLocation", "pickupDateLabel", "returnDateLabel", "selectedService",
    "totalFare", "note">>

BuildRequest(e, fields) ==
  [to |-> ResolveOwnerWhatsappTo(e),
   body |-> [i \in DOMAIN BodyParameters |->
               SanitizeTemplateParameter(fields[BodyParameters[i]])]]

\* What Meta takes as the text of a parameter (external; template-parameter.util.ts:7).
MetaTakes(s) == /\ s # <<>>
                /\ Len(s) <= TextMax
                /\ \A i \in DOMAIN s : s[i] \notin Breaks
                /\ \A i \in 1 .. Len(s) - 4 : SubSeq(s, i, i + 4) # Append(FourSpaces, " ")

-----------------------------------------------------------------------------
(* The fields, by the server. *)

\* PRICING[...].label
VehicleLabel == [saloon |-> <<"PREMIUM VEHICLE">>, executive |-> <<"EXECUTIVE VEHICLE">>,
                 mpv |-> <<"EXECUTIVE MPV (7 Seater)">>]
IsVehicleType(s) == Len(s) = 1 /\ s[1] \in DOMAIN VehicleLabel
UpperCase(s) == [i \in DOMAIN s |-> IF s[i] = "x" THEN "X" ELSE s[i]]

\* Day, month, year, hour and minute; the seconds are dropped.
FormatDateTimeLabel(instant) == <<instant[1]>>
FormatReturnDateLabel(instant) == IF instant = Null THEN None ELSE FormatDateTimeLabel(instant)
\* Mutant: the default of the note, not of the passengers.
PassengersOrNone(n) == IF n = Null THEN None ELSE n
FormatPassengers(n) == IF n = Null THEN <<"1">> ELSE n
FormatSelectedService(s) == IF IsVehicleType(s) THEN VehicleLabel[s[1]]
                            ELSE IF Trim(s) = <<>> THEN <<"EXECUTIVE">> ELSE UpperCase(Trim(s))

\* BookingWhatsappService.sendBookingConfirmation
ServiceFields(b) ==
  [customerName |-> b.customerName, contactNumber |-> b.contactNumber, email |-> b.email,
   roomNo |-> TrimOr(b.roomNo, None), passengers |-> FormatPassengers(b.passengers),
   departureLocation |-> b.pickupFrom, destinationLocation |-> b.dropoffTo,
   pickupDateLabel |-> FormatDateTimeLabel(b.preferredPickupAt),
   returnDateLabel |-> FormatReturnDateLabel(b.returnPickupAt),
   selectedService |-> FormatSelectedService(b.vehicleType),
   totalFare |-> <<"GBP">> \o b.estimatedFare, note |-> TrimOr(b.note, None)]

\* WhatsappController.sendTemplate: an absent optional field is Null.
ControllerFields(dto) ==
  [dto EXCEPT !.roomNo = TrimOr(@, None), !.passengers = TrimOr(@, <<"1">>),
              !.returnDateLabel = TrimOr(@, None), !.note = TrimOr(@, None)]

-----------------------------------------------------------------------------
(* The fields, by the script. *)

ScriptDateLabel(instant) == <<instant[1]>>
ScriptService(s) == CASE s \in {<<v>> : v \in DOMAIN VehicleLabel} -> VehicleLabel[s[1]]
                      [] OTHER -> IF Trim(s) # <<>> THEN UpperCase(Trim(s)) ELSE <<"EXECUTIVE">>

\* bookingToPayload
ScriptFields(b) ==
  [customerName |-> b.customerName, contactNumber |-> b.contactNumber, email |-> b.email,
   roomNo |-> TrimOr(b.roomNo, None),
   passengers |-> IF b.passengers # Null THEN b.passengers ELSE <<"1">>,
   departureLocation |-> b.pickupFrom, destinationLocation |-> b.dropoffTo,
   pickupDateLabel |-> ScriptDateLabel(b.preferredPickupAt),
   returnDateLabel |-> IF b.returnPickupAt # Null THEN ScriptDateLabel(b.returnPickupAt) ELSE None,
   selectedService |-> ScriptService(b.vehicleType),
   totalFare |-> <<"GBP">> \o b.estimatedFare, note |-> TrimOr(b.note, None)]

SAMPLE_BOOKING ==
  [customerName |-> <<"Test", " ", "Customer">>, contactNumber |-> <<"447700900123">>,
   email |-> <<"test@example.com">>, roomNo |-> <<"214">>, passengers |-> <<"2">>,
   departureLocation |-> <<"Heathrow">>, destinationLocation |-> <<"London">>,
   pickupDateLabel |-> <<"5 June 2026 at 3:30 pm">>,
   returnDateLabel |-> <<"6 June 2026 at 4:00 pm">>, selectedService |-> <<"EXECUTIVE">>,
   totalFare |-> <<"GBP", "75.00">>, note |-> <<"Please", " ", "call">>]
=============================================================================
