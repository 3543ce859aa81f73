--------------------------- MODULE MCWhatsappSend ---------------------------
(* Two sends of the server and the script. One environment in which the token *)
(* is exchanged, one with a buffer too short, one without refresh, and two in  *)
(* which nothing is sent: WHATSAPP_ENABLED= left blank, an owner's number cut  *)
(* short.                                                                      *)
EXTENDS WhatsappSend, TLC

CONSTANTS s1, s2

MCSenders == {s1, s2}

Refreshing ==
  [WHATSAPP_TOKEN |-> <<>>, WHATSAPP_ACCESS_TOKEN |-> <<"t", " ">>,
   FACEBOOK_GRAPH_API |-> Unset, WHATSAPP_PHONE_NUMBER_ID |-> <<"id">>,
   WHATSAPP_ENABLED |-> Unset, WHATSAPP_DEFAULT_COUNTRY_CODE |-> Unset,
   WHATSAPP_TO |-> <<"0", "7", "-", "7", "0", "0", "-", "9", "0", "0", "1", "2", "3">>,
   META_APP_ID |-> <<>>, FACEBOOK_APP_ID |-> <<"app">>,
   META_APP_SECRET |-> <<"s">>, FACEBOOK_APP_SECRET |-> Unset,
   WHATSAPP_SKIP_TOKEN_EXCHANGE |-> Unset, WHATSAPP_TOKEN_REFRESH_ENABLED |-> Unset,
   META_TOKEN_REFRESH_BUFFER |-> 0]

MCEnvs ==
  {Refreshing,
   [Refreshing EXCEPT !.META_TOKEN_REFRESH_BUFFER = 1],
   [Refreshing EXCEPT !.WHATSAPP_TOKEN_REFRESH_ENABLED = <<"no">>,
                      !.WHATSAPP_ENABLED = <<"yes">>, !.FACEBOOK_GRAPH_API = <<"url">>],
   [Refreshing EXCEPT !.WHATSAPP_ENABLED = <<>>],
   [Refreshing EXCEPT !.WHATSAPP_TO = <<"0", "7", "7", "0", "0">>]}

Plain ==
  [customerName |-> <<"x">>, contactNumber |-> <<"4", "4">>, email |-> <<"x">>,
   roomNo |-> Null, passengers |-> Null, pickupFrom |-> <<"x">>, dropoffTo |-> <<"x", "y">>,
   preferredPickupAt |-> <<"monday", "s">>, returnPickupAt |-> Null,
   vehicleType |-> <<"mpv">>, estimatedFare |-> <<"75.00">>, note |-> Null]

\* Runs of breaks and spaces, a note too long, a vehicle outside the list.
Awkward ==
  [Plain EXCEPT !.preferredPickupAt = <<"friday", "s">>,
                !.note = <<"x", " ", "n", "n", " ", " ", "n", " ", "x", "x", "x", "x">>,
                !.roomNo = <<" ", "n">>, !.passengers = <<"7">>, !.vehicleType = <<" ", "x">>,
                !.returnPickupAt = <<"tuesday", "s">>]

MCRows == {Plain, Awkward}
MCInstants == {<<"monday", "s">>}
MCForms == {[SAMPLE_BOOKING EXCEPT !.roomNo = <<" ">>, !.passengers = Null, !.note = Null,
                                   !.customerName = <<" ">>]}
MCLifetimes == {0, 4}
MCEnvLife == {2, 20}
MCSymmetry == Permutations(MCSenders)
=============================================================================
