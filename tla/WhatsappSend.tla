---------------------------- MODULE WhatsappSend ----------------------------
(***************************************************************************)
(* Sending the template: the server's senders (the booking.created         *)
(* listener, the admin's resend and test), which share the token cached by *)
(* MetaTokenService, and the script that posts with the token of the       *)
(* environment.  A sender awaits twice, for the exchange of the token and  *)
(* for the post; each call ends within the client's time-out.              *)
(*                                                                         *)
(* until: when Meta stops taking a token.  The cache holds what the server *)
(* believes of it, reckoned from the arrival of the answer.                *)
(***************************************************************************)
EXTENDS WhatsappMessage

CONSTANTS
  Senders,     \* concurrent sends of the server
  Script,      \* the process of test-whatsapp.ts
  Envs,        \* the environments the processes may be started in
  Rows,        \* bookings, as a query or an event hands them over
  Instants,    \* pickups an admin may put in place of the booking's
  Forms,       \* bodies of POST /whatsapp/templates/booking-confirmation
  Lifetimes,   \* what expires_in may say; 0: absent
  EnvLife,     \* when the environment's own token may die
  Timeout,     \* of one HTTP call
  Horizon      \* bound of the clock

ASSUME SendersAssumption == Script \notin Senders
ASSUME ClockAssumption ==
  /\ Timeout \in Nat \ {0} /\ Horizon \in Nat /\ DefaultBuffer \in Nat /\ EnvLife \subseteq Nat
  /\ \A e \in Envs : e.META_TOKEN_REFRESH_BUFFER \in Int
\* What may be in a booking and in a form: a number and a date show something,
\* a text may be blank; where a column may be empty, Null is one of the texts.
Texts == Seq(STRING)
Numbers == {s \in Texts : Trim(s) # <<>>}
Dates == (STRING \ Spaces) \X STRING
Row == [customerName : Texts, contactNumber : Texts, email : Texts, roomNo : Texts, passengers : Numbers,
        pickupFrom : Texts, dropoffTo : Texts, preferredPickupAt : Dates,
        returnPickupAt : Dates \union {Null}, vehicleType : Texts, estimatedFare : Texts, note : Texts]
Form == [customerName : Texts, contactNumber : Texts, email : Texts, roomNo : Texts, passengers : Texts,
         departureLocation : Texts, destinationLocation : Texts, pickupDateLabel : Texts,
         returnDateLabel : Texts, selectedService : Texts, totalFare : Texts, note : Texts]
ASSUME DataAssumption == Rows \subseteq Row /\ Instants \subseteq Dates /\ Forms \subseteq Form
\* A fresh token outlives the calls it is fetched for.
ASSUME LifetimesAssumption == \A l \in Lifetimes : l \in Nat /\ (l = 0 \/ l > 2 * Timeout)

Actors == Senders \union {Script}

VARIABLES
  env, envUntil,   \* the environment, and when its own token dies
  now,
  cached,          \* MetaTokenService.cached
  pc, since,       \* what an actor awaits, and since when a send of the server does
  token,           \* the token it has been issued or is posting
  request, about   \* what it posts, and the data that came from

vars == <<env, envUntil, now, cached, pc, since, token, request, about>>

NoToken == [kind |-> "none", until |-> 0, life |-> 0]
EnvToken == [kind |-> "env", until |-> envUntil, life |-> 0]
NoRequest == [to |-> <<>>, body |-> <<>>]
Nothing == [of |-> "nothing"]
NoCache == [kind |-> "none", until |-> 0, expiresAt |-> 0]

\* An actor is at rest, waits for Meta to get its exchange, for the answer, or for its post.
Init ==
  /\ env \in Envs
  /\ envUntil \in EnvLife
  /\ now = 0
  /\ cached = NoCache
  /\ pc = [a \in Actors |-> "idle"]
  /\ since = [a \in Actors |-> 0]
  /\ token = [a \in Actors |-> NoToken]
  /\ request = [a \in Actors |-> NoRequest]
  /\ about = [a \in Actors |-> Nothing]

-----------------------------------------------------------------------------
(* MetaTokenService.getAccessToken. *)

\* Mutant: the cache is used to the very end.
FreshToTheEnd(e, c, t) == c.kind = "long" /\ t < c.expiresAt
UsableCache(e, c, t) == c.kind = "long" /\ t < c.expiresAt - RefreshBuffer(e)

\* a is about to post, with tok.
Posts(a, tok) ==
  /\ pc' = [pc EXCEPT ![a] = "posting"]
  /\ since' = [since EXCEPT ![a] = now]
  /\ token' = [token EXCEPT ![a] = tok]

AwaitsExchange(a) ==
  /\ pc' = [pc EXCEPT ![a] = "exchanging"]
  /\ since' = [since EXCEPT ![a] = now]
  /\ UNCHANGED token

GetAccessToken(a) ==
  \/ /\ ~RefreshEnabled(env)
     /\ Posts(a, EnvToken)
  \/ /\ RefreshEnabled(env)
     /\ UsableCache(env, cached, now)
     /\ Posts(a, [kind |-> "long", until |-> cached.until, life |-> 0])
  \/ /\ RefreshEnabled(env)
     /\ ~UsableCache(env, cached, now)
     /\ AwaitsExchange(a)

\* Meta receives the exchange and issues a token, if it takes the environment's.
MetaIssues(a) ==
  /\ pc[a] = "exchanging"
  /\ now < envUntil
  /\ \E l \in Lifetimes : token' = [token EXCEPT ![a] = [kind |-> "long", until |-> now + l, life |-> l]]
  /\ pc' = [pc EXCEPT ![a] = "issued"]
  /\ UNCHANGED <<env, envUntil, now, cached, since, request, about>>

\* The answer: without an expiry the token is dropped for the environment's.
ExchangeAnswered(a) ==
  /\ pc[a] = "issued"
  /\ IF token[a].life = 0
     THEN Posts(a, EnvToken) /\ UNCHANGED cached
     ELSE /\ cached' = [kind |-> "long", until |-> token[a].until, expiresAt |-> now + token[a].life]
          /\ Posts(a, token[a])
  /\ UNCHANGED <<env, envUntil, now, request, about>>

\* Refused, timed out or lost: the token of the environment, with a warning.
ExchangeFails(a) ==
  /\ pc[a] \in {"exchanging", "issued"}
  /\ Posts(a, EnvToken)
  /\ UNCHANGED <<env, envUntil, now, cached, request, about>>

-----------------------------------------------------------------------------
(* Who sends what. *)

Composes(a, fields, data) ==
  /\ request' = [request EXCEPT ![a] = BuildRequest(env, fields)]
  /\ about' = [about EXCEPT ![a] = data]
  /\ UNCHANGED <<env, envUntil, now, cached>>

MaySend(a) == pc[a] = "idle" /\ Enabled(env) /\ ResolveOwnerWhatsappTo(env) # <<>>

\* The listener's booking, or the one an admin asks for by its id.
SendBookingConfirmation(s) ==
  /\ MaySend(s)
  /\ \E b \in Rows : Composes(s, ServiceFields(b), [of |-> "booking", data |-> b])
  /\ GetAccessToken(s)

\* Resending with another pickup changes the booking in memory only.
SendBookingConfirmationById(s) ==
  /\ MaySend(s)
  /\ \E b \in Rows, t \in Instants :
       LET shown == [b EXCEPT !.preferredPickupAt = t]
       IN  Composes(s, ServiceFields(shown), [of |-> "booking", data |-> shown])
  /\ GetAccessToken(s)

SendTemplate(s, dto) ==
  /\ MaySend(s)
  /\ Composes(s, ControllerFields(dto), [of |-> "form", data |-> dto])
  /\ GetAccessToken(s)

\* The script posts at once, with the token it has.
ScriptPosts(fields, data) ==
  /\ MaySend(Script)
  /\ Composes(Script, fields, data)
  /\ pc' = [pc EXCEPT ![Script] = "posting"]
  /\ token' = [token EXCEPT ![Script] = EnvToken]
  /\ UNCHANGED since

ScriptSend == ScriptPosts(SAMPLE_BOOKING, [of |-> "form", data |-> SAMPLE_BOOKING])
ScriptBooking == \E b \in Rows : ScriptPosts(ScriptFields(b), [of |-> "booking", data |-> b])
\* `api`: signed in, the sample goes through the server.
ScriptApi == \E s \in Senders : SendTemplate(s, SAMPLE_BOOKING)

\* The post reaches Meta, or does not: either way its sender is done.
PostEnds(a) ==
  /\ pc[a] = "posting"
  /\ pc' = [pc EXCEPT ![a] = "idle"]
  /\ since' = [since EXCEPT ![a] = 0]
  /\ token' = [token EXCEPT ![a] = NoToken]
  /\ request' = [request EXCEPT ![a] = NoRequest]
  /\ about' = [about EXCEPT ![a] = Nothing]
  /\ UNCHANGED <<env, envUntil, now, cached>>

-----------------------------------------------------------------------------
\* No call of the server outlives its time-out; the script's has none.
Tick ==
  /\ now < Horizon
  /\ \A s \in Senders : pc[s] # "idle" => now < since[s] + Timeout
  /\ now' = now + 1
  /\ UNCHANGED <<env, envUntil, cached, pc, since, token, request, about>>

\* The server forgets its cache and its sends; the script is another process.
Restart ==
  /\ cached' = NoCache
  /\ pc' = [a \in Actors |-> IF a = Script THEN pc[a] ELSE "idle"]
  /\ since' = [a \in Actors |-> IF a = Script THEN since[a] ELSE 0]
  /\ token' = [a \in Actors |-> IF a = Script THEN token[a] ELSE NoToken]
  /\ request' = [a \in Actors |-> IF a = Script THEN request[a] ELSE NoRequest]
  /\ about' = [a \in Actors |-> IF a = Script THEN about[a] ELSE Nothing]
  /\ UNCHANGED <<env, envUntil, now>>

Next ==
  \/ \E s \in Senders : \/ SendBookingConfirmation(s)
                        \/ SendBookingConfirmationById(s)
                        \/ \E dto \in Forms : SendTemplate(s, dto)
                        \/ MetaIssues(s) \/ ExchangeAnswered(s) \/ ExchangeFails(s)
  \/ ScriptSend \/ ScriptBooking \/ ScriptApi
  \/ \E a \in Actors : PostEnds(a)
  \/ Tick \/ Restart

Spec == Init /\ [][Next]_vars

-----------------------------------------------------------------------------
TypeOK ==
  /\ env \in Envs /\ envUntil \in Nat /\ now \in Nat
  /\ cached \in [kind : {"none", "long"}, until : Nat, expiresAt : Nat]
  /\ pc \in [Actors -> {"idle", "exchanging", "issued", "posting"}]
  /\ since \in [Actors -> Nat]
  /\ token \in [Actors -> [kind : {"none", "env", "long"}, until : Nat, life : Nat]]
  /\ DOMAIN request = Actors /\ DOMAIN about = Actors

\* The buffer before expiry covers an exchange and a post.
Generous == RefreshBuffer(env) >= 2 * Timeout

\* A token the server got by an exchange, its own or one that another send
\* cached, is still taken by Meta for as long as the post that carries it can
\* be under way (MetaTokenService reckons the expiry from the answer's arrival,
\* later than Meta does, and hands the token to concurrent sends).
TokenAlive ==
  Generous => \A a \in Actors :
                pc[a] = "posting" /\ token[a].kind = "long" => now < token[a].until

\* The server and the script, which compose the message apart, tell the owner
\* the same about the same booking or form, at the same number.
MessagesAgree ==
  \A a, b \in Actors :
    pc[a] # "idle" /\ pc[b] # "idle" /\ about[a] = about[b] => request[a] = request[b]

Optional == {"roomNo", "passengers", "note", "returnPickupAt", "returnDateLabel", "vehicleType"}

\* Meta takes every text that is posted, whatever the customer typed, unless a
\* field that must be given holds nothing but spaces (validation only asks for
\* one character, whatever it is).
TextsTaken ==
  \A a \in Actors : pc[a] # "idle" =>
    \/ \A i \in DOMAIN request[a].body : MetaTakes(request[a].body[i])
    \/ \E f \in DOMAIN about[a].data \ Optional : Trim(about[a].data[f]) = <<>>
=============================================================================
