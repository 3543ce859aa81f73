----------------------------- MODULE ApiAnswers -----------------------------
(***************************************************************************)
(* How a handler's outcome reaches the console: HttpExceptionFilter and    *)
(* TransformResponseInterceptor on the server, parseApiResponse in the     *)
(* browser.  A message is a record: what it says (text), about what        *)
(* (subject), and whether it has one of the words by which looksInternal   *)
(* tells an internal message (internal).                                   *)
(***************************************************************************)
EXTENDS Integers

Message(text, subject, internal) == [text |-> text, subject |-> subject, internal |-> internal]
Generic(text) == Message(text, "", FALSE)

\* A handler returns or throws; what is no HttpException is a 500 without a response body.
Returns(data) == [tag |-> "data", data |-> data]
ThrowsHttp(status, message) == [tag |-> "error", http |-> TRUE, status |-> status, message |-> message]
Throws(message) == [tag |-> "error", http |-> FALSE, status |-> 500, message |-> message]

LooksInternal(message) == message.internal

\* What is said when the exception's own message may not be.
ByStatus(e) == CASE e.status = 400 -> Generic("check your details")
                 [] e.status = 401 -> Generic("please sign in")
                 [] e.status = 403 -> Generic("no permission")
                 [] e.status = 404 -> Generic("not found")
                 [] e.status = 429 -> Generic("too many requests")
                 [] e.status >= 500 -> Generic("something went wrong")
                 [] OTHER -> e.message

\* Mutant: an exception's own message is always shown.
ResolveUnchecked(e) == IF e.http THEN e.message ELSE ByStatus(e)

\* HttpExceptionFilter.resolveMessage
ResolveMessage(e) == IF e.http /\ ~LooksInternal(e.message) THEN e.message ELSE ByStatus(e)

\* The body that is sent, then what api() returns or throws for it.
Sent(outcome) == IF outcome.tag = "error"
                 THEN [success |-> FALSE, statusCode |-> outcome.status, message |-> ResolveMessage(outcome)]
                 ELSE [success |-> TRUE, data |-> outcome.data]
ParseApiResponse(body) == IF body.success THEN Returns(body.data)
                          ELSE [tag |-> "error", statusCode |-> body.statusCode, message |-> body.message]
Api(outcome) == ParseApiResponse(Sent(outcome))
=============================================================================
