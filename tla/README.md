# Vale Executive Cars backend: specifications, checks and proofs

TLA+ modules for the backend of a car-hire firm: a NestJS server in one process,
a MySQL database behind Prisma, the WhatsApp Graph API, a browser console for
the staff and a few scripts that write the same database. They model what is
hard to test in it: requests that interleave at every `await`, queries that fail
or commit without saying so, restarts that lose what lives in memory, and
promises that are not waited for.

## The system

| Part | State | Operations | What is hard about it |
|---|---|---|---|
| Connection lifecycle (`core/database/prisma.service.ts`, its interceptor) | `activeRequestCount`, `connected`, a lock made of a promise chain | acquire and release around each handler, the shutdown hook | interleavings, rejected `$connect` and `$disconnect`, guards that query before the interceptor |
| Sign-in lockout (`modules/auth/signin-attempt.service.ts`) | failures and lock per e-mail and address, in memory | `checkAllowed`, `recordFailure`, `clear` | the gate and the recording are two awaits apart |
| Sessions (`auth.service.ts`, `jwt.strategy.ts`, `token-revocation.service.ts`) | `users` (role, token version), tokens in the clients' hands, revocations in memory | sign-in, sign-up, verification, sign-out | concurrent sign-ins, checks that await, expiry at the boundary, restarts |
| Admin bootstrap (`scripts/ensure-admin-from-env.ts`) | the same `users` table | look-up, then promotion or insert | a second process between the server's queries |
| Bookings (`modules/bookings`) | `bookings`, unique `booking_ref` | create with allocation of a reference, update, remove, listing | look-up then write, lost acknowledgements, references running out |
| WhatsApp (`modules/whatsapp`) | events and calls in flight, a cached Meta token | the `booking.created` listener, resend, token exchange | delivery is ambiguous after a time-out, nothing is persisted |
| Pricing and routing (`common/pricing`, `modules/routing`) | none | tiered fares, Google calls behind a quote | rounding at the boundaries of a tier |
| Admin console (`public/admin/index.html`) | token, lockout display, filters, open modal, quote | session restore, list, edit, delete, create | answers out of order, stale forms and quotes |
| Logs (`core/logger`) | growing files | reading the tail in chunks | chunk boundaries |
| Deployment (`scripts/migrate-deploy.*`, `core/database/database-url.ts`) | environment, migration table | configuration rules, deploy with recovery | two copies of one rule, recovery of a fixed migration |
| Throttling, error filter, response envelope, users, health, Swagger | none of their own | pure mappings, reads | - |

The server's request passes the guards (throttler, JWT), the connection
interceptor and the handler; every handler that queries uses the one
`PrismaService`. `BookingsService` emits `booking.created` on an in-process
emitter, which WhatsApp's listener hears in a turn of its own. The console calls
the same HTTP API; the scripts share only the database with the server. The
operations of each part, and which are modelled, are in `PROJECT.json`
("components"); what could go wrong, line by line, is there under "hazards".

JavaScript runs to completion between two awaits, so everywhere an action is the
code between two awaits, and the interleavings of actions are those of the event
loop (and of other processes on the database).

## Modules

### RequestConnection and PrismaLifecycle

`RequestConnection` is what is promised: while the connection is managed per
request it is open exactly while some request uses it. `PrismaLifecycle` is the
code. `lifecycleLock` holds the callers chained on the promise, its head being
the task that runs, `awaiting` the `$connect` or `$disconnect` that the head is
suspended in, and `engine` what Prisma really has, because a query without a
connection opens one lazily (`GuardPass`, `HandlerQuery`: that is how Prisma
behaves, external to this repository). `ConnectFail` is the rejected `$connect`
after which the interceptor never subscribes to the handler; `DisconnectFail`
the rejected `$disconnect` whose promise was voided; `Shutdown`, `Destroy...` and
`Exit` the shutdown hook, which zeroes the count under requests in flight:
`CountMatches` says until then what the count is, and, hook or not, that between
tasks it agrees with the connected flag.

### SigninLockout

The records, the gate and its outcomes. A key stands for an e-mail and an
address, the clock ticks freely, `misses` is a history variable: the wrong
passwords answered for a key since its last lapsed lock, right password or
restart. `lastAttemptAt` is written and never read in the code, so it is left out.
A right password whose comparison began before a lock lifts the lock, and a restart
forgets it: so the code is, and `LockKept` says that nothing else does, since nobody
passes the gate while the lock is in force.

### AuthSessions

What comes after the gate. `tokens` is every token ever issued, wherever its
bearer keeps it; `revoked` is the in-memory map; `flaws` remembers what was wrong
with a token when its check began, and what others did to it while the check could
still notice: a sign-in or a promotion until the account is read, a sign-out until the
revocation is looked up. So the properties speak of the whole check and not of its
last step. `SigninUpdates` is one transaction (increment and
read back). `Script...` is `ensure-admin-from-env.ts` with both variables set
(without them it does nothing). Password comparison, header parsing and the
hash are abstracted; a sign-in is one whose password was right.

### BookingRegister and Bookings

`BookingRegister` is what the API promises of a booking: written once, under a
reference no other stored booking has and that it keeps while it is stored,
deleted for good; its notice queued once and settled once, with at most one
message, or lost with the process or with an acknowledgement. It knows no
requests and no awaits.

`Bookings` is the code: the bookings table (`stored`, `row`), the requests on it (`pc`, `job`) and the
notices (`events`, `sending`, `handled`). A status is open (pending, submitted)
or resolved (accepted, rejected, completed, cancelled), the distinction the code
makes. `inserted`, `byHand`, `delivered`, `removals` and a job's `beaten` are
history. `InsertUnconfirmed` and `WriteUnconfirmed` are commits whose
acknowledgement is lost, `QueryFails` a query that did nothing, `Crash` the end of
the process with all it had in memory. Updates and deletions are asked for ids that
exist or have existed; an id nobody ever had is answered like a deleted one.
`Creating` and `RoomForOne` bound the number of bookings and model no code.

`Register` maps the one to the other: a booking owes its notice (`Owed`) while the
request that wrote it has still to emit, the notice is queued while its event or
its send is, and settled once the listener has returned. A notice in none of the
three sets is lost, which only `Crash` and `InsertUnconfirmed` bring about; a
second one is never made up, and a resend by hand is no step of the register.

### WhatsappMessage and WhatsappSend

`WhatsappMessage` is pure: the environment's variables, the recipient's number,
the twelve parameters of the template and their sanitising, composed once by the
server and once by `scripts/test-whatsapp.ts`, as both compositions are in the
code. A text is a sequence of characters (a space, a break, anything else); a
variable is unset, blank or a text, because the code tells the three apart
(`WHATSAPP_ENABLED=` disables, its absence does not). `MetaTakes` is what Meta
requires of a parameter, by the comment at `template-parameter.util.ts:7`. The limit
of a text is any number above one (the code's is 1024), so that a shortened text has
a character before its ellipsis; the bookings have the columns of `model Booking` in
`prisma/schema.prisma`, the forms the fields of the resend's DTO (`Row`, `Form`).

`WhatsappSend` sends them. A sender awaits twice, for the exchange of the token
and for the post. `until` is when Meta stops taking a token, `cached.expiresAt`
what the server believes of it, which is later by as long as the answer
travelled. Each call of the server ends within the client's `Timeout`; the
script's `fetch` has no time-out, and the script, being another process, survives
the server's `Restart`. `Generous` says that the buffer before expiry covers an
exchange and a post (a day against 30 s each, by default); where an operator
sets a shorter one nothing is promised. That the listener hears an event once,
and what a failed send does to a booking, is `Bookings`.

### Pricing, ApiAnswers, Routing and ConsoleCreate

`Pricing` is `common/pricing/pricing.ts` in integers: hundredths of a mile, to
which the code rounds a distance, and half pence, in which every rate is whole.
A half penny lies between two fares, and which one JavaScript returns depends on
the binary fraction next to the product: `RoundToPence` gives both. `Routing` has
the outcomes of a quote, a fare and a search for places as functions of what
Google answers (external), the distance of a route being the fold of its legs, which
are natural numbers of metres; `ApiAnswers` how an outcome becomes a body and what the
console makes of that, with the filter's rule for messages that look internal.

`ConsoleCreate` composes them with the create modal: the form, the quote held in
`createQuoteState`, the label, the submit button, and the estimate and creates
awaited, while everything on the page stays usable. `overtaken` (an address was
edited while the estimate was awaited, which nothing in the code notices), the flags in `posts` (a second create is
excused) and `refused` are history. Of the inputs that make a form valid, those of the
pickup alone leave the quote as it is (`EditPickup`). Enter submits neither this modal's form nor
the edit modal's: a form of several fields without a submit button has no
implicit submission, and the buttons are of `type="button"`.

### ConsoleEdit

Viewing, saving and deleting, with `findOne`, `update` and `remove` of the server
and other clients who write the same table. A value stands for the booking that
it is a value of, so that mixing two bookings shows; `details` is all the plain
columns together. A late answer fills, closes or re-enables whichever modal and
prompt are on the screen by then: this is what the code does, and the model has
it. The modal also opens by itself when a create is answered, over whatever is shown
(`CreatedBookingOpens`); that any booking may be the one created is more than the code
allows. `byHand` is history. A save sends every column as it was when the form was
filled and overwrites what others wrote since; that is the API as designed, the
properties say only what survives it.

### DatabaseUrl and Deploy

`DatabaseUrl` has the rule by which the server and Prisma's configuration find
their database, and its copy in `scripts/migrate-deploy.cjs`. The copy is not the
same: where the rule has `??` it has `||`, it trims, and it refuses an empty
password, although the comment at `migrate-deploy.cjs:75` calls them the same
rules. Both are modelled as written, over the kinds of value they tell apart.

`Deploy` is the script, in its `.cjs` and `.ts` form, run by several builds of which
any may be killed. Prisma's commands are external: one excludes the others for as
long as it runs (its advisory lock), a deploy applies what is pending in order,
marks the migration it could not finish as failed and refuses to go past one.
`status` may exit zero or not when something is amiss, as its versions differ, so
both outcomes are open. A deploy ends at a migration that fails or is cut off in the
middle, or between two (`CutAfter`), with what it applied in the ledger and, if it was
not the build that was killed, in its output. `trouble` is history: the builds that met something no
run of the script can put right. A `resolve` in the middle of another build's
deploy is not modelled.

### LogTail

`GET /logs`: the checks of the file and `readTailLines`, one system call per action,
with winston (external) appending and rotating between them. A file is a sequence
of bytes. Empty lines inside an entry and CRLF are left out.

## Runs

| Run | Instance | Expected | What it shows |
|---|---|---|---|
| `prisma_lifecycle` | 3 requests, 1 failed `$connect` per process | pass | the count is exact and agrees with the flag, no handler loses its connection; every acquire settles; the refinement of RequestConnection |
| `prisma_managed` | the same | violation | after a failed `$connect` handlers run unmanaged |
| `signin_lockout` | 3 callers, 2 keys, limit 2, lockout 2 ticks, clock to 4 | pass | the budget of racing guesses, locks at the limit and locks kept |
| `auth_sessions` | 2 requests, the admin's account, tokens of 1 tick, clock to 1, 2 versions | pass | one live token, stale and signed-out tokens refused, the script's postcondition |
| `auth_restart` | tokens of 2 ticks, clock to 2 | violation | a restart revives a signed-out token |
| `bookings` | 2 requests, 2 bookings, 2 references, 1 attempt, WhatsApp configured, `resolvedAt` only cleared by hand | pass | the refinement of BookingRegister; unique references, explained conflicts, single notices, final deletions |
| `bookings_live` | 1 request, 2 bookings, 1 reference, 2 attempts, WhatsApp configured or not, any `resolvedAt` | pass | a create is answered, an event is settled |
| `whatsapp` | 2 senders and the script, 5 environments, time-out 1 tick, buffer 1 or 2, clock to 4, lifetimes absent or 4 | pass | a token that was exchanged outlives its post, both compositions agree, Meta takes every text |
| `console_create` | 2 addresses, an estimate and 2 creates under way | pass | what is sent is what is shown, for the journey of the estimate, once per estimate; a refusal blames the address that failed |
| `console_edit` | 2 bookings, 2 calls under way, other clients | pass | no value strays to another booking, Save and Delete act on what is shown, one-way trips keep no return |
| `deploy` | 2 builds, 3 migrations with the recoverable one in the middle, 32 environments | pass | success means that the database Prisma opened is migrated, and which that is; a build stops for a cause; only the named migration is run again |
| `logs_tail` | chunks of 4 bytes, 2 lines asked for, files of 8 bytes, 1 rotation | violation | a chunk boundary inside a character spoils it |

Why the bounds are enough to be interesting. Three requests give one that
connects, one that joins and one queued behind the release. Three callers against
a limit of two let late failures arrive after the lock, the clock runs past the
end of one lock and into a second, and two keys show that they do not disturb
each other. In `auth_sessions` two requests race for a version, a sign-out or a
promotion; a token issued at 0 expires within the run and one issued at 1 does not,
so pruning meets both; the account is the script's own, the only one where they
meet. Two bookings and two references let a generated reference collide with a
chosen one and with a generated one, and two deletions, or an update and a
deletion, overlap on one row. With a single reference every attempt at a second one finds it
taken, which is the case that must end; the loop of attempts is this run's, one
attempt is enough for safety. `Configured` and `Dates` narrow `bookings` to an
environment with WhatsApp and to updates that clear `resolvedAt`, the one value
that can undo a stamp; `bookings_live` takes all of them.

In `whatsapp` one environment exchanges its token, one has a buffer too short, one
has no refresh and two send nothing; a token of 4 ticks with a buffer of 2 is used
from the cache, refused by it and exchanged again before the clock stops at 4, the
environment's token dies at 2 or not at all, and the texts have runs of breaks and
spaces, a note too long, blanks and an unknown vehicle (the limit of a text is
scaled down to 8). Two addresses make four journeys, of one leg and of two, on both
sides of the first tier and one on a half penny; one of them has a word the filter
takes for internal. Two calls and two bookings are what it takes for an answer to
find the other booking on the screen. Three migrations put one before and one
after the recoverable one, two builds race, and the environments give each
variable each kind of value. Eight bytes in chunks of four are read in two parts,
which may split a character; with chunks of 12, which no file reaches, the same run finds
no error.

Symmetry is used in the safety runs of `AuthSessions`, `Bookings`, `WhatsappSend` and
`ConsoleEdit` (requests, bookings, references, senders and calls are
interchangeable there), never where liveness is checked.

Deadlock is checked in every run: each system can always restart, crash or begin again, so
this says only that no state is malformed; that nobody waits for ever is said by
the liveness properties.

Fairness. `PrismaLifecycle` assumes it of the lock's own steps (`LockStep`): promise
callbacks run, `$connect` and `$disconnect` settle because the driver has
time-outs. Nothing obliges a handler to end or a request to come. `Bookings`
assumes it of the steps of a request and of the listener: queries return, and a
call of the Graph API returns or is cut off by the 30 s time-out set in
`modules/whatsapp/whatsapp.module.ts:13`. Crashes, restarts, failures and arrivals
are never fair. The other specifications state no fairness and claim nothing that
must happen.

## What the violations mean

* `prisma_managed`: the count is incremented before `$connect` is awaited
  (`prisma.service.ts:40-42`), and an acquire that rejects is never released.
  From then on nobody is first in or last out, until the process restarts, and
  connections opened lazily are not closed by a release. `CountMatches` states
  the defect exactly: the surplus of the count is the number of failed connects.
* `auth_restart`: revocations are a `Map` (`token-revocation.service.ts:5`), so the
  sign-out that is documented to last until the token's expiry lasts until the next
  restart. Within one process it holds (`SignedOutRefused`, proved).
* `logs_tail`: `readTailLines` decodes every chunk by itself (`read-log-tail.ts:27`)
  and joins the texts, so a character whose bytes lie in two chunks comes back as
  replacement characters, one for each part. A leftover of bytes, decoded once its
  line is whole, would not.

## Proofs

Eight modules, one for each specification but `LogTail`, prove for any number of
requests, callers, accounts, bookings, references, senders, addresses, calls,
builds and migrations, and any limits, every safety property that the passing
runs check, the action properties, the type invariant of each and both
refinements. They assume only the ASSUMEs of the modules: finite sets of actors
where they are counted, positive limits, the shutdown hook being no request, the
script being no sender, a fresh token outliving the two calls it is fetched for,
a limit of a text above one, bookings and forms of the schema's shape, and legs
of natural length.

* PrismaLifecycle: `TypeOK`, the discipline of the lock (`LockInv`) and who the
  awaited call belongs to, with the two halves of `CountMatches`, `CountsHolders` and
  `ConnectedMatchesCount`. None
  is inductive without the others: that a release which finds a count of one
  closes nobody's connection needs the count to be exact, and its exactness needs
  the head of the chain to be the only task half done. `LockInv` and
  `ConnectedMatchesCount` are theorems of their own (`LockCorrect`, `FlagCorrect`). The
  refinement follows step by step: an acquire that opens maps to Acquire when
  `$connect` resolves, a `$connect` failure or a shutdown to Unmanaged, a restart
  to Renew.
* SigninLockout: a record without a lock has fewer failures than the limit, and
  `misses` never exceeds the failures recorded; `GuessBudget` then follows from
  counting the callers that are comparing. `LockKept` is a fact of each step: the gate
  turns away whoever comes to a lock in force (`GateStep`).
* AuthSessions: versions in tokens and in half-done sign-ins never exceed the
  account's (`VersionInv`), which makes the next version new; what was stale when
  a check began or became so is stale until it reads the account (`FlawInv`), because
  versions only grow; and an entry is kept until its token has expired, which a check that
  passes after a sign-out must have waited for (`SignoutInv`).
* Bookings: a reference allotted to a create that waits to insert was free, and
  is taken only if that create was beaten to it (`AllottedInv`); a booking waits
  to be announced in one request only, its notice is in one place at a time, and a
  delivered message is one of a listener that has returned (`EmitInv`,
  `NoticeInv`); a booking whose deletion was answered is inserted and not stored
  (`RemovalInv`), so no insert can bring it back.
  The refinement of BookingRegister (`RegisterImplemented`) takes these apart by the
  step: an insert, acknowledged or not, is a Write under the reference that the
  look-up and the unique index left free; a deletion whose acknowledgement is lost
  is a Delete all the same; the emit is an Announce because the booking is
  owed by that request alone (`EmitInv`), the listener's end a Settle because it holds
  the only copy of the notice (`NoticeInv`); a crash is LoseNotices; and each other
  step, updates and resends included, leaves the register as it was.
* WhatsappSend: a call that is under way began at most a time-out ago (`CallsEnd`),
  so what the cache believes of a token exceeds the truth by at most one
  (`CacheInv`, `IssuedInv`), and a buffer of two leaves a whole time-out for the
  post (`PostInv`). `FieldsAgree` says that server and script compose the same
  parameters for every booking; `PostedInv`, that a message under way is the one
  composed of the booking or form it is about, carries this to what is posted
  (`SameMessages`). `SanitizedTaken` says of the sanitiser what it is for: whatever
  text shows a character becomes one that Meta takes, without a break, without five
  spaces in a row, not too long and not blank. `TextsAccepted` follows for all that is
  posted, but for a mandatory field that is blank.
* ConsoleCreate: a quote has the fares of its own distance, and that distance is
  of the form's addresses unless `overtaken` (`QuoteInv`), which an estimate under
  way prepares (`EstimateInv`); the label is the quote's while there is one
  (`ShownInv`); the button is enabled only if every create under way is excused
  (`PostsInv`). `ToldWhichAddress` is inductive by itself. Of the prices: a fare
  never decreases with the distance, across the end of a tier too (`FareMonotone`),
  a saloon is never dearer than an executive nor that than an MPV (`FareOrder`), and
  the fare of a distance is the one its quote has (`FareAgreesWithQuote`). A route's
  distance is the sum of its legs, however many there are (`LegsAddUp`), and a journey
  no longer than another has the same quoted miles, or fewer and a strictly lower
  fare: rounding never makes the longer one the cheaper (`QuoteMonotone`).
* ConsoleEdit: every row, form and call holds the values of its own booking (`RowsInv`,
  `FormInv`, `CallInv`, by `Own`), and a one-way trip in any of them has no return
  (`Tidy`), where no other client wrote one.
* Deploy: what must hold of a build at each of its commands: that its gate was passed (`GateAt`),
  that the target is migrated once it is done (`DoneAt`), and that without trouble
  nothing but the named migration has failed, and nothing at all after recovering
  (`CauseAt`). `RulesPart` says of the two copies of the configuration rule where
  exactly they disagree, which `StopsForCause` then states of every build: a blank `DATABASE_DIRECT_URL` hides `DIRECT_URL` from the
  server and not from the gate, so that a deploy may begin that finds no URL; and
  the gate refuses an empty password, or a user or a name of spaces, that the server
  accepts. Everywhere else they agree.

Folds. The sanitiser and the sum of the legs are folds of the community modules, and
the library's induction takes an operator that no prover here can instantiate. What
is proved of them goes another way: induction stated for a set (`SetInduction`: a set
of naturals that holds 0 and the successor of each of its members holds them all, from
`WFMin`, which takes sets only); then, for each fold by itself, that it is the end
of a chain of its steps (`DistanceChain`, and its two siblings in the proofs of
WhatsappSend); then the invariant of the chain. That a literal is a string the
provers cannot show, so a text there is any sequence (`IsText`) of which nothing is
used but which elements are spaces and breaks.

Model-checked only: the liveness properties (`AcquireSettles`, `CreateAnswered`,
`EventSettled`), since fairness is beyond the prover here, and the three violations,
which are counterexamples. Of the first two, the part that is not fairness is proved.
`NobodyIsStranded`, `HeadIsReady` and `FirstComeFirstServed`: who waits for the lock
is on its chain, the head of the chain has a step to take, and each step of the lock
brings everyone nearer (`Turns` counts down to it) while no other step takes
anyone's place. `RequestsRunOut`: a request on bookings has at most `Tries` + 3 steps
left (`StepsLeft`), each of its own takes one away and nobody gives it another. What
TLC adds is that fair scheduling then suffices, and for bookings that an insert finds
an unused id, which is the model's bound and not the code's.

## Not modelled

* The console's list (aborted fetches, paging, filters), its sign-in form and the
  session it restores.
* Of bookings, `findAll` and `findByRef`, and the columns no property tells apart.
  The count and the page of a listing are two queries and may be of different
  moments; a page is shown and nothing depends on it.
* Request throttling (the counting is the library's), the users listing (one read),
  Swagger and the static pages, validation of DTOs (declarations).
* Of the database's configuration, driver options, the pool's limit and the
  resolution of the host: formatting of a URL.
* Of the logs, the choice of a rotated file and its path check. winston names
  rotated files `app1.log`, the listing looks for names that begin with `app.log.`
  (`logs.service.ts:43`), so that there is nothing for the choice to find.
* `create-admin.ts` (the bootstrap's insert, by hand), the script's `status` and
  dry run, the framework's template of an e2e test.

Two things the code does that no property forbids: within the buffer before a
cached token expires, a failed exchange falls back to the environment's token
though the cached one still lives (`meta-token.service.ts:48`; this is modelled, and
`TokenAlive` speaks of exchanged tokens only); and a save by the console sends the
status along with everything else, so that an edit of a resolved booking stamps
`resolvedAt` anew (`bookings.service.ts:334`).

## Plan

Modelled first was what interleaves on shared state (connection, sessions,
lockout, bookings), then what a person or a build sees of it. What is left, in
the order of what it would show:

1. the console's list: the fetch that is aborted by the next one, filters changed
   meanwhile, the restored session against sign-in and sign-out;
2. the listing's two queries between creates and deletions;
3. the selection of a log file by name, with winston's naming;
4. `create-admin.ts` beside the bootstrap, and the users listing.
