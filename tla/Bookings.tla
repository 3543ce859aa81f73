------------------------------ MODULE Bookings ------------------------------
(***************************************************************************)
(* BookingsService and the notification of its owner: create with its      *)
(* reference allocation, update, remove, the booking.created event, its    *)
(* listener, and the admin's resend.  Every await of a query is a point    *)
(* where other requests, a failing database or a crash come between.       *)
(* Columns that no property tells apart are left out of a row.             *)
(***************************************************************************)
EXTENDS Naturals, FiniteSets

CONSTANTS Requests,    \* booking requests in flight at a time
          Ids,         \* the uuids there are, a bound: no more bookings than that
          Refs,        \* the booking references there are
          Tries,       \* attempts of allocateBookingRef (15)
          Configured,  \* whether an environment configures WhatsApp: what it may be
          Dates        \* what an update may set resolvedAt to

ASSUME IdsFinite == IsFiniteSet(Ids) /\ IsFiniteSet(Requests)
ASSUME TriesPositive == Tries \in Nat \ {0}
ASSUME ConfiguredBoolean == Configured \subseteq BOOLEAN
ASSUME DatesNullable == Dates \subseteq {"null", "date"}

VARIABLES
  inserted,     \* history: the bookings that were ever written
  stored,       \* the bookings table: what is in it
  row,          \*   and the columns of each booking
  byHand,       \* history: bookings whose resolvedAt an update set itself
  pc,           \* where each request is
  job,          \* what it was asked and has found out
  events,       \* booking.created, emitted and not yet dispatched
  sending,      \* bookings whose listener awaits the Graph API
  handled,      \* history: bookings whose listener has returned
  delivered,    \* history: messages of the listener that reached WhatsApp
  removals,     \* history: deletions of a booking answered with success
  enabled       \* WhatsApp is configured, in the environment of this process

table == <<inserted, stored, row, byHand>>
notices == <<events, sending, handled, delivered, enabled>>
vars == <<table, pc, job, notices, removals>>

\* open: pending or submitted; resolved: accepted, rejected, completed, cancelled.
Statuses == {"open", "resolved"}

None == "none"           \* no booking yet, no reference yet

\* An update may leave a field out, and may set resolvedAt to null or to a date.
Omitted == "omitted"
Stamps == {Omitted} \union Dates

Row == [ref : Refs \union {None}, status : Statuses, resolvedAt : BOOLEAN]

Ops == {None, "create", "update", "remove", "resend"}

\* op and the inputs; generated: the reference is allocated here; beaten: history,
\* another booking took the reference after the look-up had found it free.
Job == [op : Ops, id : Ids \union {None}, ref : Refs \union {None}, generated : BOOLEAN,
        tries : Nat, status : Statuses \union {Omitted}, resolvedAt : Stamps, beaten : BOOLEAN]

Waits == {"allocating", "inserting", "inserted", "finding", "writing", "notifying"}

\* The answers the properties speak of; any other ends the request at once.
Answers == {"created", "conflict"}

TypeOK ==
  /\ inserted \subseteq Ids /\ stored \subseteq inserted /\ byHand \subseteq inserted
  /\ row \in [Ids -> Row]
  /\ pc \in [Requests -> {"idle"} \union Waits \union Answers]
  /\ job \in [Requests -> Job]
  /\ events \subseteq Ids /\ sending \subseteq Ids /\ handled \subseteq Ids
  /\ delivered \in [Ids -> Nat] /\ removals \in [Ids -> Nat]
  /\ enabled \in BOOLEAN

Nothing == [op |-> None, id |-> None, ref |-> None, generated |-> FALSE, tries |-> 0,
            status |-> Omitted, resolvedAt |-> Omitted, beaten |-> FALSE]

NoRow == [ref |-> None, status |-> "open", resolvedAt |-> FALSE]

Init ==
  /\ inserted = {} /\ stored = {} /\ byHand = {}
  /\ row = [i \in Ids |-> NoRow]
  /\ pc = [r \in Requests |-> "idle"]
  /\ job = [r \in Requests |-> Nothing]
  /\ events = {} /\ sending = {} /\ handled = {}
  /\ delivered = [i \in Ids |-> 0] /\ removals = [i \in Ids |-> 0]
  /\ enabled \in Configured

At(r, where) == pc[r] = where

Goes(r, where) == pc' = [pc EXCEPT ![r] = where]

\* An answer keeps the booking it is about, and how the reference was come by.
Answer(r, answer) ==
  /\ Goes(r, answer)
  /\ job' = [job EXCEPT ![r] = [Nothing EXCEPT !.id = job[r].id, !.beaten = job[r].beaten,
                                                !.generated = job[r].generated]]

\* Answered with 200, 404 or 500, and over.
Ends(r) == Goes(r, "idle") /\ job' = [job EXCEPT ![r] = Nothing]

-----------------------------------------------------------------------------
(* create *)

\* A create that may still need a uuid.
Creating(r) == At(r, "allocating") \/ At(r, "inserting")

RoomForOne ==
  Cardinality(inserted) + Cardinality({r \in Requests : Creating(r)}) < Cardinality(Ids)

\* dto.status ?? submitted
StatusOf(status) == IF status = Omitted THEN "open" ELSE status

\* POST /bookings with the reference the client chose: it is not looked up.
CreateGiven(r, s, status) ==
  /\ At(r, "idle") /\ RoomForOne
  /\ job' = [job EXCEPT ![r] = [Nothing EXCEPT !.op = "create", !.ref = s,
                                               !.status = StatusOf(status)]]
  /\ Goes(r, "inserting")
  /\ UNCHANGED <<table, notices, removals>>

CreateGenerated(r, status) ==
  /\ At(r, "idle") /\ RoomForOne
  /\ job' = [job EXCEPT ![r] = [Nothing EXCEPT !.op = "create", !.generated = TRUE,
                                               !.status = StatusOf(status)]]
  /\ Goes(r, "allocating")
  /\ UNCHANGED <<table, notices, removals>>

Taken(s) == \E i \in stored : row[i].ref = s

\* Mutant: the look-up of a generated reference is taken for free whatever it finds.
FreeUnchecked(s) == TRUE

\* The look-up of allocateBookingRef finds no booking.
Free(s) == ~Taken(s)

\* Mutant: the attempts are not counted.
TriesAfterNever(r) == job[r].tries

TriesAfter(r) == job[r].tries + 1

\* One turn of the loop: a random reference and its look-up.
AllocateRef(r, s) ==
  /\ At(r, "allocating") /\ Free(s)
  /\ job' = [job EXCEPT ![r].ref = s, ![r].tries = 0]
  /\ Goes(r, "inserting")
  /\ UNCHANGED <<table, notices, removals>>

AllocateTaken(r, s) ==
  /\ At(r, "allocating") /\ ~Free(s)
  /\ IF TriesAfter(r) < Tries
     THEN job' = [job EXCEPT ![r].tries = TriesAfter(r)] /\ UNCHANGED pc
     ELSE Ends(r)
  /\ UNCHANGED <<table, notices, removals>>

\* Mutant: the look-up is relied on, booking_ref has no unique index.
UniqueViolatedNever(r) == FALSE

\* booking_ref is @unique.
UniqueViolated(r) == Taken(job[r].ref)

InsertConflicts(r) ==
  /\ At(r, "inserting") /\ UniqueViolated(r)
  /\ Answer(r, "conflict")
  /\ UNCHANGED <<table, notices, removals>>

\* Mutant: only an accepted booking is stamped at its creation.
StampedOnlyOpen(status) == status = "open"

Stamped(status) == status = "resolved"

RowOf(r) == [ref |-> job[r].ref, status |-> job[r].status,
             resolvedAt |-> Stamped(job[r].status)]

\* Of the other creates, those that wait to insert the same reference are beaten to it.
NowBeaten(r) ==
  [q \in Requests |->
     IF q # r /\ At(q, "inserting") /\ job[q].ref = job[r].ref
     THEN [job[q] EXCEPT !.beaten = TRUE] ELSE job[q]]

\* The row is written.
Inserts(r, i) ==
  /\ inserted' = inserted \union {i} /\ stored' = stored \union {i}
  /\ row' = [row EXCEPT ![i] = RowOf(r)]
  /\ UNCHANGED byHand

InsertCommits(r, i) ==
  /\ At(r, "inserting") /\ ~UniqueViolated(r) /\ i \in Ids \ inserted
  /\ Inserts(r, i)
  /\ Goes(r, "inserted")
  /\ job' = [NowBeaten(r) EXCEPT ![r] = [Nothing EXCEPT !.op = "create", !.id = i]]
  /\ UNCHANGED <<notices, removals>>

\* The commit happened, its acknowledgement was lost: the booking exists, the client
\* gets a 500 and nobody is notified.
InsertUnconfirmed(r, i) ==
  /\ At(r, "inserting") /\ ~UniqueViolated(r) /\ i \in Ids \ inserted
  /\ Inserts(r, i)
  /\ Goes(r, "idle")
  /\ job' = [NowBeaten(r) EXCEPT ![r] = Nothing]
  /\ UNCHANGED <<notices, removals>>

\* Mutant: only an open booking is announced.
WithEventOpen(i) == IF row[i].status = "open" THEN events \union {i} ELSE events

WithEvent(i) == events \union {i}

\* After the insert: the event is emitted, which waits for no listener, and the row
\* is answered.
EmitAndAnswer(r) ==
  /\ At(r, "inserted")
  /\ events' = WithEvent(job[r].id)
  /\ Answer(r, "created")
  /\ UNCHANGED <<table, removals, sending, handled, delivered, enabled>>

-----------------------------------------------------------------------------
(* update and remove: a look-up for the 404, then the write by id *)

Asks(r, op, i, status, stamp) ==
  /\ At(r, "idle") /\ i \in inserted
  /\ job' = [job EXCEPT ![r] = [Nothing EXCEPT !.op = op, !.id = i, !.status = status,
                                               !.resolvedAt = stamp]]
  /\ Goes(r, "finding")
  /\ UNCHANGED <<table, notices, removals>>

AskUpdate(r, i, status, stamp) == Asks(r, "update", i, status, stamp)
AskRemove(r, i) == Asks(r, "remove", i, Omitted, Omitted)
AskResend(r, i) == Asks(r, "resend", i, Omitted, Omitted)

FindsNone(r) ==
  /\ At(r, "finding") /\ job[r].id \notin stored
  /\ Ends(r)
  /\ UNCHANGED <<table, notices, removals>>

FindsRow(r) ==
  /\ At(r, "finding") /\ job[r].id \in stored /\ job[r].op \in {"update", "remove"}
  /\ Goes(r, "writing")
  /\ UNCHANGED <<table, job, notices, removals>>

\* The row after update's data is applied to it: an explicit resolvedAt wins, a
\* resolved status stamps, anything else leaves the column.
Updated(r) ==
  LET i == job[r].id
      status == IF job[r].status = Omitted THEN row[i].status ELSE job[r].status
      stamp == CASE job[r].resolvedAt # Omitted -> job[r].resolvedAt = "date"
                 [] job[r].resolvedAt = Omitted /\ job[r].status = "resolved" -> TRUE
                 [] OTHER -> row[i].resolvedAt
  IN [row[i] EXCEPT !.status = status, !.resolvedAt = stamp]

\* Mutant: a row that is gone is written again (an upsert).
ExistsAlways(i) == TRUE

\* The record that update or delete requires: P2025 without it.
Exists(i) == i \in stored

UpdatesRow(r) ==
  /\ job[r].op = "update" /\ Exists(job[r].id)
  /\ stored' = stored \union {job[r].id}
  /\ row' = [row EXCEPT ![job[r].id] = Updated(r)]
  /\ byHand' = IF job[r].resolvedAt = Omitted THEN byHand ELSE byHand \union {job[r].id}
  /\ UNCHANGED inserted

\* Mutant: deleteMany, which finds nothing to delete and succeeds.
DeletableMany(i) == TRUE

Deletable(i) == i \in stored

DeletesRow(r) ==
  /\ job[r].op = "remove" /\ Deletable(job[r].id)
  /\ stored' = stored \ {job[r].id}
  /\ row' = [row EXCEPT ![job[r].id] = NoRow]
  /\ byHand' = byHand \ {job[r].id}
  /\ UNCHANGED inserted

UpdateCommits(r) ==
  /\ At(r, "writing") /\ UpdatesRow(r)
  /\ Ends(r)
  /\ UNCHANGED <<notices, removals>>

DeleteCommits(r) ==
  /\ At(r, "writing") /\ DeletesRow(r)
  /\ removals' = [removals EXCEPT ![job[r].id] = @ + 1]
  /\ Ends(r)
  /\ UNCHANGED notices

WriteUnconfirmed(r) ==
  /\ At(r, "writing") /\ (UpdatesRow(r) \/ DeletesRow(r))
  /\ Ends(r)
  /\ UNCHANGED <<notices, removals>>

\* The row was deleted between the look-up and the write: P2025, answered 500.
WriteFindsNone(r) ==
  /\ At(r, "writing") /\ job[r].id \notin stored
  /\ Ends(r)
  /\ UNCHANGED <<table, notices, removals>>

\* A query of any kind fails and has changed nothing.
QueryFails(r) ==
  /\ pc[r] \in {"allocating", "inserting", "finding", "writing"}
  /\ Ends(r)
  /\ UNCHANGED <<table, notices, removals>>

\* The answer is sent.
Collected(r) ==
  /\ pc[r] \in Answers
  /\ Ends(r)
  /\ UNCHANGED <<table, notices, removals>>

-----------------------------------------------------------------------------
(* The listener and the resend *)

\* { async: true }: the listener runs in a turn of its own.  Skipped at once without a configuration; otherwise the Graph API is awaited.
Dispatch(i) ==
  /\ i \in events
  /\ events' = events \ {i}
  /\ IF enabled
     THEN sending' = sending \union {i} /\ UNCHANGED handled
     ELSE handled' = handled \union {i} /\ UNCHANGED sending
  /\ UNCHANGED <<table, pc, job, delivered, enabled, removals>>

\* Mutant: a failed message is queued again.
AfterFailureRetry(i) == events \union {i}

\* The failure is logged, that is all.
AfterFailure(i) == events

NoticeReturns(i) ==
  /\ i \in sending
  /\ sending' = sending \ {i}
  /\ handled' = handled \union {i}
  /\ UNCHANGED <<table, pc, job, enabled, removals>>

NoticeSent(i) ==
  /\ NoticeReturns(i)
  /\ delivered' = [delivered EXCEPT ![i] = @ + 1]
  /\ UNCHANGED events

\* Refused, or timed out after 30 s: it may have been delivered all the same.
NoticeFails(i) ==
  /\ NoticeReturns(i)
  /\ \E n \in {0, 1} : delivered' = [delivered EXCEPT ![i] = @ + n]
  /\ events' = AfterFailure(i)

\* sendBookingConfirmationById: the row is read, the Graph API is awaited here.
ResendFindsRow(r) ==
  /\ At(r, "finding") /\ job[r].id \in stored /\ job[r].op = "resend"
  /\ IF enabled THEN Goes(r, "notifying") /\ UNCHANGED job ELSE Ends(r)
  /\ UNCHANGED <<table, notices, removals>>

\* Sent or not, the answer says which.
ResendReturns(r) ==
  /\ At(r, "notifying")
  /\ Ends(r)
  /\ UNCHANGED <<table, notices, removals>>

-----------------------------------------------------------------------------

\* Mutant: the next process takes up the messages that were under way.
AfterCrashResumed == sending

\* The emitter's queue is in memory.
AfterCrash == {}

\* The process dies and is started again, perhaps with another environment: the
\* table stays; requests, events and calls in flight are gone.
Crash ==
  /\ pc' = [r \in Requests |-> "idle"]
  /\ job' = [r \in Requests |-> Nothing]
  /\ events' = AfterCrash /\ sending' = {}
  /\ enabled' \in Configured
  /\ UNCHANGED <<table, handled, delivered, removals>>

Arrives(r) ==
  \/ \E s \in Refs, status \in Statuses \union {Omitted} : CreateGiven(r, s, status)
  \/ \E status \in Statuses \union {Omitted} : CreateGenerated(r, status)
  \/ \E i \in Ids, status \in Statuses \union {Omitted}, stamp \in Stamps :
       AskUpdate(r, i, status, stamp)
  \/ \E i \in Ids : AskRemove(r, i) \/ AskResend(r, i)

RequestStep(r) ==
  \/ \E s \in Refs : AllocateRef(r, s) \/ AllocateTaken(r, s)
  \/ \E i \in Ids : InsertCommits(r, i) \/ InsertUnconfirmed(r, i)
  \/ InsertConflicts(r) \/ EmitAndAnswer(r)
  \/ FindsNone(r) \/ FindsRow(r)
  \/ UpdateCommits(r) \/ DeleteCommits(r) \/ WriteUnconfirmed(r) \/ WriteFindsNone(r)
  \/ ResendFindsRow(r) \/ ResendReturns(r)

ListenerStep(i) == Dispatch(i) \/ NoticeSent(i) \/ NoticeFails(i)

Next ==
  \/ \E r \in Requests : Arrives(r) \/ RequestStep(r) \/ QueryFails(r) \/ Collected(r)
  \/ \E i \in Ids : ListenerStep(i)
  \/ Crash

Spec == Init /\ [][Next]_vars

\* A query returns unless it fails first; a call of the Graph API returns or times out.
FairSpec ==
  /\ Spec
  /\ \A r \in Requests : WF_vars(RequestStep(r))
  /\ \A i \in Ids : WF_vars(ListenerStep(i))

-----------------------------------------------------------------------------
(* Properties *)

\* Two stored bookings never share a reference, although the look-up of a generated
\* one and its insert are two queries and a chosen one is not looked up at all.
RefsUnique == \A i, j \in stored : row[i].ref = row[j].ref => i = j

\* A client that left the reference to the server is answered 409 only if another
\* booking took the reference it had been allotted in between.
ConflictExplained ==
  \A r \in Requests : At(r, "conflict") /\ job[r].generated => job[r].beaten

\* A create answered with success has its booking in the table's history, and its
\* notice is queued, under way or done: none is answered and then forgotten.
CreatedIsAnnounced ==
  \A r \in Requests : At(r, "created") =>
    job[r].id \in inserted /\ job[r].id \in events \union sending \union handled

\* The owner is told of a booking at most once by the listener, and only of one that
\* was written, whatever fails, crashes or times out.
AnnouncedOnce ==
  \A i \in Ids : delivered[i] <= 1 /\ (delivered[i] = 1 => i \in inserted)

\* A booking in a resolved status has a resolvedAt, unless an update set that column
\* itself (bookings.controller.ts:76, "resolvedAt is set automatically").
ResolvedStamped ==
  \A i \in stored \ byHand : row[i].status = "resolved" => row[i].resolvedAt

\* A deleted booking does not come back, also when an update that had found it is
\* still to be written.
DeletedStaysDeleted == [][stored' \intersect inserted \subseteq stored]_vars

\* Of the deletions of a booking that overlap, at most one is answered with success.
RemovedOnce == \A i \in Ids : removals[i] <= 1

\* The notice of a booking is owed by the request that has inserted it.
Owed == {job[r].id : r \in {q \in Requests : At(q, "inserted")}}

Register == INSTANCE BookingRegister WITH
  NoRef <- None,
  written <- inserted,
  ref <- [i \in Ids |-> row[i].ref],
  owed <- Owed,
  queued <- events \union sending,
  settled <- handled,
  messages <- delivered

\* BookingsService and its listener implement BookingRegister: a booking is written
\* and deleted once, keeps its reference, and its notice is queued and settled once.
ImplementsRegister == Register!Spec

Working(r) == pc[r] \in {"allocating", "inserting", "inserted"}

\* A create is always answered, however many references are taken and however the
\* owner's messages fare ("failures must not affect the booking API response").
CreateAnswered == \A r \in Requests : Working(r) ~> ~Working(r)

\* An emitted event is dispatched and its message settled, unless the process dies.
EventSettled == \A i \in Ids : i \in events \union sending ~> i \notin events \union sending
=============================================================================
