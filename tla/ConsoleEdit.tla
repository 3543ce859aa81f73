----------------------------- MODULE ConsoleEdit -----------------------------
(* Viewing, editing and deleting a booking in the admin console: the modal of *)
(* public/admin/index.html, its confirmation prompt and the calls under way,  *)
(* and what GET, PATCH and DELETE of /bookings/:id do to the table while      *)
(* other clients write to it too. A value stands for the booking that it is a *)
(* value of: `details` for all the plain columns, the return pickup for a     *)
(* date of that booking. An edit of the details stays the booking's own.      *)
EXTENDS FiniteSets

CONSTANTS
  Ids,    \* of bookings
  None,   \* null: no booking, no date
  Slots   \* calls that the console has under way at once

ASSUME NoneAssumption == None \notin Ids

TripTypes == {"one-way", "return"}
Rows == [details : Ids, tripType : TripTypes, returnPickupAt : Ids \union {None}]

VARIABLES
  stored, row,  \* the table: the bookings in it, and their rows
  byHand,       \* bookings whose date another client gave
  modal,        \* on the screen ("open"), with its form and buttons instead of
                \* "Loading" ("body"), these disabled ("saving")
  active,       \* activeBookingId
  form,         \* editBookingId (`of`) and the fields
  pending,      \* pendingDeleteBooking: where the button was; "deleting": Delete disabled
  calls         \* the calls under way

table == <<stored, row, byHand>>
console == <<modal, active, form, pending>>
vars == <<table, console, calls>>

MaybeId == Ids \union {None}
Nothing == [details |-> None, tripType |-> "one-way", returnPickupAt |-> None]
Fields == Rows \union {Nothing}

NoPrompt == [id |-> None, from |-> "list", at |-> "asking"]
NoCall == [op |-> "none", at |-> "sent", id |-> None, fields |-> Nothing, from |-> "list"]

TypeOK ==
  /\ stored \subseteq Ids /\ row \in [Ids -> Rows] /\ byHand \subseteq Ids
  /\ modal \subseteq {"open", "body", "saving"}
  /\ active \in MaybeId
  /\ form \in [of : MaybeId, fields : Fields]
  /\ pending \in [id : MaybeId, from : {"list", "modal"}, at : {"asking", "deleting"}]
  /\ calls \in [Slots -> [op : {"none", "load", "save", "delete"}, at : {"sent", "done", "failed"},
                          id : MaybeId, fields : Fields, from : {"list", "modal"}]]

Init ==
  /\ stored = Ids /\ byHand = {}
  /\ row \in [Ids -> Rows]
  /\ \A i \in Ids : row[i] \in {[details |-> i, tripType |-> "one-way", returnPickupAt |-> None],
                                [details |-> i, tripType |-> "return", returnPickupAt |-> i]}
  /\ modal = {} /\ active = None /\ form = [of |-> None, fields |-> Nothing]
  /\ pending = NoPrompt
  /\ calls = [s \in Slots |-> NoCall]

-----------------------------------------------------------------------------
(* The server *)

\* The two updates that set one column of the trip: a type without a date clears the
\* date if it is one-way; a date is taken whatever the type.
SetTripType(r, t) ==
  [r EXCEPT !.tripType = t, !.returnPickupAt = IF t = "one-way" THEN None ELSE @]
SetReturnPickup(r, date) == [r EXCEPT !.returnPickupAt = date]

\* What comes back. A call that did what it was sent for may still lose its answer.
Answer(s, at, id, fields) ==
  calls' = [calls EXCEPT ![s] =
              [op |-> @.op, at |-> at, id |-> id, fields |-> fields, from |-> @.from]]

Served(s) == \E at \in {"done", "failed"} : Answer(s, at, None, Nothing)

Reaches(s, op) == calls[s].op = op /\ calls[s].at = "sent" /\ calls[s].id \in stored

FindOne(s) ==
  /\ Reaches(s, "load")
  /\ Answer(s, "done", calls[s].id, row[calls[s].id])
  /\ UNCHANGED <<table, console>>

\* The console's update gives every column.
Update(s) ==
  /\ Reaches(s, "save")
  /\ row' = [row EXCEPT ![calls[s].id] = calls[s].fields]
  /\ byHand' = byHand \ {calls[s].id}
  /\ Served(s)
  /\ UNCHANGED <<stored, console>>

Remove(s) ==
  /\ Reaches(s, "delete")
  /\ stored' = stored \ {calls[s].id} /\ byHand' = byHand \ {calls[s].id}
  /\ Served(s)
  /\ UNCHANGED <<row, console>>

\* 404, another error, or no connection.
CallFails(s) ==
  /\ calls[s].op # "none" /\ calls[s].at = "sent"
  /\ Answer(s, "failed", None, Nothing)
  /\ UNCHANGED <<table, console>>

\* Another client updates one of the trip's columns, or deletes the booking.
OtherSetsType(i, t) ==
  /\ i \in stored
  /\ row' = [row EXCEPT ![i] = SetTripType(@, t)]
  /\ byHand' = IF t = "one-way" THEN byHand \ {i} ELSE byHand
  /\ UNCHANGED <<stored, console, calls>>

OtherSetsDate(i, date) ==
  /\ i \in stored
  /\ row' = [row EXCEPT ![i] = SetReturnPickup(@, date)]
  /\ byHand' = IF date = None THEN byHand \ {i} ELSE byHand \union {i}
  /\ UNCHANGED <<stored, console, calls>>

OtherRemoves(i) ==
  /\ i \in stored
  /\ stored' = stored \ {i} /\ byHand' = byHand \ {i}
  /\ UNCHANGED <<row, console, calls>>

-----------------------------------------------------------------------------
(* The console *)

\* The list is out of reach behind the modal, both behind the prompt.
AtList == "open" \notin modal /\ pending.id = None
AtForm == {"open", "body"} \subseteq modal /\ pending.id = None

Sends(s, op, id, fields, from) ==
  /\ calls[s].op = "none"
  /\ calls' = [calls EXCEPT ![s] =
                 [op |-> op, at |-> "sent", id |-> id, fields |-> fields, from |-> from]]

Returns(s, op, at) ==
  /\ calls[s].op = op /\ calls[s].at = at
  /\ calls' = [calls EXCEPT ![s] = NoCall]

\* Mutant: the form stays on the screen until the answer comes.
OpenWithForm(i, s) ==
  /\ active' = i
  /\ modal' = modal \union {"open"}
  /\ Sends(s, "load", i, Nothing, "list")
  /\ UNCHANGED <<table, form, pending>>

OpenBookingModal(i, s) ==
  /\ active' = i
  /\ modal' = (modal \union {"open"}) \ {"body"}
  /\ Sends(s, "load", i, Nothing, "list")
  /\ UNCHANGED <<table, form, pending>>

\* A button of the list, which may show a booking that is gone.
ViewBooking(i, s) == AtList /\ OpenBookingModal(i, s)

\* The answer to a create opens what it created, whatever is on the screen by then: the
\* form of the create may have been closed, another booking or the prompt opened. The
\* booking may have come to the list before its answer came, or be gone again.
CreatedBookingOpens(i, s) == OpenBookingModal(i, s)

\* Mutant: the active booking stays the one whose button was pressed last.
PopulateFormOnly(booking, fields) ==
  active' = active /\ form' = [of |-> booking, fields |-> fields]

PopulateBookingModal(booking, fields) ==
  active' = booking /\ form' = [of |-> booking, fields |-> fields]

\* Whichever answer comes fills the form, also if the modal was closed since.
BookingLoads(s) ==
  /\ Returns(s, "load", "done")
  /\ PopulateBookingModal(calls[s].id, calls[s].fields)
  /\ modal' = modal \union {"body"}
  /\ UNCHANGED <<table, pending>>

LoadFails(s) == Returns(s, "load", "failed") /\ UNCHANGED <<table, console>>

EditTripType(t) ==
  /\ AtForm /\ t # form.fields.tripType
  /\ form' = [form EXCEPT !.fields.tripType = t]
  /\ UNCHANGED <<table, modal, active, pending, calls>>

\* The inputs of the return are hidden unless the trip is one.
EditReturnPickup(date) ==
  /\ AtForm /\ form.fields.tripType = "return" /\ date # form.fields.returnPickupAt
  /\ form' = [form EXCEPT !.fields.returnPickupAt = date]
  /\ UNCHANGED <<table, modal, active, pending, calls>>

\* Mutant: the hidden inputs are read like the others.
ReadEveryInput == form.fields

ReadBookingEditPayload ==
  IF form.fields.tripType = "return" THEN form.fields
  ELSE [form.fields EXCEPT !.returnPickupAt = None]

EditedId == IF active # None THEN active ELSE form.of

\* The button is disabled while a save is under way; the Enter key submits nothing, for
\* the form has several fields and no button of its own.
SaveBooking(s) ==
  /\ AtForm /\ "saving" \notin modal /\ EditedId # None
  /\ Sends(s, "save", EditedId, ReadBookingEditPayload, "modal")
  /\ modal' = modal \union {"saving"}
  /\ UNCHANGED <<table, active, form, pending>>

CloseBookingModal ==
  /\ "open" \in modal /\ pending.id = None
  /\ modal' = modal \ {"open"} /\ active' = None
  /\ UNCHANGED <<table, form, pending, calls>>

\* The answer closes the modal, also if it shows another booking by now.
BookingSaved(s) ==
  /\ Returns(s, "save", "done")
  /\ modal' = modal \ {"open", "saving"} /\ active' = None
  /\ UNCHANGED <<table, form, pending>>

SaveFails(s) ==
  /\ Returns(s, "save", "failed")
  /\ modal' = modal \ {"saving"}
  /\ UNCHANGED <<table, active, form, pending>>

DeleteBookingFromModal ==
  /\ AtForm /\ "saving" \notin modal /\ EditedId # None
  /\ pending' = [id |-> EditedId, from |-> "modal", at |-> "asking"]
  /\ UNCHANGED <<table, modal, active, form, calls>>

PromptDeleteBooking(i) ==
  /\ AtList
  /\ pending' = [id |-> i, from |-> "list", at |-> "asking"]
  /\ UNCHANGED <<table, modal, active, form, calls>>

\* Cancel is disabled while the call is under way; Escape and the backdrop are not.
CloseDeleteConfirmModal ==
  /\ pending.id # None
  /\ pending' = NoPrompt
  /\ UNCHANGED <<table, modal, active, form, calls>>

ExecuteDeleteBooking(s) ==
  /\ pending.id # None /\ pending.at = "asking"
  /\ Sends(s, "delete", pending.id, Nothing, pending.from)
  /\ pending' = [pending EXCEPT !.at = "deleting"]
  /\ UNCHANGED <<table, modal, active, form>>

\* The prompt that closes may by now be that of another booking; so may the modal.
BookingDeleted(s) ==
  /\ Returns(s, "delete", "done")
  /\ pending' = NoPrompt
  /\ IF calls[s].from = "modal" THEN modal' = modal \ {"open"} /\ active' = None
     ELSE UNCHANGED <<modal, active>>
  /\ UNCHANGED <<table, form>>

DeleteFails(s) ==
  /\ Returns(s, "delete", "failed")
  /\ pending' = [pending EXCEPT !.at = "asking"]
  /\ UNCHANGED <<table, modal, active, form>>

-----------------------------------------------------------------------------

Serves(s) == FindOne(s) \/ Update(s) \/ Remove(s) \/ CallFails(s)

Arrives(s) ==
  \/ BookingLoads(s) \/ LoadFails(s) \/ BookingSaved(s) \/ SaveFails(s)
  \/ BookingDeleted(s) \/ DeleteFails(s)

Others(i) ==
  \/ \E t \in TripTypes : OtherSetsType(i, t)
  \/ \E date \in {i, None} : OtherSetsDate(i, date)
  \/ OtherRemoves(i)

Admin ==
  \/ \E i \in Ids, s \in Slots : ViewBooking(i, s)
  \/ \E t \in TripTypes : EditTripType(t)
  \/ \E date \in {form.of, None} : EditReturnPickup(date)
  \/ CloseBookingModal \/ DeleteBookingFromModal \/ CloseDeleteConfirmModal
  \/ \E i \in Ids : PromptDeleteBooking(i)
  \/ \E s \in Slots : SaveBooking(s) \/ ExecuteDeleteBooking(s)

Next ==
  \/ \E s \in Slots : Serves(s) \/ Arrives(s)
  \/ \E i \in Ids : Others(i)
  \/ \E i \in Ids, s \in Slots : CreatedBookingOpens(i, s)
  \/ Admin

Spec == Init /\ [][Next]_vars

-----------------------------------------------------------------------------
(* Properties *)

\* No booking is given values of another one, in whichever order bookings are viewed,
\* closed, saved and answered: a save goes to the booking that its fields are of
\* (index.html:2176, 2278, 2291, 2303).
ValuesStayHome ==
  \A i \in Ids : row[i].details = i /\ row[i].returnPickupAt \in {i, None}

\* What the modal's Save and Delete act on is what it shows, once it shows a form.
ActsOnWhatIsShown == AtForm => active = form.of /\ form.fields.details = form.of

\* A one-way trip has no return pickup, unless another client gave it one after the
\* last save: type and date are two columns, the console's form keeps a date that it
\* hides, and a save overwrites what others wrote since the form was filled
\* (bookings.service.ts:320-330, index.html:2250, 2268-2272).
OneWayHasNoReturn ==
  \A i \in stored \ byHand : row[i].tripType = "one-way" => row[i].returnPickupAt = None
=============================================================================
