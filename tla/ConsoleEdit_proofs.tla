-------------------------- MODULE ConsoleEdit_proofs --------------------------
(* Proofs about ConsoleEdit: for any bookings and any number of calls under   *)
(* way. What a row, a form, or a call on its way to or from the server holds  *)
(* is of one booking; the form on the screen is that of the active booking.   *)
EXTENDS ConsoleEdit, TLAPS

\* The values of booking i, and those that the form may be saved with.
Own(fields, i) ==
  /\ i \in Ids /\ fields \in Rows
  /\ fields.details = i /\ fields.returnPickupAt \in {i, None}
Tidy(fields) == fields.tripType = "one-way" => fields.returnPickupAt = None

RowsInv ==
  \A i \in Ids : Own(row[i], i) /\ (i \in stored => i \in byHand \/ Tidy(row[i]))

CallInv(s) ==
  /\ calls[s].op = "load" /\ calls[s].at = "done" => Own(calls[s].fields, calls[s].id)
  /\ calls[s].op = "save" /\ calls[s].at = "sent" =>
       Own(calls[s].fields, calls[s].id) /\ Tidy(calls[s].fields)

FormInv ==
  /\ form.of # None => Own(form.fields, form.of)
  /\ "body" \in modal => form.of # None /\ active \in {form.of, None}
  /\ {"open", "body"} \subseteq modal => active = form.of

IInv == TypeOK /\ RowsInv /\ FormInv /\ \A s \in Slots : CallInv(s)

-----------------------------------------------------------------------------

LEMMA InitInv == ASSUME Init PROVE IInv
<1>1. \A i \in Ids : Own(row[i], i) /\ Tidy(row[i])
  BY DEF Init, Own, Tidy, Rows, TripTypes
<1>2. TypeOK
  BY DEF Init, TypeOK, NoPrompt, NoCall, Fields, Nothing, MaybeId
<1>3. FormInv
  BY DEF Init, FormInv
<1>4. \A s \in Slots : CallInv(s)
  BY DEF Init, CallInv, NoCall
<1> QED
  BY <1>1, <1>2, <1>3, <1>4 DEF IInv, RowsInv

\* Fields of a booking are fields; so are the blank ones.
LEMMA OwnFields ==
  /\ \A f, i : Own(f, i) => f \in Fields /\ i \in MaybeId
  /\ Nothing \in Fields /\ None \in MaybeId
BY DEF Own, Fields, Nothing, MaybeId

\* The calls keep their types and guarantees when one slot is given a new record.
LEMMA CallStep ==
  ASSUME IInv, NEW s \in Slots,
         NEW op \in {"none", "load", "save", "delete"}, NEW at \in {"sent", "done", "failed"},
         NEW id \in MaybeId, NEW fields \in Fields, NEW from \in {"list", "modal"},
         calls' = [calls EXCEPT ![s] = [op |-> op, at |-> at, id |-> id, fields |-> fields,
                                        from |-> from]],
         op = "load" /\ at = "done" => Own(fields, id),
         op = "save" /\ at = "sent" => Own(fields, id) /\ Tidy(fields)
  PROVE  /\ calls' \in [Slots -> [op : {"none", "load", "save", "delete"},
                                  at : {"sent", "done", "failed"}, id : MaybeId,
                                  fields : Fields, from : {"list", "modal"}]]
         /\ \A t \in Slots : CallInv(t)'
<1>1. calls \in [Slots -> [op : {"none", "load", "save", "delete"},
                           at : {"sent", "done", "failed"}, id : MaybeId,
                           fields : Fields, from : {"list", "modal"}]]
  BY DEF IInv, TypeOK
<1>2. CallInv(s)'
  BY <1>1 DEF CallInv, Own, Tidy
<1>3. ASSUME NEW t \in Slots, t # s PROVE CallInv(t)'
  <2>1. calls'[t] = calls[t]
    BY <1>1, <1>3
  <2> QED
    BY <2>1 DEF IInv, CallInv, Own, Tidy
<1> QED
  BY <1>1, <1>2, <1>3

\* A slot whose call returned is empty, one that is answered keeps what it was sent for.
LEMMA CallEnds ==
  ASSUME IInv, NEW s \in Slots, calls' = [calls EXCEPT ![s] = NoCall]
  PROVE  /\ calls' \in [Slots -> [op : {"none", "load", "save", "delete"},
                                  at : {"sent", "done", "failed"}, id : MaybeId,
                                  fields : Fields, from : {"list", "modal"}]]
         /\ \A t \in Slots : CallInv(t)'
BY CallStep, OwnFields DEF NoCall

LEMMA CallAnswered ==
  ASSUME IInv, NEW s \in Slots, NEW at \in {"done", "failed"}, NEW id \in MaybeId,
         NEW fields \in Fields, Answer(s, at, id, fields),
         calls[s].op = "load" /\ at = "done" => Own(fields, id)
  PROVE  /\ calls' \in [Slots -> [op : {"none", "load", "save", "delete"},
                                  at : {"sent", "done", "failed"}, id : MaybeId,
                                  fields : Fields, from : {"list", "modal"}]]
         /\ \A t \in Slots : CallInv(t)'
<1>1. calls[s].op \in {"none", "load", "save", "delete"} /\ calls[s].from \in {"list", "modal"}
  BY DEF IInv, TypeOK
<1>2. calls' = [calls EXCEPT ![s] = [op |-> calls[s].op, at |-> at, id |-> id, fields |-> fields,
                                     from |-> calls[s].from]]
  BY DEF Answer, IInv, TypeOK
<1> QED
  BY <1>1, <1>2, CallStep

\* Rows and form do not depend on the calls.
LEMMA RowsKept ==
  ASSUME IInv, UNCHANGED <<stored, row, byHand>> PROVE RowsInv'
BY DEF IInv, RowsInv, Own, Tidy

LEMMA RowsOfThoseLeft ==
  ASSUME IInv, NEW i, stored' = stored \ {i}, byHand' = byHand \ {i}, UNCHANGED row
  PROVE  RowsInv'
BY DEF IInv, RowsInv, Own, Tidy

LEMMA FormKept ==
  ASSUME IInv, UNCHANGED <<modal, active, form>> PROVE FormInv'
BY DEF IInv, FormInv, Own

LEMMA CallsKept ==
  ASSUME IInv, UNCHANGED calls PROVE \A s \in Slots : CallInv(s)'
BY DEF IInv, CallInv, Own, Tidy

-----------------------------------------------------------------------------
(* The server's steps *)

LEMMA ServesKeeps ==
  ASSUME IInv, NEW s \in Slots, Serves(s)
  PROVE  IInv'
<1>0. TypeOK /\ calls[s].id \in MaybeId
  BY DEF IInv, TypeOK
<1>1. CASE FindOne(s)
  <2>1. calls[s].id \in Ids
    BY <1>0, <1>1 DEF FindOne, Reaches, TypeOK
  <2>2. Own(row[calls[s].id], calls[s].id)
    BY <2>1 DEF IInv, RowsInv
  <2>3. Answer(s, "done", calls[s].id, row[calls[s].id]) /\ UNCHANGED <<table, console>>
    BY <1>1 DEF FindOne
  <2> HIDE DEF Answer
  <2>4. /\ calls' \in [Slots -> [op : {"none", "load", "save", "delete"},
                                 at : {"sent", "done", "failed"}, id : MaybeId,
                                 fields : Fields, from : {"list", "modal"}]]
        /\ \A t \in Slots : CallInv(t)'
    BY <1>0, <2>2, <2>3, OwnFields, CallAnswered
  <2> QED
    BY <1>0, <2>3, <2>4, RowsKept, FormKept DEF IInv, TypeOK, table, console
<1>2. CASE Update(s)
  <2>1. calls[s].op = "save" /\ calls[s].at = "sent" /\ calls[s].id \in Ids
    BY <1>0, <1>2 DEF Update, Reaches, TypeOK
  <2>2. Own(calls[s].fields, calls[s].id) /\ Tidy(calls[s].fields)
    BY <2>1 DEF IInv, CallInv
  <2>3. PICK at \in {"done", "failed"} : Answer(s, at, None, Nothing)
    BY <1>2 DEF Update, Served
  <2>4. /\ calls' \in [Slots -> [op : {"none", "load", "save", "delete"},
                                 at : {"sent", "done", "failed"}, id : MaybeId,
                                 fields : Fields, from : {"list", "modal"}]]
        /\ \A t \in Slots : CallInv(t)'
    BY <2>1, <2>3, OwnFields, CallAnswered
  <2>5. /\ row' = [row EXCEPT ![calls[s].id] = calls[s].fields]
        /\ byHand' = byHand \ {calls[s].id}
        /\ UNCHANGED <<stored, modal, active, form, pending>>
    BY <1>2 DEF Update, console
  <2>6. RowsInv'
    <3>1. \A i \in Ids : row'[i] = IF i = calls[s].id THEN calls[s].fields ELSE row[i]
      BY <1>0, <2>5 DEF TypeOK
    <3>2. \A i \in Ids : Own(row'[i], i) /\ (i \in stored' => i \in byHand' \/ Tidy(row'[i]))
      BY <2>2, <2>5, <3>1 DEF IInv, RowsInv
    <3> QED
      BY <3>2 DEF RowsInv, Own, Tidy
  <2>7. row' \in [Ids -> Rows]
    BY <1>0, <2>2, <2>5 DEF TypeOK, Own
  <2> QED
    BY <1>0, <2>4, <2>5, <2>6, <2>7, FormKept DEF IInv, TypeOK
<1>3. CASE Remove(s)
  <2>1. calls[s].op = "delete"
    BY <1>3 DEF Remove, Reaches
  <2>2. PICK at \in {"done", "failed"} : Answer(s, at, None, Nothing)
    BY <1>3 DEF Remove, Served
  <2>3. /\ calls' \in [Slots -> [op : {"none", "load", "save", "delete"},
                                 at : {"sent", "done", "failed"}, id : MaybeId,
                                 fields : Fields, from : {"list", "modal"}]]
        /\ \A t \in Slots : CallInv(t)'
    BY <2>1, <2>2, OwnFields, CallAnswered
  <2>4. /\ stored' = stored \ {calls[s].id} /\ byHand' = byHand \ {calls[s].id}
        /\ UNCHANGED <<row, modal, active, form, pending>>
    BY <1>3 DEF Remove, console
  <2>5. RowsInv'
    BY <2>4, RowsOfThoseLeft
  <2> QED
    BY <1>0, <2>3, <2>4, <2>5, FormKept DEF IInv, TypeOK
<1>4. CASE CallFails(s)
  <2>1. Answer(s, "failed", None, Nothing)
    BY <1>4 DEF CallFails
  <2>2. /\ calls' \in [Slots -> [op : {"none", "load", "save", "delete"},
                                 at : {"sent", "done", "failed"}, id : MaybeId,
                                 fields : Fields, from : {"list", "modal"}]]
        /\ \A t \in Slots : CallInv(t)'
    BY <2>1, OwnFields, CallAnswered
  <2> QED
    BY <1>0, <1>4, <2>2, RowsKept, FormKept DEF CallFails, IInv, TypeOK, table, console
<1> QED
  BY <1>1, <1>2, <1>3, <1>4 DEF Serves

\* A trip type set leaves the row its booking's, and tidy.
LEMMA TypeSetIsOwn ==
  ASSUME NEW r, NEW i, Own(r, i), NEW t \in TripTypes
  PROVE  Own(SetTripType(r, t), i) /\ Tidy(SetTripType(r, t))
<1>1. CASE t = "one-way"
  BY <1>1 DEF SetTripType, Own, Tidy, Rows, TripTypes
<1>2. CASE t # "one-way"
  BY <1>2 DEF SetTripType, Own, Tidy, Rows, TripTypes
<1> QED
  BY <1>1, <1>2

\* Other clients write to the rows only, and never the details.
LEMMA OthersKeep ==
  ASSUME IInv, NEW i \in Ids, Others(i)
  PROVE  IInv'
<1>0. TypeOK
  BY DEF IInv
<1>1. UNCHANGED <<modal, active, form, pending, calls>>
  BY DEF Others, OtherSetsType, OtherSetsDate, OtherRemoves, console
<1>2. row' \in [Ids -> Rows] /\ stored' \subseteq Ids /\ byHand' \subseteq Ids /\ RowsInv'
  <2>1. CASE \E t \in TripTypes : OtherSetsType(i, t)
    <3>1. PICK t \in TripTypes : OtherSetsType(i, t)
      BY <2>1
    <3>2. SetTripType(row[i], t) \in Rows /\ Own(SetTripType(row[i], t), i)
      BY TypeSetIsOwn DEF IInv, RowsInv, Own
    <3>3. Tidy(SetTripType(row[i], t))
      BY TypeSetIsOwn DEF IInv, RowsInv
    <3>4. /\ row' = [row EXCEPT ![i] = SetTripType(row[i], t)] /\ UNCHANGED stored
          /\ byHand' \subseteq byHand /\ byHand \ {i} \subseteq byHand'
      BY <3>1 DEF OtherSetsType
    <3>5. \A j \in Ids : row'[j] = IF j = i THEN SetTripType(row[i], t) ELSE row[j]
      BY <1>0, <3>4 DEF TypeOK
    <3>6. \A j \in Ids : Own(row'[j], j) /\ (j \in stored' => j \in byHand' \/ Tidy(row'[j]))
      BY <3>2, <3>3, <3>4, <3>5 DEF IInv, RowsInv
    <3> QED
      BY <1>0, <3>2, <3>4, <3>6 DEF TypeOK, RowsInv, Own, Tidy
  <2>2. CASE \E date \in {i, None} : OtherSetsDate(i, date)
    <3>1. PICK date \in {i, None} : OtherSetsDate(i, date)
      BY <2>2
    <3>2. SetReturnPickup(row[i], date) \in Rows /\ Own(SetReturnPickup(row[i], date), i)
      BY <1>0 DEF SetReturnPickup, IInv, RowsInv, Own, Rows
    <3>3. /\ row' = [row EXCEPT ![i] = SetReturnPickup(row[i], date)]
          /\ UNCHANGED stored
          /\ byHand' = IF date = None THEN byHand \ {i} ELSE byHand \union {i}
      BY <3>1 DEF OtherSetsDate
    <3>4. \A j \in Ids : row'[j] = IF j = i THEN SetReturnPickup(row[i], date) ELSE row[j]
      BY <1>0, <3>3 DEF TypeOK
    <3>5. i \in byHand' \/ Tidy(SetReturnPickup(row[i], date))
      BY <3>2, <3>3 DEF SetReturnPickup, Tidy, Rows, Own
    <3>6. \A j \in Ids : Own(row'[j], j) /\ (j \in stored' => j \in byHand' \/ Tidy(row'[j]))
      BY <3>2, <3>3, <3>4, <3>5 DEF IInv, RowsInv
    <3> QED
      BY <1>0, <3>2, <3>3, <3>6 DEF TypeOK, RowsInv, Own, Tidy
  <2>3. CASE OtherRemoves(i)
    BY <1>0, <2>3, RowsOfThoseLeft DEF OtherRemoves, TypeOK
  <2> QED
    BY <2>1, <2>2, <2>3 DEF Others
<1> QED
  BY <1>0, <1>1, <1>2, FormKept, CallsKept DEF IInv, TypeOK

-----------------------------------------------------------------------------
(* The console's steps *)

\* A fact of the state without its calls, which most of them leave to the lemmas above.
ConsoleTypes ==
  /\ modal \subseteq {"open", "body", "saving"}
  /\ active \in MaybeId
  /\ form \in [of : MaybeId, fields : Fields]
  /\ pending \in [id : MaybeId, from : {"list", "modal"}, at : {"asking", "deleting"}]

\* A step of the console leaves the table alone.
LEMMA ConsoleStep ==
  ASSUME IInv, UNCHANGED table, ConsoleTypes', FormInv',
         calls' \in [Slots -> [op : {"none", "load", "save", "delete"},
                               at : {"sent", "done", "failed"}, id : MaybeId,
                               fields : Fields, from : {"list", "modal"}]],
         \A t \in Slots : CallInv(t)'
  PROVE  IInv'
BY RowsKept DEF IInv, TypeOK, ConsoleTypes, table

LEMMA ArrivesKeeps ==
  ASSUME IInv, NEW s \in Slots, Arrives(s)
  PROVE  IInv'
<1>0. ConsoleTypes /\ calls[s].id \in MaybeId
  BY DEF IInv, TypeOK, ConsoleTypes
<1>1. calls' = [calls EXCEPT ![s] = NoCall] /\ UNCHANGED table
  BY DEF Arrives, BookingLoads, LoadFails, BookingSaved, SaveFails, BookingDeleted, DeleteFails,
     Returns
<1>2. /\ calls' \in [Slots -> [op : {"none", "load", "save", "delete"},
                               at : {"sent", "done", "failed"}, id : MaybeId,
                               fields : Fields, from : {"list", "modal"}]]
      /\ \A t \in Slots : CallInv(t)'
  BY <1>1, CallEnds
<1>3. CASE BookingLoads(s)
  <2>1. Own(calls[s].fields, calls[s].id)
    BY <1>3 DEF BookingLoads, Returns, IInv, CallInv
  <2>2. /\ active' = calls[s].id
        /\ form' = [of |-> calls[s].id, fields |-> calls[s].fields]
        /\ modal' = modal \union {"body"}
        /\ UNCHANGED pending
    BY <1>3 DEF BookingLoads, PopulateBookingModal
  <2>3. ConsoleTypes'
    BY <1>0, <2>1, <2>2, OwnFields DEF ConsoleTypes
  <2>4. form'.of = calls[s].id /\ form'.fields = calls[s].fields /\ calls[s].id # None
    BY <2>1, <2>2, NoneAssumption DEF Own
  <2>5. FormInv'
    BY <2>1, <2>2, <2>4 DEF FormInv, Own
  <2> QED
    BY <1>1, <1>2, <2>3, <2>5, ConsoleStep
<1>4. CASE LoadFails(s)
  BY <1>0, <1>1, <1>2, <1>4, FormKept, ConsoleStep DEF LoadFails, ConsoleTypes, console
<1>5. CASE BookingSaved(s)
  <2>1. modal' = modal \ {"open", "saving"} /\ active' = None /\ UNCHANGED <<form, pending>>
    BY <1>5 DEF BookingSaved
  <2>2. FormInv'
    BY <2>1 DEF IInv, FormInv, Own
  <2> QED
    BY <1>0, <1>1, <1>2, <2>1, <2>2, OwnFields, ConsoleStep DEF ConsoleTypes
<1>6. CASE SaveFails(s)
  <2>1. modal' = modal \ {"saving"} /\ UNCHANGED <<active, form, pending>>
    BY <1>6 DEF SaveFails
  <2>2. FormInv'
    BY <2>1 DEF IInv, FormInv, Own
  <2> QED
    BY <1>0, <1>1, <1>2, <2>1, <2>2, ConsoleStep DEF ConsoleTypes
<1>7. CASE BookingDeleted(s)
  <2>1. /\ pending' = NoPrompt /\ UNCHANGED form
        /\ \/ modal' = modal \ {"open"} /\ active' = None
           \/ UNCHANGED <<modal, active>>
    BY <1>7 DEF BookingDeleted
  <2>2. FormInv'
    BY <2>1 DEF IInv, FormInv, Own
  <2>3. ConsoleTypes'
    BY <1>0, <2>1, OwnFields DEF ConsoleTypes, NoPrompt
  <2> QED
    BY <1>1, <1>2, <2>2, <2>3, ConsoleStep
<1>8. CASE DeleteFails(s)
  <2>1. pending' = [pending EXCEPT !.at = "asking"] /\ UNCHANGED <<modal, active, form>>
    BY <1>8 DEF DeleteFails
  <2> QED
    BY <1>0, <1>1, <1>2, <2>1, FormKept, ConsoleStep DEF ConsoleTypes
<1> QED
  BY <1>3, <1>4, <1>5, <1>6, <1>7, <1>8 DEF Arrives

\* What the admin does that sends nothing.
LEMMA EditKeeps ==
  ASSUME IInv,
         \/ \E t \in TripTypes : EditTripType(t)
         \/ \E date \in {form.of, None} : EditReturnPickup(date)
  PROVE  IInv'
<1>0. ConsoleTypes /\ calls \in [Slots -> [op : {"none", "load", "save", "delete"},
                               at : {"sent", "done", "failed"}, id : MaybeId,
                               fields : Fields, from : {"list", "modal"}]]
  BY DEF IInv, TypeOK, ConsoleTypes
<1>1. AtForm /\ UNCHANGED <<table, modal, active, pending, calls>>
  BY DEF EditTripType, EditReturnPickup
<1>2. Own(form.fields, form.of) /\ form.of # None
  BY <1>1 DEF AtForm, IInv, FormInv
<1>3. PICK fields : form' = [form EXCEPT !.fields = fields] /\ Own(fields, form.of)
  <2>1. CASE \E t \in TripTypes : EditTripType(t)
    <3>1. PICK t \in TripTypes : form' = [form EXCEPT !.fields.tripType = t]
      BY <2>1 DEF EditTripType
    <3>2. Own([form.fields EXCEPT !.tripType = t], form.of)
      BY <1>2 DEF Own, Rows
    <3> QED
      BY <3>1, <3>2
  <2>2. CASE \E date \in {form.of, None} : EditReturnPickup(date)
    <3>1. PICK date \in {form.of, None} : form' = [form EXCEPT !.fields.returnPickupAt = date]
      BY <2>2 DEF EditReturnPickup
    <3>2. Own([form.fields EXCEPT !.returnPickupAt = date], form.of)
      BY <1>2 DEF Own, Rows
    <3> QED
      BY <3>1, <3>2
  <2> QED
    BY <2>1, <2>2
<1>4. form'.of = form.of /\ form'.fields = fields
  BY <1>0, <1>3 DEF ConsoleTypes
<1>5. FormInv'
  BY <1>1, <1>3, <1>4 DEF IInv, FormInv, Own
<1>6. ConsoleTypes'
  BY <1>0, <1>1, <1>3, OwnFields DEF ConsoleTypes
<1> QED
  BY <1>0, <1>1, <1>5, <1>6, CallsKept, ConsoleStep

LEMMA ClickKeeps ==
  ASSUME IInv,
         \/ CloseBookingModal \/ DeleteBookingFromModal \/ CloseDeleteConfirmModal
         \/ \E i \in Ids : PromptDeleteBooking(i)
  PROVE  IInv'
<1>0. ConsoleTypes /\ calls \in [Slots -> [op : {"none", "load", "save", "delete"},
                               at : {"sent", "done", "failed"}, id : MaybeId,
                               fields : Fields, from : {"list", "modal"}]]
  BY DEF IInv, TypeOK, ConsoleTypes
<1>1. CASE CloseBookingModal
  <2>1. /\ modal' = modal \ {"open"} /\ active' = None
        /\ UNCHANGED <<table, form, pending, calls>>
    BY <1>1 DEF CloseBookingModal
  <2>2. FormInv'
    BY <2>1 DEF IInv, FormInv, Own
  <2> QED
    BY <1>0, <2>1, <2>2, OwnFields, CallsKept, ConsoleStep DEF ConsoleTypes
<1>2. CASE DeleteBookingFromModal \/ CloseDeleteConfirmModal \/ \E i \in Ids : PromptDeleteBooking(i)
  <2>1. /\ pending' \in [id : MaybeId, from : {"list", "modal"}, at : {"asking", "deleting"}]
        /\ UNCHANGED <<table, modal, active, form, calls>>
    BY <1>0, <1>2 DEF ConsoleTypes, DeleteBookingFromModal, CloseDeleteConfirmModal, MaybeId,
       PromptDeleteBooking, NoPrompt, EditedId
  <2> QED
    BY <1>0, <2>1, FormKept, CallsKept, ConsoleStep DEF ConsoleTypes
<1> QED
  BY <1>1, <1>2

LEMMA SendKeeps ==
  ASSUME IInv, NEW s \in Slots,
         \/ \E i \in Ids : ViewBooking(i, s) \/ CreatedBookingOpens(i, s)
         \/ SaveBooking(s) \/ ExecuteDeleteBooking(s)
  PROVE  IInv'
<1>0. ConsoleTypes
  BY DEF IInv, TypeOK, ConsoleTypes
<1>1. ASSUME NEW i \in Ids, ViewBooking(i, s) \/ CreatedBookingOpens(i, s) PROVE IInv'
  <2>1. /\ active' = i /\ modal' = (modal \union {"open"}) \ {"body"}
        /\ calls' = [calls EXCEPT ![s] = [op |-> "load", at |-> "sent", id |-> i,
                                          fields |-> Nothing, from |-> "list"]]
        /\ UNCHANGED <<table, form, pending>>
    BY <1>1 DEF ViewBooking, CreatedBookingOpens, OpenBookingModal, Sends
  <2>2. /\ calls' \in [Slots -> [op : {"none", "load", "save", "delete"},
                                 at : {"sent", "done", "failed"}, id : MaybeId,
                                 fields : Fields, from : {"list", "modal"}]]
        /\ \A t \in Slots : CallInv(t)'
    BY <2>1, OwnFields, CallStep DEF MaybeId
  <2>3. FormInv'
    BY <2>1 DEF IInv, FormInv, Own
  <2>4. ConsoleTypes'
    BY <1>0, <2>1 DEF ConsoleTypes, MaybeId
  <2> QED
    BY <2>1, <2>2, <2>3, <2>4, ConsoleStep
<1>2. CASE SaveBooking(s)
  <2>1. /\ AtForm /\ modal' = modal \union {"saving"}
        /\ calls' = [calls EXCEPT ![s] = [op |-> "save", at |-> "sent", id |-> EditedId,
                                          fields |-> ReadBookingEditPayload, from |-> "modal"]]
        /\ UNCHANGED <<table, active, form, pending>>
    BY <1>2 DEF SaveBooking, Sends
  <2>2. EditedId = form.of /\ Own(form.fields, form.of)
    BY <2>1 DEF AtForm, IInv, FormInv, EditedId
  <2>3. Own(ReadBookingEditPayload, EditedId) /\ Tidy(ReadBookingEditPayload)
    <3>1. CASE form.fields.tripType = "return"
      BY <2>2, <3>1 DEF ReadBookingEditPayload, Tidy
    <3>2. CASE form.fields.tripType # "return"
      BY <2>2, <3>2 DEF ReadBookingEditPayload, Own, Tidy, Rows
    <3> QED
      BY <3>1, <3>2
  <2>4. /\ calls' \in [Slots -> [op : {"none", "load", "save", "delete"},
                                 at : {"sent", "done", "failed"}, id : MaybeId,
                                 fields : Fields, from : {"list", "modal"}]]
        /\ \A t \in Slots : CallInv(t)'
    <3> HIDE DEF EditedId, ReadBookingEditPayload
    <3> QED
      BY <2>1, <2>3, OwnFields, CallStep
  <2>5. FormInv'
    BY <2>1 DEF IInv, FormInv, Own
  <2>6. ConsoleTypes'
    BY <1>0, <2>1 DEF ConsoleTypes
  <2> QED
    BY <2>1, <2>4, <2>5, <2>6, ConsoleStep
<1>3. CASE ExecuteDeleteBooking(s)
  <2>1. /\ pending' = [pending EXCEPT !.at = "deleting"]
        /\ calls' = [calls EXCEPT ![s] = [op |-> "delete", at |-> "sent", id |-> pending.id,
                                          fields |-> Nothing, from |-> pending.from]]
        /\ UNCHANGED <<table, modal, active, form>>
    BY <1>3 DEF ExecuteDeleteBooking, Sends
  <2>2. pending.id \in MaybeId /\ pending.from \in {"list", "modal"}
    BY <1>0 DEF ConsoleTypes
  <2>3. /\ calls' \in [Slots -> [op : {"none", "load", "save", "delete"},
                                 at : {"sent", "done", "failed"}, id : MaybeId,
                                 fields : Fields, from : {"list", "modal"}]]
        /\ \A t \in Slots : CallInv(t)'
    BY <2>1, <2>2, OwnFields, CallStep
  <2> QED
    BY <1>0, <2>1, <2>3, FormKept, ConsoleStep DEF ConsoleTypes
<1> QED
  BY <1>1, <1>2, <1>3

LEMMA NextInv == ASSUME IInv, [Next]_vars PROVE IInv'
<1>1. CASE UNCHANGED vars
  <2>1. UNCHANGED <<table, stored, row, byHand, modal, active, form, pending, calls>>
    BY <1>1 DEF vars, table, console
  <2> QED
    BY <2>1, RowsKept, FormKept, CallsKept DEF IInv, TypeOK
<1>2. CASE Next
  BY <1>2, ServesKeeps, ArrivesKeeps, OthersKeep, EditKeeps, ClickKeeps, SendKeeps
     DEF Next, Admin
<1> QED
  BY <1>1, <1>2

THEOREM Invariant == Spec => []IInv
<1>1. Init => IInv
  BY InitInv
<1>2. IInv /\ [Next]_vars => IInv'
  BY NextInv
<1> QED
  BY <1>1, <1>2, PTL DEF Spec

-----------------------------------------------------------------------------
(* Theorems *)

\* The table, the modal, the form and the calls under way keep their types.
THEOREM TypeCorrect == Spec => []TypeOK
<1>1. IInv => TypeOK
  BY DEF IInv
<1> QED
  BY <1>1, Invariant, PTL

\* No save ever writes one booking's values to another, however many are under way.
THEOREM NothingMixed == Spec => []ValuesStayHome
<1>1. IInv => ValuesStayHome
  BY DEF IInv, RowsInv, Own, ValuesStayHome
<1> QED
  BY <1>1, Invariant, PTL

\* Save and Delete in the modal act on the booking it shows.
THEOREM ModalActsOnItsBooking == Spec => []ActsOnWhatIsShown
<1>1. IInv => ActsOnWhatIsShown
  BY DEF IInv, FormInv, Own, AtForm, ActsOnWhatIsShown
<1> QED
  BY <1>1, Invariant, PTL

\* A date on a one-way trip was given by another client.
THEOREM ReturnOnlyOnReturnTrips == Spec => []OneWayHasNoReturn
<1>1. IInv => OneWayHasNoReturn
  BY DEF IInv, RowsInv, Tidy, OneWayHasNoReturn, TypeOK
<1> QED
  BY <1>1, Invariant, PTL
=============================================================================
