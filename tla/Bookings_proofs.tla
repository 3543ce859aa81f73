--------------------------- MODULE Bookings_proofs ---------------------------
(***************************************************************************)
(* Creation, deletion and notification are sound for any number of         *)
(* requests, bookings, references and attempts.                            *)
(***************************************************************************)
EXTENDS Bookings, TLAPS

\* A create that may insert has a status, and by then a reference; one that has
\* inserted has a booking to announce.
CreateInv ==
  \A r \in Requests :
    /\ pc[r] \in {"allocating", "inserting"} => job[r].status \in Statuses
    /\ At(r, "inserting") => job[r].ref \in Refs
    /\ At(r, "inserted") => job[r].id \in inserted

Typed == TypeOK /\ CreateInv

\* A reference allotted to a create that waits to insert was free, and is taken now
\* only if somebody came in between.
AllottedInv ==
  \A r \in Requests :
    At(r, "inserting") /\ job[r].generated /\ Taken(job[r].ref) => job[r].beaten

Announced == events \union sending \union handled

\* A booking is announced by the one request that inserted it.
EmitInv ==
  \A r \in Requests : At(r, "inserted") =>
    /\ job[r].id \notin Announced
    /\ \A q \in Requests : At(q, "inserted") /\ job[q].id = job[r].id => q = r

\* An announced booking was written; its notice is in one place at a time, and a
\* message delivered is one of a listener that has returned.
NoticeInv ==
  /\ Announced \subseteq inserted
  /\ events \intersect sending = {} /\ events \intersect handled = {}
  /\ sending \intersect handled = {}
  /\ \A i \in Ids : delivered[i] <= 1 /\ (delivered[i] = 1 => i \in handled)

\* A booking whose deletion was answered is gone.
RemovalInv ==
  \A i \in Ids : removals[i] <= 1 /\ (removals[i] = 1 => i \in inserted \ stored)

IInv ==
  /\ Typed /\ RefsUnique /\ AllottedInv /\ ConflictExplained
  /\ EmitInv /\ NoticeInv /\ CreatedIsAnnounced
  /\ ResolvedStamped /\ RemovalInv

-----------------------------------------------------------------------------

LEMMA NothingTyped == Nothing \in Job
BY DEF Nothing, Job, Ops, Stamps

LEMMA JobTyped ==
  ASSUME NEW op \in Ops, NEW id \in Ids \union {None}, NEW ref \in Refs \union {None},
         NEW generated \in BOOLEAN, NEW status \in Statuses \union {Omitted},
         NEW stamp \in Stamps
  PROVE  /\ [Nothing EXCEPT !.op = op, !.id = id, !.status = status, !.resolvedAt = stamp] \in Job
         /\ [Nothing EXCEPT !.op = op, !.ref = ref, !.status = status] \in Job
         /\ [Nothing EXCEPT !.op = op, !.generated = generated, !.status = status] \in Job
         /\ [Nothing EXCEPT !.op = op, !.id = id] \in Job
<1>1. [Nothing EXCEPT !.op = op, !.id = id, !.status = status, !.resolvedAt = stamp] \in Job
  BY DEF Nothing, Job, Stamps
<1>2. [Nothing EXCEPT !.op = op, !.ref = ref, !.status = status] \in Job
  BY DEF Nothing, Job, Stamps
<1>3. [Nothing EXCEPT !.op = op, !.generated = generated, !.status = status] \in Job
  BY DEF Nothing, Job, Stamps
<1>4. [Nothing EXCEPT !.op = op, !.id = id] \in Job
  BY DEF Nothing, Job, Stamps
<1> QED  BY <1>1, <1>2, <1>3, <1>4

\* What is left of a request that has been answered.
Answered(r) == [Nothing EXCEPT !.id = job[r].id, !.beaten = job[r].beaten,
                               !.generated = job[r].generated]

LEMMA AnsweredTyped ==
  ASSUME TypeOK, NEW r \in Requests
  PROVE  /\ Answered(r) \in Job
         /\ Answered(r).id = job[r].id /\ Answered(r).generated = job[r].generated
         /\ Answered(r).beaten = job[r].beaten
<1>1. job[r] \in Job
  BY DEF TypeOK
<1>2. /\ job[r].id \in Ids \union {None} /\ job[r].ref \in Refs \union {None}
      /\ job[r].generated \in BOOLEAN /\ job[r].beaten \in BOOLEAN
  BY <1>1 DEF Job
<1>3. None \in Ops
  BY DEF Ops
<1> QED  BY <1>2, <1>3 DEF Answered, Nothing, Job, Stamps

\* The statuses and stamps an update leaves behind are those of a row.
LEMMA UpdatedTyped ==
  ASSUME TypeOK, NEW r \in Requests, job[r].id \in Ids
  PROVE  /\ Updated(r) \in Row
         /\ Updated(r).ref = row[job[r].id].ref
         /\ job[r].resolvedAt = Omitted /\ (row[job[r].id].status = "resolved"
                                              => row[job[r].id].resolvedAt)
              => (Updated(r).status = "resolved" => Updated(r).resolvedAt)
<1>1. job[r] \in Job /\ row[job[r].id] \in Row
  BY DEF TypeOK
<1>2. /\ job[r].status \in Statuses \union {Omitted}
      /\ job[r].resolvedAt \in Stamps
  BY <1>1 DEF Job
<1> QED  BY <1>1, <1>2 DEF Updated, Row, Statuses, Stamps, Omitted

LEMMA RowOfTyped ==
  ASSUME Typed, NEW r \in Requests, At(r, "inserting")
  PROVE  /\ RowOf(r) \in Row
         /\ RowOf(r).ref = job[r].ref
         /\ RowOf(r).status = "resolved" => RowOf(r).resolvedAt
<1>1. job[r] \in Job /\ job[r].status \in Statuses
  BY DEF Typed, TypeOK, CreateInv, At
<1> QED  BY <1>1 DEF RowOf, Row, Stamped, Job

LEMMA NowBeatenTyped ==
  ASSUME TypeOK, NEW r \in Requests
  PROVE  /\ NowBeaten(r) \in [Requests -> Job]
         /\ \A q \in Requests : /\ NowBeaten(r)[q].id = job[q].id
                                /\ NowBeaten(r)[q].ref = job[q].ref
                                /\ NowBeaten(r)[q].status = job[q].status
                                /\ NowBeaten(r)[q].generated = job[q].generated
                                /\ job[q].beaten => NowBeaten(r)[q].beaten
                                /\ ~At(q, "inserting") => NowBeaten(r)[q] = job[q]
                                /\ q # r /\ At(q, "inserting") /\ job[q].ref = job[r].ref
                                     => NowBeaten(r)[q].beaten
<1>1. \A q \in Requests : job[q] \in Job
  BY DEF TypeOK
<1>2. ASSUME NEW q \in Requests
      PROVE  /\ [job[q] EXCEPT !.beaten = TRUE] \in Job
             /\ [job[q] EXCEPT !.beaten = TRUE].id = job[q].id
             /\ [job[q] EXCEPT !.beaten = TRUE].ref = job[q].ref
             /\ [job[q] EXCEPT !.beaten = TRUE].status = job[q].status
             /\ [job[q] EXCEPT !.beaten = TRUE].generated = job[q].generated
             /\ [job[q] EXCEPT !.beaten = TRUE].beaten
  BY <1>1 DEF Job
<1> QED  BY <1>1, <1>2 DEF NowBeaten

-----------------------------------------------------------------------------

\* What the writes of the table do to it.
LEMMA InsertsTyped ==
  ASSUME Typed, NEW r \in Requests, At(r, "inserting"), NEW i \in Ids \ inserted, Inserts(r, i)
  PROVE  /\ inserted' \subseteq Ids /\ stored' \subseteq inserted' /\ byHand' \subseteq inserted'
         /\ row' \in [Ids -> Row]
BY RowOfTyped DEF Inserts, Typed, TypeOK

LEMMA WritesTyped ==
  ASSUME Typed, NEW r \in Requests, UpdatesRow(r) \/ DeletesRow(r)
  PROVE  /\ job[r].id \in stored /\ stored' \subseteq stored /\ inserted' = inserted
         /\ byHand' \subseteq inserted' /\ row' \in [Ids -> Row]
         /\ \A i \in stored' : row'[i].ref = row[i].ref
<1>t. /\ inserted \subseteq Ids /\ stored \subseteq inserted /\ byHand \subseteq inserted
      /\ row \in [Ids -> Row] /\ TypeOK
  BY DEF Typed, TypeOK
<1>n. NoRow \in Row
  BY DEF NoRow, Row, Statuses
<1>1. CASE UpdatesRow(r)
  <2>1. job[r].id \in stored /\ job[r].id \in Ids
    BY <1>t, <1>1 DEF UpdatesRow, Exists
  <2> QED  BY <1>t, <1>1, <2>1, UpdatedTyped DEF UpdatesRow
<1>2. CASE DeletesRow(r)
  BY <1>t, <1>n, <1>2 DEF DeletesRow, Deletable
<1> QED  BY <1>1, <1>2

\* A step that writes no row and touches no notice, of a request that goes where it
\* needs no status and has nothing to announce.
LEMMA TypeFrame ==
  ASSUME Typed, UNCHANGED <<table, notices, removals>>, NEW r \in Requests,
         NEW where \in {"idle"} \union Waits \union Answers, Goes(r, where),
         where # "inserted",
         NEW j \in Job, job' = [job EXCEPT ![r] = j],
         where \in {"allocating", "inserting"} => j.status \in Statuses,
         where = "inserting" => j.ref \in Refs
  PROVE  Typed'
BY DEF Typed, TypeOK, CreateInv, At, Goes, table, notices

LEMMA TypeStep == Typed /\ [Next]_vars => Typed'
<1> SUFFICES ASSUME Typed, [Next]_vars  PROVE Typed'
  OBVIOUS
<1>t. TypeOK /\ CreateInv
  BY DEF Typed
<1>n. Nothing \in Job
  BY NothingTyped
<1>j. \A r \in Requests : /\ job[r] \in Job /\ job[r].id \in Ids \union {None}
                          /\ job[r].ref \in Refs \union {None} /\ job[r].generated \in BOOLEAN
                          /\ job[r].beaten \in BOOLEAN /\ job[r].tries \in Nat
  BY <1>t DEF TypeOK, Job
<1>s. \A status \in Statuses \union {Omitted} : StatusOf(status) \in Statuses
  BY DEF StatusOf, Statuses, Omitted
<1>p. /\ "idle" \in {"idle"} \union Waits \union Answers
      /\ "allocating" \in {"idle"} \union Waits \union Answers
      /\ "inserting" \in {"idle"} \union Waits \union Answers
      /\ "inserted" \in {"idle"} \union Waits \union Answers
      /\ "finding" \in {"idle"} \union Waits \union Answers
      /\ "writing" \in {"idle"} \union Waits \union Answers
      /\ "notifying" \in {"idle"} \union Waits \union Answers
      /\ "created" \in {"idle"} \union Waits \union Answers
      /\ "conflict" \in {"idle"} \union Waits \union Answers
  BY DEF Waits, Answers
<1>o. None \in Ops /\ "create" \in Ops /\ "update" \in Ops /\ "remove" \in Ops /\ "resend" \in Ops
      /\ Omitted \in Stamps /\ Omitted \in Statuses \union {Omitted}
  BY DEF Ops, Stamps
\* A request that is over.
<1>e. ASSUME NEW r \in Requests, Ends(r), UNCHANGED <<table, notices, removals>>  PROVE Typed'
  BY <1>e, <1>n, <1>p, TypeFrame DEF Ends
<1>1. ASSUME NEW r \in Requests, NEW s \in Refs, NEW status \in Statuses \union {Omitted},
             CreateGiven(r, s, status)
      PROVE  Typed'
  <2> DEFINE j == [Nothing EXCEPT !.op = "create", !.ref = s, !.status = StatusOf(status)]
  <2>1. j \in Job /\ j.status \in Statuses /\ j.ref \in Refs
    BY <1>s, <1>n, <1>o, JobTyped DEF Nothing
  <2>2. job' = [job EXCEPT ![r] = j] /\ Goes(r, "inserting") /\ UNCHANGED <<table, notices, removals>>
    BY <1>1 DEF CreateGiven
  <2> HIDE DEF j
  <2> QED  BY <1>p, <2>1, <2>2, TypeFrame
<1>2. ASSUME NEW r \in Requests, NEW status \in Statuses \union {Omitted},
             CreateGenerated(r, status)
      PROVE  Typed'
  <2> DEFINE j == [Nothing EXCEPT !.op = "create", !.generated = TRUE, !.status = StatusOf(status)]
  <2>1. j \in Job /\ j.status \in Statuses
    BY <1>s, <1>n, <1>o, JobTyped DEF Nothing
  <2>2. job' = [job EXCEPT ![r] = j] /\ Goes(r, "allocating")
        /\ UNCHANGED <<table, notices, removals>>
    BY <1>2 DEF CreateGenerated
  <2> HIDE DEF j
  <2> QED  BY <1>p, <2>1, <2>2, TypeFrame
<1>3. ASSUME NEW r \in Requests, NEW i \in Ids, NEW op \in Ops,
             NEW status \in Statuses \union {Omitted}, NEW stamp \in Stamps,
             Asks(r, op, i, status, stamp)
      PROVE  Typed'
  <2> DEFINE j == [Nothing EXCEPT !.op = op, !.id = i, !.status = status, !.resolvedAt = stamp]
  <2>1. j \in Job
    BY <1>o, JobTyped
  <2>2. job' = [job EXCEPT ![r] = j] /\ Goes(r, "finding") /\ UNCHANGED <<table, notices, removals>>
    BY <1>3 DEF Asks
  <2> HIDE DEF j
  <2> QED  BY <1>p, <2>1, <2>2, TypeFrame
<1>4. ASSUME NEW r \in Requests, NEW s \in Refs, AllocateRef(r, s)  PROVE Typed'
  <2> DEFINE j == [job[r] EXCEPT !.ref = s, !.tries = 0]
  <2>1. j \in Job /\ j.status = job[r].status /\ j.ref \in Refs
    BY <1>j DEF Job
  <2>2. job[r].status \in Statuses
    BY <1>t, <1>4 DEF AllocateRef, CreateInv, At
  <2>3. job' = [job EXCEPT ![r] = j] /\ Goes(r, "inserting") /\ UNCHANGED <<table, notices, removals>>
    BY <1>4, <1>t DEF AllocateRef, TypeOK
  <2> HIDE DEF j
  <2> QED  BY <1>p, <2>1, <2>2, <2>3, TypeFrame
<1>5. ASSUME NEW r \in Requests, NEW s \in Refs, AllocateTaken(r, s)  PROVE Typed'
  <2>1. CASE TriesAfter(r) < Tries
    <3> DEFINE j == [job[r] EXCEPT !.tries = TriesAfter(r)]
    <3>1. j \in Job /\ j.status = job[r].status
      BY <1>j DEF Job, TriesAfter
    <3>2. job[r].status \in Statuses /\ pc[r] = "allocating"
      BY <1>t, <1>5 DEF AllocateTaken, CreateInv, At
    <3>3. job' = [job EXCEPT ![r] = j] /\ pc' = pc /\ UNCHANGED <<table, notices, removals>>
      BY <1>5, <1>t, <2>1 DEF AllocateTaken, TypeOK
    <3> HIDE DEF j
    <3>4. Goes(r, "allocating")
      BY <1>t, <3>2, <3>3 DEF Goes, TypeOK
    <3> QED  BY <1>p, <3>1, <3>2, <3>3, <3>4, TypeFrame
  <2>2. CASE ~(TriesAfter(r) < Tries)
    BY <1>e, <1>5, <2>2 DEF AllocateTaken
  <2> QED  BY <2>1, <2>2
<1>6. ASSUME NEW r \in Requests, InsertConflicts(r)  PROVE Typed'
  <2> DEFINE j == Answered(r)
  <2>1. j \in Job
    BY <1>t, AnsweredTyped
  <2>2. job' = [job EXCEPT ![r] = j] /\ Goes(r, "conflict") /\ UNCHANGED <<table, notices, removals>>
    BY <1>6 DEF InsertConflicts, Answer, Answered
  <2> HIDE DEF j
  <2> QED  BY <1>p, <2>1, <2>2, TypeFrame
<1>7. ASSUME NEW r \in Requests, NEW i \in Ids, InsertCommits(r, i)  PROVE Typed'
  <2> DEFINE j == [Nothing EXCEPT !.op = "create", !.id = i]
  <2>1. j \in Job /\ j.id = i
    BY <1>j, <1>o, JobTyped DEF Nothing
  <2>2. /\ At(r, "inserting") /\ i \in Ids \ inserted /\ Inserts(r, i)
        /\ job' = [NowBeaten(r) EXCEPT ![r] = j] /\ Goes(r, "inserted")
        /\ UNCHANGED <<notices, removals>>
    BY <1>7 DEF InsertCommits
  <2> HIDE DEF j
  <2>3. inserted' = inserted \union {i}
    BY <2>2 DEF Inserts
  <2>4. TypeOK'
    BY <1>t, <1>p, <2>1, <2>2, InsertsTyped, NowBeatenTyped DEF TypeOK, Goes, notices
  <2>5. CreateInv'
    BY <1>t, <2>1, <2>2, <2>3, NowBeatenTyped DEF CreateInv, TypeOK, Goes, At
  <2> QED  BY <2>4, <2>5 DEF Typed
<1>8. ASSUME NEW r \in Requests, NEW i \in Ids, InsertUnconfirmed(r, i)  PROVE Typed'
  <2>2. /\ At(r, "inserting") /\ i \in Ids \ inserted /\ Inserts(r, i)
        /\ job' = [NowBeaten(r) EXCEPT ![r] = Nothing] /\ Goes(r, "idle")
        /\ UNCHANGED <<notices, removals>>
    BY <1>8 DEF InsertUnconfirmed
  <2>3. inserted' = inserted \union {i}
    BY <2>2 DEF Inserts
  <2>4. TypeOK'
    BY <1>t, <1>p, <1>n, <2>2, InsertsTyped, NowBeatenTyped DEF TypeOK, Goes, notices
  <2>5. CreateInv'
    BY <1>t, <2>2, <2>3, NowBeatenTyped DEF CreateInv, TypeOK, Goes, At
  <2> QED  BY <2>4, <2>5 DEF Typed
<1>9. ASSUME NEW r \in Requests, EmitAndAnswer(r)  PROVE Typed'
  <2> DEFINE j == Answered(r)
  <2>1. j \in Job
    BY <1>t, AnsweredTyped
  <2>2. /\ job' = [job EXCEPT ![r] = j] /\ Goes(r, "created")
        /\ events' = events \union {job[r].id}
        /\ UNCHANGED <<table, removals, sending, handled, delivered, enabled>>
    BY <1>9 DEF EmitAndAnswer, Answer, Answered, WithEvent
  <2>3. job[r].id \in Ids
    BY <1>t, <1>9 DEF EmitAndAnswer, CreateInv, TypeOK
  <2> HIDE DEF j
  <2> QED  BY <1>t, <1>p, <2>1, <2>2, <2>3 DEF Typed, TypeOK, CreateInv, Goes, At, table
<1>10. ASSUME NEW r \in Requests,
              FindsNone(r) \/ WriteFindsNone(r) \/ QueryFails(r) \/ Collected(r) \/ ResendReturns(r)
       PROVE  Typed'
  BY <1>e, <1>10 DEF FindsNone, WriteFindsNone, QueryFails, Collected, ResendReturns
<1>11. ASSUME NEW r \in Requests, FindsRow(r) \/ ResendFindsRow(r)  PROVE Typed'
  <2>1. CASE ResendFindsRow(r) /\ ~enabled
    BY <1>e, <2>1 DEF ResendFindsRow
  <2>2. CASE FindsRow(r) \/ (ResendFindsRow(r) /\ enabled)
    <3>1. /\ UNCHANGED <<table, notices, removals>> /\ job' = [job EXCEPT ![r] = job[r]]
          /\ Goes(r, "writing") \/ Goes(r, "notifying")
      BY <1>t, <2>2 DEF FindsRow, ResendFindsRow, TypeOK
    <3> QED  BY <1>p, <1>j, <3>1, TypeFrame
  <2> QED  BY <1>11, <2>1, <2>2
<1>12. ASSUME NEW r \in Requests, UpdateCommits(r) \/ DeleteCommits(r) \/ WriteUnconfirmed(r)
       PROVE  Typed'
  <2>1. /\ UpdatesRow(r) \/ DeletesRow(r)
        /\ Goes(r, "idle") /\ job' = [job EXCEPT ![r] = Nothing] /\ UNCHANGED notices
        /\ removals' \in [Ids -> Nat]
    BY <1>t, <1>12 DEF UpdateCommits, DeleteCommits, WriteUnconfirmed, Ends, TypeOK
  <2>2. stored' \subseteq inserted'
    BY <1>t, <2>1, WritesTyped DEF TypeOK
  <2>3. TypeOK'
    BY <1>t, <1>n, <1>p, <2>1, <2>2, WritesTyped DEF TypeOK, Goes, notices
  <2>4. CreateInv'
    BY <1>t, <2>1, WritesTyped DEF CreateInv, TypeOK, Goes, At
  <2> QED  BY <2>3, <2>4 DEF Typed
<1>13. ASSUME NEW i \in Ids, ListenerStep(i)  PROVE Typed'
  BY <1>t, <1>13 DEF ListenerStep, Dispatch, NoticeSent, NoticeFails, AfterFailure, NoticeReturns,
                     Typed, TypeOK, CreateInv, At, table
<1>14. CASE Crash
  BY <1>t, <1>n, <1>p, <1>14, ConfiguredBoolean DEF Crash, AfterCrash, Typed, TypeOK, CreateInv, At, table
<1>15. CASE UNCHANGED vars
  BY <1>t, <1>15 DEF vars, table, notices, Typed, TypeOK, CreateInv, At
<1>16. ASSUME NEW r \in Requests, Arrives(r)  PROVE Typed'
  BY <1>1, <1>2, <1>3, <1>o, <1>16 DEF Arrives, AskUpdate, AskRemove, AskResend
<1>17. ASSUME NEW r \in Requests, RequestStep(r)  PROVE Typed'
  BY <1>4, <1>5, <1>6, <1>7, <1>8, <1>9, <1>10, <1>11, <1>12, <1>17 DEF RequestStep
<1> QED  BY <1>10, <1>13, <1>14, <1>15, <1>16, <1>17 DEF Next

-----------------------------------------------------------------------------
(* References *)

RefInv == RefsUnique /\ AllottedInv /\ ConflictExplained

\* No reference is taken that was not, and nobody comes to hold a generated one.
LEMMA RefFrame ==
  ASSUME RefInv, stored' \subseteq stored, \A i \in stored' : row'[i].ref = row[i].ref,
         \A q \in Requests : /\ pc'[q] = "inserting" /\ job'[q].generated
                                  => pc[q] = "inserting" /\ job'[q] = job[q]
                             /\ pc'[q] = "conflict" /\ job'[q].generated
                                  => pc[q] = "conflict" /\ job'[q] = job[q]
  PROVE  RefInv'
<1>1. RefsUnique'
  BY DEF RefInv, RefsUnique
<1>2. AllottedInv'
  <2>1. ASSUME NEW q \in Requests, At(q, "inserting")', job'[q].generated, Taken(job[q].ref)'
        PROVE  job'[q].beaten
    <3>1. At(q, "inserting") /\ job'[q] = job[q]
      BY <2>1 DEF At
    <3>2. PICK i \in stored' : row'[i].ref = job'[q].ref
      BY <2>1 DEF Taken
    <3>3. Taken(job[q].ref)
      BY <3>1, <3>2 DEF Taken
    <3> QED  BY <2>1, <3>1, <3>3 DEF RefInv, AllottedInv
  <2> QED  BY <2>1 DEF AllottedInv
<1>3. ConflictExplained'
  BY DEF RefInv, ConflictExplained, At
<1> QED  BY <1>1, <1>2, <1>3 DEF RefInv

\* A row written under a reference nobody has: those who wait with it are beaten.
LEMMA RefInsert ==
  ASSUME Typed, RefInv, NEW r \in Requests, NEW i \in Ids, NEW j \in Job,
         At(r, "inserting"), ~UniqueViolated(r), i \in Ids \ inserted, Inserts(r, i),
         job' = [NowBeaten(r) EXCEPT ![r] = j],
         NEW where \in {"inserted", "idle"}, Goes(r, where)
  PROVE  RefInv'
<1>t. /\ TypeOK /\ stored \subseteq inserted /\ inserted \subseteq Ids
      /\ row \in [Ids -> Row] /\ pc \in [Requests -> {"idle"} \union Waits \union Answers]
  BY DEF Typed, TypeOK
<1>1. /\ stored' = stored \union {i} /\ i \notin stored
      /\ row'[i].ref = job[r].ref
      /\ \A k \in stored : row'[k].ref = row[k].ref
  BY <1>t, RowOfTyped DEF Inserts
<1>2. \A k \in stored : row[k].ref # job[r].ref
  BY DEF UniqueViolated, Taken
<1>3. RefsUnique'
  BY <1>1, <1>2 DEF RefInv, RefsUnique
<1>4. \A q \in Requests : q # r => pc'[q] = pc[q] /\ job'[q] = NowBeaten(r)[q]
  BY <1>t, NowBeatenTyped DEF Goes
<1>5. pc'[r] = where
  BY <1>t DEF Goes
<1>6. AllottedInv'
  <2>1. ASSUME NEW q \in Requests, At(q, "inserting")', job'[q].generated, Taken(job[q].ref)'
        PROVE  job'[q].beaten
    <3>1. q # r /\ At(q, "inserting") /\ job'[q] = NowBeaten(r)[q]
      BY <1>4, <1>5, <2>1 DEF At
    <3>2. job'[q].ref = job[q].ref /\ job[q].generated
      BY <1>t, <2>1, <3>1, NowBeatenTyped
    <3>3. PICK k \in stored' : row'[k].ref = job'[q].ref
      BY <2>1 DEF Taken
    <3>4. CASE k = i
      BY <1>1, <1>t, <3>1, <3>2, <3>3, <3>4, NowBeatenTyped
    <3>5. CASE k \in stored
      <4>1. Taken(job[q].ref)
        BY <1>1, <3>2, <3>3, <3>5 DEF Taken
      <4>2. job[q].beaten
        BY <3>1, <3>2, <4>1 DEF RefInv, AllottedInv
      <4> QED  BY <1>t, <3>1, <4>2, NowBeatenTyped
    <3> QED  BY <1>1, <3>3, <3>4, <3>5
  <2> QED  BY <2>1 DEF AllottedInv
<1>7. ConflictExplained'
  <2>1. ASSUME NEW q \in Requests, At(q, "conflict")', job'[q].generated  PROVE job'[q].beaten
    <3>1. q # r /\ At(q, "conflict") /\ job'[q] = NowBeaten(r)[q]
      BY <1>4, <1>5, <2>1 DEF At
    <3>2. job'[q] = job[q]
      BY <1>t, <3>1, NowBeatenTyped DEF At
    <3> QED  BY <2>1, <3>1, <3>2 DEF RefInv, ConflictExplained
  <2> QED  BY <2>1 DEF ConflictExplained
<1> QED  BY <1>3, <1>6, <1>7 DEF RefInv

LEMMA RefStep == Typed /\ RefInv /\ [Next]_vars => RefInv'
<1> SUFFICES ASSUME Typed, RefInv, [Next]_vars  PROVE RefInv'
  OBVIOUS
<1>t. /\ TypeOK /\ pc \in [Requests -> {"idle"} \union Waits \union Answers]
      /\ job \in [Requests -> Job]
  BY DEF Typed, TypeOK
<1>n. Nothing \in Job /\ ~Nothing.generated
  BY NothingTyped DEF Nothing
\* Steps that leave the table alone, of a request that goes where it holds no
\* generated reference.
<1>f. ASSUME NEW r \in Requests, NEW where, Goes(r, where), UNCHANGED table,
             \A q \in Requests : q # r => job'[q] = job[q],
             where \in {"inserting", "conflict"} => ~job'[r].generated
      PROVE  RefInv'
  <2>1. \A q \in Requests : q # r => pc'[q] = pc[q]
    BY <1>t, <1>f DEF Goes
  <2>2. pc'[r] = where
    BY <1>t, <1>f DEF Goes
  <2>3. UNCHANGED <<stored, row>>
    BY <1>f DEF table
  <2> QED  BY <1>f, <2>1, <2>2, <2>3, RefFrame
<1>e. ASSUME NEW r \in Requests, Ends(r), UNCHANGED table  PROVE RefInv'
  BY <1>t, <1>e, <1>f DEF Ends
<1>1. ASSUME NEW r \in Requests, Arrives(r)  PROVE RefInv'
  <2>1. /\ UNCHANGED table
        /\ \A q \in Requests : q # r => job'[q] = job[q]
        /\ \/ Goes(r, "inserting") /\ ~job'[r].generated
           \/ Goes(r, "allocating") \/ Goes(r, "finding")
    BY <1>t, <1>n, <1>1
       DEF Arrives, CreateGiven, CreateGenerated, AskUpdate, AskRemove, AskResend, Asks, Nothing
  <2> QED  BY <1>f, <2>1
<1>2. ASSUME NEW r \in Requests, NEW s \in Refs, AllocateRef(r, s)  PROVE RefInv'
  <2>1. /\ pc'[r] = "inserting" /\ job'[r].ref = s
        /\ \A q \in Requests : q # r => pc'[q] = pc[q] /\ job'[q] = job[q]
        /\ UNCHANGED <<stored, row>> /\ ~Taken(s)
    BY <1>t, <1>2 DEF AllocateRef, Goes, Free, table, Job
  <2>2. RefsUnique' /\ ConflictExplained'
    BY <2>1 DEF RefInv, RefsUnique, ConflictExplained, At
  <2>3. ASSUME NEW q \in Requests, At(q, "inserting")', job'[q].generated, Taken(job[q].ref)'
        PROVE  job'[q].beaten
    <3>1. Taken(job'[q].ref)
      BY <2>1, <2>3 DEF Taken
    <3>2. q # r
      BY <2>1, <3>1
    <3> QED  BY <2>1, <2>3, <3>1, <3>2 DEF RefInv, AllottedInv, At
  <2> QED  BY <2>2, <2>3 DEF RefInv, AllottedInv
<1>3. ASSUME NEW r \in Requests, NEW s \in Refs, AllocateTaken(r, s)  PROVE RefInv'
  <2>1. CASE TriesAfter(r) < Tries
    <3>1. /\ pc' = pc /\ pc[r] = "allocating" /\ UNCHANGED <<stored, row>>
          /\ \A q \in Requests : q # r => job'[q] = job[q]
      BY <1>t, <1>3, <2>1 DEF AllocateTaken, At, table
    <3> QED  BY <3>1, RefFrame
  <2>2. CASE ~(TriesAfter(r) < Tries)
    BY <1>e, <1>3, <2>2 DEF AllocateTaken
  <2> QED  BY <2>1, <2>2
<1>4. ASSUME NEW r \in Requests, InsertConflicts(r)  PROVE RefInv'
  <2>1. /\ pc'[r] = "conflict" /\ pc[r] = "inserting" /\ Taken(job[r].ref)
        /\ \A q \in Requests : q # r => pc'[q] = pc[q] /\ job'[q] = job[q]
        /\ job'[r] = Answered(r)
        /\ UNCHANGED <<stored, row>>
    BY <1>t, <1>4 DEF InsertConflicts, Answer, Answered, Goes, At, UniqueViolated, table
  <2>2. job'[r].generated => job'[r].beaten
    BY <1>t, <2>1, AnsweredTyped DEF RefInv, AllottedInv, At
  <2>3. RefsUnique' /\ ConflictExplained'
    BY <2>1, <2>2 DEF RefInv, RefsUnique, ConflictExplained, At
  <2>4. AllottedInv'
    BY <2>1 DEF RefInv, AllottedInv, Taken, At
  <2> QED  BY <2>3, <2>4 DEF RefInv
<1>5. ASSUME NEW r \in Requests, NEW i \in Ids, InsertCommits(r, i) \/ InsertUnconfirmed(r, i)
      PROVE  RefInv'
  <2>1. CASE InsertCommits(r, i)
    <3>1. [Nothing EXCEPT !.op = "create", !.id = i] \in Job
      BY DEF Nothing, Job, Ops, Stamps
    <3> QED  BY <2>1, <3>1, RefInsert DEF InsertCommits
  <2>2. CASE InsertUnconfirmed(r, i)
    BY <1>n, <2>2, RefInsert DEF InsertUnconfirmed
  <2> QED  BY <1>5, <2>1, <2>2
<1>6. ASSUME NEW r \in Requests, EmitAndAnswer(r)  PROVE RefInv'
  BY <1>t, <1>6, <1>f DEF EmitAndAnswer, Answer
<1>7. ASSUME NEW r \in Requests,
             FindsNone(r) \/ WriteFindsNone(r) \/ QueryFails(r) \/ Collected(r) \/ ResendReturns(r)
      PROVE  RefInv'
  BY <1>e, <1>7 DEF FindsNone, WriteFindsNone, QueryFails, Collected, ResendReturns
<1>8. ASSUME NEW r \in Requests, FindsRow(r) \/ ResendFindsRow(r)  PROVE RefInv'
  BY <1>e, <1>8, <1>f DEF FindsRow, ResendFindsRow
<1>9. ASSUME NEW r \in Requests, UpdateCommits(r) \/ DeleteCommits(r) \/ WriteUnconfirmed(r)
      PROVE  RefInv'
  <2>1. /\ UpdatesRow(r) \/ DeletesRow(r)
        /\ \A q \in Requests : q # r => pc'[q] = pc[q] /\ job'[q] = job[q]
        /\ pc'[r] = "idle"
    BY <1>t, <1>9 DEF UpdateCommits, DeleteCommits, WriteUnconfirmed, Ends, Goes
  <2>2. stored' \subseteq stored /\ \A i \in stored' : row'[i].ref = row[i].ref
    BY <2>1, WritesTyped
  <2> QED  BY <2>1, <2>2, RefFrame
<1>10. ASSUME NEW i \in Ids, ListenerStep(i)  PROVE RefInv'
  <2>1. UNCHANGED <<stored, row, pc, job>>
    BY <1>10 DEF ListenerStep, Dispatch, NoticeSent, NoticeFails, NoticeReturns, table
  <2> QED  BY <2>1, RefFrame
<1>11. CASE Crash \/ UNCHANGED vars
  <2>1. /\ UNCHANGED <<stored, row>>
        /\ UNCHANGED <<pc, job>> \/ \A q \in Requests : pc'[q] = "idle"
    BY <1>11 DEF Crash, AfterCrash, vars, table
  <2> QED  BY <2>1, RefFrame
<1>12. ASSUME NEW r \in Requests, RequestStep(r)  PROVE RefInv'
  BY <1>2, <1>3, <1>4, <1>5, <1>6, <1>7, <1>8, <1>9, <1>12 DEF RequestStep
<1> QED  BY <1>1, <1>7, <1>10, <1>11, <1>12 DEF Next

-----------------------------------------------------------------------------
(* Notices *)

NoticesInv == EmitInv /\ NoticeInv /\ CreatedIsAnnounced

\* The notices stay as they are, and nobody comes to hold a booking to announce or
\* one announced.
LEMMA NoticesFrame ==
  ASSUME NoticesInv, UNCHANGED <<events, sending, handled, delivered>>,
         inserted \subseteq inserted',
         \A q \in Requests : pc'[q] \in {"inserted", "created"}
                               => pc'[q] = pc[q] /\ job'[q] = job[q]
  PROVE  NoticesInv'
<1>1. EmitInv'
  BY DEF NoticesInv, EmitInv, Announced, At
<1>2. NoticeInv'
  BY DEF NoticesInv, NoticeInv, Announced
<1>3. CreatedIsAnnounced'
  BY DEF NoticesInv, CreatedIsAnnounced, At
<1> QED  BY <1>1, <1>2, <1>3 DEF NoticesInv

LEMMA NoticesStep == Typed /\ NoticesInv /\ [Next]_vars => NoticesInv'
<1> SUFFICES ASSUME Typed, NoticesInv, [Next]_vars  PROVE NoticesInv'
  OBVIOUS
<1>t. /\ TypeOK /\ CreateInv /\ pc \in [Requests -> {"idle"} \union Waits \union Answers]
      /\ job \in [Requests -> Job] /\ delivered \in [Ids -> Nat]
      /\ events \subseteq Ids /\ sending \subseteq Ids /\ handled \subseteq Ids
  BY DEF Typed, TypeOK
\* Steps of one request that touch no notice and do not insert.
<1>f. ASSUME NEW r \in Requests, NEW where, Goes(r, where), where \notin {"inserted", "created"},
             UNCHANGED notices, inserted \subseteq inserted',
             \A q \in Requests : q # r /\ pc[q] # "inserting" => job'[q] = job[q]
      PROVE  NoticesInv'
  <2>1. \A q \in Requests : q # r => pc'[q] = pc[q]
    BY <1>t, <1>f DEF Goes
  <2>2. pc'[r] = where
    BY <1>t, <1>f DEF Goes
  <2>3. UNCHANGED <<events, sending, handled, delivered>>
    BY <1>f DEF notices
  <2> QED  BY <1>f, <2>1, <2>2, <2>3, NoticesFrame
<1>e. ASSUME NEW r \in Requests, Ends(r), UNCHANGED notices, inserted \subseteq inserted'
      PROVE  NoticesInv'
  BY <1>t, <1>e, <1>f DEF Ends
<1>1. ASSUME NEW r \in Requests, Arrives(r)  PROVE NoticesInv'
  <2>1. /\ UNCHANGED notices /\ inserted \subseteq inserted'
        /\ \A q \in Requests : q # r => job'[q] = job[q]
        /\ Goes(r, "inserting") \/ Goes(r, "allocating") \/ Goes(r, "finding")
    BY <1>t, <1>1
       DEF Arrives, CreateGiven, CreateGenerated, AskUpdate, AskRemove, AskResend, Asks, table
  <2> QED  BY <1>f, <2>1
<1>2. ASSUME NEW r \in Requests, NEW s \in Refs, AllocateRef(r, s)  PROVE NoticesInv'
  BY <1>t, <1>2, <1>f DEF AllocateRef, table
<1>3. ASSUME NEW r \in Requests, NEW s \in Refs, AllocateTaken(r, s)  PROVE NoticesInv'
  <2>1. CASE TriesAfter(r) < Tries
    <3>1. /\ pc' = pc /\ pc[r] = "allocating" /\ UNCHANGED <<inserted, notices>>
          /\ \A q \in Requests : q # r => job'[q] = job[q]
      BY <1>t, <1>3, <2>1 DEF AllocateTaken, At, table
    <3> QED  BY <3>1, NoticesFrame DEF notices
  <2>2. CASE ~(TriesAfter(r) < Tries)
    BY <1>e, <1>3, <2>2 DEF AllocateTaken, table
  <2> QED  BY <2>1, <2>2
<1>4. ASSUME NEW r \in Requests, InsertConflicts(r)  PROVE NoticesInv'
  BY <1>t, <1>4, <1>f DEF InsertConflicts, Answer, table
<1>5. ASSUME NEW r \in Requests, NEW i \in Ids, InsertCommits(r, i)  PROVE NoticesInv'
  <2>1. /\ i \notin inserted /\ inserted' = inserted \union {i}
        /\ UNCHANGED <<events, sending, handled, delivered>>
        /\ pc'[r] = "inserted" /\ pc[r] = "inserting" /\ job'[r].id = i
        /\ \A q \in Requests : q # r => pc'[q] = pc[q] /\ job'[q] = NowBeaten(r)[q]
    BY <1>t, <1>5, NowBeatenTyped DEF InsertCommits, Inserts, Goes, At, notices, Nothing
  <2>2. \A q \in Requests : q # r /\ pc'[q] \in {"inserted", "created"}
                              => pc[q] = pc'[q] /\ job'[q] = job[q]
    BY <1>t, <2>1, NowBeatenTyped DEF At
  <2>3. i \notin Announced
    BY <2>1 DEF NoticesInv, NoticeInv
  <2>4. Announced' = Announced
    BY <2>1 DEF Announced
  <2>5. EmitInv'
    <3>1. ASSUME NEW q \in Requests, pc'[q] = "inserted"
          PROVE  job'[q].id \notin Announced
      BY <2>1, <2>2, <2>3, <3>1 DEF NoticesInv, EmitInv, At
    <3>2. ASSUME NEW q \in Requests, pc'[q] = "inserted", q # r  PROVE job'[q].id # i
      BY <1>t, <2>1, <2>2, <3>2 DEF CreateInv, At
    <3>3. ASSUME NEW p \in Requests, NEW q \in Requests,
                 pc'[p] = "inserted", pc'[q] = "inserted", job'[q].id = job'[p].id
          PROVE  q = p
      BY <2>1, <2>2, <3>2, <3>3 DEF NoticesInv, EmitInv, At
    <3> QED  BY <2>4, <3>1, <3>3 DEF EmitInv, At
  <2>6. NoticeInv'
    BY <2>1, <2>4 DEF NoticesInv, NoticeInv
  <2>7. CreatedIsAnnounced'
    BY <2>1, <2>2 DEF NoticesInv, CreatedIsAnnounced, At
  <2> QED  BY <2>5, <2>6, <2>7 DEF NoticesInv
<1>6. ASSUME NEW r \in Requests, NEW i \in Ids, InsertUnconfirmed(r, i)  PROVE NoticesInv'
  <2>1. \A q \in Requests : q # r /\ pc[q] # "inserting" => job'[q] = job[q]
    BY <1>t, <1>6, NowBeatenTyped DEF InsertUnconfirmed, At
  <2> QED  BY <1>6, <2>1, <1>f DEF InsertUnconfirmed, Inserts
<1>7. ASSUME NEW r \in Requests, EmitAndAnswer(r)  PROVE NoticesInv'
  <2> DEFINE i == job[r].id
  <2>1. /\ pc[r] = "inserted" /\ pc'[r] = "created" /\ job'[r].id = i
        /\ \A q \in Requests : q # r => pc'[q] = pc[q] /\ job'[q] = job[q]
        /\ events' = events \union {i} /\ UNCHANGED <<inserted, sending, handled, delivered>>
    BY <1>t, <1>7, AnsweredTyped
       DEF EmitAndAnswer, Answer, Answered, Goes, At, WithEvent, table
  <2>2. /\ i \in inserted /\ i \notin Announced
        /\ \A q \in Requests : pc[q] = "inserted" /\ job[q].id = i => q = r
    BY <1>t, <2>1 DEF CreateInv, NoticesInv, EmitInv, At
  <2> HIDE DEF i
  <2>3. Announced' = Announced \union {i}
    BY <2>1 DEF Announced
  <2>4. EmitInv'
    <3>1. ASSUME NEW q \in Requests, pc'[q] = "inserted"
          PROVE  job'[q].id \notin Announced' /\ pc[q] = "inserted" /\ job'[q] = job[q]
      BY <2>1, <2>2, <2>3, <3>1 DEF NoticesInv, EmitInv, At
    <3> QED  BY <3>1 DEF NoticesInv, EmitInv, At
  <2>5. NoticeInv'
    BY <2>1, <2>2, <2>3 DEF NoticesInv, NoticeInv, Announced
  <2>6. CreatedIsAnnounced'
    BY <2>1, <2>2 DEF NoticesInv, CreatedIsAnnounced, At
  <2> QED  BY <2>4, <2>5, <2>6 DEF NoticesInv
<1>8. ASSUME NEW r \in Requests,
             FindsNone(r) \/ WriteFindsNone(r) \/ QueryFails(r) \/ Collected(r) \/ ResendReturns(r)
      PROVE  NoticesInv'
  BY <1>e, <1>8 DEF FindsNone, WriteFindsNone, QueryFails, Collected, ResendReturns, table
<1>9. ASSUME NEW r \in Requests, FindsRow(r) \/ ResendFindsRow(r)  PROVE NoticesInv'
  BY <1>e, <1>9, <1>f DEF FindsRow, ResendFindsRow, table
<1>10. ASSUME NEW r \in Requests, UpdateCommits(r) \/ DeleteCommits(r) \/ WriteUnconfirmed(r)
       PROVE  NoticesInv'
  BY <1>e, <1>10
     DEF UpdateCommits, DeleteCommits, WriteUnconfirmed, UpdatesRow, DeletesRow
<1>11. ASSUME NEW i \in Ids, ListenerStep(i)  PROVE NoticesInv'
  <2>1. /\ UNCHANGED <<inserted, pc, job>> /\ delivered' \in [Ids -> Nat]
        /\ Announced' = Announced
        /\ CreatedIsAnnounced' /\ EmitInv'
    <3>1. UNCHANGED <<inserted, pc, job>> /\ delivered' \in [Ids -> Nat]
      BY <1>t, <1>11 DEF ListenerStep, Dispatch, NoticeSent, NoticeFails, NoticeReturns, table
    <3>2. Announced' = Announced
      BY <1>11 DEF ListenerStep, Dispatch, NoticeSent, NoticeFails, AfterFailure, NoticeReturns,
                   Announced
    <3> QED  BY <3>1, <3>2 DEF NoticesInv, CreatedIsAnnounced, EmitInv, Announced, At
  <2>2. NoticeInv'
    <3>1. CASE Dispatch(i)
      BY <2>1, <3>1 DEF Dispatch, NoticesInv, NoticeInv, Announced
    <3>2. CASE NoticeSent(i) \/ NoticeFails(i)
      <4>1. /\ i \in sending /\ sending' = sending \ {i} /\ handled' = handled \union {i}
            /\ events' = events
            /\ \A k \in Ids : k # i => delivered'[k] = delivered[k]
            /\ delivered'[i] \in {delivered[i], delivered[i] + 1}
        BY <1>t, <3>2 DEF NoticeSent, NoticeFails, AfterFailure, NoticeReturns
      <4>2. delivered[i] = 0
        BY <1>t, <4>1 DEF NoticesInv, NoticeInv
      <4> QED  BY <1>t, <2>1, <4>1, <4>2 DEF NoticesInv, NoticeInv
    <3> QED  BY <1>11, <3>1, <3>2 DEF ListenerStep
  <2> QED  BY <2>1, <2>2 DEF NoticesInv
<1>12. CASE Crash
  <2>1. /\ events' = {} /\ sending' = {} /\ UNCHANGED <<inserted, handled, delivered>>
        /\ \A q \in Requests : pc'[q] = "idle"
    BY <1>12 DEF Crash, AfterCrash, table
  <2> QED  BY <2>1 DEF NoticesInv, NoticeInv, EmitInv, CreatedIsAnnounced, Announced, At
<1>13. CASE UNCHANGED vars
  BY <1>13, NoticesFrame DEF vars, notices, table
<1>14. ASSUME NEW r \in Requests, RequestStep(r)  PROVE NoticesInv'
  BY <1>2, <1>3, <1>4, <1>5, <1>6, <1>7, <1>8, <1>9, <1>10, <1>14 DEF RequestStep
<1> QED  BY <1>1, <1>8, <1>11, <1>12, <1>13, <1>14 DEF Next

-----------------------------------------------------------------------------
(* Rows *)

\* What a step may do to the table: nothing, insert one row, or write one.
LEMMA TableStep ==
  ASSUME Typed, [Next]_vars
  PROVE  \/ UNCHANGED <<table, removals>>
         \/ \E r \in Requests, i \in Ids \ inserted :
              At(r, "inserting") /\ Inserts(r, i) /\ UNCHANGED removals
         \/ \E r \in Requests : UpdatesRow(r) /\ UNCHANGED removals
         \/ \E r \in Requests : /\ DeletesRow(r)
                                /\ \/ UNCHANGED removals
                                   \/ removals' = [removals EXCEPT ![job[r].id] = @ + 1]
<1> DEFINE Goal == \/ UNCHANGED <<table, removals>>
                   \/ \E r \in Requests, i \in Ids \ inserted :
                        At(r, "inserting") /\ Inserts(r, i) /\ UNCHANGED removals
                   \/ \E r \in Requests : UpdatesRow(r) /\ UNCHANGED removals
                   \/ \E r \in Requests :
                        /\ DeletesRow(r)
                        /\ \/ UNCHANGED removals
                           \/ removals' = [removals EXCEPT ![job[r].id] = @ + 1]
<1>1. ASSUME NEW r \in Requests, Arrives(r) \/ QueryFails(r) \/ Collected(r)
      PROVE  UNCHANGED <<table, removals>>
  BY <1>1 DEF Arrives, QueryFails, Collected, CreateGiven, CreateGenerated, AskUpdate, AskRemove,
              AskResend, Asks
<1>2. ASSUME NEW r \in Requests, NEW i \in Ids, InsertCommits(r, i) \/ InsertUnconfirmed(r, i)
      PROVE  i \in Ids \ inserted /\ At(r, "inserting") /\ Inserts(r, i) /\ UNCHANGED removals
  BY <1>2 DEF InsertCommits, InsertUnconfirmed
<1>3. ASSUME NEW r \in Requests, UpdateCommits(r) \/ DeleteCommits(r) \/ WriteUnconfirmed(r)
      PROVE  Goal
  BY <1>3 DEF UpdateCommits, DeleteCommits, WriteUnconfirmed, UpdatesRow
<1>4. ASSUME NEW r \in Requests, RequestStep(r)  PROVE Goal
  <2>1. \/ \E i \in Ids : InsertCommits(r, i) \/ InsertUnconfirmed(r, i)
        \/ UpdateCommits(r) \/ DeleteCommits(r) \/ WriteUnconfirmed(r)
        \/ UNCHANGED <<table, removals>>
    BY <1>4 DEF RequestStep, AllocateRef, AllocateTaken, InsertConflicts, EmitAndAnswer, FindsNone,
                FindsRow, WriteFindsNone, ResendFindsRow, ResendReturns
  <2> QED  BY <1>2, <1>3, <2>1
<1>5. ASSUME NEW i \in Ids, ListenerStep(i)  PROVE UNCHANGED <<table, removals>>
  BY <1>5 DEF ListenerStep, Dispatch, NoticeSent, NoticeFails, NoticeReturns
<1>6. CASE Crash \/ UNCHANGED vars
  BY <1>6 DEF Crash, AfterCrash, vars
<1> QED  BY <1>1, <1>4, <1>5, <1>6 DEF Next

LEMMA StampStep == Typed /\ ResolvedStamped /\ [Next]_vars => ResolvedStamped'
<1> SUFFICES ASSUME Typed, ResolvedStamped, [Next]_vars  PROVE ResolvedStamped'
  OBVIOUS
<1>t. /\ TypeOK /\ inserted \subseteq Ids /\ stored \subseteq inserted /\ byHand \subseteq inserted
      /\ row \in [Ids -> Row]
  BY DEF Typed, TypeOK
<1>1. CASE UNCHANGED <<table, removals>>
  BY <1>1 DEF table, ResolvedStamped
<1>2. ASSUME NEW r \in Requests, NEW i \in Ids \ inserted, At(r, "inserting"), Inserts(r, i)
      PROVE  ResolvedStamped'
  BY <1>t, <1>2, RowOfTyped DEF Inserts, ResolvedStamped
<1>3. ASSUME NEW r \in Requests, UpdatesRow(r)  PROVE ResolvedStamped'
  <2>1. /\ job[r].id \in stored /\ job[r].id \in Ids /\ stored' = stored
        /\ row'[job[r].id] = Updated(r)
        /\ \A k \in Ids : k # job[r].id => row'[k] = row[k]
        /\ byHand' = IF job[r].resolvedAt = Omitted THEN byHand ELSE byHand \union {job[r].id}
    BY <1>t, <1>3 DEF UpdatesRow, Exists
  <2>2. job[r].id \in stored' \ byHand' =>
          (Updated(r).status = "resolved" => Updated(r).resolvedAt)
    BY <1>t, <2>1, UpdatedTyped DEF ResolvedStamped
  <2> QED  BY <1>t, <2>1, <2>2 DEF ResolvedStamped
<1>4. ASSUME NEW r \in Requests, DeletesRow(r)  PROVE ResolvedStamped'
  BY <1>t, <1>4 DEF DeletesRow, ResolvedStamped
<1> QED  BY <1>1, <1>2, <1>3, <1>4, TableStep

LEMMA RemovalStep == Typed /\ RemovalInv /\ [Next]_vars => RemovalInv'
<1> SUFFICES ASSUME Typed, RemovalInv, [Next]_vars  PROVE RemovalInv'
  OBVIOUS
<1>t. stored \subseteq inserted /\ inserted \subseteq Ids /\ removals \in [Ids -> Nat]
  BY DEF Typed, TypeOK
<1>1. CASE UNCHANGED <<table, removals>>
  BY <1>1 DEF table, RemovalInv
<1>2. ASSUME NEW r \in Requests, NEW i \in Ids \ inserted, Inserts(r, i), UNCHANGED removals
      PROVE  RemovalInv'
  BY <1>2 DEF Inserts, RemovalInv
<1>3. ASSUME NEW r \in Requests, UpdatesRow(r), UNCHANGED removals  PROVE RemovalInv'
  <2>1. stored' = stored /\ inserted' = inserted
    BY <1>3 DEF UpdatesRow, Exists
  <2> QED  BY <1>3, <2>1 DEF RemovalInv
<1>4. ASSUME NEW r \in Requests, DeletesRow(r),
             UNCHANGED removals \/ removals' = [removals EXCEPT ![job[r].id] = @ + 1]
      PROVE  RemovalInv'
  <2>1. /\ job[r].id \in stored /\ job[r].id \in Ids
        /\ stored' = stored \ {job[r].id} /\ inserted' = inserted
    BY <1>t, <1>4 DEF DeletesRow, Deletable
  <2>2. removals[job[r].id] = 0
    BY <1>t, <2>1 DEF RemovalInv
  <2> QED  BY <1>t, <1>4, <2>1, <2>2 DEF RemovalInv
<1> QED  BY <1>1, <1>2, <1>3, <1>4, TableStep

LEMMA DeletedStep == Typed /\ [Next]_vars => stored' \intersect inserted \subseteq stored
<1> SUFFICES ASSUME Typed, [Next]_vars  PROVE stored' \intersect inserted \subseteq stored
  OBVIOUS
<1>1. \/ stored' \subseteq stored
      \/ \E i : i \notin inserted /\ stored' = stored \union {i}
  BY TableStep, WritesTyped DEF table, Inserts
<1> QED  BY <1>1

-----------------------------------------------------------------------------

LEMMA InitInv == Init => IInv
<1> SUFFICES ASSUME Init  PROVE IInv
  OBVIOUS
<1>1. TypeOK
  BY NothingTyped, ConfiguredBoolean DEF Init, TypeOK, NoRow, Row, Statuses
<1>2. Typed /\ RefsUnique /\ AllottedInv /\ ConflictExplained
  BY <1>1 DEF Init, Typed, CreateInv, RefsUnique, AllottedInv, ConflictExplained, At
<1>3. EmitInv /\ NoticeInv /\ CreatedIsAnnounced
  BY DEF Init, EmitInv, NoticeInv, CreatedIsAnnounced, Announced, At
<1>4. ResolvedStamped /\ RemovalInv
  BY DEF Init, ResolvedStamped, RemovalInv
<1> QED  BY <1>2, <1>3, <1>4 DEF IInv

THEOREM Invariance == Spec => []IInv
<1>1. IInv /\ [Next]_vars => IInv'
  BY TypeStep, RefStep, NoticesStep, StampStep, RemovalStep DEF IInv, RefInv, NoticesInv
<1> QED  BY InitInv, <1>1, PTL DEF Spec

\* Every variable keeps its type: bookings are stored only after they were written.
THEOREM TypeCorrect == Spec => []TypeOK
<1>1. IInv => TypeOK
  BY DEF IInv, Typed
<1> QED  BY <1>1, Invariance, PTL

\* No two stored bookings share a reference, for any number of creates that look the
\* same reference up at the same time.
THEOREM UniqueRefs == Spec => []RefsUnique
<1>1. IInv => RefsUnique
  BY DEF IInv
<1> QED  BY <1>1, Invariance, PTL

\* A 409 for a generated reference means that another create came in between.
THEOREM ConflictsExplained == Spec => []ConflictExplained
<1>1. IInv => ConflictExplained
  BY DEF IInv
<1> QED  BY <1>1, Invariance, PTL

\* An answered create has its notice queued, under way or done.
THEOREM CreatesAnnounced == Spec => []CreatedIsAnnounced
<1>1. IInv => CreatedIsAnnounced
  BY DEF IInv
<1> QED  BY <1>1, Invariance, PTL

\* The listener tells the owner of a booking at most once, through crashes and
\* time-outs, and only of one that was written.
THEOREM NoticesUnique == Spec => []AnnouncedOnce
<1>1. IInv => AnnouncedOnce
  BY DEF IInv, Typed, TypeOK, NoticeInv, Announced, AnnouncedOnce
<1> QED  BY <1>1, Invariance, PTL

\* A resolved booking has its resolvedAt, unless an update chose that column.
THEOREM StampsKept == Spec => []ResolvedStamped
<1>1. IInv => ResolvedStamped
  BY DEF IInv
<1> QED  BY <1>1, Invariance, PTL

\* Of any number of overlapping deletions one at most is answered with success.
THEOREM RemovalsUnique == Spec => []RemovedOnce
<1>1. IInv => RemovedOnce
  BY DEF IInv, RemovalInv, RemovedOnce
<1> QED  BY <1>1, Invariance, PTL

\* No step brings a deleted booking back.
THEOREM DeletionsKept == Spec => DeletedStaysDeleted
<1>1. IInv /\ [Next]_vars => [stored' \intersect inserted \subseteq stored]_vars
  BY DeletedStep DEF IInv
<1> QED  BY <1>1, Invariance, PTL DEF Spec, DeletedStaysDeleted

-----------------------------------------------------------------------------
(* Why CreateAnswered holds, short of fairness: a request has only so many  *)
(* steps left, and nobody else gives it more.                               *)

\* Before each look-up of a generated reference an attempt is left.
TriesInv == \A r \in Requests : At(r, "allocating") => job[r].tries < Tries

StepsLeft(r) ==
  CASE pc[r] = "allocating"                         -> 3 + (Tries - job[r].tries)
    [] pc[r] \in {"inserting", "finding"}           -> 3
    [] pc[r] \in {"inserted", "writing", "notifying"} -> 2
    [] pc[r] \in Answers                            -> 1
    [] OTHER                                        -> 0

\* Each step of a request leaves it fewer, and no step of another one, of the listener
\* or of a failing database leaves it more.
StepsRunOut ==
  \A r \in Requests :
    /\ StepsLeft(r) \in 0 .. Tries + 3
    /\ RequestStep(r) => StepsLeft(r)' < StepsLeft(r)
    /\ pc[r] # "idle" => StepsLeft(r)' <= StepsLeft(r)

LEMMA StepsLeftNat ==
  ASSUME Typed, TriesInv, NEW r \in Requests
  PROVE  /\ StepsLeft(r) \in 0 .. Tries + 3
         /\ pc[r] = "idle" => StepsLeft(r) = 0
         /\ pc[r] = "allocating" => StepsLeft(r) > 3
<1>1. job[r].tries \in Nat /\ pc[r] \in {"idle"} \union Waits \union Answers
  BY DEF Typed, TypeOK, Job
<1>2. pc[r] = "allocating" => job[r].tries < Tries
  BY DEF TriesInv, At
<1> QED  BY <1>1, <1>2, TriesPositive DEF StepsLeft, Waits, Answers

\* A request that is answered or over.
LEMMA EndsLeft ==
  ASSUME Typed, NEW r \in Requests, Ends(r)
  PROVE  /\ pc'[r] = "idle" /\ StepsLeft(r)' = 0
         /\ \A q \in Requests : q # r => pc'[q] = pc[q] /\ job'[q] = job[q]
BY DEF Typed, TypeOK, Ends, Goes, StepsLeft, Answers

\* What a step of one request does to the others: nothing that counts here.
LEMMA OthersUntouched ==
  ASSUME Typed, NEW r \in Requests,
         Arrives(r) \/ RequestStep(r) \/ QueryFails(r) \/ Collected(r),
         NEW q \in Requests, q # r
  PROVE  pc'[q] = pc[q] /\ job'[q].tries = job[q].tries
<1>t. pc \in [Requests -> {"idle"} \union Waits \union Answers] /\ job \in [Requests -> Job]
  BY DEF Typed, TypeOK
<1>1. CASE Arrives(r)
  BY <1>t, <1>1 DEF Arrives, CreateGiven, CreateGenerated, AskUpdate, AskRemove, AskResend, Asks, Goes
<1>2. CASE QueryFails(r) \/ Collected(r)
  BY <1>2, EndsLeft DEF QueryFails, Collected
<1>3. ASSUME NEW i \in Ids, InsertCommits(r, i) \/ InsertUnconfirmed(r, i)
      PROVE  pc'[q] = pc[q] /\ job'[q].tries = job[q].tries
  <2>1. /\ \E s : Goes(r, s)
        /\ \E j : job' = [NowBeaten(r) EXCEPT ![r] = j]
    BY <1>3 DEF InsertCommits, InsertUnconfirmed
  <2>2. NowBeaten(r)[q].tries = job[q].tries
    <3>1. job[q] \in Job
      BY <1>t
    <3>2. [job[q] EXCEPT !.beaten = TRUE].tries = job[q].tries
      BY <3>1 DEF Job
    <3> QED  BY <3>2 DEF NowBeaten
  <2>3. job'[q] = NowBeaten(r)[q]
    BY <2>1 DEF NowBeaten
  <2> QED  BY <1>t, <2>1, <2>2, <2>3 DEF Goes
<1>4. ASSUME NEW s \in Refs, AllocateRef(r, s) \/ AllocateTaken(r, s)
      PROVE  pc'[q] = pc[q] /\ job'[q].tries = job[q].tries
  <2>1. CASE AllocateRef(r, s)
    BY <1>t, <2>1 DEF AllocateRef, Goes
  <2>2. CASE AllocateTaken(r, s)
    BY <1>t, <2>2, EndsLeft DEF AllocateTaken
  <2> QED  BY <1>4, <2>1, <2>2
<1>5. CASE InsertConflicts(r) \/ EmitAndAnswer(r)
  BY <1>t, <1>5 DEF InsertConflicts, EmitAndAnswer, Answer, Goes
<1>6. CASE FindsRow(r)
  BY <1>t, <1>6 DEF FindsRow, Goes
<1>7. CASE ResendFindsRow(r)
  BY <1>t, <1>7, EndsLeft DEF ResendFindsRow, Goes
<1>8. CASE \/ FindsNone(r) \/ UpdateCommits(r) \/ DeleteCommits(r) \/ WriteUnconfirmed(r)
           \/ WriteFindsNone(r) \/ ResendReturns(r)
  BY <1>8, EndsLeft DEF FindsNone, UpdateCommits, DeleteCommits, WriteUnconfirmed, WriteFindsNone,
                        ResendReturns
<1> QED  BY <1>1, <1>2, <1>3, <1>4, <1>5, <1>6, <1>7, <1>8 DEF RequestStep

\* A step of the request itself: fewer are left, and an attempt before a look-up.
LEMMA OwnStep ==
  ASSUME Typed, TriesInv, NEW r \in Requests, RequestStep(r)
  PROVE  /\ StepsLeft(r)' \in Nat /\ StepsLeft(r)' < StepsLeft(r)
         /\ pc'[r] = "allocating" => job'[r].tries < Tries
<1>t. /\ pc \in [Requests -> {"idle"} \union Waits \union Answers] /\ job \in [Requests -> Job]
      /\ job[r] \in Job /\ job[r].tries \in Nat /\ Tries \in Nat
  BY TriesPositive DEF Typed, TypeOK, Job
<1>u. pc[r] = "allocating" => StepsLeft(r) > 3 /\ StepsLeft(r) \in Nat
  BY StepsLeftNat
<1> DEFINE Goal == /\ StepsLeft(r)' \in Nat /\ StepsLeft(r)' < StepsLeft(r)
                   /\ pc'[r] = "allocating" => job'[r].tries < Tries
<1>1. ASSUME NEW s \in Refs, AllocateRef(r, s)  PROVE Goal
  <2>1. pc[r] = "allocating" /\ pc'[r] = "inserting"
    BY <1>t, <1>1 DEF AllocateRef, At, Goes
  <2>2. StepsLeft(r)' = 3
    BY <2>1 DEF StepsLeft, Answers
  <2> QED  BY <1>u, <2>1, <2>2
<1>2. ASSUME NEW s \in Refs, AllocateTaken(r, s)  PROVE Goal
  <2>1. pc[r] = "allocating"
    BY <1>2 DEF AllocateTaken, At
  <2>2. CASE TriesAfter(r) < Tries
    <3>1. job'[r].tries = job[r].tries + 1 /\ pc'[r] = "allocating"
      BY <1>t, <1>2, <2>1, <2>2 DEF AllocateTaken, TriesAfter, Job
    <3>2. StepsLeft(r) = 3 + (Tries - job[r].tries) /\ StepsLeft(r)' = 3 + (Tries - job'[r].tries)
      BY <2>1, <3>1 DEF StepsLeft, Answers
    <3> QED  BY <1>t, <2>2, <3>1, <3>2 DEF TriesAfter
  <2>3. CASE ~(TriesAfter(r) < Tries)
    BY <1>2, <1>u, <2>1, <2>3, EndsLeft DEF AllocateTaken
  <2> QED  BY <2>2, <2>3
<1>3. ASSUME NEW i \in Ids, InsertCommits(r, i) \/ InsertUnconfirmed(r, i)  PROVE Goal
  <2>1. pc[r] = "inserting" /\ pc'[r] \in {"inserted", "idle"}
    BY <1>t, <1>3 DEF InsertCommits, InsertUnconfirmed, At, Goes
  <2> QED  BY <2>1 DEF StepsLeft, Answers
<1>4. CASE InsertConflicts(r) \/ EmitAndAnswer(r)
  <2>1. pc[r] \in {"inserting", "inserted"} /\ pc'[r] \in Answers
    BY <1>t, <1>4 DEF InsertConflicts, EmitAndAnswer, Answer, At, Goes, Answers
  <2> QED  BY <2>1 DEF StepsLeft, Answers
<1>5. CASE FindsRow(r) \/ ResendFindsRow(r)
  <2>1. pc[r] = "finding" /\ pc'[r] \in {"writing", "notifying", "idle"}
    BY <1>t, <1>5 DEF FindsRow, ResendFindsRow, Ends, At, Goes
  <2> QED  BY <2>1 DEF StepsLeft, Answers
<1>6. CASE \/ FindsNone(r) \/ UpdateCommits(r) \/ DeleteCommits(r) \/ WriteUnconfirmed(r)
           \/ WriteFindsNone(r) \/ ResendReturns(r)
  <2>1. pc[r] \in {"finding", "writing", "notifying"} /\ Ends(r)
    BY <1>6 DEF FindsNone, UpdateCommits, DeleteCommits, WriteUnconfirmed, WriteFindsNone,
                ResendReturns, At
  <2>2. pc'[r] = "idle"
    BY <2>1, EndsLeft
  <2> QED  BY <2>1, <2>2 DEF StepsLeft, Answers
<1> QED  BY <1>1, <1>2, <1>3, <1>4, <1>5, <1>6 DEF RequestStep

LEMMA LeftStep ==
  ASSUME Typed, TriesInv, [Next]_vars
  PROVE  TriesInv' /\ StepsRunOut
<1> SUFFICES ASSUME NEW q \in Requests
             PROVE  /\ pc'[q] = "allocating" => job'[q].tries < Tries
                    /\ RequestStep(q) => StepsLeft(q)' < StepsLeft(q)
                    /\ pc[q] # "idle" => StepsLeft(q)' <= StepsLeft(q)
  BY StepsLeftNat DEF TriesInv, StepsRunOut, At
<1>t. /\ StepsLeft(q) \in Nat /\ (pc[q] = "allocating" => job[q].tries < Tries)
      /\ pc \in [Requests -> {"idle"} \union Waits \union Answers] /\ job \in [Requests -> Job]
  BY StepsLeftNat, TriesPositive DEF TriesInv, At, Typed, TypeOK
<1>0. RequestStep(q) => /\ StepsLeft(q)' \in Nat /\ StepsLeft(q)' < StepsLeft(q)
                        /\ pc'[q] = "allocating" => job'[q].tries < Tries
  BY OwnStep
<1> DEFINE Calm == /\ pc'[q] = "allocating" => job'[q].tries < Tries
                   /\ pc[q] # "idle" => StepsLeft(q)' <= StepsLeft(q)
<1>1. ASSUME pc'[q] = pc[q], job'[q].tries = job[q].tries  PROVE Calm
  <2>1. StepsLeft(q)' = StepsLeft(q)
    BY <1>1 DEF StepsLeft
  <2> QED  BY <1>t, <1>1, <2>1
<1>2. ASSUME NEW r \in Requests, Arrives(r) \/ RequestStep(r) \/ QueryFails(r) \/ Collected(r)
      PROVE  Calm
  <2>1. CASE r # q
    BY <1>1, <1>2, <2>1, OthersUntouched
  <2>2. CASE r = q /\ Arrives(q)
    <3>1. pc[q] = "idle"
      BY <2>2 DEF Arrives, CreateGiven, CreateGenerated, AskUpdate, AskRemove, AskResend, Asks, At
    <3>2. pc'[q] = "allocating" => job'[q].tries = 0
      BY <1>t, <2>2 DEF Arrives, CreateGiven, CreateGenerated, AskUpdate, AskRemove, AskResend,
                        Asks, Goes, Nothing
    <3> QED  BY <3>1, <3>2, TriesPositive
  <2>3. CASE r = q /\ RequestStep(q)
    BY <1>t, <1>0, <2>3
  <2>4. CASE r = q /\ (QueryFails(q) \/ Collected(q))
    BY <1>t, <2>4, EndsLeft DEF QueryFails, Collected
  <2> QED  BY <1>2, <2>1, <2>2, <2>3, <2>4
<1>3. ASSUME NEW i \in Ids, ListenerStep(i)  PROVE Calm
  BY <1>1, <1>3 DEF ListenerStep, Dispatch, NoticeSent, NoticeFails, NoticeReturns
<1>4. ASSUME Crash  PROVE Calm
  <2>1. pc'[q] = "idle"
    BY <1>4 DEF Crash
  <2>2. StepsLeft(q)' = 0
    BY <2>1 DEF StepsLeft, Answers
  <2> QED  BY <1>t, <2>1, <2>2
<1>5. ASSUME UNCHANGED vars  PROVE Calm
  BY <1>1, <1>5 DEF vars
<1>6. Calm
  BY <1>2, <1>3, <1>4, <1>5 DEF Next
<1> QED  BY <1>0, <1>6

\* A request has at most Tries + 3 steps to take, each of its own takes one away, and
\* nobody gives it another: the loop of allocateBookingRef ends however many
\* references others take meanwhile (bookings.service.ts:83-96).
THEOREM RequestsRunOut == Spec => [][StepsRunOut]_vars
<1>1. Init => TriesInv
  BY DEF Init, TriesInv, At
<1>2. IInv => Typed
  BY DEF IInv
<1>3. IInv /\ TriesInv /\ [Next]_vars => TriesInv' /\ StepsRunOut
  BY <1>2, LeftStep
<1> QED  BY <1>1, <1>3, Invariance, PTL DEF Spec

-----------------------------------------------------------------------------
(* Refinement *)

\* The refinement mapping of Register.
RefOf == [i \in Ids |-> row[i].ref]
Queued == events \union sending

AbstractStep == Register!Next \/ UNCHANGED <<inserted, stored, RefOf, Owed, Queued, handled, delivered>>

LEMMA Abstraction ==
  /\ \A i, s :
       Register!Write(i, s) <=>
         /\ i \notin inserted
         /\ \A k \in stored : RefOf[k] # s
         /\ inserted' = inserted \union {i} /\ stored' = stored \union {i}
         /\ RefOf' = [RefOf EXCEPT ![i] = s]
         /\ Owed' \in {Owed, Owed \union {i}}
         /\ Queued' = Queued /\ handled' = handled /\ delivered' = delivered
  /\ \A i :
       /\ Register!Delete(i) <=>
            /\ i \in stored
            /\ stored' = stored \ {i}
            /\ RefOf' = [RefOf EXCEPT ![i] = None]
            /\ inserted' = inserted /\ Owed' = Owed
            /\ Queued' = Queued /\ handled' = handled /\ delivered' = delivered
       /\ Register!Announce(i) <=>
            /\ i \in Owed
            /\ Owed' = Owed \ {i} /\ Queued' = Queued \union {i}
            /\ inserted' = inserted /\ stored' = stored /\ RefOf' = RefOf
            /\ handled' = handled /\ delivered' = delivered
       /\ Register!Settle(i) <=>
            /\ i \in Queued
            /\ Queued' = Queued \ {i} /\ handled' = handled \union {i}
            /\ \E n \in {0, 1} : delivered' = [delivered EXCEPT ![i] = @ + n]
            /\ inserted' = inserted /\ stored' = stored /\ RefOf' = RefOf /\ Owed' = Owed
  /\ Register!LoseNotices <=>
       /\ Owed' = {} /\ Queued' = {}
       /\ inserted' = inserted /\ stored' = stored /\ RefOf' = RefOf
       /\ handled' = handled /\ delivered' = delivered
BY DEF Register!Write, Register!Delete, Register!Announce, Register!Settle,
       Register!LoseNotices, Register!notices, RefOf, Queued

\* A request that neither was nor becomes one to announce changes nothing owed.
LEMMA OwedFrame ==
  ASSUME pc \in [Requests -> {"idle"} \union Waits \union Answers], NEW r \in Requests,
         pc[r] # "inserted", NEW where, Goes(r, where), where # "inserted",
         \A q \in Requests : q # r => job'[q].id = job[q].id
  PROVE  Owed' = Owed
<1>1. pc'[r] = where /\ \A q \in Requests : q # r => pc'[q] = pc[q]
  BY DEF Goes
<1> QED  BY <1>1 DEF Owed, At

\* A step of such a request that leaves table and notices alone is a stutter.
LEMMA QuietStep ==
  ASSUME Typed, NEW r \in Requests, pc[r] # "inserted",
         NEW where, Goes(r, where), where # "inserted",
         \A q \in Requests : q # r => job'[q].id = job[q].id,
         UNCHANGED <<table, notices>>
  PROVE  AbstractStep
<1>1. Owed' = Owed
  BY OwedFrame DEF Typed, TypeOK
<1>2. RefOf' = RefOf /\ Queued' = Queued /\ UNCHANGED <<inserted, stored, handled, delivered>>
  BY DEF RefOf, Queued, table, notices
<1> QED  BY <1>1, <1>2 DEF AbstractStep

\* What writing a row is to the register.
LEMMA InsertRefines ==
  ASSUME IInv, NEW r \in Requests, NEW i \in Ids, InsertCommits(r, i) \/ InsertUnconfirmed(r, i)
  PROVE  AbstractStep
<1>t. /\ Typed /\ TypeOK /\ row \in [Ids -> Row] /\ stored \subseteq inserted /\ inserted \subseteq Ids
      /\ pc \in [Requests -> {"idle"} \union Waits \union Answers]
  BY DEF IInv, Typed, TypeOK
<1>1. /\ pc[r] = "inserting" /\ ~UniqueViolated(r) /\ i \in Ids \ inserted
      /\ Inserts(r, i) /\ UNCHANGED notices
      /\ \A q \in Requests : q # r => job'[q].id = job[q].id
  BY <1>t, NowBeatenTyped DEF InsertCommits, InsertUnconfirmed, At
<1>2. Owed' \in {Owed, Owed \union {i}}
  <2>1. CASE InsertCommits(r, i)
    <3>1. /\ pc'[r] = "inserted" /\ \A q \in Requests : q # r => pc'[q] = pc[q]
          /\ job'[r].id = i
      BY <1>t, <2>1, NowBeatenTyped DEF InsertCommits, Goes, Nothing
    <3>2. Owed' = Owed \union {i}
      BY <1>1, <3>1 DEF Owed, At
    <3> QED  BY <3>2
  <2>2. CASE InsertUnconfirmed(r, i)
    <3>1. Goes(r, "idle")
      BY <2>2 DEF InsertUnconfirmed
    <3>2. Owed' = Owed
      BY <1>t, <1>1, <3>1, OwedFrame
    <3> QED  BY <3>2
  <2> QED  BY <2>1, <2>2
<1>3. PICK s \in Refs : s = job[r].ref
  BY <1>1, <1>t DEF Typed, CreateInv, At
<1>4. RefOf' = [RefOf EXCEPT ![i] = s]
  BY <1>t, <1>1, <1>3, RowOfTyped DEF Inserts, RefOf, At
<1>5. \A k \in stored : RefOf[k] # s
  BY <1>t, <1>1, <1>3 DEF UniqueViolated, Taken, RefOf
<1>6. /\ i \notin inserted /\ inserted' = inserted \union {i} /\ stored' = stored \union {i}
      /\ Queued' = Queued /\ handled' = handled /\ delivered' = delivered
  BY <1>1 DEF Inserts, Queued, notices
<1>7. Register!Write(i, s)
  BY <1>2, <1>4, <1>5, <1>6, Abstraction
<1> QED  BY <1>7 DEF AbstractStep, Register!Next

\* A deletion, whether or not its client learns of it.
LEMMA DeleteRefines ==
  ASSUME IInv, NEW r \in Requests, At(r, "writing"), DeletesRow(r), Goes(r, "idle"),
         \A q \in Requests : q # r => job'[q].id = job[q].id, UNCHANGED notices
  PROVE  AbstractStep
<1>t. /\ TypeOK /\ row \in [Ids -> Row] /\ stored \subseteq inserted /\ inserted \subseteq Ids
      /\ pc \in [Requests -> {"idle"} \union Waits \union Answers]
  BY DEF IInv, Typed, TypeOK
<1>1. PICK i \in Ids : i = job[r].id /\ i \in stored
  BY <1>t DEF DeletesRow, Deletable
<1>2. Owed' = Owed
  BY <1>t, OwedFrame DEF At
<1>3. RefOf' = [RefOf EXCEPT ![i] = None]
  BY <1>t, <1>1 DEF DeletesRow, RefOf, NoRow
<1>4. /\ stored' = stored \ {i} /\ inserted' = inserted
      /\ Queued' = Queued /\ handled' = handled /\ delivered' = delivered
  BY <1>1 DEF DeletesRow, Queued, notices
<1>5. Register!Delete(i)
  BY <1>1, <1>2, <1>3, <1>4, Abstraction
<1> QED  BY <1>5 DEF AbstractStep, Register!Next

\* An update writes columns of which the register knows none.
LEMMA UpdateRefines ==
  ASSUME IInv, NEW r \in Requests, At(r, "writing"), UpdatesRow(r), Goes(r, "idle"),
         \A q \in Requests : q # r => job'[q].id = job[q].id, UNCHANGED notices
  PROVE  AbstractStep
<1>t. /\ TypeOK /\ row \in [Ids -> Row] /\ stored \subseteq inserted /\ inserted \subseteq Ids
      /\ pc \in [Requests -> {"idle"} \union Waits \union Answers]
  BY DEF IInv, Typed, TypeOK
<1>1. job[r].id \in stored /\ job[r].id \in Ids /\ stored' = stored /\ inserted' = inserted
  BY <1>t DEF UpdatesRow, Exists
<1>2. Owed' = Owed
  BY <1>t, OwedFrame DEF At
<1>3. RefOf' = RefOf
  BY <1>t, <1>1, UpdatedTyped DEF UpdatesRow, RefOf
<1> QED  BY <1>1, <1>2, <1>3 DEF AbstractStep, Queued, notices

\* The event is emitted: what one request owed is queued.
LEMMA EmitRefines ==
  ASSUME IInv, NEW r \in Requests, EmitAndAnswer(r)
  PROVE  AbstractStep
<1>t. /\ TypeOK /\ EmitInv /\ inserted \subseteq Ids
      /\ pc \in [Requests -> {"idle"} \union Waits \union Answers] /\ job \in [Requests -> Job]
  BY DEF IInv, Typed, TypeOK
<1>1. PICK i \in Ids : i = job[r].id
  BY <1>t DEF IInv, Typed, CreateInv, EmitAndAnswer
<1>2. /\ pc[r] = "inserted" /\ pc'[r] = "created"
      /\ \A q \in Requests : q # r => pc'[q] = pc[q] /\ job'[q] = job[q]
      /\ events' = events \union {i}
      /\ UNCHANGED <<table, sending, handled, delivered>>
  BY <1>t, <1>1 DEF EmitAndAnswer, Answer, Goes, At, WithEvent
<1>3. i \in Owed
  BY <1>1, <1>2 DEF Owed, At
<1>4. Owed' = Owed \ {i}
  <2>1. \A q \in Requests : pc[q] = "inserted" /\ job[q].id = i => q = r
    BY <1>t, <1>1, <1>2 DEF EmitInv, At
  <2> QED  BY <1>1, <1>2, <2>1 DEF Owed, At
<1>5. /\ Queued' = Queued \union {i} /\ RefOf' = RefOf
      /\ UNCHANGED <<inserted, stored, handled, delivered>>
  BY <1>2 DEF Queued, RefOf, table
<1>6. Register!Announce(i)
  BY <1>3, <1>4, <1>5, Abstraction
<1> QED  BY <1>6 DEF AbstractStep, Register!Next

\* The listener: dispatching is a stutter where WhatsApp is configured and settles
\* the notice where it is not; a call that returns settles it.
LEMMA ListenerRefines ==
  ASSUME IInv, NEW i \in Ids, ListenerStep(i)
  PROVE  AbstractStep
<1>t. /\ delivered \in [Ids -> Nat] /\ enabled \in BOOLEAN
      /\ events \intersect sending = {}
  BY DEF IInv, Typed, TypeOK, NoticeInv
<1>1. UNCHANGED <<table, pc, job>>
  BY DEF ListenerStep, Dispatch, NoticeSent, NoticeFails, NoticeReturns
<1>2. UNCHANGED <<inserted, stored>> /\ RefOf' = RefOf /\ Owed' = Owed
  BY <1>1 DEF table, RefOf, Owed, At
<1>3. CASE Dispatch(i) /\ enabled
  BY <1>2, <1>3 DEF Dispatch, AbstractStep, Queued
<1>4. CASE \/ Dispatch(i) /\ ~enabled
           \/ NoticeSent(i) \/ NoticeFails(i)
  <2>1. i \in Queued /\ Queued' = Queued \ {i} /\ handled' = handled \union {i}
    BY <1>t, <1>4 DEF Dispatch, NoticeSent, NoticeFails, NoticeReturns, AfterFailure, Queued
  <2>2. \E n \in {0, 1} : delivered' = [delivered EXCEPT ![i] = @ + n]
    <3>1. CASE Dispatch(i)
      <4>1. delivered' = [delivered EXCEPT ![i] = @ + 0]
        BY <1>t, <3>1 DEF Dispatch
      <4> QED  BY <4>1
    <3>2. CASE NoticeSent(i) \/ NoticeFails(i)
      BY <3>2 DEF NoticeSent, NoticeFails
    <3> QED  BY <1>4, <3>1, <3>2
  <2>3. Register!Settle(i)
    BY <1>2, <2>1, <2>2, Abstraction
  <2> QED  BY <2>3 DEF AbstractStep, Register!Next
<1> QED  BY <1>3, <1>4 DEF ListenerStep

LEMMA StepRefines == IInv /\ [Next]_vars => AbstractStep
<1> SUFFICES ASSUME IInv, [Next]_vars  PROVE AbstractStep
  OBVIOUS
<1>t. /\ Typed /\ pc \in [Requests -> {"idle"} \union Waits \union Answers]
      /\ job \in [Requests -> Job]
  BY DEF IInv, Typed, TypeOK
<1>e. ASSUME NEW r \in Requests, Ends(r), pc[r] # "inserted", UNCHANGED <<table, notices>>
      PROVE  AbstractStep
  BY <1>t, <1>e, QuietStep DEF Ends
<1>1. ASSUME NEW r \in Requests, Arrives(r)  PROVE AbstractStep
  <2>1. /\ pc[r] = "idle" /\ UNCHANGED <<table, notices>>
        /\ Goes(r, "inserting") \/ Goes(r, "allocating") \/ Goes(r, "finding")
        /\ \A q \in Requests : q # r => job'[q].id = job[q].id
    BY <1>t, <1>1
       DEF Arrives, CreateGiven, CreateGenerated, AskUpdate, AskRemove, AskResend, Asks, At
  <2> QED  BY <1>t, <2>1, QuietStep
<1>2. ASSUME NEW r \in Requests, QueryFails(r) \/ Collected(r)  PROVE AbstractStep
  BY <1>e, <1>2 DEF QueryFails, Collected, Answers
<1>3. ASSUME NEW r \in Requests, NEW s \in Refs, AllocateRef(r, s) \/ AllocateTaken(r, s)
      PROVE  AbstractStep
  <2>1. CASE AllocateRef(r, s)
    BY <1>t, <2>1, QuietStep DEF AllocateRef, At
  <2>2. CASE AllocateTaken(r, s) /\ TriesAfter(r) < Tries
    <3>1. /\ pc[r] = "allocating" /\ pc' = [pc EXCEPT ![r] = "allocating"]
          /\ UNCHANGED <<table, notices>>
          /\ \A q \in Requests : q # r => job'[q].id = job[q].id
      BY <1>t, <2>2 DEF AllocateTaken, At
    <3> QED  BY <1>t, <3>1, QuietStep DEF Goes
  <2>3. CASE AllocateTaken(r, s) /\ ~(TriesAfter(r) < Tries)
    BY <1>e, <2>3 DEF AllocateTaken, At
  <2> QED  BY <1>3, <2>1, <2>2, <2>3
<1>4. ASSUME NEW r \in Requests, InsertConflicts(r)  PROVE AbstractStep
  BY <1>t, <1>4, QuietStep DEF InsertConflicts, Answer, At
<1>5. ASSUME NEW r \in Requests, FindsNone(r) \/ WriteFindsNone(r) \/ ResendReturns(r)
      PROVE  AbstractStep
  BY <1>e, <1>5 DEF FindsNone, WriteFindsNone, ResendReturns, At
<1>6. ASSUME NEW r \in Requests, FindsRow(r) \/ ResendFindsRow(r)  PROVE AbstractStep
  <2>1. CASE ResendFindsRow(r) /\ ~enabled
    BY <1>e, <2>1 DEF ResendFindsRow, At
  <2>2. CASE FindsRow(r) \/ (ResendFindsRow(r) /\ enabled)
    <3>1. /\ pc[r] = "finding" /\ UNCHANGED <<table, notices>> /\ job' = job
          /\ Goes(r, "writing") \/ Goes(r, "notifying")
      BY <2>2 DEF FindsRow, ResendFindsRow, At
    <3> QED  BY <1>t, <3>1, QuietStep
  <2> QED  BY <1>6, <2>1, <2>2
<1>7. ASSUME NEW r \in Requests, UpdateCommits(r) \/ DeleteCommits(r) \/ WriteUnconfirmed(r)
      PROVE  AbstractStep
  <2>1. /\ At(r, "writing")
        /\ UpdatesRow(r) \/ DeletesRow(r)
        /\ Goes(r, "idle") /\ UNCHANGED notices
        /\ \A q \in Requests : q # r => job'[q].id = job[q].id
    BY <1>t, <1>7 DEF UpdateCommits, DeleteCommits, WriteUnconfirmed, Ends
  <2> QED  BY <2>1, UpdateRefines, DeleteRefines
<1>8. ASSUME NEW r \in Requests, RequestStep(r)  PROVE AbstractStep
  BY <1>3, <1>4, <1>5, <1>6, <1>7, <1>8, InsertRefines, EmitRefines DEF RequestStep
<1>9. CASE Crash
  <2>1. /\ Owed' = {} /\ Queued' = {} /\ RefOf' = RefOf
        /\ UNCHANGED <<inserted, stored, handled, delivered>>
    BY <1>9 DEF Crash, AfterCrash, Owed, At, Queued, RefOf, table
  <2>2. Register!LoseNotices
    BY <2>1, Abstraction
  <2> QED  BY <2>2 DEF AbstractStep, Register!Next
<1>10. CASE UNCHANGED vars
  BY <1>10 DEF vars, table, notices, AbstractStep, RefOf, Queued, Owed, At
<1> QED  BY <1>1, <1>2, <1>8, <1>9, <1>10, ListenerRefines DEF Next

\* BookingsService and its listener implement BookingRegister, for any number of
\* requests, bookings, references and attempts.
THEOREM RegisterImplemented == Spec => ImplementsRegister
<1>1. Init => Register!Init
  <2> SUFFICES ASSUME Init  PROVE Register!Init
    OBVIOUS
  <2>1. Owed = {} /\ Queued = {} /\ RefOf = [i \in Ids |-> None]
    BY DEF Init, Owed, At, Queued, RefOf, NoRow
  <2> QED  BY <2>1 DEF Init, Register!Init, RefOf, Queued
<1>2. IInv /\ [Next]_vars => [Register!Next]_(Register!vars)
  BY StepRefines DEF AbstractStep, Register!vars, Register!notices, RefOf, Queued
<1> QED  BY <1>1, <1>2, Invariance, PTL DEF Spec, ImplementsRegister, Register!Spec
=============================================================================
