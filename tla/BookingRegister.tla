--------------------------- MODULE BookingRegister ---------------------------
(***************************************************************************)
(* What the bookings API promises of a booking, whatever requests overlap, *)
(* queries fail and processes die: it is written once, under a reference   *)
(* that no other stored booking has and that it keeps, and deleted for     *)
(* good; the owner's notice of it is queued once and settled once, or lost *)
(* with the process or the acknowledgement that would have queued it.      *)
(***************************************************************************)
EXTENDS Naturals

CONSTANTS Ids, Refs, NoRef

VARIABLES written, stored,        \* the bookings there ever were, and those there are
          ref,                    \* the reference of a stored booking
          owed, queued, settled,  \* where the notice of a booking is; lost if in none
          messages                \* how many messages of it have reached the owner

notices == <<owed, queued, settled, messages>>
vars == <<written, stored, ref, notices>>

Init ==
  /\ written = {} /\ stored = {}
  /\ ref = [i \in Ids |-> NoRef]
  /\ owed = {} /\ queued = {} /\ settled = {}
  /\ messages = [i \in Ids |-> 0]

\* The create that writes a booking owes its notice, unless it never learns of it.
Write(i, s) ==
  /\ i \notin written
  /\ \A k \in stored : ref[k] # s
  /\ written' = written \union {i} /\ stored' = stored \union {i}
  /\ ref' = [ref EXCEPT ![i] = s]
  /\ owed' \in {owed, owed \union {i}}
  /\ UNCHANGED <<queued, settled, messages>>

\* A notice that is queued or under way is not called back.
Delete(i) ==
  /\ i \in stored
  /\ stored' = stored \ {i}
  /\ ref' = [ref EXCEPT ![i] = NoRef]
  /\ UNCHANGED <<written, notices>>

Announce(i) ==
  /\ i \in owed
  /\ owed' = owed \ {i} /\ queued' = queued \union {i}
  /\ UNCHANGED <<written, stored, ref, settled, messages>>

\* Sent, refused, timed out or skipped: the message has arrived or it has not.
Settle(i) ==
  /\ i \in queued
  /\ queued' = queued \ {i} /\ settled' = settled \union {i}
  /\ \E n \in {0, 1} : messages' = [messages EXCEPT ![i] = @ + n]
  /\ UNCHANGED <<written, stored, ref, owed>>

\* The process that owes and holds the notices dies.
LoseNotices ==
  /\ owed' = {} /\ queued' = {}
  /\ UNCHANGED <<written, stored, ref, settled, messages>>

Next ==
  \/ \E i \in Ids : \/ \E s \in Refs : Write(i, s)
                    \/ Delete(i) \/ Announce(i) \/ Settle(i)
  \/ LoseNotices

Spec == Init /\ [][Next]_vars
=============================================================================
