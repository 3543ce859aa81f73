------------------------- MODULE RequestConnection -------------------------
(***************************************************************************)
(* What PrismaRequestLifecycleInterceptor and PrismaService promise about  *)
(* the database connection: while the connection is managed per request,   *)
(* it is open exactly while some request is using it.  Nothing is promised *)
(* once the management is lost (a failed $connect, the shutdown hook); a   *)
(* new process manages it again from the start.                            *)
(***************************************************************************)
CONSTANT Requests

VARIABLES users,      \* the requests between their acquire and their release
          open,       \* the connection has been opened and not yet closed
          managed     \* the per-request management is in force

vars == <<users, open, managed>>

Init == users = {} /\ open = FALSE /\ managed = TRUE

Acquire(r) ==
  /\ managed /\ r \notin users
  /\ users' = users \union {r}
  /\ open' = TRUE
  /\ UNCHANGED managed

\* The last user to leave closes the connection; an earlier one leaves it open.
Release(r) ==
  /\ managed /\ r \in users
  /\ users' = users \ {r}
  /\ open' = (users # {r})
  /\ UNCHANGED managed

Unmanaged ==
  /\ managed' = FALSE
  /\ users' \in SUBSET Requests
  /\ open' \in BOOLEAN

Renew ==
  /\ ~managed
  /\ users' = {} /\ open' = FALSE /\ managed' = TRUE

Next ==
  \/ \E r \in Requests : Acquire(r) \/ Release(r)
  \/ Unmanaged
  \/ Renew

Spec == Init /\ [][Next]_vars
=============================================================================
