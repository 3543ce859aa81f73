--------------------------- MODULE SigninLockout ---------------------------
(***************************************************************************)
(* The lockout of POST /api/auth/signin: SigninAttemptService's in-memory  *)
(* records and the part of AuthService.signin that consults them.  The     *)
(* gate and the recording of its outcome are separated by two awaits (the  *)
(* user read, the bcrypt comparison), so several sign-ins for one key can  *)
(* be between the two.  A key is an e-mail and a client address.           *)
(***************************************************************************)
EXTENDS Integers, FiniteSets

CONSTANTS Callers,        \* sign-in calls that may run at a time
          Keys,
          MaxAttempts,    \* SIGNIN_MAX_ATTEMPTS
          LockoutTicks,   \* SIGNIN_LOCKOUT_MINUTES, in ticks of the clock
          MaxTime         \* bound: the clock stops here

ASSUME CallersFinite == IsFiniteSet(Callers)
ASSUME LimitsPositive == MaxAttempts \in Nat \ {0} /\ LockoutTicks \in Nat \ {0}
ASSUME MaxTimeNat == MaxTime \in Nat

VARIABLES
  store,    \* SigninAttemptService.store: the record of a key
  now,      \* Date.now()
  pc,       \* of a caller: its await, or the answer of its last call
  key,      \* of a caller: the key of its last call
  misses    \* history: wrong passwords answered for a key since its last lapsed
            \* lock, correct password or restart

vars == <<store, now, pc, key, misses>>

Unlocked == -1          \* lockedUntil is undefined

Records == [failures : Nat, lockedUntil : Nat \union {Unlocked}]

\* A key without a record: checkAllowed and recordFailure treat it as this one.
Fresh == [failures |-> 0, lockedUntil |-> Unlocked]

Answers == {"none", "refused", "failed", "signedIn", "error"}

TypeOK ==
  /\ store \in [Keys -> Records]
  /\ now \in Nat
  /\ pc \in [Callers -> Answers \union {"comparing"}]
  /\ key \in [Callers -> Keys]
  /\ misses \in [Keys -> Nat]

Init ==
  /\ store = [k \in Keys |-> Fresh]
  /\ now = 0
  /\ pc = [c \in Callers |-> "none"]
  /\ key \in [Callers -> Keys]
  /\ misses = [k \in Keys |-> 0]

-----------------------------------------------------------------------------
(* SigninAttemptService *)

HasLock(k) == store[k].lockedUntil # Unlocked

Locked(k) == HasLock(k) /\ now < store[k].lockedUntil

\* Mutant: the lock ends one tick early.
LapsedEarly(k) == HasLock(k) /\ now + 1 >= store[k].lockedUntil

Lapsed(k) == HasLock(k) /\ now >= store[k].lockedUntil

\* clear
Clear(k) == store' = [store EXCEPT ![k] = Fresh]

\* What checkAllowed answers ...
Allowed(k) == Lapsed(k) \/ (~HasLock(k) /\ store[k].failures < MaxAttempts)

\* ... and does: a lapsed record is dropped.
CheckAllowed(k) == IF Lapsed(k) THEN Clear(k) ELSE UNCHANGED store

\* Mutant: the limit is compared before the failure is counted.
LockAfterLate(failures, until) ==
  IF failures - 1 >= MaxAttempts THEN now + LockoutTicks ELSE until

\* Mutant: only the failure that reaches the limit sets a lock, a later one drops it.
LockAfterOnce(failures, until) ==
  IF failures = MaxAttempts THEN now + LockoutTicks ELSE Unlocked

\* Mutant: the lockout is subtracted.
LockAfterBackwards(failures, until) ==
  IF failures >= MaxAttempts THEN now - LockoutTicks ELSE until

\* lockedUntil after a failure: from the limit on, every failure locks anew.
LockAfter(failures, until) ==
  IF failures >= MaxAttempts THEN now + LockoutTicks ELSE until

\* recordFailure
RecordFailure(k) ==
  LET failures == store[k].failures + 1
  IN  store' = [store EXCEPT ![k] =
                  [failures |-> failures,
                   lockedUntil |-> LockAfter(failures, store[k].lockedUntil)]]

-----------------------------------------------------------------------------
(* AuthService.signin *)

Comparing(k) == {c \in Callers : pc[c] = "comparing" /\ key[c] = k}

Answer(c, a) == pc' = [pc EXCEPT ![c] = a]

\* The gate passes; the user read and the password comparison are awaited.
GatePasses(c, k) ==
  /\ pc[c] # "comparing"
  /\ Allowed(k)
  /\ CheckAllowed(k)
  /\ Answer(c, "comparing")
  /\ key' = [key EXCEPT ![c] = k]
  /\ misses' = IF HasLock(k) /\ ~Locked(k) THEN [misses EXCEPT ![k] = 0] ELSE misses
  /\ UNCHANGED now

GateRefuses(c, k) ==
  /\ pc[c] # "comparing"
  /\ ~Allowed(k)
  /\ CheckAllowed(k)
  /\ Answer(c, "refused")
  /\ key' = [key EXCEPT ![c] = k]
  /\ UNCHANGED <<now, misses>>

\* No such user, or the wrong password.
WrongPassword(c) ==
  /\ pc[c] = "comparing"
  /\ RecordFailure(key[c])
  /\ Answer(c, "failed")
  /\ misses' = [misses EXCEPT ![key[c]] = @ + 1]
  /\ UNCHANGED <<now, key>>

\* The right password: what follows (tokenVersion, signing) is in AuthSessions.
RightPassword(c) ==
  /\ pc[c] = "comparing"
  /\ Clear(key[c])
  /\ Answer(c, "signedIn")
  /\ misses' = [misses EXCEPT ![key[c]] = 0]
  /\ UNCHANGED <<now, key>>

\* The user read rejects: a 500, and no attempt is recorded.
ReadFails(c) ==
  /\ pc[c] = "comparing"
  /\ Answer(c, "error")
  /\ UNCHANGED <<store, now, key, misses>>

Tick ==
  /\ now < MaxTime
  /\ now' = now + 1
  /\ UNCHANGED <<store, pc, key, misses>>

\* The records live in the process.
Restart ==
  /\ store' = [k \in Keys |-> Fresh]
  /\ pc' = [c \in Callers |-> "none"]
  /\ misses' = [k \in Keys |-> 0]
  /\ UNCHANGED <<now, key>>

Next ==
  \/ \E c \in Callers, k \in Keys : GatePasses(c, k) \/ GateRefuses(c, k)
  \/ \E c \in Callers : WrongPassword(c) \/ RightPassword(c) \/ ReadFails(c)
  \/ Tick
  \/ Restart

Spec == Init /\ [][Next]_vars

-----------------------------------------------------------------------------
(* Properties *)

\* Callers that raced through the gate together can go over the limit, by at most
\* all but one of them: wrong passwords answered for a key, with the comparisons
\* under way, never exceed the limit by as many as the callers.
GuessBudget ==
  \A k \in Keys : misses[k] + Cardinality(Comparing(k)) < MaxAttempts + Cardinality(Callers)

\* A key whose misses have reached the limit has a lock, in force or lapsed: no
\* interleaving of late failures leaves it open.
LockedAtLimit == \A k \in Keys : misses[k] >= MaxAttempts => HasLock(k)

\* A lock in force is lifted before its time only by a restart or by the right password
\* of a call for its key that passed the gate before the lock did (auth.service.ts:98):
\* while it is in force nobody passes, and no other step shortens it.
LockKept ==
  [][\A k \in Keys :
       Locked(k) =>
         /\ Comparing(k)' \subseteq Comparing(k)
         /\ \/ HasLock(k)' /\ store'[k].lockedUntil >= store[k].lockedUntil
            \/ \E c \in Comparing(k) : pc'[c] = "signedIn"
            \/ \A c \in Callers : pc'[c] = "none"]_vars
=============================================================================
