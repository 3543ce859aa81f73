------------------------ MODULE SigninLockout_proofs ------------------------
(***************************************************************************)
(* The lockout holds for any callers, keys, limit, lockout and clock.      *)
(***************************************************************************)
EXTENDS SigninLockout, TLAPS, FiniteSetTheorems

\* The record counts the misses; it has a lock exactly from the limit on; and no
\* lock reaches further than one lockout from now.
RecordInv ==
  \A k \in Keys :
    /\ store[k].failures = misses[k]
    /\ HasLock(k) <=> store[k].failures >= MaxAttempts
    /\ store[k].lockedUntil <= now + LockoutTicks

IInv == TypeOK /\ RecordInv /\ GuessBudget

-----------------------------------------------------------------------------

LEMMA TypeStep == TypeOK /\ [Next]_vars => TypeOK'
<1> SUFFICES ASSUME TypeOK, [Next]_vars PROVE TypeOK'
  OBVIOUS
<1> USE DEF Next, vars, GatePasses, GateRefuses, WrongPassword, RightPassword, ReadFails,
            Tick, Restart, Answer
<1>1. pc' \in [Callers -> Answers \union {"comparing"}] /\ key' \in [Callers -> Keys]
  BY DEF TypeOK, Answers
<1>2. now' \in Nat
  BY DEF TypeOK
<1>3. misses' \in [Keys -> Nat]
  BY DEF TypeOK
<1>4. store' \in [Keys -> Records]
  <2>1. Fresh \in Records
    BY DEF Fresh, Records
  <2>2. /\ store \in [Keys -> Records] /\ key \in [Callers -> Keys] /\ now \in Nat
        /\ LockoutTicks \in Nat
    BY LimitsPositive DEF TypeOK
  <2>3. ASSUME NEW k \in Keys, RecordFailure(k)  PROVE store' \in [Keys -> Records]
    <3>1. store[k].failures + 1 \in Nat
      BY <2>2 DEF Records
    <3>2. LockAfter(store[k].failures + 1, store[k].lockedUntil) \in Nat \union {Unlocked}
      BY <2>2 DEF LockAfter, Records
    <3> QED  BY <2>2, <2>3, <3>1, <3>2 DEF RecordFailure, Records
  <2>4. \/ store' = store \/ store' = [k \in Keys |-> Fresh]
        \/ \E k \in Keys : Clear(k) \/ RecordFailure(k)
    BY <2>2 DEF CheckAllowed
  <2> QED  BY <2>1, <2>2, <2>3, <2>4 DEF Clear
<1> QED  BY <1>1, <1>2, <1>3, <1>4 DEF TypeOK

LEMMA RecordStep == TypeOK /\ RecordInv /\ [Next]_vars => RecordInv'
<1> SUFFICES ASSUME TypeOK, RecordInv, [Next]_vars, NEW k \in Keys
             PROVE  /\ store'[k].failures = misses'[k]
                    /\ HasLock(k)' <=> store'[k].failures >= MaxAttempts
                    /\ store'[k].lockedUntil <= now' + LockoutTicks
  BY DEF RecordInv
<1> DEFINE Goal == /\ store'[k].failures = misses'[k]
                   /\ HasLock(k)' <=> store'[k].failures >= MaxAttempts
                   /\ store'[k].lockedUntil <= now' + LockoutTicks
<1>t. /\ store \in [Keys -> Records] /\ now \in Nat /\ misses \in [Keys -> Nat]
      /\ key \in [Callers -> Keys]
      /\ MaxAttempts \in Nat \ {0} /\ LockoutTicks \in Nat
  BY LimitsPositive DEF TypeOK
<1>i. /\ store[k].failures = misses[k]
      /\ store[k].lockedUntil # Unlocked <=> store[k].failures >= MaxAttempts
      /\ store[k].lockedUntil <= now + LockoutTicks
      /\ store[k].failures \in Nat /\ store[k].lockedUntil \in Nat \union {Unlocked}
  BY <1>t DEF RecordInv, HasLock, Records
<1>f. /\ Fresh.failures = 0 /\ Fresh.lockedUntil = Unlocked
      /\ Unlocked <= now + LockoutTicks
  BY <1>t DEF Fresh, Unlocked
<1> HIDE DEF Unlocked
<1>1. ASSUME NEW c \in Callers, NEW j \in Keys, GatePasses(c, j)  PROVE Goal
  <2>1. CASE Lapsed(j)
    BY <1>1, <1>t, <1>i, <1>f, <2>1
       DEF GatePasses, CheckAllowed, Clear, HasLock, Lapsed, Locked
  <2>2. CASE ~Lapsed(j)
    BY <1>1, <1>t, <1>i, <2>2, LimitsPositive
       DEF GatePasses, CheckAllowed, HasLock, Lapsed, Locked, Allowed
  <2> QED  BY <2>1, <2>2
<1>2. ASSUME NEW c \in Callers, NEW j \in Keys, GateRefuses(c, j)  PROVE Goal
  BY <1>2, <1>i DEF GateRefuses, CheckAllowed, Allowed, HasLock
<1>3. ASSUME NEW c \in Callers, WrongPassword(c)  PROVE Goal
  <2>1. CASE key[c] = k
    <3>1. /\ store'[k].failures = store[k].failures + 1
          /\ store'[k].lockedUntil = LockAfter(store[k].failures + 1, store[k].lockedUntil)
          /\ misses'[k] = misses[k] + 1 /\ now' = now
      BY <1>3, <1>t, <2>1 DEF WrongPassword, RecordFailure
    <3> QED  BY <1>t, <1>i, <3>1 DEF HasLock, LockAfter, Unlocked
  <2>2. CASE key[c] # k
    BY <1>3, <1>t, <1>i, <2>2 DEF WrongPassword, RecordFailure, HasLock
  <2> QED  BY <2>1, <2>2
<1>4. ASSUME NEW c \in Callers, RightPassword(c)  PROVE Goal
  BY <1>4, <1>t, <1>i, <1>f DEF RightPassword, Clear, HasLock
<1>5. ASSUME NEW c \in Callers, ReadFails(c)  PROVE Goal
  BY <1>5, <1>i DEF ReadFails, HasLock
<1>6. CASE Tick
  BY <1>6, <1>t, <1>i DEF Tick, HasLock, Unlocked
<1>7. CASE Restart
  BY <1>7, <1>t, <1>f DEF Restart, HasLock
<1>8. CASE UNCHANGED vars
  BY <1>8, <1>i DEF vars, HasLock
<1> QED  BY <1>1, <1>2, <1>3, <1>4, <1>5, <1>6, <1>7, <1>8 DEF Next

\* The comparisons under way on a key are finitely many, at most one a caller.
LEMMA ComparingFinite ==
  ASSUME NEW k
  PROVE  /\ IsFiniteSet(Comparing(k)) /\ Cardinality(Comparing(k)) \in Nat
         /\ Cardinality(Comparing(k)) <= Cardinality(Callers)
         /\ Cardinality(Callers) \in Nat
<1>1. Comparing(k) \subseteq Callers
  BY DEF Comparing
<1> QED  BY <1>1, CallersFinite, FS_Subset, FS_CardinalityType

LEMMA BudgetStep == TypeOK /\ RecordInv /\ GuessBudget /\ [Next]_vars => GuessBudget'
<1> SUFFICES ASSUME TypeOK, RecordInv, GuessBudget, [Next]_vars, NEW k \in Keys
             PROVE  misses'[k] + Cardinality(Comparing(k)') < MaxAttempts + Cardinality(Callers)
  BY DEF GuessBudget
<1> DEFINE Goal == misses'[k] + Cardinality(Comparing(k)') < MaxAttempts + Cardinality(Callers)
<1>t. /\ store \in [Keys -> Records] /\ misses \in [Keys -> Nat]
      /\ pc \in [Callers -> Answers \union {"comparing"}] /\ key \in [Callers -> Keys]
      /\ MaxAttempts \in Nat \ {0}
  BY LimitsPositive DEF TypeOK
<1>i. misses[k] + Cardinality(Comparing(k)) < MaxAttempts + Cardinality(Callers)
  BY DEF GuessBudget
<1>c. /\ IsFiniteSet(Comparing(k)) /\ Cardinality(Comparing(k)) \in Nat
      /\ Cardinality(Callers) \in Nat
  BY ComparingFinite
<1>p. IsFiniteSet(Comparing(k)') /\ Cardinality(Comparing(k)') \in Nat
      /\ Cardinality(Comparing(k)') <= Cardinality(Callers)
  <2>1. Comparing(k)' \subseteq Callers
    BY DEF Comparing
  <2> QED  BY <2>1, CallersFinite, FS_Subset, FS_CardinalityType
\* Fewer comparisons under way and no more misses keep the budget.
<1>k. ASSUME misses'[k] <= misses[k], misses'[k] \in Nat, Comparing(k)' \subseteq Comparing(k)
      PROVE  Goal
  <2>1. Cardinality(Comparing(k)') <= Cardinality(Comparing(k))
    BY <1>k, <1>c, FS_Subset
  <2> QED  BY <1>i, <1>c, <1>p, <1>k, <1>t, <2>1
<1>1. ASSUME NEW c \in Callers, NEW j \in Keys, GatePasses(c, j)  PROVE Goal
  <2>1. CASE j = k
    <3>1. misses'[k] \in Nat /\ misses'[k] < MaxAttempts
      <4>1. CASE HasLock(k) /\ ~Locked(k)
        BY <1>1, <1>t, <2>1, <4>1 DEF GatePasses
      <4>2. CASE HasLock(k) /\ Locked(k)
        <5>1. store[k].lockedUntil \in Nat /\ now \in Nat
          BY <1>t, <4>2 DEF HasLock, Records, TypeOK
        <5> QED  BY <1>1, <2>1, <4>2, <5>1 DEF GatePasses, Allowed, Lapsed, Locked
      <4>3. CASE ~HasLock(k)
        <5>1. misses'[k] = misses[k] /\ store[k].failures < MaxAttempts
          BY <1>1, <2>1, <4>3 DEF GatePasses, Allowed, Lapsed
        <5> QED  BY <1>t, <5>1 DEF RecordInv
      <4> QED  BY <4>1, <4>2, <4>3
    <3> QED  BY <1>p, <1>t, <1>c, <3>1
  <2>2. CASE j # k
    <3>1. misses'[k] = misses[k] /\ Comparing(k)' \subseteq Comparing(k)
      BY <1>1, <1>t, <2>2 DEF GatePasses, Answer, Comparing
    <3> QED  BY <1>k, <1>t, <3>1
  <2> QED  BY <2>1, <2>2
<1>2. ASSUME NEW c \in Callers, NEW j \in Keys, GateRefuses(c, j)  PROVE Goal
  <2>1. misses'[k] = misses[k] /\ Comparing(k)' \subseteq Comparing(k)
    BY <1>2, <1>t DEF GateRefuses, Answer, Comparing
  <2> QED  BY <1>k, <1>t, <2>1
<1>3. ASSUME NEW c \in Callers, WrongPassword(c)  PROVE Goal
  <2>1. CASE key[c] = k
    <3>1. misses'[k] = misses[k] + 1
      BY <1>3, <1>t, <2>1 DEF WrongPassword
    <3>2. c \in Comparing(k) /\ Comparing(k)' = Comparing(k) \ {c}
      BY <1>3, <1>t, <2>1 DEF WrongPassword, Answer, Comparing
    <3>3. Cardinality(Comparing(k)') = Cardinality(Comparing(k)) - 1
      BY <1>c, <3>2, FS_RemoveElement
    <3> QED  BY <1>i, <1>t, <1>c, <3>1, <3>3
  <2>2. CASE key[c] # k
    <3>1. misses'[k] = misses[k] /\ Comparing(k)' \subseteq Comparing(k)
      BY <1>3, <1>t, <2>2 DEF WrongPassword, Answer, Comparing
    <3> QED  BY <1>k, <1>t, <3>1
  <2> QED  BY <2>1, <2>2
<1>4. ASSUME NEW c \in Callers, RightPassword(c) \/ ReadFails(c)  PROVE Goal
  <2>1. Comparing(k)' \subseteq Comparing(k)
    BY <1>4, <1>t DEF RightPassword, ReadFails, Answer, Comparing
  <2>2. misses'[k] \in {0, misses[k]}
    BY <1>4, <1>t DEF RightPassword, ReadFails
  <2> QED  BY <1>k, <1>t, <2>1, <2>2
<1>5. CASE Tick \/ UNCHANGED vars
  <2>1. misses'[k] = misses[k] /\ Comparing(k)' \subseteq Comparing(k)
    BY <1>5 DEF Tick, vars, Comparing
  <2> QED  BY <1>k, <1>t, <2>1
<1>6. CASE Restart
  <2>1. misses'[k] = 0 /\ Comparing(k)' = {}
    BY <1>6 DEF Restart, Comparing
  <2> QED  BY <1>k, <1>t, <2>1
<1> QED  BY <1>1, <1>2, <1>3, <1>4, <1>5, <1>6 DEF Next

-----------------------------------------------------------------------------

LEMMA Invariance == Spec => []IInv
<1>1. Init => IInv
  <2> SUFFICES ASSUME Init PROVE IInv
    OBVIOUS
  <2>1. TypeOK
    BY DEF Init, TypeOK, Records, Fresh, Answers
  <2>2. RecordInv
    BY LimitsPositive DEF Init, RecordInv, HasLock, Fresh, Unlocked
  <2>3. ASSUME NEW k \in Keys
        PROVE  misses[k] + Cardinality(Comparing(k)) < MaxAttempts + Cardinality(Callers)
    <3>1. misses[k] = 0 /\ Comparing(k) = {}
      BY DEF Init, Comparing
    <3> QED  BY <3>1, FS_EmptySet, LimitsPositive, CallersFinite, FS_CardinalityType
  <2> QED  BY <2>1, <2>2, <2>3 DEF IInv, GuessBudget
<1>2. IInv /\ [Next]_vars => IInv'
  BY TypeStep, RecordStep, BudgetStep DEF IInv
<1> QED  BY <1>1, <1>2, PTL DEF Spec

\* Type correctness, for every limit, lockout and clock.
THEOREM TypeCorrect == Spec => []TypeOK
<1>1. IInv => TypeOK
  BY DEF IInv
<1> QED  BY <1>1, Invariance, PTL

\* The guesses that racing callers can make on a key are bounded.
THEOREM GuessesBounded == Spec => []GuessBudget
<1>1. IInv => GuessBudget
  BY DEF IInv
<1> QED  BY <1>1, Invariance, PTL

\* A key at the limit has a lock.
THEOREM LimitLocks == Spec => []LockedAtLimit
<1>1. IInv => LockedAtLimit
  BY DEF IInv, RecordInv, LockedAtLimit
<1> QED  BY <1>1, Invariance, PTL

\* The steps that may lift or shorten a lock in force.
Lifted(k) ==
  \/ HasLock(k)' /\ store'[k].lockedUntil >= store[k].lockedUntil
  \/ \E c \in Comparing(k) : pc'[c] = "signedIn"
  \/ \A c \in Callers : pc'[c] = "none"

LEMMA LockStep == IInv /\ [Next]_vars => \A k \in Keys : Locked(k) => Lifted(k)
<1> SUFFICES ASSUME IInv, [Next]_vars, NEW k \in Keys, Locked(k)  PROVE Lifted(k)
  OBVIOUS
<1>t. /\ store \in [Keys -> Records] /\ now \in Nat
      /\ key \in [Callers -> Keys] /\ pc \in [Callers -> Answers \union {"comparing"}]
      /\ MaxAttempts \in Nat \ {0} /\ LockoutTicks \in Nat
  BY LimitsPositive DEF IInv, TypeOK
<1>i. /\ store[k].failures >= MaxAttempts /\ store[k].failures \in Nat
      /\ store[k].lockedUntil \in Nat /\ store[k].lockedUntil # Unlocked
      /\ store[k].lockedUntil <= now + LockoutTicks
  BY <1>t DEF IInv, RecordInv, Locked, HasLock, Records
<1>s. ASSUME store'[k] = store[k]  PROVE Lifted(k)
  BY <1>i, <1>s DEF Lifted, HasLock
<1>1. ASSUME NEW c \in Callers, NEW j \in Keys, GatePasses(c, j) \/ GateRefuses(c, j)
      PROVE  Lifted(k)
  <2>1. ~Lapsed(k)
    BY <1>t, <1>i DEF Lapsed, Locked
  <2>2. store'[k] = store[k]
    BY <1>1, <1>t, <2>1 DEF GatePasses, GateRefuses, CheckAllowed, Clear
  <2> QED  BY <1>s, <2>2
<1>2. ASSUME NEW c \in Callers, WrongPassword(c)  PROVE Lifted(k)
  <2>1. CASE key[c] = k
    <3>1. store'[k].lockedUntil = now + LockoutTicks
      BY <1>2, <1>t, <1>i, <2>1 DEF WrongPassword, RecordFailure, LockAfter
    <3> QED  BY <1>t, <1>i, <3>1 DEF Lifted, HasLock, Unlocked
  <2>2. CASE key[c] # k
    BY <1>2, <1>s, <1>t, <2>2 DEF WrongPassword, RecordFailure
  <2> QED  BY <2>1, <2>2
<1>3. ASSUME NEW c \in Callers, RightPassword(c)  PROVE Lifted(k)
  <2>1. CASE key[c] = k
    BY <1>3, <1>t, <2>1 DEF RightPassword, Answer, Comparing, Lifted
  <2>2. CASE key[c] # k
    BY <1>3, <1>s, <1>t, <2>2 DEF RightPassword, Clear
  <2> QED  BY <2>1, <2>2
<1>4. ASSUME NEW c \in Callers, ReadFails(c)  PROVE Lifted(k)
  BY <1>4, <1>s DEF ReadFails
<1>5. CASE Tick \/ UNCHANGED vars
  BY <1>5, <1>s DEF Tick, vars
<1>6. CASE Restart
  BY <1>6 DEF Restart, Lifted
<1> QED  BY <1>1, <1>2, <1>3, <1>4, <1>5, <1>6 DEF Next

\* Nobody passes the gate of a key whose lock is in force.
LEMMA GateStep ==
  ASSUME IInv, [Next]_vars, NEW k \in Keys, Locked(k)
  PROVE  Comparing(k)' \subseteq Comparing(k)
<1>t. /\ store \in [Keys -> Records] /\ now \in Nat
      /\ key \in [Callers -> Keys] /\ pc \in [Callers -> Answers \union {"comparing"}]
  BY DEF IInv, TypeOK
<1> SUFFICES ASSUME NEW d \in Callers, pc'[d] = "comparing", key'[d] = k
             PROVE  pc[d] = "comparing" /\ key[d] = k
  BY DEF Comparing
<1>1. ASSUME NEW c \in Callers, NEW j \in Keys, GatePasses(c, j)
      PROVE  pc[d] = "comparing" /\ key[d] = k
  <2>1. ~Allowed(k)
    BY <1>t DEF Locked, Allowed, Lapsed, HasLock, Records
  <2>2. j # k
    BY <1>1, <2>1 DEF GatePasses
  <2> QED  BY <1>1, <1>t, <2>2 DEF GatePasses, Answer
<1>2. ASSUME NEW c \in Callers, NEW j \in Keys, GateRefuses(c, j)
      PROVE  pc[d] = "comparing" /\ key[d] = k
  BY <1>2, <1>t DEF GateRefuses, Answer
<1>3. ASSUME NEW c \in Callers, WrongPassword(c) \/ RightPassword(c) \/ ReadFails(c)
      PROVE  pc[d] = "comparing" /\ key[d] = k
  BY <1>3, <1>t DEF WrongPassword, RightPassword, ReadFails, Answer
<1>4. CASE Tick \/ Restart \/ UNCHANGED vars
  BY <1>4 DEF Tick, Restart, vars
<1> QED  BY <1>1, <1>2, <1>3, <1>4 DEF Next

\* A lock in force is lifted early only by a restart or a call of its own key that was
\* past the gate before it.
THEOREM LocksKept == Spec => LockKept
<1> DEFINE Kept == \A k \in Keys :
                     Locked(k) =>
                       /\ Comparing(k)' \subseteq Comparing(k)
                       /\ \/ HasLock(k)' /\ store'[k].lockedUntil >= store[k].lockedUntil
                          \/ \E c \in Comparing(k) : pc'[c] = "signedIn"
                          \/ \A c \in Callers : pc'[c] = "none"
<1>1. IInv /\ [Next]_vars => Kept
  BY LockStep, GateStep DEF Lifted
<1>2. IInv /\ [Next]_vars => [Kept]_vars
  BY <1>1
<1>3. Spec => [][Kept]_vars
  BY <1>2, Invariance, PTL DEF Spec
<1> QED  BY <1>3 DEF LockKept
=============================================================================
