CONSTANTS
  c1 = c1
  c2 = c2
  c3 = c3
  k1 = k1
  k2 = k2
  Callers <- MCCallers
  Keys <- MCKeys
  MaxAttempts = 2
  LockoutTicks = 2
  MaxTime = 4
SPECIFICATION Spec
INVARIANTS
  TypeOK
  GuessBudget
  LockedAtLimit
PROPERTIES
  LockKept
