CONSTANTS
  c1 = c1
  c2 = c2
  staff = staff
  Callers <- MCCallers
  Emails <- MCEmails
  AdminEmail <- staff
  TokenLife = 1
  MaxTime = 1
  MaxVersion = 2
SPECIFICATION Spec
SYMMETRY MCSymmetry
INVARIANTS
  TypeOK
  OneLiveSession
  StaleRefused
  SignedOutRefused
  RevocationKept
  AdminClaimsTrue
  BootstrapPostcondition
