CONSTANTS
  c1 = c1
  c2 = c2
  staff = staff
  Callers <- MCCallers
  Emails <- MCEmails
  AdminEmail <- staff
  TokenLife = 2
  MaxTime = 2
  MaxVersion = 2
SPECIFICATION Spec
INVARIANT SignedOutForGood
