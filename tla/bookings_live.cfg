SPECIFICATION FairSpec
CONSTANTS
  r1 = r1
  r2 = r2
  b1 = b1
  b2 = b2
  n1 = n1
  n2 = n2
  Requests <- MCOneRequest
  Ids <- MCIds
  Refs <- MCOneRef
  Tries = 2
  Configured <- MCAnyEnvironment
  Dates <- MCNullOrDate
PROPERTIES
  CreateAnswered
  EventSettled
