SPECIFICATION Spec
CONSTANTS
  r1 = r1
  r2 = r2
  b1 = b1
  b2 = b2
  n1 = n1
  n2 = n2
  Requests <- MCRequests
  Ids <- MCIds
  Refs <- MCRefs
  Tries = 1
  Configured <- MCConfigured
  Dates <- MCNull
SYMMETRY MCSymmetry
INVARIANTS
  RefsUnique
  ConflictExplained
  CreatedIsAnnounced
  AnnouncedOnce
  ResolvedStamped
  RemovedOnce
PROPERTIES
  DeletedStaysDeleted
  ImplementsRegister
