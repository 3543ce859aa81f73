SPECIFICATION Spec
CONSTANTS
  b1 = b1
  b2 = b2
  d1 = d1
  d2 = d2
  schema = schema
  Builds <- MCBuilds
  Databases <- MCDatabases
  NoDatabase = none
  Last = 3
  SimplifyUser = 2
  Placeholder = schema
  Hosts <- MCHosts
INVARIANTS
  ServedIsMigrated
  StopsForCause
PROPERTIES
  OnlyNamedResumed
