CONSTANTS
  r1 = r1
  r2 = r2
  r3 = r3
  server = server
  Requests <- MCRequests
  Server <- MCServer
  MaxFailedConnects = 1
SPECIFICATION FairSpec
INVARIANTS
  TypeOK
  CountMatches
  NoDisconnectUnderHandler
  HandlersConnected
PROPERTIES
  AcquireSettles
  ImplementsConnection
