SPECIFICATION FairSpec
CONSTANTS
  c1 = c1
  c2 = c2
  Clients <- MCClients
  MaxLines = 2
  BufferSize = 1
  Nothing = Nothing
  MaxFaults = 1
INVARIANTS
  PrefixReachesRedis
PROPERTIES
  CloseEndsOnceClientsLeave
  SentLinesForwarded
CHECK_DEADLOCK FALSE
