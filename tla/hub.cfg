SPECIFICATION FairSpec
CONSTANTS
  c1 = c1  c2 = c2
  Clients <- TwoClients
  BroadcastCap = 2
  SendCap = 1
  MaxMessages = 3
INVARIANTS UpToDate
PROPERTIES GoneIsForgotten
CHECK_DEADLOCK FALSE
