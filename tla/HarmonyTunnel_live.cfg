SPECIFICATION FairSpec
CONSTANTS
  Ids = {n1, n2, n3}
  NoId = NoId
  RekeyTimeout = 1
  RekeyAfterTime = 1
  Keepalive = 0
  MaxAge = 1
  MaxInFlight = 1
PROPERTIES
  KeepsTrying
