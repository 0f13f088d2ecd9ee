SPECIFICATION Spec
CONSTANTS
  Ids = {n1, n2, n3, n4}
  NoId = NoId
  RekeyTimeout = 2
  RekeyAfterTime = 1
  Keepalive = 1
  MaxAge = 2
  MaxInFlight = 2
SYMMETRY IdSymmetry
INVARIANTS
  TypeOK
  IndicesDistinct
  UnracedSessionSound
PROPERTIES
  KeysInstalledOnce
  ThirdInitiationWaits
