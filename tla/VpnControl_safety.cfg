SPECIFICATION Spec
CONSTANTS
  Configs = {c1, c2}
  NoId = NoId
  MaxLaunches = 2
  MaxEvents = 2
  MaxClicks = 4
  InOrder = FALSE
  Lingers = FALSE
SYMMETRY ConfigSymmetry
INVARIANTS
  TypeOK
  ConnectingHasCall
  ActiveIsSaved
  TunnelOwned
PROPERTIES
  ExtensionSpec
CHECK_DEADLOCK FALSE
