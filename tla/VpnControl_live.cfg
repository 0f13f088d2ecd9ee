SPECIFICATION FairSpec
CONSTANTS
  Configs = {c1, c2}
  NoId = NoId
  MaxLaunches = 2
  MaxEvents = 2
  MaxClicks = 3
  InOrder = TRUE
  Lingers = FALSE
PROPERTIES
  PageAgrees
CHECK_DEADLOCK FALSE
