SPECIFICATION Spec
CONSTANTS
  Configs = {c1, c2}
  NoId = NoId
  MaxLaunches = 2
  MaxEvents = 2
  MaxClicks = 3
  InOrder = FALSE
  Lingers = FALSE
PROPERTIES
  OldTerminalHarmless
CHECK_DEADLOCK FALSE
