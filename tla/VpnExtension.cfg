SPECIFICATION ExtensionSpec
CONSTANTS
  Configs = {c1}
  NoId = NoId
  MaxLaunches = 3
  MaxEvents = 1
  Lingers = TRUE
INVARIANTS
  ExtensionTypeOK
  BeatsOwnPeer
