CONSTANTS
  A = A
  B = B
  Nodes <- MCNodes
  Configured <- MCConfigured
  RekeyTimeout = 1
  Keepalive = 1
  RekeyAfterTime = 1
  RejectAfterTime = 2
  RekeyAfterMessages = 2
  RejectAfterMessages = 2
  MaxInFlight = 1
  Budgets <- MCBudgets
SPECIFICATION Spec
INVARIANTS
  PeerTypeOK UnconfirmedSilent NoncesDistinct
  LinkFollowsSession KeysDistinct EndingAsks OnlyConfirmingTwice
CHECK_DEADLOCK FALSE
