SPECIFICATION CollectSpec
CONSTANTS
  e1 = e1
  e2 = e2
  left = left
  right = right
  none = none
  Events <- MCEvents
  Legs <- MCLegs
  NoEvent = none
  Size = 2
  CollectAttempts = 2
  Timeouts = TRUE
  Setups <- AllSetups
INVARIANTS
  OnePlace
  WholeDecisions
PROPERTY
  OutputsSettle
CHECK_DEADLOCK FALSE
