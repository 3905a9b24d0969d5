SPECIFICATION Spec
CONSTANTS
  e1 = e1
  left = left
  right = right
  none = none
  Events <- MCEvents
  Legs <- MCLegs
  NoEvent = none
  MaxAttempts = 2
  Size = 2
  CollectAttempts = 2
  Timeouts = TRUE
  Setups <- AllSetups
SYMMETRY LegSymmetry
INVARIANTS
  SiblingsKeepHide
  HideReclaimedWithoutFanIn
CHECK_DEADLOCK FALSE
