SPECIFICATION Spec
CONSTANTS
  a = a
  b = b
  HideId = HideId
  NoRoute = NoRoute
  Refused = Refused
  Setups <- AllSetups
INVARIANTS
  DepthBounded
  AnsweredIsKept
PROPERTY
  WorkflowCompletes
CHECK_DEADLOCK FALSE
