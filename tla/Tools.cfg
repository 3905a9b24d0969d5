SPECIFICATION Spec
CONSTANTS
  a = a
  b = b
  None = None
  Callers = {a, b}
  Setups <- AllSetups
  MaxGen = 2
  MaxNotices = 1
  Burst = 1
  Interval = 2
INVARIANTS
  OwnResponse
  OneDecoder
  RunsWithinAttempts
  RateHeld
PROPERTIES
  OnlyPoisonedReplaced
  CallsEnd
