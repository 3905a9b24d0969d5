SPECIFICATION Spec
CONSTANTS
  triage = triage
  report = report
  none = none
  NoQueue = none
  Queues <- MCQueues
  Out <- Pipeline
  Routes <- Both
  Concurrency <- OneEach
  MaxAttempts <- TwoEach
  MaxHides = 1
  MaxDeletes = 0
  Faults = {}
INVARIANT
  DeadLetterExhausted
CHECK_DEADLOCK FALSE
