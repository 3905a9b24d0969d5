SPECIFICATION FairSpec
CONSTANTS
  triage = triage
  report = report
  none = none
  NoQueue = none
  Queues <- MCQueues
  Out <- Pipeline
  Routes <- TriageOnly
  Concurrency <- TwoTriage
  MaxAttempts <- TwoTriage
  MaxHides = 2
  MaxDeletes = 1
  Faults = {"load", "run", "write", "put", "delete", "save", "panic", "crash", "operator"}
INVARIANTS
  ArtifactOnce
  DeadLetterJustified
  Accounted
  OneCopy
  HideRetained
PROPERTY
  EveryItemSettles
  ImplementsItemLife
CHECK_DEADLOCK FALSE
