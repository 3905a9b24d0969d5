SPECIFICATION Spec
CONSTANTS
  NoFile = NoFile
  Ids = {x, y}
  MaxEnqueues = 3
  FailingOps = {"Enqueue", "Dequeue", "DequeueByIDs", "Drain"}
INVARIANTS
  AckedIsDurable
PROPERTY
  ImplementsDurableFifo
