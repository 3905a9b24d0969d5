SPECIFICATION Spec
CONSTANTS
  c = c
  p = p
  q = q
  k1 = k1
  k2 = k2
  NoJob = NoJob
  NoRun = NoRun
  Agents = {c, p, q}
  QueueAgents = {q}
  MaxConcurrent = 2
  MaxReg = 3
  Keys = {k1, k2}
  Batch = 2
  QueueMaxAttempts = 2
  MaxTries = 2
  MaxFaults = 1
  Setups <- WithWorker
PROPERTIES
  ServeStops
CHECK_DEADLOCK FALSE
