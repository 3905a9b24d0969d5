SPECIFICATION ManagerSpec
CONSTANTS
  p1 = p1
  p2 = p2
  p3 = p3
  Missing = Missing
  Producers <- MCProducers
  IfAbsent <- OneChecks
  Id <- SameId
  MaxRetries = 2
  Modes <- BothModes
INVARIANTS
  StaticIsDurable
  DeliveredOnce
CHECK_DEADLOCK FALSE
