SPECIFICATION Spec
CONSTANTS
  Setups <- AllSetups
  Plain = {"act"}
  Buffered = {"big"}
  MaxRepeats <- Repeats
  Args = {1}
  MaxPages = 3
  MaxBatch = 2
INVARIANTS
  RequiredActs
  WithinRepeats
  ClearIsolates
  ResultsFollowCalls
PROPERTIES
  NextPageIsNew
  RunEnds
