SPECIFICATION FairSpec
CONSTANTS
  EagerBatching = FALSE
  SeparateOutputStream = FALSE
  UsesImplicitState = TRUE
  ShapeInputs = FALSE
  ShapeOutputs = FALSE
  Requests = {r1}
  Faults <- StateFaults
  MaxRuns = 5
  MaxFaults = 1
PROPERTY
  ExecuteReturns
CHECK_DEADLOCK FALSE
