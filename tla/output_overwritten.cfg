SPECIFICATION FairSpec
CONSTANTS
  EagerBatching = TRUE
  SeparateOutputStream = TRUE
  UsesImplicitState = FALSE
  ShapeInputs = FALSE
  ShapeOutputs = FALSE
  Requests = {r1}
  Faults <- NoFaults
  MaxRuns = 5
  MaxFaults = 1
INVARIANT
  OutputBufferSafe
CHECK_DEADLOCK FALSE
