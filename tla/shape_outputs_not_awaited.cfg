SPECIFICATION FairSpec
CONSTANTS
  EagerBatching = FALSE
  SeparateOutputStream = FALSE
  UsesImplicitState = FALSE
  ShapeInputs = FALSE
  ShapeOutputs = TRUE
  Requests = {r1}
  Faults <- NoFaults
  MaxRuns = 4
  MaxFaults = 1
PROPERTY
  ComputeEndsAfterCopies
CHECK_DEADLOCK FALSE
