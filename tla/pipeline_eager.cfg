SPECIFICATION Spec
CONSTANTS
  EagerBatching = TRUE
  SeparateOutputStream = FALSE
  UsesImplicitState = FALSE
  ShapeInputs = FALSE
  ShapeOutputs = TRUE
  Requests = {r1}
  Faults <- DeviceFaults
  MaxRuns = 6
  MaxFaults = 1
INVARIANTS
  SlotsConserved
  RunAheadBounded
  InputBufferSafe
PROPERTY
  ResponseAfterDeviceWork
