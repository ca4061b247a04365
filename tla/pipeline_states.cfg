SPECIFICATION FairSpec
CONSTANTS
  EagerBatching = TRUE
  SeparateOutputStream = TRUE
  UsesImplicitState = TRUE
  ShapeInputs = FALSE
  ShapeOutputs = FALSE
  Requests = {r1, r2}
  Faults <- AllFaults
  MaxRuns = 4
  MaxFaults = 2
INVARIANTS
  AnsweredOnce
  BarrierOfPayload
PROPERTIES
  OnlyLostThreadBlocks
CHECK_DEADLOCK FALSE
