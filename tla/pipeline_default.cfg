SPECIFICATION FairSpec
CONSTANTS
  EagerBatching = FALSE
  SeparateOutputStream = TRUE
  UsesImplicitState = FALSE
  ShapeInputs = TRUE
  ShapeOutputs = FALSE
  Requests = {r1}
  Faults <- RunFaults
  MaxRuns = 5
  MaxFaults = 1
INVARIANTS
  TypeOK
  StatisticsOfOwnRun
  EventSetExclusive
  InputBufferSafe
  OutputBufferSafe
  NoPayloadAtDestruction
PROPERTIES
  FinishesInOrder
  ExecuteReturns
