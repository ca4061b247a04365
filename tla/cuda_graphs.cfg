SPECIFICATION Spec
CONSTANTS
  MaxBatchSize = 4
  SeparateOutputStream = FALSE
  Inputs <- MCInputs
  Profiles <- MCProfiles
  Configurations <- MCConfigurations
  Preferred = {2}
  Batches <- MCBatches
  MaxFailures = 1
INVARIANTS
  TypeOK
  SpecServesItsRange
  GraphHoldsBatch
  ClosestGraphLaunched
  AdmittedBatchRuns
CHECK_DEADLOCK FALSE
