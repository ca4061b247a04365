SPECIFICATION Spec
CONSTANTS
  MaxBatchSize = 4
  SeparateOutputStream = TRUE
  Inputs <- MCInputs
  Profiles <- MCProfiles
  Configurations <- MCConfigurations
  Preferred = {2}
  Batches <- MCBatches
  MaxFailures = 0
INVARIANT
  GraphUsesBuffersOfRun
CHECK_DEADLOCK FALSE
