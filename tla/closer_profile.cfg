SPECIFICATION Spec
CONSTANTS
  MaxBatchSize = 4
  SeparateOutputStream = FALSE
  Inputs <- MCInputs
  Profiles <- MCProfiles
  Configurations <- MCConfigurations
  Preferred = {2}
  Batches <- MCBatches
  MaxFailures = 0
INVARIANT
  ClosestProfileSelected
CHECK_DEADLOCK FALSE
