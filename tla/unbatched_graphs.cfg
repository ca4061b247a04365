SPECIFICATION Spec
CONSTANTS
  MaxBatchSize = 0
  SeparateOutputStream = FALSE
  Inputs <- MCInputs
  Profiles <- MCProfiles
  Configurations <- UnbatchedConfigurations
  Preferred = {2}
  Batches <- MCBatches
  MaxFailures = 0
INVARIANT
  SpecServesItsRange
CHECK_DEADLOCK FALSE
