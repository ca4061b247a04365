SPECIFICATION FairSpec
CONSTANTS
  i1 = i1
  i2 = i2
  i3 = i3
  gpu0 = gpu0
  gpu1 = gpu1
  Instances = {i1, i2, i3}
  Devices = {gpu0, gpu1}
  DeviceOf <- ThreeOnTwo
  MaxExecutions = 7
INVARIANTS
  TypeOK
  SlotsOfOwnInstance
  OneCallPerInstance
PROPERTIES
  RoundRobin
  ExecuteReturns
