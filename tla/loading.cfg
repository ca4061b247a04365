SPECIFICATION FairSpec
CONSTANTS
  m1 = m1
  m2 = m2
  m3 = m3
  a1 = a1
  a2 = a2
  a3 = a3
  b1 = b1
  c1 = c1
  t1 = t1
  t2 = t2
  None = None
  Models = {m1, m2, m3}
  Instances = {a1, a2, a3, b1, c1}
  Threads = {t1, t2}
  ModelOf <- MCModelOf
  PlaceOf <- MCPlaceOf
  FirstGPU <- MCFirstGPU
  Worlds <- MCWorlds
INVARIANTS
  TypeOK
  DynamicEngineExclusive
  SharedWhileEnabled
  RuntimeOutlivesEngine
  HeldOnlyByAbandoned
  OwnGPUOnly
  BuffersHoldAdmitted
  ConfiguredShapesAdmitted
  CompletedConfigLoads
  CompletionStable
PROPERTY
  LoadReturns
CHECK_DEADLOCK FALSE
