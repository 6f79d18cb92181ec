CONSTANTS
  r1 = r1
  r2 = r2
  r3 = r3
  r4 = r4
  r5 = r5
  sA = sA
  sB = sB
  sC = sC
  g = g
  t1 = t1
  t2 = t2
  t3 = t3
  k1 = k1
  k2 = k2
  k3 = k3
  Requests = {r1, r2, r3, r4, r5}
  Inputs <- Workloads
  MaxBatch = 2
  MaxQueue = 3
  MaxFaults = 2
  Nil = Nil
  None = None
  Tasks = {t1, t2, t3}
  Keys = {k1, k2, k3}
  Calls <- AllCalls
  MaxLoaded = 1
  Permits = 1
  GpuLimit = 1
  RunFaults = 1
  AuditFaults = 1
SPECIFICATION ServingSpec
INVARIANTS
  BatchesAreSound
  RarelyOvertaken
  BundlesAreSound
PROPERTIES
  SettledOnce
  AllSettle
CHECK_DEADLOCK FALSE
