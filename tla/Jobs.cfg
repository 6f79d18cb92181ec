CONSTANTS
  d1 = d1
  d2 = d2
  na = na
  nb = nb
  nc = nc
  res = res
  ua = ua
  ub = ub
  uk = uk
  r1 = r1
  r2 = r2
  r3 = r3
  ka = ka
  kb = kb
  h1 = h1
  h2 = h2
  Requests = {r1, r2, r3}
  Inputs <- ThreeCalls
  Backends = {TRUE, FALSE}
  Limit = 2
  Capacity = 1
  Quota <- FaultQuota
  MaxKinds = 2
  Processes = {d1, d2}
  Tasks = {na, nb, nc}
  Resources = {res}
  Scenes <- Notices
  RetryLimit = 1
  SendFaults = 1
  MaxHookChanges = 1
  MaxRestarts = 1
  Absent = Absent
  Nil = Nil
SPECIFICATION JobsSpec
INVARIANTS
  Idempotent
  KeepsWhatItTook
  DeliveriesAreSound
  JobsAreSound
  TracksAreSound
PROPERTIES
  SlotsComeBack
CHECK_DEADLOCK FALSE
