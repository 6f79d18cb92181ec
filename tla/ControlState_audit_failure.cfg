CONSTANTS
  Procs = {p1, p2}
  Reversals = {r1, r2}
  Calls = {c1}
  r1 = r1
  r2 = r2
  c1 = c1
  k1 = k1
  k2 = k2
  t1 = t1
  t2 = t2
  v1 = v1
  v2 = v2
  a1 = a1
  a2 = a2
  a3 = a3
  d1 = d1
  d2 = d2
  s1 = s1
  s2 = s2
  sr1 = sr1
  sr2 = sr2
  Api = Api
  Ghost = Ghost
  sp1 = sp1
  sp2 = sp2
  ad1 = ad1
  ad2 = ad2
  it1 = it1
  it2 = it2
  Net = Net
  w0 = w0
  w1 = w1
  w2 = w2
  Keys = {k1, k2}
  Of <- KeyOf
  Quota <- AuditQuota
  Nil = Nil
  Versions = {v1, v2}
  Stable = v1
  Tasks = {t1, t2}
  Actors = {a1, a2, a3}
  Workloads <- Releases
  MaxFailures = 2
  Nothing = Nothing
SPECIFICATION ControlSpec
PROPERTIES
  NoSilentOverwrite
CHECK_DEADLOCK FALSE
