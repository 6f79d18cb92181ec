CONSTANTS
  ta = ta
  tb = tb
  xa = xa
  xb = xb
  q1 = q1
  q2 = q2
  dp = dp
  qp = qp
  m1 = m1
  m2 = m2
  hk = hk
  g1 = g1
  g2 = g2
  pk = pk
  gr1 = gr1
  gr2 = gr2
  gr3 = gr3
  f0 = f0
  f1 = f1
  f2 = f2
  fa = fa
  fb = fb
  s1 = s1
  s2 = s2
  s3 = s3
  s4 = s4
  va = va
  vb = vb
  e1 = e1
  e2 = e2
  d1 = d1
  d2 = d2
  rp = rp
  rq = rq
  ba = ba
  bb = bb
  oa = oa
  ob = ob
  ra = ra
  rb = rb
  Nodes = {q1, q2}
  Tasks = {ta, tb}
  Homes <- AccessHomes
  Projects = {dp, qp}
  Default = dp
  Apps = {xa, xb}
  Hooks = {hk}
  Members = {m1, m2}
  Documents <- AccessDocuments
  Workloads <- Accesses
  Grace = 1
  KeptKeys = 2
  DayLength = 2
  MaxTime = 2
  MaxFaults = 1
  Workers = {w1}
  InProcess = TRUE
  Postgres = FALSE
  MaxRetries = 1
  NBatches = 2
  Quota <- RunQuota
  MaxMsgs = 2
  Nil = Nil
  None = Nil
  Entry = Entry
SPECIFICATION ServicesSpec
INVARIANTS
  TypeOK
  JobIsExact
  JobCanRun
  AccessIsSound
  GalleryIsSound
  ServicesAreSound
PROPERTIES
  CompletedIsFinal
  CancelIsKept
  AccessSafe
CHECK_DEADLOCK FALSE
