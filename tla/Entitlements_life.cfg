CONSTANTS
  q1 = q1
  q2 = q2
  y1 = y1
  y2 = y2
  b1 = b1
  b2 = b2
  Never = 9
  Nil = Nil
  e1 = e1
  e2 = e2
  tA = tA
  tB = tB
  p1 = p1
  p2 = p2
  i1 = i1
  i2 = i2
  j1 = j1
  j2 = j2
  k1 = k1
  k2 = k2
  use = use
  MaxEnts = 3
  Horizon = 3
  Terms <- MixedTerms
  Asked = {"offboarding", "closed"}
  Dates = {1}
  MaxFailing = 1
SPECIFICATION CommercialSpec
INVARIANTS
  GrantsAreCurrent
  GovernanceIsSound
  AuditIsSound
  RetentionIsSound
PROPERTIES
  EndingsAreFinal
CHECK_DEADLOCK FALSE
