CONSTANTS
  m1 = m1
  m2 = m2
  Consumers = {w1, w2}
  Messages = {m1, m2}
  Rank <- Order
  MaxFaults = 0
  RedisFaults = 1
  Bucket <- Streams
  None = None
SPECIFICATION QueuesSpec
INVARIANTS
  UnackedIsKept
CHECK_DEADLOCK FALSE
