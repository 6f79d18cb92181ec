CONSTANTS
  m1 = m1
  m2 = m2
  Consumers = {w1, w2}
  Messages = {m1, m2}
  Rank <- Order
  MaxFaults = 1
  RedisFaults = 2
  Bucket <- Streams
  None = None
SPECIFICATION QueuesSpec
INVARIANTS
  TypeOK
  NoOtherLoss
  RedisLosesNothing
PROPERTIES
  PromiseKept
  RedisKeepsPromise
  QueuesDrain
CHECK_DEADLOCK FALSE
