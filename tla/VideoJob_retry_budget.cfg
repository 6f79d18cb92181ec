CONSTANTS
  Workers = {w1}
  InProcess = FALSE
  Postgres = TRUE
  MaxRetries = 1
  NBatches = 1
  Quota <- InferQuota
  MaxMsgs = 2
  Nil = Nil
  Entry = Entry
SPECIFICATION Spec
INVARIANTS
  RetryBudget
CHECK_DEADLOCK FALSE
