CONSTANTS
  Workers = {w1}
  InProcess = TRUE
  Postgres = FALSE
  MaxRetries = 0
  NBatches = 2
  Quota <- PauseQuota
  MaxMsgs = 2
  Nil = Nil
  Entry = Entry
SPECIFICATION Spec
INVARIANTS
  PauseKeepsJob
CHECK_DEADLOCK FALSE
