CONSTANTS
  Workers = {w1}
  InProcess = FALSE
  Postgres = TRUE
  MaxRetries = 1
  NBatches = 1
  Quota <- CancelQuota
  MaxMsgs = 2
  Nil = Nil
  Entry = Entry
SPECIFICATION Spec
PROPERTIES
  CancelNotOverwritten
CHECK_DEADLOCK FALSE
