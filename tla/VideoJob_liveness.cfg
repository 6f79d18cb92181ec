CONSTANTS
  Workers = {w1}
  InProcess = FALSE
  Postgres = TRUE
  MaxRetries = 1
  NBatches = 1
  Quota <- CrashQuota
  MaxMsgs = 2
  Nil = Nil
  Entry = Entry
SPECIFICATION FairSpec
INVARIANTS
  CompletedHasArchive
PROPERTIES
  EventuallySettles
CHECK_DEADLOCK FALSE
