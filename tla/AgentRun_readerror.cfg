SPECIFICATION Spec
CONSTANTS
  r1 = r1
  r2 = r2
  RunIds <- TwoRuns
  EntryPoints <- OnlyRun
  MaxRetries = 0
  HasMemory = FALSE
  Overlap = FALSE
  DbMayFail = TRUE
PROPERTIES
  StoredRunsPersist
CHECK_DEADLOCK FALSE
