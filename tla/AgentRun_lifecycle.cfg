SPECIFICATION FairSpec
CONSTANTS
  r1 = r1
  r2 = r2
  RunIds <- OneRun
  EntryPoints <- AllFunctions
  MaxRetries = 2
  HasMemory = TRUE
  Overlap = FALSE
  DbMayFail = TRUE
INVARIANTS
  RegistryFollowsRuns
  CancelIsHonoured
  NoOrphanTask
PROPERTIES
  ImplementsLifecycle
\* When every run is over and nobody continues one, the agent is idle.
CHECK_DEADLOCK FALSE
