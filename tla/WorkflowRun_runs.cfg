SPECIFICATION FairSpec
CONSTANTS
  r1 = r1
  r2 = r2
  RunIds <- TwoRuns
  EntryPoints <- AllFunctions
  StepsKinds = {"list", "function", "coroutine", "agent"}
  StepCount = 1
  Overlap = TRUE
  DbMayFail = TRUE
INVARIANTS
  RegistryFollowsRuns
  CancelIsHonoured
  StoreIsTruthful
  OutcomeIsStored
PROPERTIES
  PolledStatusAdvances
  ImplementsLifecycle
  PollingEnds
CHECK_DEADLOCK FALSE
