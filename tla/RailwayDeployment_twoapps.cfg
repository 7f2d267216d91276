SPECIFICATION Spec
CONSTANTS
  Listing <- TwoApps
  Scenarios <- OneCall
  MaxLosses = 0
INVARIANTS
  ServiceRunsInItsEnvironment
\* After scenario.maxCalls calls the program is idle.
CHECK_DEADLOCK FALSE
