SPECIFICATION Spec
CONSTANTS
  Listing <- FullApp
  Scenarios <- AllScenarios
  MaxLosses = 1
INVARIANTS
  CreateCountIsHonest
  CreateCountIsDeployed
  TemplatesAreResolved
  DeleteCountIsHonest
  OneProjectPerApp
\* After scenario.maxCalls calls the program is idle.
CHECK_DEADLOCK FALSE
