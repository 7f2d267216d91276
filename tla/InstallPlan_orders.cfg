SPECIFICATION Spec
CONSTANTS
  Resources <- FourResources
  MaxListed = 3
  MaxDependencies = 1
INVARIANTS
  CreatePlanIsExact
  ContentsAreDeletedFirst
\* A plan is built once.
CHECK_DEADLOCK FALSE
