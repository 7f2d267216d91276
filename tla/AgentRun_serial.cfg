SPECIFICATION Spec
CONSTANTS
  r1 = r1
  r2 = r2
  RunIds <- TwoRuns
  EntryPoints <- OneOfEachKind
  MaxRetries = 0
  HasMemory = FALSE
  Overlap = FALSE
  DbMayFail = FALSE
SYMMETRY RunSymmetry
INVARIANTS
  StoreIsTruthful
PROPERTIES
  StoredRunsPersist
CHECK_DEADLOCK FALSE
