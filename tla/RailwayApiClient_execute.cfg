SPECIFICATION ClientSpec
CONSTANT MaxRetries = 6
INVARIANTS
  OutcomeIsAccounted
PROPERTIES
  ExecuteEnds
\* execute returns or raises.
CHECK_DEADLOCK FALSE
