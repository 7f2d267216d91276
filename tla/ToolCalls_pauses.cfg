SPECIFICATION Spec
CONSTANTS
  CallCount = 3
  Kinds = {"plain", "confirm", "external", "input", "form", "unknown"}
  Functions = {"sync", "sync_stream", "async", "async_stream"}
  Ways = {"run_response", "run_id"}
  Limit = 2
  MaxRetries = 1
  MaxContinues = 2
INVARIANTS OnlyConfirmedCallsRun    LimitIsKept
 
CHECK_DEADLOCK FALSE
