CONSTANTS
    root = root  x = x  y = y  a = a  b = b  c = c  d = d
    count = count  log = log  note = note
    v0 = v0  v1 = v1  v2 = v2
    Nodes = {root, x, y, a, b, c, d}
    Root = root
    Children <- NestedTree
    ContainerKinds = {"Steps", "Condition", "Router", "Loop", "Parallel"}
    Functions = {"execute", "execute_stream", "aexecute", "aexecute_stream"}
    Keys = {count, log, note}
    TopKey <- Tops
    Nested = {log, note}
    Values = {v0, v1, v2}
    Absent = Absent
    InitialState <- Filled
    WriteSets <- NestedWrites
    Results <- NestedResults
    MaxRetries <- Retries
    SkipOnFailure = {b}
    MaxIterations = 2
SPECIFICATION FairSpec
INVARIANTS TypeOK LoneWriteSurvives FailuresAreReported NoOrphanStep
PROPERTIES StopEndsItsSequence WorkflowEnds
CHECK_DEADLOCK FALSE
