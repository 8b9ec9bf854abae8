SPECIFICATION Spec
CONSTANTS
    TotalBytes = 6
    SegBytes = 2
    Quota = 2
    Request <- WideRequests
    IO = {i1, i2}
    Flusher = {f1}
    Closer = {c1, c2}
    None = None
    ConcurFlush = 1
    MaxBufs = 2
    MaxCapTries = 1
    MaxTries = 2
    Persist = FALSE
    Stored = {0, 2}
    Fault = {"upload", "download", "create"}
    MaxOps = 2
INVARIANTS AlwaysReady ReadyCanStep
PROPERTIES RemovesOnlyClean
SYMMETRY Symmetry
CHECK_DEADLOCK FALSE
