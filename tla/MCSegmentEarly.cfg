SPECIFICATION Spec
CONSTANTS
    a = a
    b = b
    z = z
    Val = {a, b, z}
    Zero = z
    NoVal = NoVal
    WriteVal = {a, b}
    IO = {i1}
    Flusher = {f1, f2}
    Buffered = {f1}
    Evictor = {}
    Closer = c
    NoThread = NoThread
    Quota = 2
    Persist = FALSE
    Fault = {}
    CrashAnywhere = FALSE
INVARIANTS FlushedSurvives
