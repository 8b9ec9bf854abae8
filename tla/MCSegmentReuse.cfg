SPECIFICATION Spec
CONSTANTS
    a = a
    b = b
    z = z
    Val = {a, b, z}
    Zero = z
    NoVal = NoVal
    WriteVal = {a, b}
    IO = {i1}
    Flusher = {f1}
    Buffered = {f1}
    Evictor = {e1}
    Closer = c
    NoThread = NoThread
    Quota = 2
    Persist = TRUE
    Fault = {}
    CrashAnywhere = TRUE
INVARIANTS ReadsLastWrite
