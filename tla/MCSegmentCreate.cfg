SPECIFICATION Spec
CONSTANTS
    a = a
    b = b
    z = z
    Val = {a, b, z}
    Zero = z
    NoVal = NoVal
    WriteVal = {a, b}
    IO = {i1}
    Flusher = {}
    Buffered = {}
    Evictor = {}
    Closer = c
    NoThread = NoThread
    Quota = 2
    Persist = FALSE
    Fault = {"create"}
    CrashAnywhere = FALSE
INVARIANTS QuotaCountsCachedFile
