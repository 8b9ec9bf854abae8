SPECIFICATION Spec
CONSTANTS
    a = a
    b = b
    z = z
    Val = {a, b, z}
    Zero = z
    NoVal = NoVal
    WriteVal = {a, z}
    IO = {i1, i2}
    Flusher = {f1, f2}
    Buffered = {f1}
    Evictor = {e1}
    Closer = c
    NoThread = NoThread
    Quota = 2
    Persist = FALSE
    Fault = {"create", "download", "sync", "upload", "etag"}
    CrashAnywhere = TRUE
INVARIANTS NeverStuck ReadyCanStep
PROPERTIES StableUnderLock
