SPECIFICATION Spec
CONSTANTS
    a = a
    b = b
    z = z
    Val = {a, b, z}
    Zero = z
    NoVal = NoVal
    WriteVal = {a, b}
    IO = {i1, i2}
    Flusher = {f1}
    Buffered = {f1}
    Evictor = {}
    Closer = c
    NoThread = NoThread
    Quota = 2
    Persist = FALSE
    Fault = {}
    CrashAnywhere = TRUE
INVARIANTS FlushedSurvives
PROPERTIES IsDurableCell
