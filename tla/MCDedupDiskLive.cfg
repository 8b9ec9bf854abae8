SPECIFICATION FairSpec
CONSTANTS
    a = a
    b = b
    z = z
    Block = {1, 2}
    Val = {a, b, z}
    Zero = z
    NoVal = NoVal
    Writer = {w1, w2}
    Reader = {r1}
    Request <- Longer
    Fault = {"getID"}
    MaxBlocks = 2
    MaxOpens = 2
PROPERTIES CloseReturns
CHECK_DEADLOCK FALSE
