SPECIFICATION FairSpec
CONSTANTS
    a = a
    b = b
    z = z
    Block = {1, 2}
    Val = {a, b, z}
    Zero = z
    NoVal = NoVal
    Writer = {w1}
    Reader = {r1}
    Request <- Double
    Fault = {}
    MaxBlocks = 4
    MaxOpens = 1
PROPERTIES CloseAlwaysReturns
CHECK_DEADLOCK FALSE
