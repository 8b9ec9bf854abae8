SPECIFICATION Spec
CONSTANTS
    a = a
    b = b
    z = z
    Block = {1, 2}
    Val = {a, b, z}
    Zero = z
    NoVal = NoVal
    Writer = {w1}
    Reader = {r1}
    Request <- OneBlock
    Fault = {}
    MaxBlocks = 4
    MaxOpens = 2
PROPERTIES BlocksAreImmutable
