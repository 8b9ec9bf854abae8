SPECIFICATION Spec
CONSTANTS
    a = a
    b = b
    z = z
    Block = {1, 2}
    Val = {a, b, z}
    Zero = z
    NoVal = NoVal
    Writer = {w1, w2}
    Reader = {r1}
    Request <- Mixed
    Fault = {"getID", "write", "putID"}
    MaxBlocks = 3
    MaxOpens = 1
SYMMETRY Symmetry
INVARIANTS TypeOK ReadsLastWrite IndexIsRight ReadsAreStable NeverWaitsForBlock
PROPERTIES BlocksAreImmutable
CHECK_DEADLOCK FALSE
