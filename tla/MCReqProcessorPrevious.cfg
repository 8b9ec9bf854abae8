SPECIFICATION Spec
CONSTANTS
    Worker = {w1, w2, w3}
    ReqObj = {q1, q2, q3}
    RespObj = {p1, p2, p3}
    Input <- FlushInputs
    DevResult = {"ok"}
    ReqCap = 1
    RespCap = 1
    MaxReqs = 3
SYMMETRY Symmetry
INVARIANTS FlushCoversAllPrevious
