SPECIFICATION Spec
CONSTANTS
    Worker = {w1, w2}
    ReqObj = {q1, q2, q3}
    RespObj = {p1, p2, p3}
    Input <- OneOfEach
    DevResult = {"ok"}
    ReqCap = 1
    RespCap = 1
    MaxReqs = 3
INVARIANTS FlushWaitsForWorkers NeverStuck ReadyCanStep
SYMMETRY Symmetry
CHECK_DEADLOCK FALSE
