SPECIFICATION Spec
CONSTANTS
    Worker = {w1, w2}
    ReqObj = {q1, q2}
    RespObj = {p1, p2}
    Input <- ReadInputs
    DevResult = {"ok", "EIO"}
    ReqCap = 1
    RespCap = 1
    MaxReqs = 2
SYMMETRY Symmetry
INVARIANTS ErrorReplyHasNoPayload
