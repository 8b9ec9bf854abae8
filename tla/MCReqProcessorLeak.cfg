SPECIFICATION FairSpec
CONSTANTS
    Worker = {w1}
    ReqObj = {q1, q2}
    RespObj = {p1, p2}
    Input <- LeakInputs
    DevResult = {"ok"}
    ReqCap = 1
    RespCap = 1
    MaxReqs = 2
PROPERTIES ShutdownAlwaysCompletes
CHECK_DEADLOCK FALSE
