SPECIFICATION FairSpec
CONSTANTS
    Worker = {w1, w2}
    ReqObj = {q1, q2}
    RespObj = {p1, p2}
    Input <- OneOfEach
    DevResult = {"ok", "EIO"}
    ReqCap = 1
    RespCap = 1
    MaxReqs = 2
INVARIANTS TypeOK RequestsNotShared ResponsesNotShared EachRequestOnce RepliesAreOwn
           UpdateHoldsLock FlushCoversEpoch ReaderNeverLocksOut ClosedWhenIdle
PROPERTIES EveryRequestAnswered ShutdownCompletes
CHECK_DEADLOCK FALSE
