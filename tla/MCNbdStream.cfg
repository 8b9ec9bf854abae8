SPECIFICATION FairSpec
CONSTANTS
    n1 = n1
    n2 = n2
    Node <- Nodes
    NoNode = NoNode
    Given <- GivenNames
    Fault = {"setup", "load", "doit", "scan", "ioctl", "clearSock", "close"}
    SecondCloseErrs = {TRUE, FALSE}
INVARIANTS ReadyIsScanned ReleasedWhenClosed FailureReported
PROPERTIES StreamEnds
CHECK_DEADLOCK FALSE
