SPECIFICATION Spec
CONSTANTS
    n1 = n1
    n2 = n2
    Node <- Nodes
    NoNode = NoNode
    Given <- GivenNames
    Fault = {"setup", "load", "doit", "scan", "ioctl", "clearSock", "close"}
    SecondCloseErrs = {TRUE, FALSE}
INVARIANTS ShutdownNeverStuck ReadyCanStep
PROPERTIES WorkersFinish
CHECK_DEADLOCK FALSE
