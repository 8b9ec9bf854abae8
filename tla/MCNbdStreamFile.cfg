SPECIFICATION Spec
CONSTANTS
    n1 = n1
    n2 = n2
    Node <- Nodes
    NoNode = NoNode
    Given <- GivenNames
    Fault = {}
    SecondCloseErrs = {TRUE}
INVARIANTS QuietShutdown
CHECK_DEADLOCK FALSE
