SPECIFICATION Spec
CONSTANTS
    n1 = n1
    n2 = n2
    Node <- Nodes
    NoNode = NoNode
    Given <- GivenNames
    Fault = {"setup"}
    SecondCloseErrs = {TRUE, FALSE}
INVARIANTS FailureLeavesNothing
CHECK_DEADLOCK FALSE
