SPECIFICATION Spec
CONSTANTS
    n1 = n1
    n2 = n2
    Node <- Nodes
    NoNode = NoNode
    Given <- GivenNames
    Fault = {}
    SecondCloseErrs = {TRUE, FALSE}
INVARIANTS OpsEndBeforeClose
CHECK_DEADLOCK FALSE
