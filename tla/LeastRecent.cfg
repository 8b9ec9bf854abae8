SPECIFICATION Spec
CONSTANTS
    NSeg = 3
    Quota = 2
    MaxTime = 5
PROPERTIES EvictsLeastRecent
CHECK_DEADLOCK FALSE
