SPECIFICATION FairSpec
CONSTANTS
    Kinds = {task, other}
    Watched = {task}
    Capacity = 2
    WireSize = 1
    MaxFetches = 3
    MaxVersion = 4
    Ordered = TRUE
    Faults = TRUE
INVARIANTS
    IInv
    UpToDate
PROPERTIES
    ChangesAppear
CHECK_DEADLOCK FALSE
