SPECIFICATION FairSpec
CONSTANTS
    Agents = {a1, a2}
    MaxTasks = 3
    Runners = {r1}
    MaxDepth = 1
    Faults = TRUE
    None = none
INVARIANTS
    IInv
    NoLongChain
PROPERTIES
    DelegatedStarts
CHECK_DEADLOCK FALSE
