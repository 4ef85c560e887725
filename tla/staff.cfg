SPECIFICATION FairSpec
CONSTANTS
    MaxAgents = 2
    MaxJobs = 2
    MaxRuns = 2
    MaxAttempts = 2
    MaxCalls <- FirstCalls
    MaxPosts = 2
    Kinds <- AnyThenRemote
    MaxUpsets = 2
    Editors = {e1}
    None = none
INVARIANTS
    IInv
    RestsIdle
    WorkingShown
    LedgerExact
    CountedOnce
PROPERTIES
    PickIsFair
    AgentRests
    RowsSpec
CHECK_DEADLOCK FALSE
