SPECIFICATION FairSpec
CONSTANTS
    MaxJobs = 1
    Remotes = {r1}
    Embedded = embedded
    EmbeddedOn = TRUE
    SelectorOf <- AnyRunner
    FlagOf <- DockerFlags
    Keys <- MCKeys
    Values <- MCValues
    Host = "box"
    NoPair = noPair
    MaxAttempts = 2
    ClaimWindow = 1
    MaxPosts = 2
    MaxRestarts = 1
    Lossy = TRUE
    None = none
INVARIANTS
    TypeOK
    OneHolderPerAttempt
    HolderIsNamed
    AttemptsBounded
    FailedForGood
PROPERTIES
    DeadRunnerReleased
    RowsSpec
CHECK_DEADLOCK FALSE
