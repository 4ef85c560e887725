SPECIFICATION FairSpec
CONSTANTS
    MaxJobs = 1
    Remotes = {}
    Embedded = embedded
    EmbeddedOn = TRUE
    SelectorOf <- AnyRunner
    FlagOf <- DockerFlags
    Keys <- MCKeys
    Values <- MCValues
    Host = "box"
    NoPair = noPair
    MaxAttempts = 2
    ClaimWindow = 1
    MaxPosts = 1
    MaxRestarts = 1
    Lossy = FALSE
    None = none
PROPERTIES
    RunningEnds
CHECK_DEADLOCK FALSE
