SPECIFICATION FairSpec
CONSTANTS
    MaxJobs = 1
    Remotes = {r1}
    Embedded = embedded
    EmbeddedOn = FALSE
    SelectorOf <- AnyRunner
    FlagOf <- DockerFlags
    Keys <- MCKeys
    Values <- MCValues
    Host = "box"
    NoPair = noPair
    MaxAttempts = 2
    ClaimWindow = 1
    MaxPosts = 1
    MaxRestarts = 0
    Lossy = TRUE
    None = none
PROPERTIES
    ReportedEnds
CHECK_DEADLOCK FALSE
