SPECIFICATION FairSpec
CONSTANTS
    MaxJobs = 2
    Remotes = {r1}
    Embedded = embedded
    EmbeddedOn = TRUE
    SelectorOf <- FirstInDocker
    FlagOf <- DockerFlags
    Keys <- MCKeys
    Values <- MCValues
    Host = "box"
    NoPair = noPair
    MaxAttempts = 2
    ClaimWindow = 2
    MaxPosts = 1
    MaxRestarts = 0
    Lossy = FALSE
    None = none
INVARIANTS
    IInv
    HolderFits
PROPERTIES
    EveryJobSettles
CHECK_DEADLOCK FALSE
