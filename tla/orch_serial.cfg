SPECIFICATION FairSpec
CONSTANTS
    TaskIds = {t1}
    PlanIds = {1, 2}
    JobIds = {1, 2, 3, 4}
    AgentIds = {a1}
    Handlers = {h1}
    Loop = loop
    MaxAttempts = 2
    Overlap = FALSE
    EmbeddedOn = FALSE
    AgentsLeave = FALSE
    ProvidersLeave = TRUE
    Faults = FALSE
    None = none
INVARIANTS
    TypeOK
    StatusTells
    OneActivity
    VersionsDistinct
    DecidedOnce
PROPERTIES
    LifecycleSpec
    RowsSpec
CHECK_DEADLOCK FALSE
