SPECIFICATION Spec
CONSTANTS
    TaskIds = {t1}
    PlanIds = {1}
    JobIds = {1, 2, 3}
    AgentIds = {a1}
    Handlers = {h1, h2}
    Loop = loop
    MaxAttempts = 2
    Overlap = TRUE
    EmbeddedOn = FALSE
    AgentsLeave = FALSE
    ProvidersLeave = FALSE
    Faults = FALSE
    None = none
INVARIANTS
    DecidedOnce
CHECK_DEADLOCK FALSE
