SPECIFICATION Spec
CONSTANTS
    TaskIds = {t1}
    PlanIds = {1}
    JobIds = {1, 2}
    AgentIds = {a1}
    Handlers = {h1, h2}
    Loop = loop
    MaxAttempts = 1
    Overlap = TRUE
    EmbeddedOn = TRUE
    AgentsLeave = TRUE
    ProvidersLeave = TRUE
    Faults = TRUE
    None = none
INVARIANTS
    Gate
    DecisionSticks
PROPERTIES
    RowsSpec
SYMMETRY Symmetry
CHECK_DEADLOCK FALSE
