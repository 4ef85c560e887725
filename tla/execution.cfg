SPECIFICATION Spec
CONSTANTS
    StepCount = 2
    MaxAttempts = 2
    Kinds <- EmbeddedFirst
    Faults = TRUE
    None = none
INVARIANTS
    IInv
    WorkDone
    StepsRecorded
PROPERTIES
    RecordStays
CHECK_DEADLOCK FALSE
