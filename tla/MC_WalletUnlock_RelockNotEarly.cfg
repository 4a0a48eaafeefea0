\* Expected violation: RelockNotEarly.
CONSTANTS
    Timeouts <- MCTimeouts
    StartTime <- MCStartTime
    MaxUnlocks <- MCMaxUnlocks
    MaxRPC <- MCMaxRPC
SPECIFICATION Spec
CHECK_DEADLOCK FALSE
PROPERTY
    RelockNotEarly
