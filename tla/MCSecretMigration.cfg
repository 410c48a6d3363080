SPECIFICATION Spec
CONSTANTS
    Slots = {a, b}
    Legacy = 2
    Lost = TRUE
    MaxAttempts = 3
    MaxFaults = 1
CHECK_DEADLOCK FALSE
INVARIANT Retryable
