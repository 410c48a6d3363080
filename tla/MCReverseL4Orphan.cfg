SPECIFICATION Spec
CONSTANTS
    Specs <- MCSpecs
    Kinds = {"create", "update", "disable"}
    Faults = {}
    Recovers = TRUE
    Patient = TRUE
    MaxRequests = 3
    MaxFaults = 0
    MaxLosses = 1
    MaxOthers = 0
CHECK_DEADLOCK FALSE
INVARIANT NoOrphan
