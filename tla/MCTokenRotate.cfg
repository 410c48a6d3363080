SPECIFICATION Spec
CONSTANTS
    Suffixes <- MCSuffixes
    Callers = {p1}
    Kinds = {"create", "rotate"}
    Faults = {"save"}
    MaxMappings = 2
    MaxRequests = 3
    MaxFaults = 1
SYMMETRY MCSymmetry
CHECK_DEADLOCK FALSE
INVARIANT RotateHeals
