SPECIFICATION Spec
CONSTANTS
    Suffixes <- MCSuffixes
    Callers = {p1, p2}
    Kinds = {"create", "share", "rename", "rotate", "delete", "resolve"}
    Faults = {"down", "lost", "save", "restart"}
    MaxMappings = 2
    MaxRequests = 4
    MaxFaults = 1
SYMMETRY MCSymmetry
CHECK_DEADLOCK FALSE
INVARIANT TypeOK
INVARIANT SecretsTrue
 
INVARIANT DeletedStays
INVARIANT Undisturbed
