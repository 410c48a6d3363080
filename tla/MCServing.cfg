SPECIFICATION MCSpec
CONSTANTS
    Specs <- MCSpecs
    Kinds = {"create", "update", "enable", "disable", "delete"}
    Faults = {"attempt"}
    Recovers = TRUE
    Patient = TRUE
    MaxRequests = 2
    MaxFaults = 1
    MaxLosses = 1
    MaxOthers = 1
    Scenes = {"race", "retry", "listen", "routing", "stream", "revoke"}
CHECK_DEADLOCK FALSE
INVARIANT Types
 
 
INVARIANT Intact
PROPERTY Recovered
 
