SPECIFICATION MCSpec
CONSTANTS
    N = 3
    Content = {a, b}
    Absent = Absent
    NoJournal = NoJournal
    Torn = Torn
    MaxFaults = 2
    MaxCrashes = 2
    MaxTampers = 0
    Scenes = {"update", "verify", "require"}
CHECK_DEADLOCK FALSE
PROPERTY AtomicUpdate
PROPERTY Decided
INVARIANT CacheSound
