SPECIFICATION MCSpec
CONSTANTS
    Workers = {p1, p2}
    Images = {a, b}
    NoImage = NoImage
    HasRule = TRUE
    Node = FALSE
    Fresh = {FALSE}
    Guarded = FALSE
    MaxOps = 3
    MaxFaults = 1
    MaxCrashes = 1
    Installer = p3
    Scenes = {"rule", "faults", "install"}
SYMMETRY Symmetry
CHECK_DEADLOCK FALSE
INVARIANT TypeOK
INVARIANT RouteAlive
INVARIANT ActiveServes
INVARIANT NoLeakedInstance
 
PROPERTY RecordedKept
