SPECIFICATION MCSpec
CONSTANTS
    Workers = {p1}
    Images = {a, b}
    NoImage = NoImage
    HasRule = FALSE
    Node = TRUE
    Fresh = {FALSE}
    Guarded = FALSE
    MaxOps = 2
    MaxFaults = 1
    MaxCrashes = 0
    Installer = p3
    Scenes = {"rule"}
SYMMETRY Symmetry
CHECK_DEADLOCK FALSE
INVARIANT ActiveServes
