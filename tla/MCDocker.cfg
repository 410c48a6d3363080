SPECIFICATION MCSpec
CONSTANTS
    Handlers = {p1, p2}
    Docs = {d1}
    NoDoc = NoDoc
    MaxRuns = 3
    MaxRequests = 4
    MaxErrors = 1
    Scenes = {"job", "serial", "observer", "backup", "restart", "images", "versions"}
    NoApp = NoApp
    Nothing = Nothing
    Latest = Latest
CHECK_DEADLOCK FALSE
INVARIANT Types
INVARIANT Supervised
PROPERTY Settles
INVARIANT CatalogueTrue
INVARIANT ConfirmationKept
 
INVARIANT ImagesKept
 
 
