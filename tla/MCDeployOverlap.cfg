SPECIFICATION Spec
CONSTANTS
    Handlers = {p1, p2}
    Docs = {d1, d2}
    NoDoc = NoDoc
    MaxRuns = 3
    MaxRequests = 5
    MaxErrors = 0
CHECK_DEADLOCK FALSE
INVARIANT CatalogApplied
