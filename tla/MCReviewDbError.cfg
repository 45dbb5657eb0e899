\* One handler at a time; one transaction fails.
SPECIFICATION Spec
CONSTANTS
    Items = {i1}
    Handlers = {h1}
    Contents = {c1}
    Owned = {c1}
    None = None
    RequireOwner = TRUE
    MaxRevision = 5
    MaxCrashes = 0
    MaxDbErrors = 1
INVARIANTS PublishedHasObject
CHECK_DEADLOCK FALSE
