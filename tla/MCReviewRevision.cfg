\* A guarded decision races an edit by another handler.
SPECIFICATION Spec
CONSTANTS
    Items = {i1}
    Handlers = {h1, h2}
    Contents = {c1, c2}
    Owned = {c1, c2}
    None = None
    RequireOwner = TRUE
    MaxRevision = 3
    MaxCrashes = 0
    MaxDbErrors = 0
PROPERTIES GuardedRevisionHolds
CHECK_DEADLOCK FALSE
