\* A submission that is stamped with its tenant while a reviewer decides.
SPECIFICATION Spec
CONSTANTS
    Items = {i1}
    Handlers = {h1, h2}
    Contents = {c1}
    Owned = {c1}
    None = None
    RequireOwner = TRUE
    MaxRevision = 3
    MaxCrashes = 0
    MaxDbErrors = 0
PROPERTIES SeenDecisionsStand
CHECK_DEADLOCK FALSE
