\* Two handlers on one item, one failing transaction.
SPECIFICATION Spec
CONSTANTS
    Items = {i1}
    Handlers = {h1, h2}
    Contents = {c1}
    Owned = {c1}
    None = None
    RequireOwner = TRUE
    MaxRevision = 3
    MaxCrashes = 0
    MaxDbErrors = 1
SYMMETRY HandlerSymmetry
INVARIANTS ObjectWasApproved EffectsFollowObject
\* The bounds on revisions and faults end every behaviour.
CHECK_DEADLOCK FALSE
