\* One handler at a time, two crashes, no failing transaction.
SPECIFICATION Spec
CONSTANTS
    Items = {i1}
    Handlers = {h1}
    Contents = {c1, c2}
    Owned = {c1}
    None = None
    RequireOwner = TRUE
    MaxRevision = 5
    MaxCrashes = 2
    MaxDbErrors = 0
INVARIANTS TypeOK PublishedHasObject OfficialContentApproved AnswersAreDurable OneActiveAssignment
PROPERTIES DecisionsStand RefinesContract
\* The bounds on revisions and faults end every behaviour.
CHECK_DEADLOCK FALSE
