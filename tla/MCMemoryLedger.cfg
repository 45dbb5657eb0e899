\* One request at a time on three memories, one crash.
SPECIFICATION Spec
CONSTANTS
    Ids = {m1, m2, m3}
    Handlers = {h1}
    Subjects = {s1}
    General = General
    Contents = {c1, c2}
    LastTime = 2
    None = None
    Submitted = {"approved", "unverified"}
    MaxCrashes = 1
SYMMETRY IdSymmetry
INVARIANTS TypeOK ContradictionsAreMarked PromotedOnce AnsweredIsDurable
\* Identifiers run out.
CHECK_DEADLOCK FALSE
