\* Two requests at a time on three memories, one crash.
SPECIFICATION Spec
CONSTANTS
    Ids = {m1, m2, m3}
    Handlers = {h1, h2}
    Subjects = {}
    General = General
    Contents = {c1}
    LastTime = 3
    None = None
    Submitted = {"approved"}
    MaxCrashes = 1
SYMMETRY IdSymmetry
INVARIANTS ChainsAreContiguous
PROPERTIES HistoryStands
\* Identifiers run out.
CHECK_DEADLOCK FALSE
