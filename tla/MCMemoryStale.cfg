\* Two requests at a time, one crash: a request commits an older row last.
SPECIFICATION Spec
CONSTANTS
    Ids = {m1, m2}
    Handlers = {h1, h2}
    Subjects = {s1}
    General = General
    Contents = {c1}
    LastTime = 2
    None = None
    Submitted = {"approved"}
    MaxCrashes = 1
SYMMETRY IdSymmetry
INVARIANTS SupersededIsClosed
\* Identifiers run out.
CHECK_DEADLOCK FALSE
