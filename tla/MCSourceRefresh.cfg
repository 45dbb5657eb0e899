\* Three runs, two at a time, on two documents; one edit, one trouble of any kind.
SPECIFICATION Spec
CONSTANTS
    Docs = {d1, d2}
    Texts <- OneText
    NoDigest = NoDigest
    Handlers = {h1, h2}
    MaxChanges = 1
    MaxRuns = 3
    MaxTroubles = 1
SYMMETRY Symmetry
INVARIANTS ChecksumIsCovered ChangedRunsAreComplete BatchesAreBounded
\* The bounds end every behaviour.
CHECK_DEADLOCK FALSE
