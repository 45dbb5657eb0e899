\* Every service that keeps records, on two or three records and two requests.
SPECIFICATION Spec
CONSTANTS
    Off = Off
    PackIds = {"p1", "p2", "p3"}
    PackHandlers = {"h1", "h2"}
    PackTimes = {1, 2}
    PackStatuses = {"draft", "approved", "superseded"}
    NoPack = "none"
    MaxPackCrashes = 1
    EpisodeIds = {"e1", "e2", "e3"}
    EpisodeKeys = {"k1"}
    NoKey = "none"
    Checksums = {"c1", "c2"}
    Deliverers = {"h1", "h2"}
    MaxEpisodeCrashes = 1
    Objects = {"o1", "o2"}
    Unmapped = {"o2"}
    Runs = {"h1", "h2"}
    MaxLimit = 2
    MaxStarts = 3
    Items = {"i1", "i2", "i3"}
    Tenants = {"t1", "t2"}
    TenantOf <- MCTenantOf
    Links = {"i2"}
    Backends = {"memory", "graphiti"}
    MaxVersion = 2
    MaxGraphFaults = 1
    MaxGraphRestarts = 1
    Published = {"o1", "o2"}
    LevelOf <- MCLevelOf
    Clearance = 1
    Searchers = {"h1", "h2"}
    MaxPublications = 2
    MaxIndexFaults = 1
    MaxSearchRestarts = 1
    Facts <- MCFacts
    NoCurrent = NoCurrent
    Questions <- MCQuestions
    Principals <- MCPrincipals
    Packs <- MCPacks
    Sources = {"feed"}
    Healths = {"none", "healthy", "stale", "failed"}
    MaxWorldChanges = 1
INVARIANTS
    HistoryIsLinear DeliveriesAgree MigratedAsReported RebuildHeals FreshWhenAlone
    UnqualifiedIsEarned NoLeak
\* The bounds end every behaviour.
CHECK_DEADLOCK FALSE
