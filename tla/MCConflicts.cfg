\* The instance of MCFlows.cfg: what the conflicts of a context pack name.
SPECIFICATION Spec
CONSTANTS
    Off = Off
    Pages = {"u0", "u1", "u2", "u3", "u4", "u5", "x"}
    PageLinks <- MCPageLinks
    Permitted = {"u0", "u1", "u2", "u3", "u4", "u5"}
    StartPage = "u0"
    MaxDepth = 3
    MaxPages = 5
    MaxPolls = 2
    Urls <- MCUrls
    Patterns = {"a", "*.b", "10"}
    Covers <- MCCovers
    AllowedPorts = {443, 8080}
    Private = {"10"}
    AllowPrivate = FALSE
    NoHost = ""
    Barred <- MCBarred
    MaxRedirects = 2
    FailClosed = TRUE
    Folders = {"d1", "d2", "d3"}
    Files = {"f1", "f2", "f3", "f4"}
    Shortcuts = {"s1"}
    Children <- MCChildren
    Root = "d1"
    Recursive = TRUE
    MaxFiles = 5
    Batches <- MCBatches
    MaxItems = 3
    MaxAttempts = 2
    MaxStops = 1
    Texts <- MCTexts
    Limit = 4
    Overlap = 2
    Submitted = {"s1", "s2", "s3"}
    TextOf <- MCTextOf
    FlawsOf <- MCFlawsOf
    Submitters = {"h1", "h2"}
    MaxSubmissions = 3
    Objects = {"o1", "o2"}
    ChunkIds = {"c1", "c2"}
    NoChunk = "none"
    ChunkSource <- MCChunkSource
    SourcesOf <- MCSourcesOf
    ObjectLinks <- MCObjectLinks
    RivalsOf <- MCRivalsOf
    Levels = {0, 1}
    HitLimit = 3
    ResultLimit = 2
    Strong = {"k1", "k2", "k3", "k4"}
    NoSubject = ""
    Deployments <- MCDeployments
    Answers <- MCAnswers
    Sensitivities = {0, 2}
    Confidential = 2
    MaxTasks = 3
    Notes <- MCNotes
    OurTenant = "ours"
    People = {"ann", "bob", "cy"}
    RolesOf <- MCRolesOf
    GivenKeys <- MCGivenKeys
    NoKey <- MCNoKey
    MaxPromotions = 3
    Sources = {"s1", "s2"}
    Reviews = {"r1", "r2"}
    CandidateOf <- MCCandidateOf
    ReviewSource <- MCReviewSource
    AiOf <- MCAiOf
    NoBrief = "none"
    Links <- MCLinks
INVARIANT ConflictsAreReadable
\* A flow stops when it has ended.
CHECK_DEADLOCK FALSE
