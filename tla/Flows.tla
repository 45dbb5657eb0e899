------------------------------- MODULE Flows -------------------------------
(***************************************************************************)
(* The flows that bring knowledge in and hand it out, side by side: site   *)
(* crawl, page capture, drive import, batch submission, evidence windows,  *)
(* quality screen, enrichment, notes, context packs, the graph view and    *)
(* the staging gate.  They share no state, so a behaviour belongs to one   *)
(* of them, chosen at the beginning (part); the variables of the others    *)
(* are off.                                                                *)
(***************************************************************************)
EXTENDS Integers, Sequences, FiniteSets

CONSTANTS
    Off         \* the value of the variables of the other parts

\* Those of the modules, which say what they are; one that two modules call by
\* the same name has another here (see the instances).
CONSTANTS
    Pages, PageLinks, Permitted, StartPage, MaxDepth, MaxPages, MaxPolls,
    Urls, Patterns, Covers, AllowedPorts, Private, AllowPrivate, NoHost, Barred,
    MaxRedirects, FailClosed,
    Folders, Files, Shortcuts, Children, Root, Recursive, MaxFiles,
    Batches, MaxItems, MaxAttempts, MaxStops,
    Texts, Limit, Overlap,
    Submitted, TextOf, FlawsOf, Submitters, MaxSubmissions,
    Objects, ChunkIds, NoChunk, ChunkSource, SourcesOf, ObjectLinks, RivalsOf, Levels,
    HitLimit, ResultLimit,
    Strong, NoSubject, Deployments, Answers,
    Sensitivities, Confidential, MaxTasks,
    Notes, OurTenant, People, RolesOf, GivenKeys, NoKey, MaxPromotions,
    Sources, Reviews, CandidateOf, ReviewSource, AiOf, NoBrief, Links

VARIABLES
    part,
    crawl, queue, visited, page, polls, outcome, items, limited,
    fetch, requested, current, hops, robots, contacted, canonical,
    drive, folders, opened, folder, children, fetched, skipped, stopped,
    submission, position, written, rows, attempts, answered, stops,
    text, at, cutting, start, from, offset, chunks,
    assessments, candidates, submitting, concurrent, submissions,
    levels, sourceLevel, published, clearance, hits, asked, results, denied, answer,
    deployment, demands, gate, probed,
    settings, task, runs, tasks,
    episodes, memories, related, promoting, begun, done, promotions,
    known, reviewed, reading, shown

-----------------------------------------------------------------------------
(* The instances.  Context packs and the graph view are about the same     *)
(* objects.                                                                *)

Crawl == INSTANCE SiteCrawl WITH LinksOf <- PageLinks
Fetch == INSTANCE WebFetch
Drive == INSTANCE DriveCollect
Batch == INSTANCE IngestionBatch
Windows == INSTANCE EvidenceWindows
Screen == INSTANCE QualityScreen WITH Sources <- Submitted
Context == INSTANCE ContextPacks WITH SourceOf <- ChunkSource, LinksOf <- ObjectLinks
Gate == INSTANCE StagingReadiness
Enrich == INSTANCE Enrichment WITH Levels <- Sensitivities
Obsidian == INSTANCE ObsidianNotes
View == INSTANCE BrainGraph WITH SourceOf <- ReviewSource

-----------------------------------------------------------------------------
(* What the proofs need of the constants.                                  *)

\* The policy accepts addresses, and what the pages link to are addresses; the
\* limits of a request are counts.
ASSUME CrawlAssumption ==
    /\ Permitted \subseteq Pages /\ StartPage \in Pages
    /\ PageLinks \in [Pages -> Seq(Pages)]
    /\ MaxDepth \in Nat /\ MaxPages \in Nat

\* A drive has finitely many folders; folders, files and shortcuts are different
\* things, and a folder lists each of its children once.
ASSUME DriveAssumption ==
    /\ IsFiniteSet(Folders) /\ Root \in Folders
    /\ Folders \cap (Files \cup Shortcuts) = {} /\ Files \cap Shortcuts = {}
    /\ Children \in [Folders -> Seq(Folders \cup Files \cup Shortcuts)]
    /\ \A f \in Folders : \A i, j \in DOMAIN Children[f] : Children[f][i] = Children[f][j] => i = j
    /\ Recursive \in BOOLEAN /\ MaxFiles \in Nat

\* The limits of an upload are counts; its files are of the kinds that the parser
\* tells apart.
ASSUME BatchAssumption == MaxItems \in Nat /\ Batches \subseteq Seq(Batch!Kinds)

\* A heading is followed by its title.  A window holds characters (at least 400), and
\* the configured overlap is a count: the search would leave the windows behind if
\* it were negative.
ASSUME WindowAssumption ==
    /\ \A t \in Texts :
         /\ t \in Seq(Windows!Characters)
         /\ \A i \in DOMAIN t : t[i] = "h" => i < Len(t) /\ t[i + 1] \in {"x", "."}
    /\ Limit \in Nat \ {0} /\ Overlap \in Nat

\* SearchRequest asks for a limit of at least one; a pack asks for eight.
ASSUME ContextAssumption == HitLimit \in Nat /\ ResultLimit \in Nat \ {0}

\* Sources, objects, review items and briefs are told apart by the prefix of their
\* identifiers, a brief is that of one review item, and a relationship is not
\* between those.
ASSUME ViewAssumption ==
    /\ SourcesOf \in [Objects -> SUBSET Sources]
    /\ ReviewSource \in [Reviews -> Sources]
    /\ CandidateOf \in [Reviews -> Objects]
    /\ \A l \in Links, r \in Reviews : {l.source, l.target} \cap {r, AiOf[r]} = {}
    /\ Reviews \cap (Sources \cup Objects) = {}
    /\ \A r \in Reviews : AiOf[r] \notin Sources \cup Objects \cup Reviews
    /\ \A r, q \in Reviews : AiOf[r] = AiOf[q] => r = q \/ AiOf[r] = NoBrief

-----------------------------------------------------------------------------
(* Side by side.                                                           *)

crawlVars == <<crawl, queue, visited, page, polls, outcome, items, limited>>
fetchVars == <<fetch, requested, current, hops, robots, contacted, canonical>>
driveVars == <<drive, folders, opened, folder, children, fetched, skipped,
               stopped>>
batchVars == <<submission, position, written, rows, attempts, answered, stops>>
windowVars == <<text, at, cutting, start, from, offset, chunks>>
screenVars == <<assessments, candidates, submitting, concurrent, submissions>>
contextVars == <<levels, sourceLevel, published, clearance, hits, asked,
                 results, denied, answer>>
gateVars == <<deployment, demands, gate, probed>>
enrichVars == <<settings, task, runs, tasks>>
noteVars == <<episodes, memories, related, promoting, begun, done, promotions>>
viewVars == <<known, reviewed, reading, shown>>

CrawlOff == /\ crawl = Off /\ queue = Off /\ visited = Off /\ page = Off
            /\ polls = Off /\ outcome = Off /\ items = Off /\ limited = Off

FetchOff == /\ fetch = Off /\ requested = Off /\ current = Off /\ hops = Off
            /\ robots = Off /\ contacted = Off /\ canonical = Off

DriveOff == /\ drive = Off /\ folders = Off /\ opened = Off /\ folder = Off
            /\ children = Off /\ fetched = Off /\ skipped = Off /\ stopped = Off

BatchOff == /\ submission = Off /\ position = Off /\ written = Off /\ rows = Off
            /\ attempts = Off /\ answered = Off /\ stops = Off

WindowsOff == /\ text = Off /\ at = Off /\ cutting = Off /\ start = Off
              /\ from = Off /\ offset = Off /\ chunks = Off

ScreenOff == /\ assessments = Off /\ candidates = Off /\ submitting = Off /\ concurrent = Off
             /\ submissions = Off

ContextOff == /\ levels = Off /\ sourceLevel = Off /\ published = Off /\ clearance = Off
              /\ hits = Off /\ asked = Off /\ results = Off /\ denied = Off
              /\ answer = Off

GateOff == /\ deployment = Off /\ demands = Off /\ gate = Off /\ probed = Off

EnrichOff == /\ settings = Off /\ task = Off /\ runs = Off /\ tasks = Off

NotesOff == /\ episodes = Off /\ memories = Off /\ related = Off /\ promoting = Off
            /\ begun = Off /\ done = Off /\ promotions = Off

ViewOff == /\ known = Off /\ reviewed = Off /\ reading = Off /\ shown = Off

On(name) == part = name

Init ==
    /\ part \in {"crawl", "fetch", "drive", "batch", "windows", "screen",
                 "context", "gate", "enrich", "notes", "view"}
    /\ IF On("crawl") THEN Crawl!Init ELSE CrawlOff
    /\ IF On("fetch") THEN Fetch!Init ELSE FetchOff
    /\ IF On("drive") THEN Drive!Init ELSE DriveOff
    /\ IF On("batch") THEN Batch!Init ELSE BatchOff
    /\ IF On("windows") THEN Windows!Init ELSE WindowsOff
    /\ IF On("screen") THEN Screen!Init ELSE ScreenOff
    /\ IF On("context") THEN Context!Init ELSE ContextOff
    /\ IF On("gate") THEN Gate!Init ELSE GateOff
    /\ IF On("enrich") THEN Enrich!Init ELSE EnrichOff
    /\ IF On("notes") THEN Obsidian!Init ELSE NotesOff
    /\ IF On("view") THEN View!Init ELSE ViewOff

\* A step of one part leaves the others alone.
CrawlStep ==
    /\ On("crawl") /\ Crawl!Next
    /\ UNCHANGED <<part, fetchVars, driveVars, batchVars, windowVars, screenVars,
                   contextVars, gateVars, enrichVars, noteVars, viewVars>>

FetchStep ==
    /\ On("fetch") /\ Fetch!Next
    /\ UNCHANGED <<part, crawlVars, driveVars, batchVars, windowVars, screenVars,
                   contextVars, gateVars, enrichVars, noteVars, viewVars>>

DriveStep ==
    /\ On("drive") /\ Drive!Next
    /\ UNCHANGED <<part, crawlVars, fetchVars, batchVars, windowVars, screenVars,
                   contextVars, gateVars, enrichVars, noteVars, viewVars>>

BatchStep ==
    /\ On("batch") /\ Batch!Next
    /\ UNCHANGED <<part, crawlVars, fetchVars, driveVars, windowVars, screenVars,
                   contextVars, gateVars, enrichVars, noteVars, viewVars>>

WindowsStep ==
    /\ On("windows") /\ Windows!Next
    /\ UNCHANGED <<part, crawlVars, fetchVars, driveVars, batchVars, screenVars,
                   contextVars, gateVars, enrichVars, noteVars, viewVars>>

ScreenStep ==
    /\ On("screen") /\ Screen!Next
    /\ UNCHANGED <<part, crawlVars, fetchVars, driveVars, batchVars, windowVars,
                   contextVars, gateVars, enrichVars, noteVars, viewVars>>

ContextStep ==
    /\ On("context") /\ Context!Next
    /\ UNCHANGED <<part, crawlVars, fetchVars, driveVars, batchVars, windowVars,
                   screenVars, gateVars, enrichVars, noteVars, viewVars>>

GateStep ==
    /\ On("gate") /\ Gate!Next
    /\ UNCHANGED <<part, crawlVars, fetchVars, driveVars, batchVars, windowVars,
                   screenVars, contextVars, enrichVars, noteVars, viewVars>>

EnrichStep ==
    /\ On("enrich") /\ Enrich!Next
    /\ UNCHANGED <<part, crawlVars, fetchVars, driveVars, batchVars, windowVars,
                   screenVars, contextVars, gateVars, noteVars, viewVars>>

NotesStep ==
    /\ On("notes") /\ Obsidian!Next
    /\ UNCHANGED <<part, crawlVars, fetchVars, driveVars, batchVars, windowVars,
                   screenVars, contextVars, gateVars, enrichVars, viewVars>>

ViewStep ==
    /\ On("view") /\ View!Next
    /\ UNCHANGED <<part, crawlVars, fetchVars, driveVars, batchVars, windowVars,
                   screenVars, contextVars, gateVars, enrichVars, noteVars>>

Next == \/ CrawlStep \/ FetchStep \/ DriveStep \/ BatchStep
        \/ WindowsStep \/ ScreenStep \/ ContextStep \/ GateStep
        \/ EnrichStep \/ NotesStep \/ ViewStep

vars == <<part, crawlVars, fetchVars, driveVars, batchVars, windowVars, screenVars,
          contextVars, gateVars, enrichVars, noteVars, viewVars>>

\* The crawl and the capture are loops of one thread, which takes its next step
\* whenever it has one: every HTTP call returns or times out.
Spec == Init /\ [][Next]_vars /\ WF_vars(CrawlStep) /\ WF_vars(FetchStep)

-----------------------------------------------------------------------------
(* The properties of the parts, as their modules state them.               *)

\* A walk without a warning visited every page within its depth.
CrawlIsComplete == On("crawl") => Crawl!CrawlIsComplete

\* Every crawl ends: cycles, tasks that never finish, pages that fail.
CrawlEnds == On("crawl") => Crawl!CrawlEnds

\* Every address that is called or recorded is one the policy accepts.
AddressesAreAccepted == On("fetch") => Fetch!AddressesAreAccepted

\* Every capture ends, however long the chain of redirects.
FetchEnds == On("fetch") => Fetch!FetchEnds

\* Each file under the requested folder is collected once or named in a warning.
DriveIsComplete == On("drive") => Drive!DriveIsComplete

\* A stored review item has its source, version, evidence and enrichment.
ReviewsHaveEvidence == On("batch") => Batch!ReviewsHaveEvidence

\* An answer to a batch says what was stored.
AnswersAreTrue == On("batch") => Batch!AnswersAreTrue

\* The offsets of a chunk lead to its content in the preserved text.
QuotesAreExact == On("windows") => Windows!QuotesAreExact

\* A text without warnings becomes a candidate once.
RepeatsAreFlagged == On("screen") => Screen!RepeatsAreFlagged

\* The objects, evidence, citations and related objects of a context pack are
\* within the clearance.
PackIsReadable == On("context") => Context!PackIsReadable

\* The conflicts of a context pack name what may be read: false of a withheld
\* object with the title of a readable one.
ConflictsAreReadable == On("context") => Context!ConflictsAreReadable

\* What a context pack says is missing is true.
MissingIsTrue == On("context") => Context!MissingIsTrue

\* The run of a source tells whose result was used; that of a pack never claims the
\* fallback for a model's guidance.
RunsAreTrue == On("enrich") => Enrich!RunsAreTrue

\* A promoted note left its memory, its links and the episode that holds it.
NotesAreTraceable == On("notes") => Obsidian!NotesAreTraceable

\* A graph view shows what may be read, all of it and nothing else.
GraphIsReadable == On("view") => View!GraphIsReadable

\* A deployment reported ready whose principals all name their subject can be
\* governed by two people.
ReadyIsGoverned == On("gate") => Gate!ReadyIsGoverned

=============================================================================
