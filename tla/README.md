# Unified Knowledge Base: verification models

TLA+ models of the Unified Knowledge Base (UKB), a Python service that turns
submitted text into reviewed, official knowledge and answers questions from it.
The modules are translated from `src/src/ukb`; TLC checks them on small
instances, and TLAPS proves every invariant, action property and refinement that
the passing runs check for every instance (section 5 names the conditions).

## 1. The system

UKB is a FastAPI application. REST handlers are synchronous functions that run
in a thread pool and share one `BrainService`, its stores and their Python
objects; almost nothing takes a lock. A store (`SqlAlchemyBrainStore`,
`SqlAlchemyKnowledgeOperationsStore`, `SqlAlchemyTalk2DataStore`) is a set of
dicts that are loaded from the database at start (`reload`) and written through:
each call changes the dict and then merges one row in a transaction of its own.
Three hazards follow from that design and recur in every component:

- an operation that writes two rows can stop between them (crash, failed
  transaction), and memory keeps a change whose transaction failed;
- two handlers interleave at every step, and hold references to the same
  objects, or to two copies of what should be one;
- whatever a row holds must be accepted by `reload`, or the process does not
  come up again.

### Components

| Component (code under `src/src/ukb`) | State | Operations | What makes it correct | Module |
|---|---|---|---|---|
| Review governance: `services/governance.py`, `application.py`, `storage/` | review items, knowledge objects, relationships, audit events | submit, approve, reject, request changes, revise, enrich, publish, legacy publication | official = approved word for word; decisions are final; object before its published review; answers survive a restart | `ReviewGovernance`, `ReviewContract` |
| Knowledge operations: `knowledge_ops/` | tenant stamp, assignments, quality assessments | assess, quality-gated submit, assign_review | one active assignment; the stamp does not disturb the review; a repeated text is flagged | `ReviewGovernance`, `QualityScreen` |
| Source subscriptions: `knowledge_ops/service.py` | subscription, its last checksum, refresh runs | create, run, pause, resume | a digest is remembered of what was submitted whole; a run is complete; duplicates are bounded | `SourceRefresh` |
| Governed memory: `talk2data/service.py` | memories, versions, conflict groups | promote, supersede, mark conflicts | contiguous version chains; history is not taken back; contradictions are marked; answers survive a restart; rows reload | `MemoryLedger` |
| Domain Packs: `talk2data/service.py`, `store.py` | versioned packs per tenant | create, current pack | a version is created once; at most one pack in force | `DomainPacks` |
| Episodes: `talk2data/service.py` | canonical episodes | ingest | one episode per idempotency key, over races and retries | `EpisodeLedger` |
| Backfill: `talk2data/backfill.py` | none; episodes and memories | run | migrated once, as reported | `LegacyBackfill` |
| Temporal graph: `talk2data/graph.py`, `service.py` | derived graph, watermarks | project, rebuild | a rebuild heals whatever went wrong | `GraphProjection` |
| Context coverage, orchestrator: `talk2data/service.py`, `orchestrator.py` | receipts | classify, query, cover, decide | an unqualified answer is earned; nothing leaks | `ContextCoverage`, `Orchestration` |
| Obsidian notes: `talk2data/obsidian.py`, `service.py` | episodes, memories, relationships | validate, promote | a memory rests on the note it came from | `ObsidianNotes` |
| Retrieval and index: `services/retrieval.py`, `search/` | index, fallback, synchronisation key | search, rebuild | answers come from the published objects | `SearchSync` |
| Context packs, access: `services/retrieval.py`, `context_pack.py`, `access.py` | none | search, build | what it hands out is within the clearance; what is said to be missing is missing | `ContextPacks` |
| Graph view: `services/graph.py` | none | build | shows what may be read | `BrainGraph` |
| Evidence: `services/evidence.py`, `storage/objects.py` | source versions, chunks | preserve, chunk | offsets quote exactly | `EvidenceWindows` |
| Ingestion: `services/ingestion.py`, `api/ingestion_routes.py`, `application.py` | all tables of a submission | preview, submit a batch | no review without evidence; answers are true | `IngestionBatch` |
| AI enrichment: `ai/` | recorded runs | enrich a source, enrich a pack | the run of a source tells whose result it is | `Enrichment` |
| Connectors: `connectors/` | none | crawl, capture, collect | complete within their limits; policy; they end | `SiteCrawl`, `WebFetch`, `DriveCollect` |
| Staging gate: `operations/staging.py`, with the principals of `api/security.py` | none | validate, probe | ready means that two people can govern it | `StagingReadiness` |
| API, MCP, security: `api/`, `mcp/` | none | route, authorise | roles | -- |
| Plugins, Talk2Data client and load generator, CLI, configuration, migrations, web console | none that other parts read | set-up and views | -- | -- |

Interactions: API and MCP call the application; the application calls
governance, which calls the brain store. Knowledge operations call the
application to submit and the brain store directly to stamp and assign.
Subscriptions submit through the application as well, so a subscription's
candidates enter the same review. Promotion of memory reads episodes; the
graph, the coverage receipts and the search index are derived from stored
objects.

`PROJECT.json` lists every component with its status, and under `hazards` the
places where the code is hard to test, with the properties aimed at each.

## 2. The modules

| Module | What it is |
|---|---|
| `ReviewContract` | abstract specification: what the review workflow promises to a reader of the database |
| `ReviewGovernance` | the review workflow, step by step; implements `ReviewContract` |
| `MemoryLedger` | governed memory: promotion, conflict marking, supersession |
| `SourceRefresh` | run, pause and resume of one source subscription |
| `DomainPacks`, `EpisodeLedger`, `LegacyBackfill`, `GraphProjection`, `SearchSync` | the other services that keep records |
| `ContextCoverage` | operators: what the service answers about a question, from a snapshot |
| `Orchestration` | the client that asks it in three requests, while the world changes; extends `ContextCoverage` |
| `IngestionBatch`, `EvidenceWindows`, `QualityScreen`, `Enrichment`, `ObsidianNotes` | the ways into the store |
| `SiteCrawl`, `WebFetch`, `DriveCollect` | the connectors |
| `ContextPacks`, `BrainGraph`, `StagingReadiness` | what is handed out, and the gate before staging |
| `Services` | the services that keep records, side by side, for any values of their constants |
| `Flows` | the flows, side by side, for any values of their constants |
| `ReviewGovernance_proofs`, `ReviewWorkflow_proofs`, `MemoryLedger_proofs`, `SourceRefresh_proofs`, `Services_proofs`, `QualityScreen_proofs`, `Intake_proofs`, `Knowledge_proofs` | theorems |
| `MCReviewGovernance`, `MCMemoryLedger`, `MCSourceRefresh` | instances for TLC (symmetry sets) |
| `MCServices`, `MCFlows` | the instances of `Services` and of `Flows` for TLC |

`Services` and `Flows` each hold several modules that share no state. A
behaviour belongs to one of them: the variable `part` names it from the first
state on, the variables of the others have the value `Off`. The state space is
the sum of those of the parts and not their product, and each property says
`On("part") => Module!Property`.

Operators whose comment begins with *Mutant* are faulty variants of the
definition that follows them. `PROJECT.json` uses them to confirm that each
checked property can fail; no specification uses them.

### ReviewGovernance

A handler is a sequence of steps: it checks its guards (`Begin`), changes the
Python object and serialises its row (`Apply`, `Assign`, `PublishCandidate`,
`PublishCopy`), and commits row after row (`CommitReviewRow`,
`CommitObjectRow`, `AddLinks`, `AuditPublication`, `Audit`, `AddAssignment`).
`hand[h]` is its local state: program counter, the object it holds, the
payload it has serialised but not committed.

| Variable | Code |
|---|---|
| `heap[i]["stored"]`, `heap[i]["detached"]` | the two Python objects of an item: `submit_text` stores a deep copy and returns the original (`application.py`) |
| `cell[i]` | which of them `store.review_items[i]` refers to |
| `object[i]` | `store.knowledge_objects`: an alias of the candidate after `publish`, a copy after a legacy publication or a reload |
| `reviewRow`, `objectRow`, `edges`, `active`, `issued`, `audit` | committed rows |
| `approvals` | history: item and content at each approval |

`Restart` loses handlers and rebuilds memory from the rows. `DbError` ends a
handler at a commit and leaves memory as the code leaves it. The content of a
candidate (title, summary, owner, attributes) is one value; `Owned` are the
contents that name an owner. `enrich_review` writes AI notes, which no property
looks at, so it only raises the revision. All assignment steps before the new
row are one step. Bounds: `MaxRevision`, `MaxCrashes`, `MaxDbErrors`.

### MemoryLedger

Promotion is: look for a duplicate (`Promote`), visit the stored memories and
write each rival (`Mark`, `Marked`, or `MarkFails` when the dict grew during
the iteration), store the memory (`Add`), project it and store it again
(`Project`, or `ProjectFails`). Supersession closes the old memory (`Supersede`,
`Close`), stores its successor (`Add`) and projects both. `Answer` returns.

| Variable | Code |
|---|---|
| `memories` | the dict of objects, which every request sees at once |
| `rows` | the committed rows: what each was serialised to, when it was merged |
| `job[h]` | what a request is doing; `write` is the row it has serialised and not yet merged |
| `used` | the identifiers ever made: `new_id` never repeats one |

`add_memory` is two steps: `Store` puts the object into the dict and serialises
it, `Commit` merges the row. In between other requests run, so that a row may be
older than its object, and may be merged after a newer one; `_project_memory`
writes the object as it is by then, which another request may have changed.
`Restart` takes memory from the rows, and requires `RowsReload`, as `reload`
validates every row. Two things are coarser than the code: the dict entry and
the serialisation are one step, as are the three assignments of
`service.py:483-485` with the dict entry that follows them. Were they apart, a
row could hold one half of a supersession until the next merge.

The model is of one tenant, one memory type and one domain: facts that differ in
these never meet in the code. The order in which `_mark_conflicts` visits is the
order of the dict, which after a reload is the database's choice, hence free.
`MarkFails` is possible only with two requests: the failing iteration needs a
dict that grew. A failed transaction of a store call ends the request like a
crash does, except that memory keeps the row's content; that difference is not
modelled here. Bounds: `LastTime`, `MaxCrashes`, and the finite set `Ids`.

### SourceRefresh

`Begin`, `Collect`, `Compare`, `Submit` (one document each), `Stamp`, `Settle`,
`Commit`, `AddRun` follow `run_subscription`; `Route` is pause and resume;
`Fail` is its except branch; `Abort` a failure that nothing catches;
`SourceChanges` is the outside world. `sub` is the shared object, `subRow` its
row. `Collect` reads some of the documents in some order: the connectors skip
files and pages with a warning, stop at a limit, and list in no fixed order. The
digest is that of the texts joined by newlines, without their places (`Joined`);
a text is a sequence of lines, so that one document of two lines and two of one
line have the same digest. Where the code keeps a digest the model keeps the
collection it was taken from, so that a property can speak of it; the actions
compare digests only. Two texts with one hash are left out. `Blank` stands for a
document that yields no candidate. `latest`, `varied`, `changes`, `started`,
`overlaps` and `batches` are history variables for `BatchesAreBounded`.
Submission is one step here; its inner steps are those of `ReviewGovernance`.
Bounds: `MaxChanges`, `MaxRuns`, `MaxTroubles` (pauses, failures and crashes).

### The services that keep records

`Services` composes them. It assumes that effective dates are `1 .. n`
(`DatesAssumption`), that requests for packs have a status of `DomainPackStatus`
(`StatusesAssumption`), and that packs name known sources, whose health is one of
the six of `SourceHealthStatus` or none (`SourcesAssumption`).

*DomainPacks.* `add_domain_pack` puts the object into the dict (`Close`, `Add`)
and then merges its row (`CloseRow`, `AddRow`), which the unique index on tenant
and version may refuse while memory keeps the object. `ExpectedVersions` holds
the one version that `create_domain_pack` accepts. `Restart` reloads.
`created` holds the packs whose creation was answered with 201. A request may
ask for a draft, for an approved pack, or for one that is superseded already,
which closes nothing and counts as in force; `presuperseded` remembers that one
did. A deprecated pack is like a draft here.

*EpisodeLedger.* The same two steps for episodes. `Repeat` is the lookup by key,
then by checksum; both scan the dict in insertion order, so that
`episodes` is a sequence, `WithKey` and `WithChecksum` are positions in it and
the first one counts; after a restart the order of the rows is free.

*LegacyBackfill.* Each run is a process with its own copy of the tables, taken
at its start. `IngestLegacy` and `PromoteLegacy` are `ingest_episode` and
`promote_memory` reduced to what they do to that copy and to the rows. Runs
overlap, are killed, and are repeated with other limits.

*GraphProjection.* Projection of an item, the watermark it writes, the rebuild
in its steps (clear, fill, mark). The in-memory adapter never fails and is empty
after a restart; Graphiti may fail at any call and survives.

*SearchSync.* One search at a time compares the key, rebuilds fallback and
primary, remembers the key and asks the index that is active; publications,
other searches, failures of the primary and restarts come in between.
`syncOnQuery` is `search_sync_on_query`: without it only a rebuild on demand
brings the index up to date, and `FreshWhenAlone` claims nothing. The limit of a
search and the ranking are left out; `ContextPacks` walks a ranked list.

*ContextCoverage* and *Orchestration.* Text matching is intersection of sets of
names. `ClassifyStep`, `QueryStep` and `CoverStep` are the three requests of
`evaluate`; `WorldChanges` replaces the pack, a source's health, a watermark or
the status of a memory between them.

### The flows

`Flows` composes them. What it assumes of its constants, and the proofs use:

| Assumption | Of the code |
|---|---|
| `CrawlAssumption` | links are addresses, the policy accepts some of them, limits are counts |
| `DriveAssumption` | a drive has finitely many folders, and a folder lists each child once |
| `BatchAssumption` | files are of the kinds the parser tells apart, the limit is a count |
| `WindowAssumption` | a heading is followed by a visible title; a window holds at least one character, the overlap is not negative |
| `ContextAssumption` | a search asks for at least one result |
| `ViewAssumption` | identifiers of sources, objects, review items and briefs differ (by their prefixes), a brief belongs to one item |

The code takes a negative overlap as none when it cuts windows and subtracts it
as it is when it moves the search (`services/evidence.py:141`, `115`); with one,
the search would run ahead. The default is 200 (`config.py`), and the offsets
are a property of overlaps that are counts.

*SiteCrawl, WebFetch, DriveCollect.* The pages, sites and folders answer as they
like at each step: Markdown, nothing, an error, a task to be polled; a page, a
redirect, a failure; a file, an error, a file of an unknown type. The graph of
links and of folders is a constant with cycles in it. `Joined` is the loop that
queues the links of a page.

*IngestionBatch.* A file is its kind: what the parser and the submission make of
it. A batch writes one row at a time in `WriteOrder`; a crash or a failing write
ends the request, and the client may send the batch again.

*EvidenceWindows.* Texts are all sequences of four to six characters over five
classes of characters; positions count from 0, as in Python. `Cut` is the loop of
`_sections` over the text, from which `Sections` follow; `Strip` and `Find` are
defined by what Python's methods return.

*QualityScreen.* `Assess` and the decision of `submit`, with two requests; the
checks of a text are the set of flaws they find, scores are in hundredths.

*Enrichment.* `Start` decides which way a task goes before a model is asked,
`Reply`, `Fall` and `Break` are the outcomes of the call, `Record` the row. Each
row is kept next to what happened (`truth`). A confidential source is kept from a
hosted model unless that is allowed; a pack of any level is sent to it, as
`enrich_context_pack` has no such gate (`ai/service.py:105-111`).

*ObsidianNotes.* `Ingest`, `Remember`, `Relate` and `Return` are the steps of
`promote_obsidian`; `BreakOffPromotion` may come between any two. The YAML of a
note is abstracted to whether it can be read; races are in `EpisodeLedger` and
`MemoryLedger`.

*ContextPacks, BrainGraph, StagingReadiness.* The index ranks as it likes; the
sensitivities of sources, objects and candidates are all combinations; a
deployment is a record of its settings, and secrets are "absent", "placeholder",
"short" or a value. `Conflicts` reports the published rivals of a pack's objects,
whoever asks. A returned object carries its own metadata (the identifiers of its
sources and of the objects it is related to), and a node of the graph view does
as well; these are not modelled. `Subjects` counts identities as the gate does,
`Configured` are the principals that the API makes of the same map.

## 3. The runs

| Run | Checks | Instance |
|---|---|---|
| `review_serial` | `TypeOK`, `PublishedHasObject`, `OfficialContentApproved`, `AnswersAreDurable`, `OneActiveAssignment`, `DecisionsStand`, `RefinesContract` | 1 item, 1 handler, 2 contents, revisions to 5, 2 crashes |
| `review_concurrent` | `ObjectWasApproved`, `EffectsFollowObject` | 1 item, 2 handlers, 1 failed transaction |
| `memory_ledger` | `TypeOK`, `ContradictionsAreMarked`, `PromotedOnce`, `AnsweredIsDurable` | 3 memories, 1 request at a time, 2 contents, 1 crash |
| `memory_concurrent` | `ChainsAreContiguous`, `HistoryStands` | 3 memories, 2 requests, 3 time points, 1 crash |
| `refresh` | `ChecksumIsCovered`, `ChangedRunsAreComplete`, `BatchesAreBounded` | 2 documents, 2 threads, 3 runs, 1 edit, 1 pause, failure or crash |
| `services` | `HistoryIsLinear`, `DeliveriesAgree`, `MigratedAsReported`, `RebuildHeals`, `FreshWhenAlone`, `UnqualifiedIsEarned`, `NoLeak` | 3 packs and 3 episodes in 2 requests with 1 crash; 2 legacy objects in 3 runs; 3 items of 2 tenants, 1 fault, 1 restart; 2 objects in 2 searches, 1 fault, 1 restart; 3 memories, 5 questions, 1 change |
| `flows` | `CrawlIsComplete`, `CrawlEnds`, `AddressesAreAccepted`, `FetchEnds`, `DriveIsComplete`, `ReviewsHaveEvidence`, `AnswersAreTrue`, `QuotesAreExact`, `RepeatsAreFlagged`, `RunsAreTrue`, `NotesAreTraceable`, `PackIsReadable`, `MissingIsTrue`, `GraphIsReadable`, `ReadyIsGoverned` | 6 pages; 9 addresses; 3 folders; batches of up to 5 files against a limit of 3, sent twice; see above for the others |
| `review_stale_stamp` | finds `SeenDecisionsStand` violated | 2 handlers |
| `review_db_error` | finds `PublishedHasObject` violated | 1 handler, 1 failed transaction |
| `review_revision` | finds `GuardedRevisionHolds` violated | 2 handlers |
| `memory_stale_row` | finds `SupersededIsClosed` violated | 2 memories, 2 requests, 1 crash |
| `pack_conflicts` | finds `ConflictsAreReadable` violated | as `flows` |

**What the passing runs show.** With one request at a time and crashes at any
step, the committed rows implement the abstract workflow: a candidate is decided
once, and becomes official with the content that was approved, including along
the legacy path that publishes a copy and may be followed by a regular
publication. With two handlers the decisions themselves race (see below), and
what survives is weaker: no official object without some approval, no
publication record before its object. Governed memory keeps its version chains
and its history under two requests, in the dict and in the rows, although rows
are merged late; that contradictions are marked, promotions are not repeated and
answers are durable holds for one request at a time. A subscription remembers a
digest only of a collection that it submitted whole, under every overlap of two
runs, failure and crash; another collection may have the same digest (section 4).
A batch is submitted only when a collection differs from the one before
it, in its content, in what was skipped or in the order, or after something
failed or overlapped.

The services hold what their documents promise as far as the code lets them.
Pack versions and episodes are protected by the unique indexes even in races. At
most one pack is in force as long as requests do not overlap, none asks for a
superseded pack, and versions take effect in their order; a repeated delivery
gets the same episode as long as deliveries do not overlap. A backfill may be
killed anywhere: the next one finishes what it left. A rebuild repairs the graph
after any failure. A search that races with nothing sees exactly the published
objects, where the service synchronises on queries. An orchestrator that
proceeds without qualification has a receipt in which everything it needed was
healthy at the moment the receipt was made.

The flows end and account for what they saw. A crawl without a warning visited
everything within its depth, since the order of its queue never visits a page at
more than its distance. No redirect or canonical link leaves the policy. A batch
may stop between any two writes, and no review item lacks its evidence. Every
chunk is found at its offsets in every short text. The run of a source's
enrichment names whose result was used; that of a pack names the configured
provider, and only never claims the fallback for what a model wrote. A pack's
objects, evidence, citations and related objects are within the clearance, its
conflicts are not. A deployment that the gate lets pass can be governed by two
people if every principal names its subject. A note that is promoted again after
it was broken off ends with its own episode, memory and links.

**Why some runs have one handler.** `DecisionsStand`, `OfficialContentApproved`,
`PublishedHasObject`, `AnswersAreDurable`, `OneActiveAssignment`,
`ContradictionsAreMarked`, `PromotedOnce` and `AnsweredIsDurable` are false of
the code with two handlers, since each operation checks and then changes shared
objects without a lock. The one-handler runs establish that the operations'
logic and their order of commits is right; the two-handler runs state what holds
regardless; the violation runs show three of the races, `review_stale_stamp`,
`review_revision` and `memory_stale_row`.

**Bounds.** One review item is enough because no review operation reads
another item. Five revisions allow revise, enrich, assign, approve and
publish in one behaviour. Two contents tell approved from edited content.
Two crashes allow a crash during the recovery of the first. Three memories let
a conflicting pair meet a third, or a chain of two successors; two time points
give intervals that touch, overlap and invert, and the third one of
`memory_concurrent` lets a second supersession end a fact earlier than the first.
That run has no subjects but only general facts and one content, as rivals change
nothing of intervals; they conflict all the same. Two documents let a batch stop
halfway, and be skipped or read in either order, and one that says what the other
said has its digest. A third run finds the digest that the slower of two
overlapping runs left; pauses, failures and crashes share one bound
(`MaxTroubles`) to stay small, so that no run has two of them, and the theorems
carry the rest. Three packs let a
version follow one that was closed and lost; three episodes with one key let two
deliveries race and a third find what they left. Two tenants show what a rebuild
does to the other's items. Six pages with a depth of three hold a page that is
reached at two depths, and a limit of five pages cuts the walk. Six characters
let a window of four with an overlap of two repeat itself within a text.

**Symmetry.** Handlers, memory identifiers and documents are interchangeable:
no definition orders or names one. The sets are used for invariants and for
action properties, never for liveness. `review_serial`, `review_revision` and
`review_stale_stamp` use none.

**Deadlock.** Every instance stops when its bounds are used up, so the
configurations switch the deadlock check off; a behaviour of the code ends when
no more requests arrive.

**Fairness and liveness.** `flows` assumes weak fairness of the crawl's and of
the capture's next step, and of nothing else. Each is a loop of one thread in
one call, which has a next step until it returns; the HTTP clients are created
with a timeout (`web_fetcher.py:53`, `crawl4ai.py`), so that a call that waits
for a site returns. `CrawlEnds` and `FetchEnds` say that the loops themselves
end, against sites that redirect in circles, link in circles and never finish a
task; the deadline of a task is counted in polls (`MaxPolls`). For everything
else the models assume no fairness: every operation is a request of a client,
and nothing in the repository schedules one. In particular `next_run_at` of a
subscription is computed and reported but no code acts on it, so that even "a
changed source is eventually submitted" would rest on an assumption that the
code does not supply.

## 4. Findings

- `review_stale_stamp`: the tenant stamp after a submission writes a stale
  snapshot back into the store and undoes a decision taken meanwhile.
- `review_db_error`: a failed object transaction of `publish` leaves a published
  item in memory; the next write of the item makes that durable, without an
  object, and publication is refused from then on.
- `review_revision`: a guarded decision is applied to content that was revised
  after its revision was checked.
- `memory_stale_row`: a request commits the row it serialised before another one
  superseded the memory; after a restart the superseded version is in force
  again, beside its successor.
- `pack_conflicts`: a context pack names, as a conflict, a published object above
  the caller's clearance.

Disagreements that were met and have no run of their own:

- The digest of a collection is that of the joined texts
  (`knowledge_ops/service.py:417-419`), so that a text which moved to another
  place, or two lines which became two documents, leave it as it was; the run
  then reports "The source checksum is unchanged; no duplicate candidate was
  created." (`knowledge_ops/service.py:423`) of what no candidate holds.
- A supersession effective at or before the start of what it closes is accepted
  (`talk2data/service.py:484`), and writes a row that the model itself refuses at
  the next start (`models.py:409`).
- The graph raises during a query, the exception is swallowed
  (`talk2data/service.py:619-621`), and the receipt lists the graph as searched
  and may say complete, which `docs/TALK2DATA_DOMAIN_MEMORY.md:297` explains as
  "Requested partitions were searched with healthy required sources and current
  indexes."
- A pack may be created as superseded (`models.py:259`): it closes nothing and
  counts as in force (`talk2data/service.py:179`), so that two are, without a
  race and without the approval that `docs/TALK2DATA_DOMAIN_MEMORY.md:50` asks of
  a current pack.
- A model fails on a context pack, the deterministic provider stands in
  (`ai/service.py:105-111`), and the run names the model and no fallback
  (`application.py:296`, `303`), where `docs/LLM_FEATURE_ARCHITECTURE.md:359-363`
  wants the fallback recorded.
- The staging gate counts a principal without a subject as a second identity
  (`operations/staging.py:229`), which the API drops when it runs
  (`api/security.py:131-132`); `docs/PRIVATE_RUNTIME_PILOT.md:61` asks for
  separately attributable tokens.
- An approval that names no revision publishes a copy without the owner that
  `publish` requires (`governance.py:80`, `docs/GOVERNANCE_WORKFLOW.md:110`).
- A contradiction turns a superseded memory into a conflicting one, which can
  then be superseded again, overwriting its end and successor
  (`talk2data/service.py:1260`).
- A Domain Pack that starts exactly when the current one started closes it with
  an empty interval, which `models.py:274` refuses at the next start.
- The hosted provider can fail after it has written guidance into a context pack
  (`openai_provider.py:105`); the run then says failed of a pack that carries it.
- A memory that is "unverified" becomes current when it is superseded, and a
  supersession effective after the end of a fact extends its interval
  (`talk2data/service.py:483-484`).
- An approved pack that takes effect before the current one does closes nothing,
  and both are in force later (`talk2data/service.py:144`).
- A principal who is only a publisher passes the role check of
  `promote_obsidian` and is refused by the `ingest_episode` it calls
  (`talk2data/service.py:1009`, `356`).
- An edited note that keeps its version is attached to the episode of its
  earlier text (`talk2data/service.py:1019`).
- The graph view draws a published object's node and then overwrites it with
  that of the candidate it came from (`services/graph.py:151`).

## 5. Proofs

Each theorem holds for every value of the constants that satisfies the module's
named assumptions: any number of items, handlers, documents, memories, crashes
and failures, and any bound. Conditions that a theorem adds are named in the
table and explained below it.

| Module | Theorem | Statement |
|---|---|---|
| `ReviewGovernance_proofs` | `TypeCorrectness` | `Spec => []TypeOK` |
| | `OnlyApprovedIsOfficial` | `Spec => []ObjectWasApproved` |
| | `EffectsAreOrdered` | `Spec => []EffectsFollowObject` |
| `ReviewWorkflow_proofs` | `PublicationIsDurable` | `OneByOne`: `[]PublishedHasObject` |
| | `OfficialIsVerbatim` | `OneByOne`: `[]OfficialContentApproved` |
| | `AnswersLast` | `OneByOne`: `[]AnswersAreDurable` |
| | `AssignmentsReplace` | `OneByOne`: `[]OneActiveAssignment` |
| | `DecisionsAreFinal` | `OneByOne`: `DecisionsStand` |
| | `ContractHolds` | `OneByOne`: `RefinesContract` |
| `SourceRefresh_proofs` | `RefreshTypes` | `Spec => []TypeOK` |
| | `RememberedIsSubmitted` | `Spec => []ChecksumIsCovered` |
| | `ChangedIsComplete` | `Spec => []ChangedRunsAreComplete` |
| | `DuplicatesAreBounded` | `Spec => []BatchesAreBounded` |
| `MemoryLedger_proofs` | `LedgerTypes` | `Spec => []TypeOK` |
| | `ChainsHold` | `Spec => []ChainsAreContiguous` |
| | `HistoryIsKept` | `Spec => HistoryStands` |
| | `ContradictionsMarked` | one request at a time: `[]ContradictionsAreMarked` |
| | `PromotionsAreIdempotent` | one request at a time: `[]PromotedOnce` |
| | `AnswersAreDurable` | one request at a time: `[]AnsweredIsDurable` |
| `Services_proofs` | `PackHistoryIsLinear` | `Spec => []HistoryIsLinear` |
| | `KeysHaveOneEpisode` | `Spec => []DeliveriesAgree` |
| | `BackfillIsTrue` | `Spec => []MigratedAsReported` |
| | `RebuildsHeal` | `Spec => []RebuildHeals` |
| | `SearchesAreFresh` | `Spec => []FreshWhenAlone` |
| | `NothingLeaks` | `Spec => []NoLeak` |
| | `ProceedIsEarned` | `Spec => []UnqualifiedIsEarned` |
| `QualityScreen_proofs` | `WorseIsWorse` | more findings never improve a disposition |
| `Intake_proofs` | `CrawlFindsEverything` | `Spec => []CrawlIsComplete` |
| | `NothingEscapesThePolicy` | `Spec => []AddressesAreAccepted` |
| | `DriveIsAccountedFor` | `Spec => []DriveIsComplete` |
| | `EvidenceComesFirst` | `Spec => []ReviewsHaveEvidence` |
| | `AnswersTellTheRows` | `Spec => []AnswersAreTrue` |
| `Knowledge_proofs` | `OffsetsLeadToQuotes` | `Spec => []QuotesAreExact` |
| | `RepeatsCarryWarnings` | `Spec => []RepeatsAreFlagged` |
| | `RunsTellTheTruth` | `Spec => []RunsAreTrue` |
| | `NotesAreKept` | `Spec => []NotesAreTraceable` |
| | `PacksStayReadable` | `Spec => []PackIsReadable` |
| | `PacksTellWhatIsMissing` | `Spec => []MissingIsTrue` |
| | `ViewsShowWhatMayBeRead` | `Spec => []GraphIsReadable` |
| | `ReadyMeansGoverned` | `Spec => []ReadyIsGoverned` |

*ReviewGovernance.* `ObjectWasApproved` is not inductive: a handler commits an
object from a payload and an object in memory that were made earlier. The
invariant `ApprovalInv` says, of each of the places where an item can be held
(both Python objects, the row, the payload in each hand, and what a handler is
about to do), that an approved or published status comes with an approval, and
of each handler past the object commit that the object row is there.

*ReviewWorkflow.* The properties of `review_serial` are false when two handlers
are at one item, and after a failed transaction (section 4). The theorems are
about the behaviours without these: `OneByOne` says that no two busy handlers
are at the same item and that no transaction has failed. Handlers on different
items may interleave freely, and crashes may come at any step. `OneHandler`
shows that an instance with one handler and `MaxDbErrors = 0`, like that of the
run, satisfies it. `WorkflowInv` says for each item how its places agree. With
no handler between an object's change and its commit the item is settled: both
rows are what memory shows. In between, the handler's payload and the item in
memory are one, and the rows say how far the operation has come: publication
has the object row before the review row, a legacy publication leaves an
approved review with its copy, an assignment ends the old one before it adds the
new. `ContractHolds` maps each step to one of `ReviewContract` or to a stutter:
only the three commits change a row that the contract sees.

*SourceRefresh.* `CoverInv` adds to `ChecksumIsCovered` the same statement about
every serialised subscription row, and that what a run collected is covered by
the candidates made so far together with the documents still to submit.
Candidates are never removed, so that coverage is stable under other requests.
It speaks of the collection behind a digest, which is why it needs nothing of the
digest. `CompleteInv` says the same of one run: its candidates so far are exactly
those of the documents it has submitted, one each, and the settled ones are
stamped; other runs append candidates of their own and stamp only those.
`BatchesAreBounded` counts, and its invariant `BatchInv` keeps a reserve: how
many batches the present state may still cause without a further variation,
failure or crash. What it compares is the remembered digest, the digests in hand
and `latest`, that of the last collection of all: a collection that has the
digest of the one before it adds nothing to compare. The reserve is at most one
when nothing runs (the remembered digest is not the latest), at most two for a
lone run (`Lone`), and for several runs one for each that has not compared yet
and one for the next unless all agree (`Many`, `InUnison`). The start of an
overlapping run raises the bound by two, the one batch it may cause and one for
the state it may leave.

*MemoryLedger.* A memory exists in several copies: the object, its row, the row a
request has serialised, and the object a request is about to store. Any of them
may be the last to be written, so that `ChainInv` speaks of any two copies
(`Holds`), and a step that only moves copies preserves it. Copies of one memory
have the same fact, version and predecessor (`CopiesAgree`); a copy that names a
successor fits every copy of that successor (`CopiesChain`), so that it does not
matter which rows a crash leaves; a copy without a successor has the end of its
fact (`CopiesAreKnown`); and identifiers in the hands of requests are fresh and
distinct (`IdsAreFresh`). `ChainsAreContiguous` is an instance of it.
`HistoryStands` follows from freshness, as `Add` never overwrites, and for a row
that is overwritten by an older copy from what copies have in common: the older
one ends with its fact or at a supersession. `SerialInv` adds, for one request at
a time (`OneRequest`), that rows and memory differ in the row in hand only
(`RowsFollow`), which is what makes answers durable and a crash harmless, that
the fact under promotion is new, and that its rivals among the memories already
visited are marked.

*Services.* A step is a step of the part the behaviour belongs to (`OnePart`),
so that each part has an invariant of its own.

- `PacksInv`: the table's versions are distinct, whatever races. As long as no
  two requests overlapped, memory is the table but for the one request's own
  step, the request's version is above all stored ones, and from `Close` on
  nothing is in force at the date an approved pack takes effect. The second part
  ends with the first request for a superseded pack (`Regular`), which takes
  effect without closing anything (section 4); requests may have any
  status (`StatusesAssumption`), and versions are distinct in any case.
- `EpisodeInv`: rows are in memory, keys of rows are distinct, an answer that
  says created has its row. As long as deliveries take turns, what memory shows
  is stored or about to be, and nothing stored has the key that is on its way.
- `BackfillInv`: a run's copy is part of the tables, and a memory follows its
  episode. As long as runs do not overlap, a run sees every memory of the
  objects it has left.
- `GraphInv`: while nothing disturbs a rebuild it listed everything stored of
  its tenant, and after the clearing nothing else is in the graph.
- `SearchInv`: the remembered key is true of the index that answers while
  nothing is being rebuilt, and a request's step says how far its rebuild is.
- `CoverageInv`: what an evaluation has gathered is shown to its principal, and
  an unqualified receipt was made of a world that earns it. The work is in
  two lemmas about the operators: every partition's memories pass the policy
  (`PartitionIsShown`), and a receipt says complete only when everything is
  (`ReceiptIsEarned`).

*QualityScreen.* `WorseIsWorse` is a statement about the thresholds: deductions
add up, the score is clamped at both ends, and some findings override it; over
all pairs of sets of findings the disposition is monotone.

*Flows.* A step is a step of the part the behaviour belongs to (`OnePart`), as in
`Services`. `Intake_proofs` is about the first four parts of `Flows`,
`Knowledge_proofs` about the others.

- `CrawlInv`: there is an assignment of depths to the visited pages such that
  each visited page and each queued one is the start, or is linked from a page
  that yielded Markdown one step nearer (`LeadsTo`); the queue is in the order of
  its depths, within one of that of the page in hand; and what a page that
  yielded links to is visited, no deeper than its distance, or still queued
  (`Reached`). From the order follows that the first visit to a page is at its
  least depth, so that no link is dropped for a depth that a shorter path would
  not have. At the end the queue is empty, and the pages within each distance
  follow from those within the one before. A page may be queued several times.
- `FetchInv`: the recorded address may be the page's canonical link or, when
  the policy refuses that link, the address that was called. So a page that is
  being compiled came from an accepted address, and a captured page has an
  accepted one, besides every address called.
- `DriveInv`: each child of an opened folder is `Settled` (collected, skipped
  with its reason, opened or queued) or among those of the folder in hand that
  were not looked at; none of these was collected from it. Below the limit the
  requested folder is opened or queued, so that at the end every folder under
  it is opened.
- `NestedInv` orders the six tables as they are written: each holds only items
  that the one before it holds, the current item has a row in each table already
  written, and no item is passed over once it has a row. The last part is needed
  because a failed request leaves an item half written, and only the next
  submission starts it anew.
- `AnswersInv`: each row carries the submission it was written by, and an
  earlier answer stays true of the rows of its own. The submission that is
  running has rows for exactly the usable items before its position, and for the
  item in hand in the tables already written.
- `WindowsInv`: the sections lie in the text one behind the other (`Lies`,
  proved of the loop in `SectionsLie`); the search for the next section starts no
  further than where it lies, and the search for the next window no further than
  that window in some copy of its section, the true one or an earlier one
  (`SearchAhead`, `CopyAhead`). A copy of a window found too early only moves the
  search back, and a window starts no further back than the search does
  (`Kept <= Overlap`). So no search fails, and what it finds is a quote.
- `ScreenInv`: an assessment is stored before its candidate, so that the table
  covers every candidate and every request about to make one. A request that is
  `Alone` (it found no flaw, and no other assessed the same text meanwhile) is
  the only one to bring its text, before its assessment is stored and after.
- `EnrichInv`: a task that asks a model was allowed to, and one that is about to
  be recorded has a row that is true of what happened; runs stay true since the
  settings do.
- `NotesInv`: every episode holds the note of some promotion that was begun
  under its key, and an answered promotion has its memory and its links. A
  promotion that repeats one may find the episode and the memory of the earlier.
- `ContextInv`: each published object that was asked for is still to be looked
  at, withheld or returned; what is returned is readable and not withheld, and
  the pack built from it keeps both.
- `ViewInv` and `GateInv` are the properties with the types they need. The work
  is in lemmas about what a view shows (`ViewEnds`, `ViewDraws`) and what a
  ready deployment has passed (`ReadyPassed`, `TwoOfThem`). The gate's two
  identities are those of principals the API accepts because each of them names
  its subject; without that the statement is false (section 4).

*Induction.* The prover has no induction over numbers and does not unfold a
recursive function whose existence is unproved. Two lemmas supply both, and
the walks, loops and distances above rest on them. `Climb`: a set of numbers up
to n that holds 0 and the successor of each of its members below n holds n;
otherwise "the next one" would map it into itself without 0, against the
pigeonhole principle of `FiniteSetTheorems`. `LoopExists` and `LayersExist`: a
function that repeats a step n times exists, so that `SiteCrawl`'s `Joined`,
`Cut`, `Below` and `Within` are what their definitions say.

Model-checked only: `CrawlEnds` and `FetchEnds`, as liveness under fairness is
out of the prover's reach, and the findings, each of which is a counterexample.
The types of `SourceRefresh` are proved and not run.

## 6. Not modelled

- REST routing, tokens and OIDC, MCP tools: no state; roles appear where a
  property depends on them.
- The text of things: extraction of PDF and Office files, HTML to text,
  tokenising and scoring of searches, prompts and keyword heuristics of the
  providers, the YAML of notes. Models take what these yield as an input.
- Object stores and the Zvec and Graphiti wire formats: the models see a write
  that succeeds or fails, and an index that answers or fails.
- Comments, feedback, workload views, vocabulary lookups, timelines: read-only,
  or records that no other operation reads.
- `brain_project`, plugins, the Talk2Data client, the load generator, CLI,
  configuration, migrations and web console: set-up and views.
- Failed transactions that do not end the process in `MemoryLedger`,
  `EpisodeLedger` beyond the unique index, and `GraphProjection`'s rows. In
  `MemoryLedger` the dict entry and the serialisation of an object are one step.
- What handed-out objects and graph nodes carry as metadata: the identifiers of
  their sources and relationships (`services/graph.py:62`), whatever the
  clearance reads of those.
- The limit and the ranking of a search in `SearchSync`, and two texts that have
  one hash.
- Two tenants in one module, except in `GraphProjection` and `ContextCoverage`:
  the other services filter by tenant first and keep nothing across tenants.

## 7. Plan

1. *Done:* the modules of section 2, their runs, and theorems for the review
   workflow with its contract, source refresh, governed memory, the services and
   the flows.
2. Failed transactions in `MemoryLedger`.
