------------------------------ MODULE Services ------------------------------
(***************************************************************************)
(* The services that keep records, side by side: Domain Packs, episodes,   *)
(* the backfill, the graph projection, the search index and the            *)
(* orchestrator with its receipts.  They share no state, so a behaviour    *)
(* belongs to one of them, chosen at the beginning (part); the variables   *)
(* of the others are off.                                                  *)
(***************************************************************************)
EXTENDS Naturals, FiniteSets

CONSTANTS
    Off         \* the value of the variables of the other parts

\* Those of the modules, which say what they are.
CONSTANTS
    PackIds, PackHandlers, PackTimes, PackStatuses, NoPack, MaxPackCrashes,
    EpisodeIds, EpisodeKeys, NoKey, Checksums, Deliverers, MaxEpisodeCrashes,
    Objects, Unmapped, Runs, MaxLimit, MaxStarts,
    Items, Tenants, TenantOf, Links, Backends, MaxVersion, MaxGraphFaults,
    MaxGraphRestarts,
    Published, LevelOf, Clearance, Searchers, MaxPublications, MaxIndexFaults,
    MaxSearchRestarts,
    Facts, NoCurrent, Questions, Principals, Packs, Sources, Healths, MaxWorldChanges

\* Packs take effect at dates, the first of which is 1.
ASSUME DatesAssumption ==
    IsFiniteSet(PackTimes) /\ PackTimes = 1 .. Cardinality(PackTimes)

\* DomainPackStatus.
ASSUME StatusesAssumption == PackStatuses \subseteq {"draft", "approved", "superseded"}

\* SourceHealthStatus, and the sources that packs name.
ASSUME SourcesAssumption ==
    /\ Healths \subseteq {"none", "healthy", "stale", "partial", "failed", "unavailable"}
    /\ \A p \in Packs : \A source \in p.sources : source.id \in Sources

VARIABLES
    part,
    packs, packRows, creating, created, overlapped, presuperseded, packCrashes,
    episodes, episodeRows, delivering, answers, interleaved, episodeCrashes,
    backEpisodes, backMemories, run, overlap, starts,
    backend, stored, graph, mark, projecting, rebuild, graphFaults, graphRestarts,
    objects, fallback, primary, syncOnQuery, opened, lastError, syncKey, searching, raced,
    indexFaults, searchRestarts,
    pack, status, health, marks, graphFails, session, changes

-----------------------------------------------------------------------------
DomainPack == INSTANCE DomainPacks
Episode == INSTANCE EpisodeLedger
Backfill == INSTANCE LegacyBackfill
Projection == INSTANCE GraphProjection
Search == INSTANCE SearchSync
Coverage == INSTANCE Orchestration

-----------------------------------------------------------------------------
(* Side by side.                                                           *)

packVars == <<packs, packRows, creating, created, overlapped, presuperseded, packCrashes>>
episodeVars == <<episodes, episodeRows, delivering, answers, interleaved, episodeCrashes>>
backfillVars == <<backEpisodes, backMemories, run, overlap, starts>>
graphVars == <<backend, stored, graph, mark, projecting, rebuild, graphFaults, graphRestarts>>
searchVars == <<objects, fallback, primary, syncOnQuery, opened, lastError, syncKey, searching,
                raced, indexFaults, searchRestarts>>
coverageVars == <<pack, status, health, marks, graphFails, session, changes>>

PacksOff == /\ packs = Off /\ packRows = Off /\ creating = Off /\ created = Off
            /\ overlapped = Off /\ presuperseded = Off /\ packCrashes = Off

EpisodesOff == /\ episodes = Off /\ episodeRows = Off /\ delivering = Off
               /\ answers = Off /\ interleaved = Off /\ episodeCrashes = Off

BackfillOff == /\ backEpisodes = Off /\ backMemories = Off /\ run = Off
               /\ overlap = Off /\ starts = Off

GraphOff == /\ backend = Off /\ stored = Off /\ graph = Off /\ mark = Off
            /\ projecting = Off /\ rebuild = Off /\ graphFaults = Off
            /\ graphRestarts = Off

SearchOff == /\ objects = Off /\ fallback = Off /\ primary = Off /\ opened = Off
             /\ syncOnQuery = Off
             /\ lastError = Off /\ syncKey = Off /\ searching = Off /\ raced = Off
             /\ indexFaults = Off /\ searchRestarts = Off

CoverageOff == /\ pack = Off /\ status = Off /\ health = Off /\ marks = Off
               /\ graphFails = Off /\ session = Off /\ changes = Off

On(name) == part = name

Init ==
    /\ part \in {"packs", "episodes", "backfill", "graph", "search", "coverage"}
    /\ IF On("packs") THEN DomainPack!Init ELSE PacksOff
    /\ IF On("episodes") THEN Episode!Init ELSE EpisodesOff
    /\ IF On("backfill") THEN Backfill!Init ELSE BackfillOff
    /\ IF On("graph") THEN Projection!Init ELSE GraphOff
    /\ IF On("search") THEN Search!Init ELSE SearchOff
    /\ IF On("coverage") THEN Coverage!Init ELSE CoverageOff

\* A step of one part leaves the others alone.
PacksStep ==
    /\ On("packs") /\ DomainPack!Next
    /\ UNCHANGED <<part, episodeVars, backfillVars, graphVars, searchVars, coverageVars>>

EpisodesStep ==
    /\ On("episodes") /\ Episode!Next
    /\ UNCHANGED <<part, packVars, backfillVars, graphVars, searchVars, coverageVars>>

BackfillStep ==
    /\ On("backfill") /\ Backfill!Next
    /\ UNCHANGED <<part, packVars, episodeVars, graphVars, searchVars, coverageVars>>

GraphStep ==
    /\ On("graph") /\ Projection!Next
    /\ UNCHANGED <<part, packVars, episodeVars, backfillVars, searchVars, coverageVars>>

SearchStep ==
    /\ On("search") /\ Search!Next
    /\ UNCHANGED <<part, packVars, episodeVars, backfillVars, graphVars, coverageVars>>

CoverageStep ==
    /\ On("coverage") /\ Coverage!Next
    /\ UNCHANGED <<part, packVars, episodeVars, backfillVars, graphVars, searchVars>>

Next == \/ PacksStep \/ EpisodesStep \/ BackfillStep
        \/ GraphStep \/ SearchStep \/ CoverageStep

vars == <<part, packVars, episodeVars, backfillVars, graphVars,
          searchVars, coverageVars>>

Spec == Init /\ [][Next]_vars

-----------------------------------------------------------------------------
(* The properties of the parts, as their modules state them.               *)

\* The versions of a pack are created once and, when none is superseded from the
\* start and no requests overlap, in force one after the other.
HistoryIsLinear == On("packs") => DomainPack!HistoryIsLinear

\* A key has one episode, over races, retries and crashes.
DeliveriesAgree == On("episodes") => Episode!DeliveriesAgree

\* An object is migrated once, and a report holds of the tables.
MigratedAsReported == On("backfill") => Backfill!MigratedAsReported

\* A rebuild that nothing disturbs makes the graph show what is stored.
RebuildHeals == On("graph") => Projection!RebuildHeals

\* A search that synchronises and raced with nothing asks an index of exactly the
\* published objects.
FreshWhenAlone == On("search") => Search!FreshWhenAlone

\* A decision to proceed without qualification is earned by its receipt.
UnqualifiedIsEarned == On("coverage") => Coverage!UnqualifiedIsEarned

\* Neither answer nor receipt shows what policy withholds.
NoLeak == On("coverage") => Coverage!NoLeak

=============================================================================
