----------------------------- MODULE SearchSync -----------------------------
(***************************************************************************)
(* RetrievalService and the resilient search index.  The index is a        *)
(* projection of the published objects, rebuilt when a search finds that   *)
(* the key over the objects has changed, or on demand.  Behind it stand    *)
(* the in-memory fallback and, when Zvec is configured, the primary, which *)
(* keeps its documents on disk and may fail.                               *)
(*                                                                         *)
(* A document is the version of its object, 0 for none; the clearance of   *)
(* an object and the level of a principal are numbers, as in               *)
(* SENSITIVITY_ORDER.  The limit of a request and the ranking, which cut   *)
(* what is found, are left out: found is all that the index asked holds    *)
(* and the filter leaves (ContextPacks walks a ranked list with a limit).  *)
(***************************************************************************)
EXTENDS Naturals

CONSTANTS
    Published,         \* identifiers of knowledge objects
    LevelOf,           \* [Published -> Nat]: sensitivity
    Clearance,         \* of the principal that searches
    Searchers,         \* requests that may run at the same time
    MaxPublications,   \* bound on versions of one object
    MaxIndexFaults,    \* bound on failures of the primary
    MaxSearchRestarts  \* bound on restarts

VARIABLES
    objects,      \* store.knowledge_objects: version, 0 before publication
    fallback,     \* documents of MemorySearchIndex
    primary,      \* documents of ZvecSearchIndex
    syncOnQuery,  \* settings.search_sync_on_query
    opened,       \* the primary is configured and could be opened
    lastError,    \* ResilientSearchIndex.last_error is set
    syncKey,      \* RetrievalService._sync_key: versions of the objects
    searching,    \* what each request is doing
    raced,        \* history: requests overlapped, or an object changed meanwhile
    indexFaults, searchRestarts

vars == <<objects, fallback, primary, syncOnQuery, opened, lastError, syncKey, searching,
          raced, indexFaults, searchRestarts>>

Versions == [Published -> 0 .. MaxPublications]
Empty == [o \in Published |-> 0]
NoSyncKey == <<>>
Resting == [pc |-> "idle"]

Init ==
    /\ objects = Empty
    /\ fallback = Empty
    /\ primary = Empty
    /\ syncOnQuery \in BOOLEAN
    /\ opened \in BOOLEAN
    /\ lastError = ~opened
    /\ syncKey = NoSyncKey
    /\ searching = [s \in Searchers |-> Resting]
    /\ raced = FALSE
    /\ indexFaults = 0 /\ searchRestarts = 0

Running == {s \in Searchers : searching[s].pc # "idle"}

\* Governance publishes an object, or a new version of it.
PublishObject(o) ==
    /\ objects[o] < MaxPublications
    /\ objects' = [objects EXCEPT ![o] = @ + 1]
    /\ raced' = (raced \/ Running # {})
    /\ UNCHANGED <<syncOnQuery, opened, fallback, primary, lastError, syncKey,
                   searching, indexFaults, searchRestarts>>

\* Mutant: the key holds identifiers and no update times.
BeginByIdentifiers(s, forced) ==
    /\ searching[s].pc = "idle"
    /\ searching' = [searching EXCEPT ![s] =
         [pc |-> IF \/ forced
                    \/ /\ syncOnQuery
                       /\ \/ syncKey = NoSyncKey
                          \/ \E o \in Published : (objects[o] = 0) # (syncKey[o] = 0)
                 THEN "fallback" ELSE "query",
          docs |-> objects, forced |-> forced, found |-> {}]]
    /\ raced' = (raced \/ Running # {})
    /\ UNCHANGED <<syncOnQuery, opened, objects, fallback, primary, lastError,
                   syncKey, indexFaults, searchRestarts>>

\* A search with a key that has not changed, and every search when the process is
\* set not to synchronise, goes straight to the index; another one, and the rebuild
\* a publication or an administrator asks for, takes the documents of the published
\* objects.
Begin(s, forced) ==
    /\ searching[s].pc = "idle"
    /\ searching' = [searching EXCEPT ![s] =
         [pc |-> IF forced \/ (syncOnQuery /\ objects # syncKey) THEN "fallback" ELSE "query",
          docs |-> objects, forced |-> forced, found |-> {}]]
    /\ raced' = (raced \/ Running # {})
    /\ UNCHANGED <<syncOnQuery, opened, objects, fallback, primary, lastError,
                   syncKey, indexFaults, searchRestarts>>

RebuildFallback(s) ==
    /\ searching[s].pc = "fallback"
    /\ fallback' = searching[s].docs
    /\ searching' = [searching EXCEPT ![s].pc = "primary"]
    /\ UNCHANGED <<syncOnQuery, opened, objects, primary, lastError, syncKey, raced,
                   indexFaults, searchRestarts>>

\* Without a primary there is nothing more to rebuild.
RebuildPrimary(s) ==
    /\ searching[s].pc = "primary"
    /\ primary' = IF opened THEN searching[s].docs ELSE primary
    /\ lastError' = ~opened
    /\ searching' = [searching EXCEPT ![s].pc = "key"]
    /\ UNCHANGED <<syncOnQuery, opened, objects, fallback, syncKey, raced,
                   indexFaults, searchRestarts>>

\* The primary fails halfway: what it upserted stays.
PrimaryFails(s) ==
    /\ searching[s].pc = "primary" /\ opened /\ indexFaults < MaxIndexFaults
    /\ \E part \in SUBSET Published :
          primary' = [o \in Published |-> IF o \in part THEN searching[s].docs[o]
                                          ELSE primary[o]]
    /\ lastError' = TRUE
    /\ indexFaults' = indexFaults + 1
    /\ searching' = [searching EXCEPT ![s].pc = "key"]
    /\ UNCHANGED <<syncOnQuery, opened, objects, fallback, syncKey, raced,
                   searchRestarts>>

\* The key is remembered, whatever became of the primary.
RememberKey(s) ==
    /\ searching[s].pc = "key"
    /\ syncKey' = searching[s].docs
    /\ searching' = [searching EXCEPT ![s] =
         IF searching[s].forced THEN Resting ELSE [searching[s] EXCEPT !.pc = "query"]]
    /\ UNCHANGED <<syncOnQuery, opened, objects, fallback, primary, lastError, raced,
                   indexFaults, searchRestarts>>

Active == IF lastError THEN fallback ELSE primary

\* The filter after the index: published, and within the clearance.
Visible(found) ==
    {o \in found : objects[o] > 0 /\ LevelOf[o] <= Clearance}

QueryIndex(s) ==
    /\ searching[s].pc = "query"
    /\ searching' = [searching EXCEPT
         ![s].pc = "answered", ![s].docs = Active,
         ![s].found = Visible({o \in Published : Active[o] > 0})]
    /\ UNCHANGED <<syncOnQuery, opened, objects, fallback, primary, lastError,
                   syncKey, raced, indexFaults, searchRestarts>>

\* The primary fails to answer: from now on the fallback does.
QueryFails(s) ==
    /\ searching[s].pc = "query" /\ ~lastError /\ indexFaults < MaxIndexFaults
    /\ lastError' = TRUE
    /\ indexFaults' = indexFaults + 1
    /\ UNCHANGED <<syncOnQuery, opened, objects, fallback, primary, syncKey,
                   searching, raced, searchRestarts>>

Leave(s) ==
    /\ searching[s].pc = "answered"
    /\ searching' = [searching EXCEPT ![s] = Resting]
    /\ UNCHANGED <<syncOnQuery, opened, objects, fallback, primary, lastError,
                   syncKey, raced, indexFaults, searchRestarts>>

\* The process restarts, perhaps with other settings: only the primary's documents
\* survive.
RestartSearch ==
    /\ searchRestarts < MaxSearchRestarts
    /\ fallback' = Empty /\ syncKey' = NoSyncKey
    /\ syncOnQuery' \in BOOLEAN
    /\ opened' \in BOOLEAN /\ lastError' = ~opened'
    /\ searching' = [s \in Searchers |-> Resting]
    /\ searchRestarts' = searchRestarts + 1
    /\ UNCHANGED <<objects, primary, raced, indexFaults>>

Next ==
    \/ RestartSearch
    \/ \E o \in Published : PublishObject(o)
    \/ \E s \in Searchers :
          \/ \E forced \in BOOLEAN : Begin(s, forced)
          \/ RebuildFallback(s)
          \/ RebuildPrimary(s)
          \/ PrimaryFails(s)
          \/ RememberKey(s)
          \/ QueryIndex(s)
          \/ QueryFails(s)
          \/ Leave(s)

Spec == Init /\ [][Next]_vars

-----------------------------------------------------------------------------
(* Properties.                                                             *)

\* In a process that synchronises before each search, as it does by default, a
\* search that raced with nothing asks an index of exactly the published objects,
\* each in its last version, which holds all of those within the clearance: through
\* failures of the primary, partial rebuilds and restarts.
FreshWhenAlone ==
    syncOnQuery /\ ~raced => \A s \in Searchers : searching[s].pc = "answered" =>
        /\ searching[s].docs = objects
        /\ searching[s].found = {o \in Published : objects[o] > 0 /\ LevelOf[o] <= Clearance}

=============================================================================
