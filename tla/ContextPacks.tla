---------------------------- MODULE ContextPacks ----------------------------
(***************************************************************************)
(* A question and its Context Pack: RetrievalService.search_response,      *)
(* which walks the hits by rank and enforces the principal's clearance,    *)
(* and ContextPackService.build, which cites evidence for what is left.    *)
(* The search index is one of SearchSync; here it ranks as it likes.       *)
(***************************************************************************)
EXTENDS Naturals, Sequences, SequencesExt, FiniteSets

CONSTANTS
    Objects,     \* knowledge objects
    ChunkIds,    \* evidence chunks
    NoChunk,     \* the chunk of a hit on an object itself
    SourceOf,    \* [ChunkIds -> sources]
    SourcesOf,   \* [Objects -> SUBSET sources]: source_ids
    LinksOf,     \* [Objects -> SUBSET Objects]: targets of its relationships
    RivalsOf,    \* [Objects -> SUBSET Objects]: same domain, type and title, other summary
    Levels,      \* sensitivities, as numbers: a clearance reads up to its own
    HitLimit,    \* the most hits the index returns
    ResultLimit  \* request.limit

VARIABLES
    levels,      \* object -> its sensitivity
    sourceLevel, \* source -> its sensitivity, which its chunks were given
    published,   \* the published objects
    clearance,   \* of the principal
    hits,        \* what the index found, not yet looked at
    asked,       \* ghost: the objects among all the hits
    results,     \* the objects returned, each with the chunk that was hit
    denied,      \* the objects withheld
    answer       \* the pack

vars == <<levels, sourceLevel, published, clearance, hits, asked, results, denied, answer>>

SourceIds == {SourceOf[c] : c \in ChunkIds} \cup UNION {SourcesOf[o] : o \in Objects}
NoAnswer == [decision |-> "none", objects |-> {}, evidence |-> {}, cited |-> {}, related |-> {},
             conflicts |-> {}, missing |-> {}]

\* Hits name an object, or a chunk that evidences it.
Hits == {h \in [object : Objects, chunk : ChunkIds \cup {NoChunk}] :
            h.chunk # NoChunk => SourceOf[h.chunk] \in SourcesOf[h.object]}

Init ==
    /\ levels \in [Objects -> Levels]
    /\ sourceLevel \in [SourceIds -> Levels]
    /\ published \in SUBSET Objects
    /\ clearance \in Levels
    /\ hits \in {h \in UNION {[1 .. n -> Hits] : n \in 0 .. HitLimit} : IsInjective(h)}
    /\ asked = {h.object : h \in ToSet(hits)}
    /\ results = <<>>
    /\ denied = {}
    /\ answer = NoAnswer

\* AccessPolicyService: the clearance reads what is not above it.
CanRead(level) == level <= clearance

Examining == answer = NoAnswer /\ hits # <<>> /\ Len(results) < ResultLimit

Settled(object) == object \in denied \/ \E r \in ToSet(results) : r.object = object

\* A hit on an object that is settled, or not published any more, is passed over.
PassHit ==
    /\ Examining
    /\ Settled(Head(hits).object) \/ Head(hits).object \notin published
    /\ hits' = Tail(hits)
    /\ UNCHANGED <<levels, sourceLevel, published, clearance, asked, results, denied, answer>>

\* Mutant: the clearance is asked for the object only.
ReadableByObject(hit) == CanRead(levels[hit.object])

\* Both the object and the chunk that was hit must be readable.
Readable(hit) ==
    /\ CanRead(levels[hit.object])
    /\ hit.chunk # NoChunk => CanRead(sourceLevel[SourceOf[hit.chunk]])

Examine ==
    /\ Examining
    /\ ~Settled(Head(hits).object) /\ Head(hits).object \in published
    /\ hits' = Tail(hits)
    /\ IF Readable(Head(hits))
       THEN results' = Append(results, Head(hits)) /\ UNCHANGED denied
       ELSE denied' = denied \cup {Head(hits).object} /\ UNCHANGED results
    /\ UNCHANGED <<levels, sourceLevel, published, clearance, asked, answer>>

\* _result_chunks: the chunk that was hit and those of the object's sources, of
\* which the first three are looked at.
Chunks(result) ==
    LET all == {c \in ChunkIds : SourceOf[c] \in SourcesOf[result.object]} \cup ({result.chunk} \ {NoChunk})
    IN {c \in SUBSET all : Cardinality(c) = (IF Cardinality(all) < 3 THEN Cardinality(all) ELSE 3)}

\* The sources a result is cited with: those of its readable chunks, or one of
\* its readable sources.
Cited(result, chunks) ==
    LET quoted == {SourceOf[c] : c \in {c \in chunks : CanRead(sourceLevel[SourceOf[c]])}}
        open == {s \in SourcesOf[result.object] : CanRead(sourceLevel[s])}
    IN IF quoted # {} THEN {quoted} ELSE IF open # {} THEN {{s} : s \in open} ELSE {{}}

\* Mutant: any withheld match denies the question.
DecisionByWithheld(objects) == IF denied # {} THEN "denied" ELSE "allowed"

Decision(objects) == IF denied # {} /\ objects = {} THEN "denied" ELSE "allowed"

\* _conflicts: each published rival of an object is reported, whoever asks.
Conflicts(objects) ==
    {c \in objects \X published : c[2] \in RivalsOf[c[1]] \ {c[1]}}

\* build: the pack for the results.  Caveats, guidance, follow-ups and the
\* confidence change when there are conflicts and name no other object.
Build ==
    /\ answer = NoAnswer /\ ~Examining
    /\ LET objects == {r.object : r \in ToSet(results)}
       IN \E chunks \in [ToSet(results) -> SUBSET ChunkIds] :
             /\ \A r \in ToSet(results) : chunks[r] \in Chunks(r)
             /\ \E cited \in [ToSet(results) -> SUBSET SourceIds] :
                   /\ \A r \in ToSet(results) : cited[r] \in Cited(r, chunks[r])
                   /\ answer' =
                        [decision |-> Decision(objects),
                         objects |-> objects,
                         evidence |-> UNION {cited[r] : r \in ToSet(results)},
                         cited |-> {r.object : r \in {r \in ToSet(results) : cited[r] # {}}},
                         related |-> {o \in UNION {LinksOf[o] : o \in objects} : CanRead(levels[o])},
                         conflicts |-> Conflicts(objects),
                         missing |-> CASE Decision(objects) = "denied" -> {"withheld"}
                                       [] Decision(objects) # "denied" /\ objects = {} -> {"unknown"}
                                       [] objects # {} /\ \A r \in ToSet(results) : cited[r] = {} -> {"uncited"}
                                       [] OTHER -> {}]
    /\ UNCHANGED <<levels, sourceLevel, published, clearance, hits, asked, results, denied>>

Next == PassHit \/ Examine \/ Build

Spec == Init /\ [][Next]_vars

-----------------------------------------------------------------------------
(* Properties.                                                             *)

\* What a pack hands out as objects, evidence, citations and related objects is
\* within the clearance, along every path by which it gets in: hits, chunks,
\* sources and relationships.  Its conflicts are not: see ConflictsAreReadable.
PackIsReadable ==
    /\ \A o \in answer.objects \cup answer.related : CanRead(levels[o])
    /\ \A s \in answer.evidence : CanRead(sourceLevel[s])
    /\ \A r \in ToSet(results) : r.chunk # NoChunk => CanRead(sourceLevel[SourceOf[r.chunk]])
    /\ answer.objects \subseteq published

\* Withheld matches are told apart from missing ones "without exposing the withheld
\* object's identifiers" (services/retrieval.py): the conflicts of a pack name what
\* the clearance reads.
ConflictsAreReadable ==
    \A c \in answer.conflicts : CanRead(levels[c[2]])

\* What a pack says is missing is true: "denied" is said when matches were found
\* and each was withheld, "unknown" when no published object was among the hits,
\* and an object that is cited by nothing readable has nothing readable.
MissingIsTrue ==
    answer # NoAnswer =>
        /\ (answer.decision = "denied") <=> (asked \cap published # {} /\ asked \cap published = denied)
        /\ ("unknown" \in answer.missing) <=> (asked \cap published = {})
        /\ \A o \in answer.objects \ answer.cited : \A s \in SourcesOf[o] : ~CanRead(sourceLevel[s])

=============================================================================
