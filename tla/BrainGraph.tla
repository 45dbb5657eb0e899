----------------------------- MODULE BrainGraph -----------------------------
(***************************************************************************)
(* BrainGraphService.build: the graph a principal is shown, from the       *)
(* sources, objects, review items and relationships of the store.  Every   *)
(* table has its own sensitivities: a candidate shares the identifier of   *)
(* the object it was published as, and may differ from it in sensitivity.  *)
(***************************************************************************)
EXTENDS Naturals, FiniteSets

CONSTANTS
    Sources,    \* source identifiers
    Objects,    \* identifiers of objects, and of the candidates they come from
    Reviews,    \* review items
    CandidateOf,\* [Reviews -> Objects]
    SourceOf,   \* [Reviews -> Sources]
    SourcesOf,  \* [Objects -> SUBSET Sources]: source_ids
    AiOf,       \* [Reviews -> identifiers of AI briefs]
    NoBrief,    \* ... or none
    Links,      \* [source, target, published]: relationships of the store
    Levels      \* sensitivities, as numbers

VARIABLES
    known,      \* [Sources \cup Objects -> Levels]: the stored sources and objects
    reviewed,   \* [Reviews -> Levels]: the stored review items, by their candidates
    reading,    \* the clearance of the principal
    shown       \* the graph, once built

vars == <<known, reviewed, reading, shown>>

NoGraph == [nodes |-> {}, edges |-> {}, built |-> FALSE]

Init ==
    /\ known \in UNION {[s -> Levels] : s \in {Sources \cup o : o \in SUBSET Objects}}
    /\ reviewed \in UNION {[r -> Levels] : r \in SUBSET Reviews}
    /\ reading \in Levels
    /\ shown = NoGraph

-----------------------------------------------------------------------------
(* The graph.                                                              *)

Visible(level) == level <= reading

StoredObjects == Objects \cap DOMAIN known

\* The review items that are included.
Included(reviews) == IF reviews THEN DOMAIN reviewed ELSE {}

\* A node knows the sensitivity it was drawn with.
Nodes(reviews) ==
    {[id |-> s, level |-> known[s]] : s \in {s \in DOMAIN known : Visible(known[s])}}
    \cup UNION {{[id |-> id, level |-> reviewed[r]] :
                    id \in {r, CandidateOf[r]} \cup ({AiOf[r]} \ {NoBrief})} :
                    r \in {r \in Included(reviews) : Visible(reviewed[r])}}

\* Identifiers that something of a higher sensitivity goes by.
Hidden(reviews) ==
    {s \in DOMAIN known : ~Visible(known[s])}
    \cup UNION {{r, CandidateOf[r]} : r \in {r \in Included(reviews) : ~Visible(reviewed[r])}}

Edge(source, kind, target) == [source |-> source, kind |-> kind, target |-> target]

EvidenceEdges(objects) ==
    UNION {{Edge(s, "evidence_for", o) : s \in SourcesOf[o]} : o \in objects}

ReviewEdges(r) ==
    {Edge(SourceOf[r], "submitted_as", r), Edge(r, "reviews", CandidateOf[r])}
    \cup (IF AiOf[r] = NoBrief THEN {} ELSE {Edge(AiOf[r], "enriches_review", r)})

\* A published relationship, unless one of its ends is a stored object that is
\* withheld.
LinkEdges ==
    {Edge(l.source, "relates", l.target) :
        l \in {l \in Links : /\ l.published /\ l.source # l.target
                             /\ \A o \in {l.source, l.target} \cap StoredObjects : Visible(known[o])}}

Drawn(reviews) ==
    LET readable == {r \in Included(reviews) : Visible(reviewed[r])}
    IN EvidenceEdges({o \in StoredObjects : Visible(known[o])} \cup {CandidateOf[r] : r \in readable})
       \cup (UNION {ReviewEdges(r) : r \in readable})
       \cup LinkEdges

\* Mutant: an edge is dropped for its target only.
ShownByTarget(reviews) == {e \in Drawn(reviews) : e.target \notin Hidden(reviews)}

\* Edges that touch a hidden identifier are dropped at the end.
Shown(reviews) ==
    {e \in Drawn(reviews) : e.source \notin Hidden(reviews) /\ e.target \notin Hidden(reviews)}

Build ==
    /\ ~shown.built
    /\ \E reviews \in BOOLEAN :
          shown' = [nodes |-> Nodes(reviews), edges |-> Shown(reviews), built |-> TRUE]
    /\ UNCHANGED <<known, reviewed, reading>>

Next == Build

Spec == Init /\ [][Next]_vars

-----------------------------------------------------------------------------
(* Properties.                                                             *)

Readable(id) ==
    /\ id \in DOMAIN known => Visible(known[id])
    /\ \A r \in DOMAIN reviewed : id \in {r, AiOf[r]} => Visible(reviewed[r])

\* The graph shows what may be read, all of it and nothing else: every node is
\* drawn at a readable sensitivity, no edge touches a withheld record, every
\* readable source and object is a node, and a published relationship between
\* readable objects is an edge unless a withheld candidate goes by their name.
GraphIsReadable ==
    shown.built =>
        /\ \A n \in shown.nodes : Visible(n.level)
        /\ \A e \in shown.edges : Readable(e.source) /\ Readable(e.target)
        /\ \A id \in DOMAIN known : Visible(known[id]) => \E n \in shown.nodes : n.id = id
        /\ \A l \in Links :
              /\ l.published /\ {l.source, l.target} \subseteq StoredObjects /\ l.source # l.target
              /\ Visible(known[l.source]) /\ Visible(known[l.target])
              /\ \A r \in DOMAIN reviewed :
                    CandidateOf[r] \in {l.source, l.target} => Visible(reviewed[r])
              => Edge(l.source, "relates", l.target) \in shown.edges

=============================================================================
